---------------------- MODULE TrackerRefinementProofs ----------------------
(***************************************************************************)
(* The tracker implements AtomicTracker, for any number of clients and     *)
(* restarts, where it has one pool thread or no two clients share an       *)
(* identity.  A registration between Find and AddPeer counts as not yet    *)
(* taken from the queue.                                                   *)
(***************************************************************************)
EXTENDS TrackerProofs

\* What keeps another registration of the identity out of the gap.
Separate ==
  \/ \A v, w \in Workers : v = w
  \/ \A c, d \in Clients : KeyOf[c] = KeyOf[d] => c = d

(* ------------------------- one question at a time ---------------------- *)

\* What a client sends.
Question(c) ==
  {Create("SERVER_PING", "CLIENT_STATUS", {}), Create("PEERS_LIST", "CLIENT_STATUS", {})}
    \union {Create("REGISTRATION_PEER", "CLIENT_STATUS", {i}) : i \in GenerateUuidPeer(KeyOf[c])}

OneQuestion ==
  \A c \in Clients : requests[c] = <<>> \/ \E q \in Question(c) : requests[c] = <<q>>

\* A registration between Find and AddPeer is all there is of its client.
OneHandler ==
  \A w \in Workers : job[w] # Idle =>
    /\ job[w].info.key = KeyOf[job[w].client]
    /\ requests[job[w].client] = <<>>
    /\ \A v \in Workers : job[v] # Idle /\ job[v].client = job[w].client => v = w

QuestionInv == OneQuestion /\ OneHandler

LEMMA CallIsQuestion ==
  ASSUME NEW c \in Clients, Call(c)
  PROVE  \E q \in Question(c) : Send(c, q)
<1>1. CASE ServerPing(c)
  BY <1>1 DEF ServerPing, Question
<1>2. CASE PeersList(c)
  BY <1>2 DEF PeersList, Question
<1>3. ASSUME NEW info \in PeerInfo, Registration(c, info)
      PROVE  \E q \in Question(c) : Send(c, q)
  BY <1>3 DEF Registration, Question
<1> QED
  BY <1>1, <1>2, <1>3 DEF Call

LEMMA QuestionType ==
  ASSUME NEW c \in Clients, NEW q \in Question(c)
  PROVE  /\ q \in [type : Types, status : {"CLIENT_STATUS"},
                   body : {{}} \union {{i} : i \in PeerInfo}]
         /\ q.type = "REGISTRATION_PEER" =>
              \A i \in q.body : /\ i.key = KeyOf[c]
                                /\ q = Create("REGISTRATION_PEER", "CLIENT_STATUS", {i})
<1>1. KeyOf[c] \in Keys
  BY KeyOfAssumption
<1>2. ASSUME NEW i \in GenerateUuidPeer(KeyOf[c])
      PROVE  i \in PeerInfo /\ i.key = KeyOf[c]
  BY <1>1, <1>2 DEF GenerateUuidPeer, PeerInfo
<1> QED
  BY <1>2 DEF Question, Create, Types

\* A step that takes requests away and starts no registration.
LEMMA TakingKeepsQuestions ==
  ASSUME TypeOK, QuestionInv,
         \A c \in Clients : requests'[c] \in {requests[c], <<>>},
         \A w \in Workers : job'[w] \in {job[w], Idle}
  PROVE  QuestionInv'
<1>1. OneQuestion'
  BY DEF QuestionInv, OneQuestion
<1>2. \A w \in Workers : job[w] # Idle => job[w].client \in Clients
  BY DEF TypeOK
<1>3. OneHandler'
  BY <1>2 DEF QuestionInv, OneHandler
<1> QED
  BY <1>1, <1>3 DEF QuestionInv

\* What Dispatch takes is the one question of c.
LEMMA DispatchOne ==
  ASSUME TypeOK, QuestionInv, NEW w \in Workers, NEW c \in Clients, NEW type,
         Dispatch(w, c, type)
  PROVE  /\ Head(requests[c]) \in Question(c)
         /\ requests[c] = <<Head(requests[c])>>
         /\ requests' = [requests EXCEPT ![c] = <<>>]
         /\ Handling(c) = {}
<1>1. PICK q \in Question(c) : requests[c] = <<q>>
  BY DEF Dispatch, QuestionInv, OneQuestion
<1>2. Head(requests[c]) = q /\ Tail(requests[c]) = <<>>
  BY <1>1
<1>3. Handling(c) = {}
  BY <1>1 DEF QuestionInv, OneHandler, Handling
<1> QED
  BY <1>1, <1>2, <1>3 DEF Dispatch

LEMMA FindKeepsQuestions ==
  ASSUME TypeOK, QuestionInv, NEW w \in Workers, NEW c \in Clients, RegistrationFind(w, c)
  PROVE  QuestionInv'
<1>1. /\ Head(requests[c]) \in Question(c)
      /\ requests' = [requests EXCEPT ![c] = <<>>]
      /\ Handling(c) = {}
      /\ Head(requests[c]).type = "REGISTRATION_PEER"
  BY DispatchOne DEF RegistrationFind, Dispatch
<1>2. PICK info \in Head(requests[c]).body :
        UNCHANGED job \/ job' = [job EXCEPT ![w] = [client |-> c, info |-> info]]
  BY DEF RegistrationFind
<1>3. info.key = KeyOf[c]
  BY <1>1, QuestionType
<1>4. CASE UNCHANGED job
  BY <1>1, <1>4, TakingKeepsQuestions DEF TypeOK
<1>5. CASE job' = [job EXCEPT ![w] = [client |-> c, info |-> info]]
  <2>1. /\ job'[w] = [client |-> c, info |-> info]
        /\ \A v \in Workers : v # w => job'[v] = job[v]
        /\ \A v \in Workers : job[v] # Idle => job[v].client # c
        /\ \A v \in Workers : job[v] # Idle => job[v].client \in Clients
    BY <1>1, <1>5 DEF TypeOK, Handling
  <2>2. requests'[c] = <<>> /\ \A d \in Clients : d # c => requests'[d] = requests[d]
    BY <1>1 DEF TypeOK
  <2>3. OneQuestion'
    BY <2>2 DEF QuestionInv, OneQuestion
  <2>4. OneHandler'
    BY <1>3, <2>1, <2>2 DEF QuestionInv, OneHandler
  <2> QED
    BY <2>3, <2>4 DEF QuestionInv
<1> QED
  BY <1>2, <1>4, <1>5

LEMMA QuestionStep == TypeOK /\ QuestionInv /\ [Next]_vars => QuestionInv'
<1> SUFFICES ASSUME TypeOK, QuestionInv, [Next]_vars PROVE QuestionInv'
  OBVIOUS
<1> USE DEF serverVars, lifeVars
<1>1. ASSUME NEW w \in Workers, RegistrationAdd(w) PROVE QuestionInv'
  BY <1>1, TakingKeepsQuestions DEF RegistrationAdd, TypeOK
<1>2. ASSUME NEW w \in Workers, NEW c \in Clients, HandlePing(w, c) \/ HandlePeersList(w, c)
      PROVE  QuestionInv'
  <2>1. requests' = [requests EXCEPT ![c] = <<>>] /\ UNCHANGED job
    BY <1>2, DispatchOne DEF HandlePing, HandlePeersList
  <2> QED
    BY <2>1, TakingKeepsQuestions DEF TypeOK
<1>3. ASSUME NEW c \in Clients, Call(c) PROVE QuestionInv'
  <2>1. PICK q \in Question(c) : Send(c, q)
    BY <1>3, CallIsQuestion
  <2>2. requests[c] = <<>> /\ Handling(c) = {}
    BY <1>3 DEF Call, Quiet
  <2>3. /\ requests'[c] \in {<<>>, <<q>>}
        /\ \A d \in Clients : d # c => requests'[d] = requests[d]
        /\ UNCHANGED job
    BY <2>1, <2>2 DEF Send, TypeOK
  <2>4. \A w \in Workers : job[w] # Idle => job[w].client \in Clients /\ job[w].client # c
    BY <2>2 DEF TypeOK, Handling
  <2>5. OneQuestion'
    BY <2>3 DEF QuestionInv, OneQuestion
  <2>6. OneHandler'
    BY <2>3, <2>4 DEF QuestionInv, OneHandler
  <2> QED
    BY <2>5, <2>6 DEF QuestionInv
<1>4. ASSUME NEW c \in Clients, Connect(c) \/ WaitingResponse(c) PROVE QuestionInv'
  BY <1>4, TakingKeepsQuestions DEF Connect, WaitingResponse
<1>5. ASSUME NEW c \in Clients, LoseConnection(c) PROVE QuestionInv'
  BY <1>5, TakingKeepsQuestions DEF LoseConnection, TypeOK
<1>6. ASSUME Restart PROVE QuestionInv'
  BY <1>6, TakingKeepsQuestions DEF Restart
<1>7. CASE UNCHANGED vars
  BY <1>7, TakingKeepsQuestions DEF vars
<1> QED
  BY <1>1, <1>2, <1>3, <1>4, <1>5, <1>6, <1>7, FindKeepsQuestions
     DEF Next, ServerStep, ClientStep, Handle

LEMMA QuestionInvariant == Spec => []QuestionInv
<1>1. Init => QuestionInv
  BY DEF Init, QuestionInv, OneQuestion, OneHandler
<1>2. TypeOK /\ QuestionInv /\ [Next]_vars => QuestionInv'
  BY QuestionStep
<1> QED
  BY <1>1, <1>2, TypeCorrect, PTL DEF Spec

(* ------------------------- the gap ------------------------------------- *)

\* Nobody is entered between a Find that found nobody and its AddPeer.
GapInv == \A w \in Workers : job[w] # Idle => ~Find(peers, job[w].info)

LEMMA GapStep ==
  Separate => (TypeOK /\ QuestionInv /\ GapInv /\ [Next]_vars => GapInv')
<1> SUFFICES ASSUME Separate, TypeOK, QuestionInv, GapInv, [Next]_vars PROVE GapInv'
  OBVIOUS
<1> USE DEF serverVars, lifeVars
<1>1. ASSUME NEW w \in Workers, RegistrationAdd(w) PROVE GapInv'
  <2>1. /\ job[w] # Idle /\ job'[w] = Idle
        /\ \A v \in Workers : v # w => job'[v] = job[v]
    BY <1>1 DEF RegistrationAdd, TypeOK
  <2>2. peers' \subseteq peers \union {job[w].info}
    <3>1. job[w].info \in PeerInfo /\ peers \in SUBSET PeerInfo
      BY <2>1 DEF TypeOK
    <3> QED
      BY <1>1, <3>1, AddPeerFacts DEF RegistrationAdd
  <2>3. ASSUME NEW v \in Workers, v # w, job[v] # Idle
        PROVE  job[v].info.key # job[w].info.key
    <3>1. job[v].client # job[w].client
      BY <2>1, <2>3 DEF QuestionInv, OneHandler
    <3>2. job[v].client \in Clients /\ job[w].client \in Clients
      BY <2>1, <2>3 DEF TypeOK
    <3> QED
      BY <2>1, <2>3, <3>1, <3>2 DEF Separate, QuestionInv, OneHandler
  <2> QED
    BY <2>1, <2>2, <2>3 DEF GapInv, Find, KeysOf
<1>2. ASSUME NEW w \in Workers, NEW c \in Clients, RegistrationFind(w, c) PROVE GapInv'
  <2>1. PICK info : \/ UNCHANGED job
                    \/ /\ ~Find(peers, info)
                       /\ job' = [job EXCEPT ![w] = [client |-> c, info |-> info]]
    BY <1>2 DEF RegistrationFind
  <2>2. UNCHANGED peers
    BY <1>2 DEF RegistrationFind
  <2> QED
    BY <2>1, <2>2 DEF GapInv, TypeOK
<1>3. ASSUME NEW w \in Workers, NEW c \in Clients, HandlePing(w, c) \/ HandlePeersList(w, c)
      PROVE  UNCHANGED <<peers, job>>
  BY <1>3 DEF HandlePing, HandlePeersList
<1>4. ASSUME ClientStep PROVE UNCHANGED <<peers, job>>
  BY <1>4 DEF ClientStep, Connect, Call, ServerPing, Registration, PeersList, Send,
              WaitingResponse, LoseConnection
<1>5. ASSUME Restart PROVE GapInv'
  BY <1>5 DEF Restart, GapInv
<1>6. CASE UNCHANGED <<peers, job>>
  BY <1>6 DEF GapInv
<1> QED
  BY <1>1, <1>2, <1>3, <1>4, <1>5, <1>6 DEF Next, ServerStep, Handle, vars

LEMMA GapInvariant ==
  ASSUME Separate
  PROVE  Spec => []GapInv
<1>1. Init => GapInv
  BY DEF Init, GapInv
<1>2. TypeOK /\ QuestionInv /\ GapInv /\ [Next]_vars => GapInv'
  BY GapStep
<1> QED
  BY <1>1, <1>2, TypeCorrect, QuestionInvariant, PTL DEF Spec

(* ------------------------- the mapping --------------------------------- *)

Unanswered == [c \in Clients |-> Unserved(c)]

\* A client has its question in the queue, or a worker has it.
UnservedFacts ==
  \A c \in Clients :
    /\ Handling(c) = {} => Unserved(c) = requests[c]
    /\ \A w \in Handling(c) :
         Unserved(c) = <<Create("REGISTRATION_PEER", "CLIENT_STATUS", {job[w].info})>>

LEMMA UnservedIs == TypeOK /\ QuestionInv => UnservedFacts
<1> SUFFICES ASSUME TypeOK, QuestionInv, NEW c \in Clients
             PROVE  /\ Handling(c) = {} => Unserved(c) = requests[c]
                    /\ \A w \in Handling(c) :
                         Unserved(c) = <<Create("REGISTRATION_PEER", "CLIENT_STATUS",
                                                {job[w].info})>>
  BY DEF UnservedFacts
<1>1. Handling(c) = {} => Unserved(c) = requests[c]
  BY DEF Unserved
<1>2. ASSUME NEW w \in Handling(c)
      PROVE  Unserved(c) = <<Create("REGISTRATION_PEER", "CLIENT_STATUS", {job[w].info})>>
  <2>1. requests[c] = <<>> /\ \A v \in Handling(c) : v = w
    BY <1>2 DEF Handling, QuestionInv, OneHandler
  <2>2. {job[v].info : v \in Handling(c)} = {job[w].info}
    BY <1>2, <2>1
  <2>3. \A q : <<q>> \o <<>> = <<q>>
    OBVIOUS
  <2> QED
    BY <1>2, <2>1, <2>2, <2>3 DEF Unserved
<1> QED
  BY <1>1, <1>2

LEMMA MapInit == Init => Atomic!Init
<1> SUFFICES ASSUME Init PROVE Atomic!Init
  OBVIOUS
<1>1. \A c \in Clients : Unserved(c) = <<>>
  BY DEF Init, Unserved, Handling
<1> QED
  BY <1>1 DEF Init, Atomic!Init

\* A client whose requests and handlers stay has what it had.
LEMMA UnservedStays ==
  ASSUME NEW d \in Clients, UnservedFacts, UnservedFacts',
         requests'[d] = requests[d], Handling(d)' = Handling(d),
         \A w \in Handling(d) : job'[w] = job[w]
  PROVE  Unserved(d)' = Unserved(d)
<1>1. CASE Handling(d) = {}
  BY <1>1 DEF UnservedFacts
<1>2. CASE Handling(d) # {}
  <2>1. PICK w : w \in Handling(d)
    BY <1>2
  <2>2. Unserved(d) = <<Create("REGISTRATION_PEER", "CLIENT_STATUS", {job[w].info})>>
    BY <2>1 DEF UnservedFacts
  <2>3. w \in Handling(d)' /\ job'[w] = job[w]
    BY <2>1
  <2>4. Unserved(d)' = <<Create("REGISTRATION_PEER", "CLIENT_STATUS", {job'[w].info})>>
    BY <2>3 DEF UnservedFacts, Create
  <2> QED
    BY <2>2, <2>3, <2>4
<1> QED
  BY <1>1, <1>2

LEMMA MapStutter ==
  ASSUME UNCHANGED <<peers, conn, incoming>>,
         \A c \in Clients : Unserved(c)' = Unserved(c)
  PROVE  UNCHANGED Atomic!vars
BY DEF Atomic!vars

\* The steps of clients, which start and end no registration.
LEMMA MapClient ==
  ASSUME TypeOK, QuestionInv, UnservedFacts, UnservedFacts', NEW c \in Clients,
         Connect(c) \/ Call(c) \/ WaitingResponse(c) \/ LoseConnection(c)
  PROVE  [Atomic!Next]_(Atomic!vars)
<1> USE DEF serverVars, lifeVars
<1>1. /\ UNCHANGED <<peers, job>>
      /\ \A d \in Clients : Handling(d)' = Handling(d)
      /\ \A d \in Clients : d # c => requests'[d] = requests[d]
  <2>1. UNCHANGED <<peers, job>>
    BY CallIsSend DEF Connect, Send, WaitingResponse, LoseConnection
  <2>2. \A d \in Clients : d # c => requests'[d] = requests[d]
    BY CallIsSend DEF Connect, Send, WaitingResponse, LoseConnection, TypeOK
  <2> QED
    BY <2>1, <2>2 DEF Handling
<1>2. \A d \in Clients : d # c => Unserved(d)' = Unserved(d)
  BY <1>1, UnservedStays
<1>3. CASE Connect(c)
  <2>1. Unanswered' = Unanswered
    BY <1>1, <1>2, <1>3, UnservedStays DEF Connect, Unanswered
  <2>2. Atomic!Connect(c)
    BY <1>1, <1>3, <2>1 DEF Connect, Atomic!Connect, Unanswered
  <2> QED
    BY <2>2 DEF Atomic!Next
<1>4. CASE WaitingResponse(c)
  <2>1. Unanswered' = Unanswered
    BY <1>1, <1>2, <1>4, UnservedStays DEF WaitingResponse, Unanswered
  <2>2. Atomic!Read(c)
    BY <1>1, <1>4, <2>1 DEF WaitingResponse, Atomic!Read, Unanswered
  <2> QED
    BY <2>2 DEF Atomic!Next
<1>5. CASE Call(c)
  <2>1. PICK q \in Question(c) : Send(c, q)
    BY <1>5, CallIsQuestion
  <2>2. requests[c] = <<>> /\ Handling(c) = {}
    BY <1>5 DEF Call, Quiet
  <2>3. CASE conn[c] = "up"
    <3>1. requests' = [requests EXCEPT ![c] = <<q>>]
      BY <2>1, <2>2, <2>3 DEF Send, TypeOK
    <3>2. Unserved(c) = <<>> /\ Unserved(c)' = <<q>>
      BY <1>1, <2>2, <3>1 DEF UnservedFacts, TypeOK
    <3>3. Unanswered' = [Unanswered EXCEPT ![c] = Append(@, q)]
      <4>1. Unanswered[c] = <<>> /\ Append(<<>>, q) = <<q>>
        BY <3>2 DEF Unanswered
      <4>2. Unanswered' = [Unanswered EXCEPT ![c] = <<q>>]
        BY <1>2, <3>2 DEF Unanswered
      <4> QED
        BY <4>1, <4>2
    <3>4. q \in [type : Atomic!Types, status : {"CLIENT_STATUS"},
                 body : {{}} \union {{i} : i \in Atomic!PeerInfo}]
      BY QuestionType DEF Types, PeerInfo, Atomic!Types, Atomic!PeerInfo
    <3>5. Atomic!Call(c)
      BY <1>1, <2>1, <2>3, <3>3, <3>4 DEF Send, Atomic!Call, Unanswered
    <3> QED
      BY <3>5 DEF Atomic!Next
  <2>4. CASE conn[c] # "up"
    BY <1>1, <2>1, <2>4, UnservedStays, MapStutter DEF Send
  <2> QED
    BY <2>3, <2>4
<1>6. CASE LoseConnection(c)
  <2>1. PICK kept \in {requests[c], <<>>} : requests' = [requests EXCEPT ![c] = kept]
    BY <1>6 DEF LoseConnection
  <2>2. requests'[c] = kept
    BY <2>1 DEF TypeOK
  <2>3. Unserved(c)' \in {Unserved(c), <<>>}
    <3>1. CASE requests'[c] = requests[c]
      BY <1>1, <3>1, UnservedStays
    <3>2. CASE requests'[c] = <<>> /\ Handling(c) = {}
      BY <1>1, <3>2 DEF UnservedFacts
    <3>3. CASE Handling(c) # {}
      <4>1. requests[c] = <<>>
        BY <3>3 DEF Handling, QuestionInv, OneHandler
      <4> QED
        BY <2>1, <2>2, <3>1, <4>1
    <3> QED
      BY <2>1, <2>2, <3>1, <3>2, <3>3
  <2>4. Unanswered' = [Unanswered EXCEPT ![c] = Unserved(c)']
    BY <1>2 DEF Unanswered
  <2>5. Unanswered[c] = Unserved(c)
    BY DEF Unanswered
  <2>6. \E kept1 \in {Unanswered[c], <<>>} : Unanswered' = [Unanswered EXCEPT ![c] = kept1]
    BY <2>3, <2>4, <2>5
  <2>7. Atomic!Lose(c)
    BY <1>1, <1>6, <2>6 DEF LoseConnection, Atomic!Lose, Unanswered
  <2> QED
    BY <2>7 DEF Atomic!Next
<1> QED
  BY <1>3, <1>4, <1>5, <1>6

\* The tracker takes the oldest question of c, whether it stood in the queue or
\* was with a worker.
LEMMA MapServe ==
  ASSUME NEW c \in Clients, NEW q, Unserved(c) = <<q>>, Unserved(c)' = <<>>,
         \A d \in Clients : d # c => Unserved(d)' = Unserved(d),
         UNCHANGED conn,
         \/ q.type = "SERVER_PING" /\ Atomic!Pong(c)
         \/ q.type = "PEERS_LIST" /\ Atomic!Report(c)
         \/ /\ q.type = "REGISTRATION_PEER"
            /\ \E info \in q.body : Atomic!Accept(c, info) \/ Atomic!Refuse(c, info)
  PROVE  Atomic!Next
<1>1. Unanswered[c] = <<q>> /\ Unanswered' = [Unanswered EXCEPT ![c] = <<>>]
  BY DEF Unanswered
<1>2. Head(<<q>>) = q /\ Tail(<<q>>) = <<>>
  OBVIOUS
<1>3. /\ Unanswered[c] # <<>> /\ Unanswered' = [Unanswered EXCEPT ![c] = Tail(@)]
      /\ Head(Unanswered[c]) = q
  BY <1>1, <1>2
<1>4. Atomic!Serve(c)
  BY <1>3 DEF Atomic!Serve, Unanswered
<1> QED
  BY <1>4 DEF Atomic!Next

LEMMA MapHandle ==
  ASSUME TypeOK, QuestionInv, UnservedFacts, UnservedFacts',
         NEW w \in Workers, NEW c \in Clients, Handle(w, c)
  PROVE  [Atomic!Next]_(Atomic!vars)
<1> USE DEF serverVars, lifeVars
<1>1. PICK q \in Question(c) : q = Head(requests[c])
  BY DispatchOne DEF Handle, HandlePing, HandlePeersList, RegistrationFind
<1>2. /\ requests[c] = <<q>> /\ requests' = [requests EXCEPT ![c] = <<>>] /\ Handling(c) = {}
      /\ job[w] = Idle /\ UNCHANGED <<peers, conn>>
  BY <1>1, DispatchOne DEF Handle, HandlePing, HandlePeersList, RegistrationFind, Dispatch
<1>3. requests'[c] = <<>> /\ \A d \in Clients : d # c => requests'[d] = requests[d]
  BY <1>2 DEF TypeOK
<1>4. Unserved(c) = <<q>>
  BY <1>2 DEF UnservedFacts
<1>5. CASE UNCHANGED job /\ (HandlePing(w, c) \/ HandlePeersList(w, c) \/ RegistrationFind(w, c))
  <2>1. \A d \in Clients : Handling(d)' = Handling(d)
    BY <1>5 DEF Handling
  <2>2. \A d \in Clients : d # c => Unserved(d)' = Unserved(d)
    BY <1>3, <1>5, <2>1, UnservedStays
  <2>3. Unserved(c)' = <<>>
    BY <1>2, <1>3, <2>1 DEF UnservedFacts
  <2>4. CASE HandlePing(w, c)
    <3>1. q.type = "SERVER_PING" /\ Atomic!Pong(c)
      BY <1>1, <2>4 DEF HandlePing, Dispatch, Respond, Create, Atomic!Pong, Atomic!Deliver,
                        Atomic!Create
    <3> QED
      BY <1>2, <1>4, <2>2, <2>3, <3>1, MapServe
  <2>5. CASE HandlePeersList(w, c)
    <3>1. q.type = "PEERS_LIST" /\ Atomic!Report(c)
      BY <1>1, <2>5 DEF HandlePeersList, Dispatch, Respond, Create, Atomic!Report,
                        Atomic!Deliver, Atomic!Create
    <3> QED
      BY <1>2, <1>4, <2>2, <2>3, <3>1, MapServe
  <2>6. CASE RegistrationFind(w, c)
    <3>1. PICK info \in q.body :
            \/ /\ Find(peers, info)
               /\ Respond(c, Create("REGISTRATION_PEER", "FAILURE", {}))
            \/ job' = [job EXCEPT ![w] = [client |-> c, info |-> info]]
      BY <1>1, <2>6 DEF RegistrationFind
    <3>2. q.type = "REGISTRATION_PEER"
      BY <1>1, <2>6 DEF RegistrationFind, Dispatch
    <3>3. info \in PeerInfo
      BY QuestionType, <3>1 DEF PeerInfo
    <3>4. [client |-> c, info |-> info] # Idle
      BY <3>3, IdleAssumption
    <3>5. Find(peers, info) /\ Respond(c, Create("REGISTRATION_PEER", "FAILURE", {}))
      BY <1>2, <1>5, <3>1, <3>4 DEF TypeOK
    <3>6. Atomic!Refuse(c, info)
      BY <1>2, <3>5 DEF Respond, Create, Find, KeysOf, Atomic!Refuse, Atomic!Deliver,
                        Atomic!Create, Atomic!Find, Atomic!KeysOf
    <3> QED
      BY <1>2, <1>4, <2>2, <2>3, <3>1, <3>2, <3>6, MapServe
  <2> QED
    BY <1>5, <2>4, <2>5, <2>6
<1>6. CASE RegistrationFind(w, c) /\ job' # job
  <2>1. PICK info \in q.body :
          job' = [job EXCEPT ![w] = [client |-> c, info |-> info]] /\ UNCHANGED incoming
    BY <1>1, <1>6 DEF RegistrationFind
  <2>2. q.type = "REGISTRATION_PEER"
    BY <1>1, <1>6 DEF RegistrationFind, Dispatch
  <2>3. q = Create("REGISTRATION_PEER", "CLIENT_STATUS", {info}) /\ info \in PeerInfo
    BY QuestionType, <2>1, <2>2
  <2>4. [client |-> c, info |-> info] # Idle
    BY <2>3, IdleAssumption
  <2>5. /\ job'[w] = [client |-> c, info |-> info]
        /\ \A v \in Workers : v # w => job'[v] = job[v]
    BY <2>1 DEF TypeOK
  <2>6. w \in Handling(c)' /\ \A d \in Clients : d # c => Handling(d)' = Handling(d)
    BY <1>2, <2>4, <2>5 DEF Handling
  <2>7. Unserved(c)' = <<q>>
    BY <2>3, <2>5, <2>6 DEF UnservedFacts
  <2>8. \A d \in Clients : d # c => Unserved(d)' = Unserved(d)
    <3>1. \A d \in Clients : \A v \in Handling(d) : v # w
      BY <1>2 DEF Handling
    <3> QED
      BY <1>3, <2>5, <2>6, <3>1, UnservedStays DEF Handling
  <2> QED
    BY <1>2, <1>4, <2>1, <2>7, <2>8, MapStutter
<1> QED
  BY <1>5, <1>6 DEF Handle, HandlePing, HandlePeersList

LEMMA MapAdd ==
  ASSUME TypeOK, QuestionInv, GapInv, UnservedFacts, UnservedFacts',
         NEW w \in Workers, RegistrationAdd(w)
  PROVE  Atomic!Next
<1>1. PICK c \in Clients : c = job[w].client
  BY DEF RegistrationAdd, TypeOK
<1>2. PICK info \in PeerInfo : info = job[w].info
  BY DEF RegistrationAdd, TypeOK
<1>3. /\ job[w] # Idle /\ job'[w] = Idle
      /\ \A v \in Workers : v # w => job'[v] = job[v]
      /\ UNCHANGED <<conn, requests>>
  BY DEF RegistrationAdd, TypeOK
<1>4. /\ requests[c] = <<>>
      /\ \A v \in Workers : job[v] # Idle /\ job[v].client = c => v = w
  BY <1>1, <1>3 DEF QuestionInv, OneHandler
<1>5. w \in Handling(c) /\ Handling(c)' = {}
  BY <1>1, <1>3, <1>4 DEF Handling
<1>6. \A d \in Clients : d # c => Handling(d)' = Handling(d) /\ w \notin Handling(d)
  BY <1>1, <1>3 DEF Handling
<1>7. \A d \in Clients : d # c => Unserved(d)' = Unserved(d)
  BY <1>3, <1>6, UnservedStays DEF Handling
<1>8. PICK q : q = Create("REGISTRATION_PEER", "CLIENT_STATUS", {info})
  OBVIOUS
<1>9. Unserved(c) = <<q>> /\ Unserved(c)' = <<>>
  BY <1>2, <1>3, <1>4, <1>5, <1>8 DEF UnservedFacts
<1>10. ~Find(peers, info)
  BY <1>2, <1>3 DEF GapInv
<1>11. Atomic!Accept(c, info)
  BY <1>1, <1>2, <1>10 DEF RegistrationAdd, AddPeer, Respond, Create, Find, KeysOf,
     Atomic!Accept, Atomic!Deliver, Atomic!Create, Atomic!Find, Atomic!KeysOf
<1>12. q.type = "REGISTRATION_PEER" /\ info \in q.body
  BY <1>8 DEF Create
<1> QED
  BY <1>3, <1>7, <1>9, <1>11, <1>12, MapServe

LEMMA MapRestart ==
  ASSUME TypeOK, UnservedFacts', Restart
  PROVE  Atomic!Next
<1>1. \A c \in Clients : Handling(c)' = {} /\ requests'[c] = <<>>
  BY DEF Restart, Handling
<1>2. \A c \in Clients : Unserved(c)' = <<>>
  BY <1>1 DEF UnservedFacts
<1>3. Unanswered' = [c \in Clients |-> <<>>]
  BY <1>2 DEF Unanswered
<1>4. Atomic!Restart
  BY <1>3 DEF Restart, Cut, Atomic!Restart, Unanswered
<1> QED
  BY <1>4 DEF Atomic!Next

LEMMA MapStep ==
  TypeOK /\ QuestionInv /\ GapInv /\ UnservedFacts /\ UnservedFacts' /\ [Next]_vars
    => [Atomic!Next]_(Atomic!vars)
<1> SUFFICES ASSUME TypeOK, QuestionInv, GapInv, UnservedFacts, UnservedFacts', [Next]_vars
             PROVE  [Atomic!Next]_(Atomic!vars)
  OBVIOUS
<1>1. ASSUME UNCHANGED vars PROVE UNCHANGED Atomic!vars
  <2>1. \A c \in Clients : Handling(c)' = Handling(c)
    BY <1>1 DEF vars, Handling
  <2> QED
    BY <1>1, <2>1, UnservedStays, MapStutter DEF vars
<1> QED
  BY <1>1, MapClient, MapHandle, MapAdd, MapRestart DEF Next, ServerStep, ClientStep

\* With one pool thread, or without clients that share an identity, the handlers
\* appear to run one at a time, although a registration looks for the peer and
\* enters it in two steps.
THEOREM TrackerAppearsAtomic ==
  ASSUME Separate
  PROVE  Spec => AppearsAtomic
<1>1. Init => Atomic!Init
  BY MapInit
<1>2. TypeOK /\ QuestionInv => UnservedFacts
  BY UnservedIs
<1>3. TypeOK /\ QuestionInv /\ GapInv /\ UnservedFacts /\ UnservedFacts' /\ [Next]_vars
        => [Atomic!Next]_(Atomic!vars)
  BY MapStep
<1>4. Spec => []GapInv
  BY GapInvariant
<1> QED
  BY <1>1, <1>2, <1>3, <1>4, TypeCorrect, QuestionInvariant, PTL
     DEF Spec, AppearsAtomic, Atomic!Spec
=============================================================================
