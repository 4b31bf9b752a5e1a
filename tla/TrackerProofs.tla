--------------------------- MODULE TrackerProofs ---------------------------
(***************************************************************************)
(* Theorems of Tracker, for any numbers of clients, pool threads and       *)
(* identities and any assignment of identities to clients.                 *)
(***************************************************************************)
EXTENDS Tracker, TLAPS

Job == [client : Clients, info : PeerInfo]

(* ------------------------- the container ------------------------------- *)

\* AddPeer keeps what is there, adds the key, and nothing but the one info.
LEMMA AddPeerFacts ==
  ASSUME NEW set \in SUBSET PeerInfo, NEW info \in PeerInfo
  PROVE  /\ AddPeer(set, info) \in SUBSET PeerInfo
         /\ set \subseteq AddPeer(set, info)
         /\ info.key \in KeysOf(AddPeer(set, info))
         /\ AddPeer(set, info) \subseteq set \union {info}
BY DEF AddPeer, Find, KeysOf

\* Keys are never lost when a container grows.
LEMMA KeysGrow ==
  ASSUME NEW set, NEW larger, set \subseteq larger
  PROVE  KeysOf(set) \subseteq KeysOf(larger)
BY DEF KeysOf

(* ------------------------- the steps of a client ----------------------- *)

\* A call appends one message to the requests of c and changes nothing else.
LEMMA CallIsSend ==
  ASSUME NEW c \in Clients, Call(c)
  PROVE  \E msg \in Message : Send(c, msg)
<1>1. CASE ServerPing(c)
  BY <1>1 DEF ServerPing, Create, Message, Types, Statuses
<1>2. CASE PeersList(c)
  BY <1>2 DEF PeersList, Create, Message, Types, Statuses
<1>3. ASSUME NEW info \in PeerInfo, Registration(c, info)
      PROVE  \E msg \in Message : Send(c, msg)
  BY <1>3 DEF Registration, Create, Message, Types, Statuses
<1> QED
  BY <1>1, <1>2, <1>3 DEF Call

(* ------------------------- type correctness ---------------------------- *)

LEMMA SendKeepsTypes ==
  ASSUME TypeOK, NEW c \in Clients, NEW msg \in Message, Send(c, msg)
  PROVE  TypeOK'
BY DEF TypeOK, Send, serverVars, lifeVars

\* An answer is a message, so Respond keeps the type of incoming.
LEMMA RespondKeepsTypes ==
  ASSUME TypeOK, NEW c \in Clients, NEW msg \in Message, Respond(c, msg)
  PROVE  incoming' \in [Clients -> Seq(Message)]
BY DEF TypeOK, Respond

LEMMA DispatchKeepsTypes ==
  ASSUME TypeOK, NEW w \in Workers, NEW c \in Clients, NEW type, Dispatch(w, c, type)
  PROVE  /\ requests' \in [Clients -> Seq(Message)]
         /\ Head(requests[c]) \in Message
BY DEF TypeOK, Dispatch

LEMMA CreateType ==
  ASSUME NEW type \in Types, NEW status \in Statuses, NEW data \in SUBSET PeerInfo
  PROVE  Create(type, status, data) \in Message
BY DEF Create, Message

LEMMA TypeInit == Init => TypeOK
BY DEF Init, TypeOK

LEMMA TypeStep == TypeOK /\ [Next]_vars => TypeOK'
<1> SUFFICES ASSUME TypeOK, [Next]_vars PROVE TypeOK'
  OBVIOUS
<1>1. ASSUME NEW w \in Workers, RegistrationAdd(w) PROVE TypeOK'
  <2>1. job[w] \in Job
    BY <1>1 DEF TypeOK, RegistrationAdd, Job
  <2>2. job[w].client \in Clients /\ job[w].info \in PeerInfo /\ job[w].info.key \in Keys
    BY <2>1 DEF Job, PeerInfo
  <2>3. Create("REGISTRATION_PEER", "SUCCESS", {}) \in Message
    BY CreateType DEF Types, Statuses
  <2>4. incoming' \in [Clients -> Seq(Message)]
    BY <1>1, <2>2, <2>3, RespondKeepsTypes DEF RegistrationAdd
  <2>5. peers' \in SUBSET PeerInfo
    BY <1>1, <2>2, AddPeerFacts DEF RegistrationAdd, TypeOK
  <2>6. grants' \in [Workers \X Keys -> Nat]
    BY <1>1, <2>2 DEF RegistrationAdd, TypeOK
  <2> QED
    BY <1>1, <2>4, <2>5, <2>6 DEF RegistrationAdd, TypeOK, lifeVars
<1>2. ASSUME NEW w \in Workers, NEW c \in Clients, HandlePing(w, c) PROVE TypeOK'
  <2>1. incoming' \in [Clients -> Seq(Message)]
    BY <1>2, CreateType, RespondKeepsTypes DEF HandlePing, Types, Statuses
  <2> QED
    BY <1>2, <2>1, DispatchKeepsTypes DEF HandlePing, TypeOK, serverVars, lifeVars
<1>3. ASSUME NEW w \in Workers, NEW c \in Clients, HandlePeersList(w, c) PROVE TypeOK'
  <2>1. Create("REGISTRATION_PEER", "SUCCESS", peers) \in Message
    BY CreateType DEF TypeOK, Types, Statuses
  <2>2. incoming' \in [Clients -> Seq(Message)]
    BY <1>3, <2>1, RespondKeepsTypes DEF HandlePeersList
  <2> QED
    BY <1>3, <2>2, DispatchKeepsTypes DEF HandlePeersList, TypeOK, serverVars, lifeVars
<1>4. ASSUME NEW w \in Workers, NEW c \in Clients, RegistrationFind(w, c) PROVE TypeOK'
  <2>1. requests' \in [Clients -> Seq(Message)] /\ Head(requests[c]) \in Message
    BY <1>4, DispatchKeepsTypes DEF RegistrationFind
  <2>2. PICK info \in Head(requests[c]).body :
          \/ /\ Respond(c, Create("REGISTRATION_PEER", "FAILURE", {}))
             /\ UNCHANGED job
          \/ /\ job' = [job EXCEPT ![w] = [client |-> c, info |-> info]]
             /\ UNCHANGED incoming
    BY <1>4 DEF RegistrationFind
  <2>3. info \in PeerInfo
    BY <2>1, <2>2 DEF Message
  <2>4. Create("REGISTRATION_PEER", "FAILURE", {}) \in Message
    BY CreateType DEF Types, Statuses
  <2>5. incoming' \in [Clients -> Seq(Message)]
    BY <2>2, <2>4, RespondKeepsTypes DEF TypeOK
  <2>6. job' \in [Workers -> Job \union {Idle}]
    <3>1. [client |-> c, info |-> info] \in Job
      BY <2>3 DEF Job
    <3>2. job \in [Workers -> Job \union {Idle}]
      BY DEF TypeOK, Job
    <3> QED
      BY <2>2, <3>1, <3>2
  <2> QED
    BY <1>4, <2>1, <2>5, <2>6 DEF RegistrationFind, TypeOK, Job, lifeVars
<1>5. ASSUME NEW c \in Clients, Connect(c) PROVE TypeOK'
  BY <1>5 DEF Connect, TypeOK, serverVars, lifeVars
<1>6. ASSUME NEW c \in Clients, Call(c) PROVE TypeOK'
  BY <1>6, CallIsSend, SendKeepsTypes
<1>7. ASSUME NEW c \in Clients, WaitingResponse(c) PROVE TypeOK'
  BY <1>7 DEF WaitingResponse, TypeOK, serverVars, lifeVars
<1>8. ASSUME NEW c \in Clients, LoseConnection(c) PROVE TypeOK'
  <2>1. PICK kept \in {requests[c], <<>>} : requests' = [requests EXCEPT ![c] = kept]
    BY <1>8 DEF LoseConnection
  <2>2. kept \in Seq(Message)
    <3>1. requests[c] \in Seq(Message)
      BY DEF TypeOK
    <3>2. <<>> \in Seq(Message)
      OBVIOUS
    <3> QED
      BY <2>1, <3>1, <3>2
  <2>3. requests' \in [Clients -> Seq(Message)]
    BY <2>1, <2>2 DEF TypeOK
  <2> QED
    BY <1>8, <2>3 DEF LoseConnection, TypeOK, serverVars, lifeVars
<1>9. ASSUME Restart PROVE TypeOK'
  BY <1>9 DEF Restart, Cut, TypeOK
<1>10. CASE UNCHANGED vars
  BY <1>10 DEF vars, TypeOK
<1> QED
  BY <1>1, <1>2, <1>3, <1>4, <1>5, <1>6, <1>7, <1>8, <1>9, <1>10
     DEF Next, ServerStep, ClientStep, Handle

\* Every variable keeps its type, however calls, handlers and broken
\* connections interleave: requests and answers stay well-formed messages.
THEOREM TypeCorrect == Spec => []TypeOK
<1>1. Init => TypeOK
  BY TypeInit
<1>2. TypeOK /\ [Next]_vars => TypeOK'
  BY TypeStep
<1> QED
  BY <1>1, <1>2, PTL DEF Spec

(* ------------------------- one entry for a key ------------------------- *)

LEMMA UniqueStep == TypeOK /\ UniqueEntries /\ [Next]_vars => UniqueEntries'
<1> SUFFICES ASSUME TypeOK, UniqueEntries, [Next]_vars PROVE UniqueEntries'
  OBVIOUS
<1>1. ASSUME NEW w \in Workers, RegistrationAdd(w) PROVE UniqueEntries'
  <2>1. CASE Find(peers, job[w].info)
    BY <1>1, <2>1 DEF RegistrationAdd, AddPeer, UniqueEntries
  <2>2. CASE ~Find(peers, job[w].info)
    <3>1. \A p \in peers : p.key # job[w].info.key
      BY <2>2 DEF Find, KeysOf
    <3>2. peers' = peers \union {job[w].info}
      BY <1>1, <2>2 DEF RegistrationAdd, AddPeer
    <3> QED
      BY <3>1, <3>2 DEF UniqueEntries
  <2> QED
    BY <2>1, <2>2
<1>2. CASE UNCHANGED peers
  BY <1>2 DEF UniqueEntries
<1>3. ASSUME NEW w \in Workers, NEW c \in Clients, Handle(w, c) PROVE UNCHANGED peers
  BY <1>3 DEF Handle, HandlePing, HandlePeersList, RegistrationFind, serverVars, lifeVars
<1>4. ASSUME ClientStep PROVE UNCHANGED peers
  BY <1>4 DEF ClientStep, Connect, Call, ServerPing, Registration, PeersList, Send,
              WaitingResponse, LoseConnection, serverVars, lifeVars
<1>5. ASSUME Restart PROVE UniqueEntries'
  BY <1>5 DEF Restart, UniqueEntries
<1> QED
  BY <1>1, <1>2, <1>3, <1>4, <1>5 DEF Next, ServerStep, vars

\* The container holds one entry for a key, whatever uuids come out of
\* GenerateUuidPeer and however many threads register it at once.
THEOREM OneEntryForAKey == Spec => []UniqueEntries
<1>1. Init => UniqueEntries
  BY DEF Init, UniqueEntries
<1>2. TypeOK /\ UniqueEntries /\ [Next]_vars => UniqueEntries'
  BY UniqueStep
<1> QED
  BY <1>1, <1>2, TypeCorrect, PTL DEF Spec

(* ------------------------- grants -------------------------------------- *)

\* What makes OneGrantPerWorker inductive: an identity a thread has granted is
\* in the container, and one a thread is about to grant it has not granted yet.
GrantedIsListed ==
  \A w \in Workers, k \in Keys : grants[<<w, k>>] = 1 => k \in KeysOf(peers)

PendingNotGranted ==
  \A w \in Workers : job[w] # Idle => grants[<<w, job[w].info.key>>] = 0

GrantInv == OneGrantPerWorker /\ GrantedIsListed /\ PendingNotGranted

LEMMA GrantStep == TypeOK /\ GrantInv /\ [Next]_vars => GrantInv'
<1> SUFFICES ASSUME TypeOK, GrantInv, [Next]_vars PROVE GrantInv'
  OBVIOUS
<1> USE DEF GrantInv
<1>1. ASSUME NEW w \in Workers, RegistrationAdd(w) PROVE GrantInv'
  <2> DEFINE key == job[w].info.key
  <2>1. job[w] # Idle /\ job[w] \in Job
    BY <1>1 DEF TypeOK, RegistrationAdd, Job
  <2>2. job[w].info \in PeerInfo /\ key \in Keys
    BY <2>1 DEF Job, PeerInfo
  <2>3. grants[<<w, key>>] = 0
    BY <2>1 DEF PendingNotGranted
  <2>4. \A v \in Workers, k \in Keys :
          grants'[<<v, k>>] = IF v = w /\ k = key THEN 1 ELSE grants[<<v, k>>]
    <3>1. grants' = [grants EXCEPT ![<<w, key>>] = 0 + 1]
      BY <1>1, <2>3 DEF RegistrationAdd
    <3>2. grants \in [Workers \X Keys -> Nat]
      BY DEF TypeOK
    <3> HIDE DEF key
    <3> QED
      BY <3>1, <3>2
  <2>5. KeysOf(peers) \subseteq KeysOf(peers') /\ key \in KeysOf(peers')
    <3>1. peers \in SUBSET PeerInfo /\ peers' = AddPeer(peers, job[w].info)
      BY <1>1 DEF RegistrationAdd, TypeOK
    <3>2. peers \subseteq peers' /\ key \in KeysOf(peers')
      BY <2>2, <3>1, AddPeerFacts
    <3> QED
      BY <3>2, KeysGrow
  <2>6. job' = [job EXCEPT ![w] = Idle]
    BY <1>1 DEF RegistrationAdd
  <2>7. OneGrantPerWorker'
    <3> SUFFICES ASSUME NEW v \in Workers, NEW k \in Keys
                 PROVE  grants'[<<v, k>>] <= 1
      BY DEF OneGrantPerWorker
    <3>1. grants[<<v, k>>] <= 1
      BY DEF OneGrantPerWorker
    <3> HIDE DEF key
    <3> QED
      BY <2>4, <3>1
  <2>8. GrantedIsListed'
    BY <2>4, <2>5 DEF GrantedIsListed
  <2>9. PendingNotGranted'
    <3> SUFFICES ASSUME NEW v \in Workers, job'[v] # Idle
                 PROVE  grants'[<<v, job'[v].info.key>>] = 0
      BY DEF PendingNotGranted
    <3>1. v # w /\ job'[v] = job[v]
      BY <2>6 DEF TypeOK
    <3>2. job[v].info.key \in Keys
      BY <3>1 DEF TypeOK, PeerInfo
    <3> QED
      BY <2>4, <3>1, <3>2 DEF PendingNotGranted
  <2> QED
    BY <2>7, <2>8, <2>9
<1>2. ASSUME NEW w \in Workers, NEW c \in Clients, RegistrationFind(w, c) PROVE GrantInv'
  <2>1. PICK info \in Head(requests[c]).body :
          \/ UNCHANGED job
          \/ /\ ~Find(peers, info)
             /\ job' = [job EXCEPT ![w] = [client |-> c, info |-> info]]
    BY <1>2 DEF RegistrationFind
  <2>2. UNCHANGED <<peers, grants>>
    BY <1>2 DEF RegistrationFind
  <2>3. info.key \in Keys
    <3>1. Head(requests[c]) \in Message
      BY <1>2, DispatchKeepsTypes DEF RegistrationFind
    <3> QED
      BY <3>1 DEF Message, PeerInfo
  <2>4. ~Find(peers, info) => grants[<<w, info.key>>] = 0
    <3>1. grants[<<w, info.key>>] \in Nat
      BY <2>3 DEF TypeOK
    <3>2. grants[<<w, info.key>>] <= 1
      BY <2>3 DEF OneGrantPerWorker
    <3>3. ~Find(peers, info) => grants[<<w, info.key>>] # 1
      BY <2>3 DEF GrantedIsListed, Find
    <3> QED
      BY <3>1, <3>2, <3>3
  <2>5. PendingNotGranted'
    <3> SUFFICES ASSUME NEW v \in Workers, job'[v] # Idle
                 PROVE  grants[<<v, job'[v].info.key>>] = 0
      BY <2>2 DEF PendingNotGranted
    <3>1. CASE job'[v] = job[v]
      BY <3>1 DEF PendingNotGranted
    <3>2. CASE job'[v] # job[v]
      <4>1. v = w /\ job'[v] = [client |-> c, info |-> info] /\ ~Find(peers, info)
        BY <2>1, <3>2 DEF TypeOK
      <4> QED
        BY <2>4, <4>1
    <3> QED
      BY <3>1, <3>2
  <2> QED
    BY <2>2, <2>5 DEF OneGrantPerWorker, GrantedIsListed
<1>3. CASE UNCHANGED <<peers, job, grants>>
  BY <1>3 DEF OneGrantPerWorker, GrantedIsListed, PendingNotGranted
<1>4. ASSUME NEW w \in Workers, NEW c \in Clients, HandlePing(w, c) \/ HandlePeersList(w, c)
      PROVE  UNCHANGED <<peers, job, grants>>
  BY <1>4 DEF HandlePing, HandlePeersList, serverVars, lifeVars
<1>5. ASSUME ClientStep PROVE UNCHANGED <<peers, job, grants>>
  BY <1>5 DEF ClientStep, Connect, Call, ServerPing, Registration, PeersList, Send,
              WaitingResponse, LoseConnection, serverVars, lifeVars
<1>6. ASSUME Restart PROVE GrantInv'
  BY <1>6 DEF Restart, OneGrantPerWorker, GrantedIsListed, PendingNotGranted
<1> QED
  BY <1>1, <1>2, <1>3, <1>4, <1>5, <1>6 DEF Next, ServerStep, Handle, vars

\* The unlocked gap between Find and AddPeer costs at most one SUCCESS per pool
\* thread and identity, for any number of threads and of clients that compete.
THEOREM GrantsBounded == Spec => []OneGrantPerWorker
<1>1. Init => GrantInv
  BY DEF Init, GrantInv, OneGrantPerWorker, GrantedIsListed, PendingNotGranted
<1>2. TypeOK /\ GrantInv /\ [Next]_vars => GrantInv'
  BY GrantStep
<1>3. GrantInv => OneGrantPerWorker
  BY DEF GrantInv
<1> QED
  BY <1>1, <1>2, <1>3, TypeCorrect, PTL DEF Spec

(* ------------------------- lists under way ----------------------------- *)

\* ListsOrdered holds because a list is a copy of the container, which grows as
\* long as the tracker lives: what a client connected in this life has been
\* sent is still in it.  A connection that is up was made in this life, and one
\* that was never made has carried no list.
ListedIsKnown ==
  \A c \in Clients : since[c] = life =>
    \A i \in DOMAIN incoming[c] : incoming[c][i].body \subseteq peers

UpIsOfThisLife ==
  \A c \in Clients :
    /\ since[c] <= life
    /\ conn[c] = "up" => since[c] = life
    /\ conn[c] = "new" => incoming[c] = <<>>

OrderInv == ListsOrdered /\ ListedIsKnown /\ UpIsOfThisLife

\* A step that sends no list keeps the order.
LEMMA NoListKeepsOrder ==
  ASSUME TypeOK, OrderInv, peers \subseteq peers',
         UNCHANGED <<conn, incoming, life, since>>
  PROVE  OrderInv'
BY DEF OrderInv, ListsOrdered, ListedIsKnown, UpIsOfThisLife

\* Appending an answer whose list is empty or the container keeps the order.
LEMMA RespondKeepsOrder ==
  ASSUME TypeOK, OrderInv, peers \subseteq peers', UNCHANGED <<conn, life, since>>,
         NEW c \in Clients, NEW msg \in Message,
         msg.body \in {{}, peers}, Respond(c, msg)
  PROVE  OrderInv'
<1> USE DEF OrderInv
<1>1. ASSUME NEW d \in Clients, NEW i \in DOMAIN incoming'[d]
      PROVE  \/ i \in DOMAIN incoming[d] /\ incoming'[d][i] = incoming[d][i]
             \/ since[d] = life /\ incoming'[d][i] = msg
  <2>1. incoming[d] \in Seq(Message)
    BY DEF TypeOK
  <2>2. \/ incoming'[d] = incoming[d]
        \/ since[d] = life /\ incoming'[d] = Append(incoming[d], msg)
    BY DEF Respond, TypeOK, UpIsOfThisLife
  <2> QED
    BY <1>1, <2>1, <2>2
<1>2. ListedIsKnown'
  BY <1>1 DEF ListedIsKnown
<1>3. ListsOrdered'
  BY <1>1 DEF ListsOrdered, ListedIsKnown
<1>4. UpIsOfThisLife'
  BY DEF UpIsOfThisLife, Respond, TypeOK
<1> QED
  BY <1>2, <1>3, <1>4

LEMMA OrderStep == TypeOK /\ OrderInv /\ [Next]_vars => OrderInv'
<1> SUFFICES ASSUME TypeOK, OrderInv, [Next]_vars PROVE OrderInv'
  OBVIOUS
<1>1. ASSUME NEW w \in Workers, RegistrationAdd(w) PROVE OrderInv'
  <2>1. job[w].client \in Clients /\ job[w].info \in PeerInfo
    BY <1>1 DEF TypeOK, RegistrationAdd
  <2>2. peers \subseteq peers'
    BY <1>1, <2>1, AddPeerFacts DEF RegistrationAdd, TypeOK
  <2>3. Create("REGISTRATION_PEER", "SUCCESS", {}) \in Message
    BY CreateType DEF Types, Statuses
  <2> QED
    BY <1>1, <2>1, <2>2, <2>3, RespondKeepsOrder DEF RegistrationAdd, Create, lifeVars
<1>2. ASSUME NEW w \in Workers, NEW c \in Clients, HandlePing(w, c) PROVE OrderInv'
  <2>1. Create("SERVER_PING", "SUCCESS", {}) \in Message
    BY CreateType DEF Types, Statuses
  <2> QED
    BY <1>2, <2>1, RespondKeepsOrder DEF HandlePing, Create, serverVars, lifeVars
<1>3. ASSUME NEW w \in Workers, NEW c \in Clients, HandlePeersList(w, c) PROVE OrderInv'
  <2>1. Create("REGISTRATION_PEER", "SUCCESS", peers) \in Message
    BY CreateType DEF Types, Statuses, TypeOK
  <2> QED
    BY <1>3, <2>1, RespondKeepsOrder DEF HandlePeersList, Create, serverVars, lifeVars
<1>4. ASSUME NEW w \in Workers, NEW c \in Clients, RegistrationFind(w, c) PROVE OrderInv'
  <2>1. Create("REGISTRATION_PEER", "FAILURE", {}) \in Message
    BY CreateType DEF Types, Statuses
  <2>2. CASE Respond(c, Create("REGISTRATION_PEER", "FAILURE", {}))
    BY <1>4, <2>1, <2>2, RespondKeepsOrder DEF RegistrationFind, Create, lifeVars
  <2>3. CASE UNCHANGED incoming
    BY <1>4, <2>3, NoListKeepsOrder DEF RegistrationFind, lifeVars
  <2> QED
    BY <1>4, <2>2, <2>3 DEF RegistrationFind
<1>5. ASSUME NEW c \in Clients, WaitingResponse(c) PROVE OrderInv'
  <2>1. ASSUME NEW d \in Clients, NEW i \in DOMAIN incoming'[d]
        PROVE  \E j \in DOMAIN incoming[d] : incoming'[d][i] = incoming[d][j]
    <3>1. incoming[d] \in Seq(Message)
      BY DEF TypeOK
    <3>2. incoming'[d] = incoming[d] \/ (incoming[d] # <<>> /\ incoming'[d] = Tail(incoming[d]))
      BY <1>5 DEF WaitingResponse, TypeOK
    <3>3. CASE incoming'[d] = incoming[d]
      BY <2>1, <3>3
    <3>4. CASE incoming[d] # <<>> /\ incoming'[d] = Tail(incoming[d])
      <4>1. i + 1 \in DOMAIN incoming[d] /\ incoming'[d][i] = incoming[d][i + 1]
        BY <2>1, <3>1, <3>4
      <4> QED
        BY <4>1
    <3> QED
      BY <3>2, <3>3, <3>4
  <2>2. UNCHANGED <<peers, conn, life, since>>
    BY <1>5 DEF WaitingResponse, serverVars, lifeVars
  <2>3. ListsOrdered' /\ ListedIsKnown'
    BY <2>1, <2>2 DEF OrderInv, ListsOrdered, ListedIsKnown
  <2>4. UpIsOfThisLife'
    BY <1>5, <2>2 DEF OrderInv, UpIsOfThisLife, WaitingResponse, TypeOK
  <2> QED
    BY <2>3, <2>4 DEF OrderInv
<1>6. ASSUME NEW c \in Clients, Connect(c) PROVE OrderInv'
  <2>1. /\ incoming' = incoming /\ peers' = peers /\ life' = life
        /\ incoming[c] = <<>> /\ since'[c] = life /\ conn'[c] = "up"
        /\ \A d \in Clients : d # c => since'[d] = since[d] /\ conn'[d] = conn[d]
    BY <1>6 DEF Connect, TypeOK, OrderInv, UpIsOfThisLife, serverVars
  <2>2. ListsOrdered' /\ ListedIsKnown'
    BY <2>1 DEF OrderInv, ListsOrdered, ListedIsKnown
  <2>3. UpIsOfThisLife'
    BY <2>1 DEF OrderInv, UpIsOfThisLife, TypeOK
  <2> QED
    BY <2>2, <2>3 DEF OrderInv
<1>7. ASSUME NEW c \in Clients, LoseConnection(c) PROVE OrderInv'
  BY <1>7 DEF LoseConnection, TypeOK, OrderInv, ListsOrdered, ListedIsKnown, UpIsOfThisLife,
              serverVars, lifeVars
<1>8. ASSUME NEW c \in Clients, Call(c) PROVE OrderInv'
  <2>1. UNCHANGED <<peers, conn, incoming, life, since>>
    BY <1>8, CallIsSend DEF Send, serverVars, lifeVars
  <2> QED
    BY <2>1, NoListKeepsOrder
<1>9. ASSUME Restart PROVE OrderInv'
  <2>1. /\ incoming' = incoming /\ since' = since /\ life' = life + 1
        /\ \A c \in Clients : /\ since[c] <= life
                              /\ conn'[c] # "up"
                              /\ conn'[c] = "new" => conn[c] = "new"
    BY <1>9 DEF Restart, Cut, OrderInv, UpIsOfThisLife
  <2>2. life \in Nat /\ since \in [Clients -> Nat]
    BY DEF TypeOK
  <2>3. \A c \in Clients : since'[c] # life' /\ since'[c] <= life'
    BY <2>1, <2>2
  <2> QED
    BY <2>1, <2>3 DEF OrderInv, ListsOrdered, ListedIsKnown, UpIsOfThisLife
<1>10. CASE UNCHANGED vars
  BY <1>10, NoListKeepsOrder DEF vars
<1> QED
  BY <1>1, <1>2, <1>3, <1>4, <1>5, <1>6, <1>7, <1>8, <1>9, <1>10
     DEF Next, ServerStep, ClientStep, Handle

\* Of any two lists under way to clients of one life one contains the other,
\* however often the tracker restarts.
THEOREM ListsInOrder == Spec => []ListsOrdered
<1>1. Init => OrderInv
  BY DEF Init, OrderInv, ListsOrdered, ListedIsKnown, UpIsOfThisLife
<1>2. TypeOK /\ OrderInv /\ [Next]_vars => OrderInv'
  BY OrderStep
<1>3. OrderInv => ListsOrdered
  BY DEF OrderInv
<1> QED
  BY <1>1, <1>2, <1>3, TypeCorrect, PTL DEF Spec
=============================================================================
