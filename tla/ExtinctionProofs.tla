-------------------------- MODULE ExtinctionProofs --------------------------
(***************************************************************************)
(* What is final in DopechainApp as long as the tracker lives: a system    *)
(* that has lost its last source of a chain never has one again, whoever   *)
(* joins it, and one that has had a chain never has another.  For any      *)
(* number of clients and threads, and whatever fails.                      *)
(***************************************************************************)
EXTENDS AgreementProofs

\* No chain, but c is or will find itself alone in the tracker's list.
Hopeful(c) ==
  \/ Granted(c) /\ Alone(c)
  \/ pc[c] = "listing" /\ IF incoming[c] = <<>> THEN Alone(c)
                          ELSE KeysOf(Head(incoming[c]).body) = {KeyOf[c]}
  \/ pc[c] = "connect" /\ Empty(peerContainer[c])

Lost == peers # {} /\ Chains = {} /\ \A c \in Clients : ~Hopeful(c)

LEMMA ExtinctIsLost == TypesInv => (Extinct <=> Lost)
<1> SUFFICES ASSUME TypesInv PROVE Extinct <=> Lost
  OBVIOUS
<1>1. \A a \in answers : a.to \in Clients
  BY DEF TypesInv, PeersTypes, P!TypeOK, P!Answer
<1>2. Chains = {} <=> \A c \in Clients :
                        /\ chain[c] = <<>> /\ writing[c] = <<>>
                        /\ \A a \in answers : a.to = c => a.chain = <<>>
  BY <1>1 DEF Chains
<1> QED
  BY <1>2 DEF Extinct, Lost, Source, Hopeful

\* The container only grows, so whoever is alone after a step was before.
LEMMA AloneBefore ==
  ASSUME KeysOf(peers) # {}, KeysOf(peers) \subseteq KeysOf(peers'), NEW c \in Clients,
         conn'[c] = "up" => conn[c] = "up", Alone(c)'
  PROVE  Alone(c)
<1>1. KeysOf(peers') = {KeyOf[c]} /\ conn'[c] = "up"
  BY DEF Alone, KeysOf
<1> QED
  BY <1>1 DEF Alone

\* What makes c hopeful and is not a matter of being alone.
LEMMA HopefulStays ==
  ASSUME NEW c \in Clients, SamePlace(c), T!Handling(c)' \subseteq T!Handling(c),
         Alone(c)' => Alone(c), Hopeful(c)'
  PROVE  Hopeful(c)
<1>1. Granted(c)' => Granted(c)
  BY DEF SamePlace, Granted
<1> QED
  BY <1>1 DEF SamePlace, Hopeful, Empty

\* A client's connection comes up when it connects, and never again.
LEMMA UpBefore ==
  ASSUME TypesInv, NEW e \in Clients, ClientStep(e), NEW c \in Clients, conn'[c] = "up"
  PROVE  conn[c] = "up" \/ pc'[c] = "connected"
<1> USE DEF TrackerCall, PeersCall, Move, T!serverVars, T!lifeVars, trackerVars
<1>1. CASE Connect(e)
  <2>1. \/ conn' = conn
        \/ conn' = [conn EXCEPT ![e] = "up"] /\ pc' = [pc EXCEPT ![e] = "connected"]
    BY <1>1 DEF Connect, T!Connect, Goto
  <2> QED
    BY <2>1 DEF TypesInv, AppTypes, TrackerTypes
<1>2. CASE MainStep(e)
  <2>1. CASE Ping(e) \/ Register(e) \/ List(e)
    BY <2>1 DEF Ping, Register, List, T!ServerPing, T!Registration, T!PeersList, T!Send
  <2>2. CASE \/ TakeStatus(e, "pinging", "register") \/ TakeStatus(e, "registering", "start")
             \/ TakeList(e) \/ Update(e)
    BY <2>2 DEF TakeStatus, TakeList, T!WaitingResponse, Update
  <2>3. CASE \/ StartServer(e) \/ ConnectPeer(e) \/ InitializeChain(e) \/ SyncStep(e)
             \/ Initialized(e) \/ Fail(e) \/ Timeout(e)
    BY <2>3
       DEF StartServer, ConnectPeer, InitializeChain, SyncStep, Initialized, Fail, Timeout
  <2> QED
    BY <1>2, <2>1, <2>2, <2>3 DEF MainStep
<1>3. CASE Miss(e) \/ BreakPeer(e)
  BY <1>3 DEF Miss, BreakPeer
<1>4. CASE Exit(e) \/ LoseConnection(e)
  BY <1>4 DEF Exit, CutOff, LoseConnection, T!LoseConnection, TypesInv, TrackerTypes
<1> QED
  BY <1>1, <1>2, <1>3, <1>4 DEF ClientStep

\* A step of its own gives c no hope.
LEMMA MainHopeful ==
  ASSUME TypesInv, Discipline, KnownInv, NEW c \in Clients, MainStep(c),
         Alone(c)' => Alone(c), UNCHANGED job, Hopeful(c)'
  PROVE  Hopeful(c)
<1> USE DEF TrackerCall, PeersCall, Move
<1>1. \A s : Goto(c, s) => pc'[c] = s
  BY DEF Goto, TypesInv, AppTypes
<1>2. pc'[c] \in {"start", "list", "registering", "listing", "connect"}
  BY DEF Hopeful, Granted
<1>3. T!Handling(c)' = T!Handling(c)
  BY DEF T!Handling
<1>4. CASE Register(c)
  <2>1. pc[c] = "register" /\ pc'[c] = "registering" /\ incoming' = incoming
    BY <1>1, <1>4 DEF Register, T!Registration, T!Send
  <2>2. T!Quiet(c)
    BY <2>1, QuietOutsideWaits DEF Waiting
  <2>3. incoming'[c] = <<>> /\ T!Handling(c)' = {}
    BY <1>3, <2>1, <2>2 DEF T!Quiet
  <2>4. ~Granted(c)'
    BY <2>1, <2>3 DEF Granted
  <2> QED
    BY <2>1, <2>4 DEF Hopeful
<1>5. CASE StartServer(c)
  <2>1. pc[c] = "start" /\ pc'[c] = "list"
    BY <1>1, <1>5 DEF StartServer
  <2> QED
    BY <2>1 DEF Hopeful, Granted
<1>6. CASE List(c)
  <2>1. pc[c] = "list" /\ pc'[c] = "listing" /\ incoming' = incoming
    BY <1>1, <1>6 DEF List, T!PeersList, T!Send
  <2>2. incoming'[c] = <<>>
    BY <2>1, QuietOutsideWaits DEF Waiting, T!Quiet
  <2> QED
    BY <2>1, <2>2 DEF Hopeful, Granted
<1>7. CASE TakeStatus(c, "pinging", "register") \/ TakeStatus(c, "registering", "start")
  <2>1. /\ pc[c] = "registering" /\ pc'[c] = "start"
        /\ incoming[c] # <<>> /\ Head(incoming[c]).status = "SUCCESS"
    BY <1>1, <1>2, <1>7 DEF TakeStatus
  <2>2. 1 \in DOMAIN incoming[c] /\ incoming[c][1].status = "SUCCESS"
    BY <2>1 DEF TypesInv, TrackerTypes
  <2>3. Granted(c)
    BY <2>1, <2>2 DEF Granted
  <2>4. Alone(c)
    BY <2>1 DEF Hopeful
  <2> QED
    BY <2>3, <2>4 DEF Hopeful
<1>8. CASE TakeList(c)
  <2>1. /\ pc[c] = "listing" /\ incoming[c] # <<>> /\ pc'[c] = "connect"
        /\ Head(incoming[c]).status = "SUCCESS"
    BY <1>1, <1>2, <1>8 DEF TakeList
  <2>2. PICK listed \in FromJson(Head(incoming[c]).body) :
          peerContainer' = [peerContainer EXCEPT ![c] = Erase(listed, info[c])]
    BY <1>8, <2>1 DEF TakeList
  <2>3. Erase(listed, info[c]) = {}
    <3>1. peerContainer'[c] = Erase(listed, info[c])
      BY <2>2 DEF TypesInv, AppTypes
    <3> QED
      BY <2>1, <3>1 DEF Hopeful, Granted, Empty
  <2>4. info[c].key = KeyOf[c]
    BY <2>1 DEF Discipline, Orderly, Bound, Registered
  <2>5. KeysOf(listed) = KeysOf(Head(incoming[c]).body)
    BY <2>2 DEF FromJson
  <2>6. KeysOf(Head(incoming[c]).body) \subseteq {KeyOf[c]}
    BY <2>3, <2>4, <2>5 DEF Erase, KeysOf
  <2>7. KeyOf[c] \in KeysOf(Head(incoming[c]).body)
    BY <2>1 DEF KnownInv, ListsItself
  <2>8. KeysOf(Head(incoming[c]).body) = {KeyOf[c]}
    BY <2>6, <2>7
  <2> QED
    BY <2>1, <2>8 DEF Hopeful
<1>9. CASE ConnectPeer(c)
  <2>1. UNCHANGED <<pc, incoming, peerContainer>> /\ pc[c] = "connect"
    BY <1>9 DEF ConnectPeer, trackerVars
  <2> QED
    BY <2>1 DEF Hopeful, Granted, Empty
<1>10. CASE \/ Ping(c) \/ InitializeChain(c) \/ Initialized(c) \/ Fail(c) \/ Timeout(c)
            \/ SyncStep(c) \/ Update(c)
  BY <1>1, <1>2, <1>10
     DEF Ping, InitializeChain, Initialized, Fail, Timeout, SyncStep, Update, appVars
<1> QED
  BY <1>4, <1>5, <1>6, <1>7, <1>8, <1>9, <1>10 DEF MainStep

LEMMA ClientHopeful ==
  ASSUME TypesInv, Discipline, KnownInv, KeysOf(peers) # {}, NEW e \in Clients, ClientStep(e),
         NEW c \in Clients, Hopeful(c)'
  PROVE  Hopeful(c)
<1>1. UNCHANGED <<peers, job, grants, life>>
  BY ClientKeepsServer
<1>2. pc'[c] # "connected"
  BY DEF Hopeful, Granted
<1>3. Alone(c)' => Alone(c)
  BY <1>1, <1>2, UpBefore, AloneBefore
<1>4. T!Handling(c)' = T!Handling(c)
  BY <1>1 DEF T!Handling
<1>5. CASE SamePlace(c)
  BY <1>3, <1>4, <1>5, HopefulStays
<1>6. CASE c = e /\ MainStep(e)
  BY <1>1, <1>3, <1>6, MainHopeful
<1>7. CASE c # e
  BY <1>5, <1>7, OthersKeepPlace DEF ClientStep
<1>8. CASE c = e /\ (Connect(e) \/ Exit(e))
  <2>1. pc'[c] \in {"connected", "failed", "gone"}
    BY <1>8 DEF Connect, Exit, TrackerCall, Move, Goto, TypesInv, AppTypes
  <2> QED
    BY <2>1 DEF Hopeful, Granted
<1>9. CASE c = e /\ (Miss(e) \/ LoseConnection(e) \/ BreakPeer(e))
  <2>1. SamePlace(c)
    BY <1>9
       DEF Miss, LoseConnection, BreakPeer, PeersCall, Keep, T!LoseConnection, T!lifeVars,
           appVars, trackerVars, SamePlace
  <2> QED
    BY <1>5, <2>1
<1> QED
  BY <1>6, <1>7, <1>8, <1>9 DEF ClientStep

\* Whom the tracker has just told of itself alone, it knew alone; whom it is
\* about to register, it did not know.
LEMMA HandleHopeful ==
  ASSUME TypesInv, Discipline, KeysOf(peers) # {}, NEW w \in Workers, NEW c \in Clients,
         Handles(w, c), UNCHANGED <<appVars, peersVars>>, NEW d \in Clients, Hopeful(d)'
  PROVE  Hopeful(d)
<1>1. UNCHANGED <<peers, conn, since, pc, peerContainer>>
  BY DispatchEffect DEF TypesInv, appVars
<1>2. Alone(d)' => Alone(d)
  BY <1>1, AloneBefore
<1>3. CASE d # c
  <2>1. Stays(d)
    BY <1>3, HandleStays DEF TypesInv
  <2> QED
    BY <1>1, <1>2, <2>1, HopefulStays DEF Stays, SamePlace
<1>4. CASE d = c
  <2>1. /\ pc[c] \in {"registering", "listing"}
        /\ incoming[c] = <<>> /\ Head(requests[c]) = Asked(c) /\ T!Handling(c) = {}
    <3>1. pc[c] \in {"start", "list", "registering", "listing", "connect"}
      BY <1>1, <1>4 DEF Hopeful, Granted
    <3> QED
      BY <3>1, TakesAsked DEF TypesInv, InQueue, Waiting
  <2>2. CASE pc[c] = "listing"
    <3>1. Answered(c, Create("REGISTRATION_PEER", "SUCCESS", peers))
      BY <2>1, <2>2, HandleEffect DEF TypesInv, Asked, Create
    <3>2. Create("REGISTRATION_PEER", "SUCCESS", peers).body = peers
      BY DEF Create
    <3>3. CASE conn[c] = "up"
      <4>1. incoming'[c] # <<>> /\ Head(incoming'[c]).body = peers
        BY <2>1, <3>1, <3>2, <3>3 DEF Answered
      <4>2. KeysOf(peers) = {KeyOf[c]}
        BY <1>1, <1>4, <2>2, <4>1 DEF Hopeful, Granted
      <4> QED
        BY <1>4, <2>1, <2>2, <3>3, <4>2 DEF Hopeful, Alone
    <3>4. CASE conn[c] # "up"
      <4>1. incoming'[c] = <<>>
        BY <2>1, <3>1, <3>4 DEF Answered
      <4> QED
        BY <1>1, <1>2, <1>4, <2>1, <2>2, <4>1 DEF Hopeful, Granted
    <3> QED
      BY <3>3, <3>4
  <2>3. CASE pc[c] = "registering"
    <3>1. Alone(c) /\ Granted(c)'
      BY <1>1, <1>2, <1>4, <2>3 DEF Hopeful
    <3>2. \/ Answered(c, Create("REGISTRATION_PEER", "FAILURE", {}))
          \/ \E i \in Head(requests[c]).body : Suspended(w, c, i)
      BY <2>1, <2>3, HandleEffect DEF TypesInv, Asked, Create
    <3>3. ASSUME Answered(c, Create("REGISTRATION_PEER", "FAILURE", {})) PROVE FALSE
      <4>1. Create("REGISTRATION_PEER", "FAILURE", {}).status # "SUCCESS"
        BY DEF Create
      <4>2. T!Handling(c)' = {}
        BY <2>1, <3>3 DEF Answered, T!Handling
      <4>3. \A i \in DOMAIN incoming'[c] : incoming'[c][i].status # "SUCCESS"
        BY <2>1, <3>3, <4>1 DEF Answered
      <4> QED
        BY <1>1, <2>3, <3>1, <4>2, <4>3 DEF Granted
    <3>4. ASSUME NEW i \in Head(requests[c]).body, Suspended(w, c, i) PROVE FALSE
      <4>1. i.key = KeyOf[c]
        <5>1. i = info[c]
          BY <2>1, <2>3, <3>4 DEF Asked, Create
        <5> QED
          BY <2>3, <5>1 DEF Discipline, Orderly, Bound, Registered
      <4>2. KeyOf[c] \notin KeysOf(peers)
        BY <3>4, <4>1 DEF Suspended, Find
      <4> QED
        BY <3>1, <4>2 DEF Alone
    <3> QED
      BY <3>2, <3>3, <3>4
  <2> QED
    BY <2>1, <2>2, <2>3
<1> QED
  BY <1>3, <1>4

\* A registration that is entered was under way.
LEMMA AddHopeful ==
  ASSUME TypesInv, Discipline, KeysOf(peers) # {}, NEW w \in Workers, T!RegistrationAdd(w),
         UNCHANGED <<appVars, peersVars>>, NEW d \in Clients, Hopeful(d)'
  PROVE  Hopeful(d)
<1>1. /\ UNCHANGED <<conn, since, pc, peerContainer>>
      /\ KeysOf(peers) \subseteq KeysOf(peers')
  BY AddEffect DEF TypesInv, appVars
<1>2. Alone(d)' => Alone(d)
  BY <1>1, AloneBefore
<1>3. CASE d # job[w].client
  <2>1. Stays(d)
    BY <1>3, AddStays DEF TypesInv
  <2> QED
    BY <1>1, <1>2, <2>1, HopefulStays DEF Stays, SamePlace
<1>4. CASE d = job[w].client
  <2>1. w \in T!Handling(d)
    BY <1>4 DEF T!RegistrationAdd, T!Handling
  <2>2. pc[d] = "registering"
    <3>1. pc[d] \notin {"failed", "gone"}
      BY <1>1 DEF Hopeful, Granted
    <3> QED
      BY <2>1, <3>1 DEF Discipline, Orderly, Talk, T!Quiet, InQueue, InHandler, InAnswer
  <2>3. Granted(d) /\ Alone(d)
    BY <1>1, <1>2, <2>1, <2>2 DEF Granted, Hopeful
  <2> QED
    BY <2>3 DEF Hopeful
<1> QED
  BY <1>3, <1>4

LEMMA RestHopeful ==
  ASSUME TypesInv, KeysOf(peers) # {}, UNCHANGED <<peers, job, incoming, peerContainer, since>>,
         NEW d \in Clients, pc'[d] \in {pc[d], "gone"}, conn'[d] = "up" => conn[d] = "up",
         Hopeful(d)'
  PROVE  Hopeful(d)
<1>1. pc'[d] = pc[d]
  BY DEF Hopeful, Granted
<1>2. Alone(d)' => Alone(d)
  BY AloneBefore
<1> QED
  BY <1>1, <1>2, HopefulStays DEF SamePlace, T!Handling

LEMMA HopefulBefore ==
  ASSUME TypesInv, Discipline, KnownInv, KeysOf(peers) # {}, [Next]_vars, life' = life,
         NEW d \in Clients, Hopeful(d)'
  PROVE  Hopeful(d)
<1>1. CASE TrackerStep
  <2>1. ~T!Restart
    BY DEF T!Restart, TypesInv, TrackerTypes
  <2> QED
    BY <1>1, <2>1, HandleHopeful, AddHopeful DEF TrackerStep, T!ServerStep, T!Handle, Handles
<1>2. ASSUME NEW m \in calls, Serve(m) PROVE Hopeful(d)
  <2>1. m.to \in Clients
    BY PartyTypes DEF TypesInv
  <2>2. pc'[d] \in {pc[d], "gone"}
    BY <1>2, <2>1 DEF Serve, Goto, TypesInv, AppTypes, appVars
  <2>3. UNCHANGED <<peers, job, incoming, peerContainer, since>>
    BY <1>2
       DEF Serve, Keep, CutOff, T!LoseConnection, T!serverVars, T!lifeVars, trackerVars, appVars
  <2>4. conn'[d] = "up" => conn[d] = "up"
    BY <1>2, <2>1
       DEF Serve, CutOff, T!LoseConnection, trackerVars, TypesInv, TrackerTypes
  <2> QED
    BY <2>2, <2>3, <2>4, RestHopeful
<1>3. CASE UNCHANGED vars
  BY <1>3, RestHopeful DEF vars, appVars, trackerVars
<1> QED
  BY <1>1, <1>2, <1>3, ClientHopeful DEF Next, ClientStep

\* In a life of the tracker its container does not get empty.
LEMMA PeersRemain ==
  ASSUME TypesInv, Discipline, [Next]_vars, life' = life, peers # {}
  PROVE  peers' # {}
<1>1. ASSUME NEW e \in Clients, ClientStep(e) PROVE peers' # {}
  <2>1. UNCHANGED <<peers, job, grants, life>>
    BY <1>1, ClientKeepsServer
  <2> QED
    BY <2>1
<1>2. CASE TrackerStep
  <2>1. ~T!Restart
    BY DEF T!Restart, TypesInv, TrackerTypes
  <2>2. ASSUME NEW w \in Workers, T!RegistrationAdd(w) PROVE peers' # {}
    BY <2>2, AddEffect DEF TypesInv, KeysOf
  <2>3. ASSUME NEW w \in Workers, NEW c \in Clients, Handles(w, c) PROVE peers' # {}
    BY <2>3, DispatchEffect DEF TypesInv
  <2> QED
    BY <1>2, <2>1, <2>2, <2>3 DEF TrackerStep, T!ServerStep, T!Handle, Handles
<1>3. ASSUME NEW m \in calls, Serve(m) PROVE peers' # {}
  BY <1>3 DEF Serve, CutOff, T!LoseConnection, T!serverVars, trackerVars
<1>4. CASE UNCHANGED vars
  BY <1>4 DEF vars, trackerVars
<1> QED
  BY <1>1, <1>2, <1>3, <1>4 DEF Next, ClientStep

\* Once the tracker knows some peers and no client has a chain, is being sent
\* one or will find itself alone, no chain comes about again while the tracker
\* lives, whoever registers: every later list holds somebody else, and somebody
\* else has nothing to give.
THEOREM ExtinctionIsFinal == Spec => ExtinctForEver
<1>1. ASSUME TypesInv, Discipline, KnownInv, [Next]_vars, Lost, life' = life
      PROVE  Lost'
  <2>1. /\ peers # {} /\ KeysOf(peers) # {} /\ Chains = {}
        /\ \A c \in Clients : ~Hopeful(c)
    BY <1>1 DEF Lost, KeysOf
  <2>2. \A c \in Clients : ~Hopeful(c)'
    BY <1>1, <2>1, HopefulBefore
  <2>3. Chains' = {}
    <3>1. \A c \in Clients : ~Founds(c)
      BY <2>1 DEF Founds, InitializeChain, Move, Hopeful
    <3> QED
      BY <1>1, <2>1, <3>1, ChainsStep
  <2>4. peers' # {}
    BY <1>1, <2>1, PeersRemain
  <2> QED
    BY <2>2, <2>3, <2>4 DEF Lost
<1>2. TypesInv /\ Discipline /\ KnownInv /\ [Next]_vars => (Lost => Lost' \/ life' # life)
  BY <1>1
<1> QED
  BY <1>2, ExtinctIsLost, KnownInvariant, PTL DEF Spec, ExtinctForEver

(* ------------------------- the ledger of a life ------------------------ *)

\* A client starts once, and connects when it starts.
LEMMA StartedStays ==
  ASSUME TypesInv, [Next]_vars, NEW c \in Clients, pc[c] # "new"
  PROVE  pc'[c] # "new" /\ since'[c] = since[c]
<1>1. ASSUME NEW e \in Clients, Connect(e) PROVE pc'[c] # "new" /\ since'[c] = since[c]
  <2>1. c # e
    BY <1>1 DEF Connect, Move
  <2> QED
    BY <1>1, <2>1, OthersKeepPlace DEF SamePlace
<1>2. ASSUME NEW e \in Clients, MainStep(e) PROVE pc'[c] # "new" /\ since'[c] = since[c]
  <2>1. UNCHANGED pc \/ \E s : s # "new" /\ Goto(e, s)
    BY <1>2
       DEF MainStep, Ping, Register, List, TakeStatus, TakeList, StartServer, ConnectPeer,
           InitializeChain, SyncStep, Initialized, Update, Fail, Timeout, appVars, Move
  <2> QED
    BY <1>2, <2>1, SinceStays DEF Goto, TypesInv, AppTypes
<1>3. ASSUME NEW e \in Clients, Miss(e) \/ Exit(e) \/ LoseConnection(e) \/ BreakPeer(e)
      PROVE  pc'[c] # "new" /\ since'[c] = since[c]
  <2>1. UNCHANGED pc \/ Goto(e, "gone")
    BY <1>3 DEF Miss, Exit, LoseConnection, BreakPeer, appVars
  <2>2. UNCHANGED since
    BY <1>3
       DEF Miss, PeersCall, Exit, CutOff, LoseConnection, BreakPeer, T!LoseConnection,
           T!lifeVars, trackerVars
  <2> QED
    BY <2>1, <2>2 DEF Goto, TypesInv, AppTypes
<1>4. CASE TrackerStep
  <2>1. UNCHANGED pc
    BY <1>4 DEF TrackerStep, appVars
  <2>2. UNCHANGED since
    BY <1>4, DispatchEffect, AddEffect
       DEF TrackerStep, T!ServerStep, T!Handle, Handles, T!Restart, TypesInv
  <2> QED
    BY <2>1, <2>2
<1>5. ASSUME NEW m \in calls, Serve(m) PROVE pc'[c] # "new" /\ since'[c] = since[c]
  <2>1. UNCHANGED pc \/ Goto(m.to, "gone")
    BY <1>5 DEF Serve, appVars
  <2>2. UNCHANGED since
    BY <1>5 DEF Serve, CutOff, T!LoseConnection, T!lifeVars, trackerVars
  <2> QED
    BY <2>1, <2>2 DEF Goto, TypesInv, AppTypes
<1>6. CASE UNCHANGED vars
  BY <1>6 DEF vars, appVars, trackerVars
<1> QED
  BY <1>1, <1>2, <1>3, <1>4, <1>5, <1>6 DEF Next

\* What holds for good once c has founded the chain of a life, also when c and
\* every copy of the chain are gone: the tracker knows c, so that nobody else
\* finds itself alone in that life but under the identity of c ...
Led(c) ==
  /\ pc[c] # "new"
  /\ since[c] = life => KeyOf[c] \in KeysOf(peers)
  /\ \A d \in Clients : Sole(d) /\ since[d] = since[c] => KeyOf[d] = KeyOf[c]

\* ... and nobody but c is admitted under that one.
LedAlone(c) ==
  \A d \in Clients : Admitted(d) /\ since[d] = since[c] /\ KeyOf[d] = KeyOf[c] => d = c

\* Who comes to be alone in a list, and who to be admitted, in a step.
NewSole(d) ==
  Sole(d)' => /\ since'[d] = since[d]
              /\ Sole(d) \/ (since[d] = life /\ KeysOf(peers) \subseteq {KeyOf[d]})
NewAdmitted(d) ==
  Admitted(d)' => /\ since'[d] = since[d]
                  /\ Admitted(d) \/ (since[d] = life /\ KeyOf[d] \notin KeysOf(peers))

PeersStay(c) ==
  \/ life' = life /\ KeysOf(peers) \subseteq KeysOf(peers')
  \/ since[c] # life'

LEMMA LedStays ==
  ASSUME NEW c \in Clients, Led(c), pc'[c] # "new", since'[c] = since[c], PeersStay(c),
         \A d \in Clients : NewSole(d)
  PROVE  Led(c)'
BY DEF Led, PeersStay, NewSole

LEMMA LedAloneStays ==
  ASSUME NEW c \in Clients, Led(c), LedAlone(c), since'[c] = since[c],
         \A d \in Clients : NewAdmitted(d)
  PROVE  LedAlone(c)'
BY DEF Led, LedAlone, NewAdmitted

LEMMA OwnIsNothingNew ==
  ASSUME \A d \in Clients : OwnPlace(d)
  PROVE  \A d \in Clients : NewSole(d) /\ NewAdmitted(d)
<1>1. \A d \in Clients : Sole(d)' => Admitted(d)'
  BY DEF Sole, Admitted, AdmittedAt
<1> QED
  BY <1>1 DEF OwnPlace, NewSole, NewAdmitted

\* A step of the application keeps what the tracker knows of this life, and
\* leaves alone in a list only whom the tracker knows alone.
LEMMA WhoIsNew ==
  ASSUME TypesInv, Discipline, KnownInv, [Next]_vars
  PROVE  /\ \A c \in Clients : PeersStay(c)
         /\ \A d \in Clients : NewSole(d)
         /\ Gap => \A d \in Clients : NewAdmitted(d)
<1> USE DEF KnownInv
<1>1. ASSUME NEW e \in Clients, ClientStep(e)
      PROVE  /\ \A c \in Clients : PeersStay(c)
             /\ \A d \in Clients : NewSole(d) /\ NewAdmitted(d)
  <2>1. UNCHANGED <<peers, job, grants, life>>
    BY <1>1, ClientKeepsServer
  <2> QED
    BY <1>1, <2>1, ClientPlace, OwnIsNothingNew DEF PeersStay
<1>2. ASSUME NEW w \in Workers, NEW e \in Clients, Handles(w, e),
             UNCHANGED <<appVars, peersVars>>
      PROVE  /\ \A c \in Clients : PeersStay(c)
             /\ \A d \in Clients : NewSole(d) /\ NewAdmitted(d)
  <2>1. UNCHANGED <<peers, life, pc, peerContainer, since, Chains>>
    BY <1>2, HandlePlace, DispatchEffect DEF TypesInv
  <2>2. ASSUME NEW d \in Clients, d # e PROVE NewSole(d) /\ NewAdmitted(d)
    <3>1. incoming'[d] = incoming[d]
      BY <1>2, <2>2, HandleStays DEF Stays, TypesInv
    <3> QED
      BY <2>1, <3>1 DEF NewSole, NewAdmitted, Sole, Admitted
  <2>3. NewSole(e) /\ NewAdmitted(e)
    <3>1. conn[e] = "up" => since[e] = life
      BY DEF Discipline, Orderly, Bound
    <3> QED
      BY <1>2, <2>1, <3>1, HandlePlace DEF NewSole, NewAdmitted
  <2> QED
    BY <2>1, <2>2, <2>3 DEF PeersStay
<1>3. ASSUME NEW w \in Workers, T!RegistrationAdd(w), UNCHANGED <<appVars, peersVars>>
      PROVE  /\ \A c \in Clients : PeersStay(c)
             /\ \A d \in Clients : NewSole(d)
             /\ Gap => \A d \in Clients : NewAdmitted(d)
  <2>1. UNCHANGED <<life, since>> /\ KeysOf(peers) \subseteq KeysOf(peers')
    BY <1>3, AddEffect DEF TypesInv
  <2>2. Gap => job[w].info.key \notin KeysOf(peers)
    BY <1>3 DEF Gap, Find, T!RegistrationAdd
  <2>3. \A d \in Clients : NewSole(d)
    BY <1>3, <2>1, AddPlace DEF NewSole
  <2>4. ASSUME Gap, NEW d \in Clients PROVE NewAdmitted(d)
    BY <1>3, <2>1, <2>2, <2>4, AddPlace DEF NewAdmitted
  <2> QED
    BY <2>1, <2>3, <2>4 DEF PeersStay
<1>4. ASSUME T!Restart, UNCHANGED <<appVars, peersVars>>
      PROVE  /\ \A c \in Clients : PeersStay(c)
             /\ \A d \in Clients : NewSole(d) /\ NewAdmitted(d)
  <2>1. /\ UNCHANGED <<pc, peerContainer, incoming, since, Chains>>
        /\ life' = life + 1
    BY <1>4 DEF T!Restart, appVars, peersVars, Chains
  <2>2. \A c \in Clients : since[c] # life'
    BY <2>1 DEF Discipline, Orderly, Bound, TypesInv, TrackerTypes
  <2> QED
    BY <2>1, <2>2 DEF PeersStay, NewSole, NewAdmitted, Sole, Admitted
<1>5. ASSUME NEW m \in calls, Serve(m)
      PROVE  /\ \A c \in Clients : PeersStay(c)
             /\ \A d \in Clients : NewSole(d) /\ NewAdmitted(d)
  <2>1. UNCHANGED <<peers, life>>
    BY <1>5 DEF Serve, CutOff, T!LoseConnection, T!serverVars, T!lifeVars, trackerVars
  <2> QED
    BY <1>5, <2>1, ServePlace, OwnIsNothingNew DEF PeersStay
<1>6. CASE UNCHANGED vars
  <2>1. \A d \in Clients : SamePlace(d)
    BY <1>6 DEF vars, appVars, trackerVars, SamePlace
  <2> QED
    BY <1>6, <2>1, SameIsOwn, OwnIsNothingNew DEF vars, trackerVars, PeersStay
<1> QED
  BY <1>1, <1>2, <1>3, <1>4, <1>5, <1>6
     DEF Next, ClientStep, TrackerStep, T!ServerStep, T!Handle, Handles

LEMMA LedStep ==
  ASSUME NEW c \in Clients
  PROVE  TypesInv /\ Discipline /\ KnownInv /\ [Next]_vars /\ Led(c) => Led(c)'
<1> SUFFICES ASSUME TypesInv, Discipline, KnownInv, [Next]_vars, Led(c) PROVE Led(c)'
  OBVIOUS
<1>1. pc'[c] # "new" /\ since'[c] = since[c]
  BY StartedStays DEF Led
<1> QED
  BY <1>1, WhoIsNew, LedStays

\* A founder has found itself alone, and is known.
LEMMA FounderLeads ==
  ASSUME NEW c \in Clients
  PROVE  KnownInv /\ <<c>> \in Chains => Led(c)
<1> SUFFICES ASSUME KnownInv, <<c>> \in Chains PROVE Led(c)
  OBVIOUS
<1>1. Sole(c) /\ Admitted(c) /\ pc[c] # "new"
  BY DEF Sole, Admitted, KnownInv, FoundersGoneOn, FoundersAt
<1> QED
  BY <1>1 DEF Led, KnownInv, Known

\* Founders are alone under their identity where it is admitted once.
LEMMA LedAloneStep ==
  ASSUME OneWorker \/ Distinct, NEW c \in Clients
  PROVE  TypesInv /\ Discipline /\ KnownInv /\ (OneWorker => Once) /\ [Next]_vars
           /\ Led(c) /\ LedAlone(c) => LedAlone(c)'
<1> SUFFICES ASSUME TypesInv, Discipline, KnownInv, OneWorker => Once, [Next]_vars,
                    Led(c), LedAlone(c)
             PROVE  LedAlone(c)'
  OBVIOUS
<1>1. CASE Distinct
  BY <1>1 DEF Distinct, LedAlone
<1>2. CASE OneWorker
  <2>1. since'[c] = since[c]
    BY StartedStays DEF Led
  <2>2. \A d \in Clients : NewAdmitted(d)
    BY <1>2, WhoIsNew DEF Once
  <2> QED
    BY <2>1, <2>2, LedAloneStays
<1> QED
  BY <1>1, <1>2

LEMMA FounderLeadsAlone ==
  ASSUME OneWorker \/ Distinct, NEW c \in Clients
  PROVE  (OneWorker => Once) /\ <<c>> \in Chains => LedAlone(c)
<1> SUFFICES ASSUME OneWorker => Once, <<c>> \in Chains PROVE LedAlone(c)
  OBVIOUS
<1>1. Admitted(c)
  BY DEF Admitted
<1>2. CASE Distinct
  BY <1>2 DEF Distinct, LedAlone
<1>3. CASE OneWorker
  BY <1>1, <1>3 DEF Once, AdmitOnce, LedAlone
<1> QED
  BY <1>2, <1>3

\* Once a chain has been founded in a life of the tracker, no other one ever is
\* in that life, also when the founder and all copies are gone and whoever comes
\* later: the tracker never takes the founder out of its container (OnDisconnect
\* does not), so nobody else is sent a list without it.  As in OneChain, with one
\* thread or where no two runs share an identity.
THEOREM FirstLedgerIsLast ==
  ASSUME OneWorker \/ Distinct
  PROVE  Spec => LedgerForEver
<1>1. Spec => [](OneWorker => Once)
  <2>1. TypesInv /\ Discipline /\ KnownInv /\ (OneWorker => Once) /\ [Next]_vars
          => (OneWorker => Once)'
    BY OnceStep
  <2>2. Init => (OneWorker => Once)
    BY OnceInit
  <2> QED
    BY <2>1, <2>2, KnownInvariant, PTL DEF Spec
<1>2. ASSUME NEW c \in Clients
      PROVE  Spec => []( <<c>> \in Chains =>
                         [](\A d \in Clients : <<d>> \in Chains /\ since[d] = since[c] => d = c))
  <2>1. KnownInv /\ (OneWorker => Once) /\ <<c>> \in Chains => Led(c) /\ LedAlone(c)
    BY FounderLeads, FounderLeadsAlone
  <2>2. TypesInv /\ Discipline /\ KnownInv /\ (OneWorker => Once) /\ [Next]_vars
          /\ (Led(c) /\ LedAlone(c)) => (Led(c) /\ LedAlone(c))'
    BY LedStep, LedAloneStep
  <2>3. Led(c) /\ LedAlone(c) =>
          \A d \in Clients : <<d>> \in Chains /\ since[d] = since[c] => d = c
    BY DEF Led, LedAlone, Sole, Admitted
  <2> QED
    BY <1>1, <2>1, <2>2, <2>3, KnownInvariant, PTL DEF Spec
<1> QED
  BY <1>2 DEF LedgerForEver
=============================================================================
