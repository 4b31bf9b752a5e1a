--------------------------- MODULE AgreementProofs ---------------------------
(***************************************************************************)
(* What the clients of DopechainApp may rely on: that a list holds whoever *)
(* is sent it, and that one chain at most is founded in a life of the      *)
(* tracker, or, where threads race for one identity, one for each thread.  *)
(* For any number of clients, threads, identities and restarts, and        *)
(* whatever fails.                                                         *)
(***************************************************************************)
EXTENDS DopechainAppProofs, FiniteSetTheorems

(* ------------------------- chains -------------------------------------- *)

\* The only step that makes a chain: c finds nobody else in its list.
Founds(c) == InitializeChain(c) /\ Empty(peerContainer[c])

LEMMA ChainsAre ==
  ASSUME PeersTypes, NEW x \in Chains
  PROVE  x \in P!Chain /\ x # <<>> /\ \E f \in Clients : x = <<f>>
<1>1. x \in P!Chain /\ x # <<>>
  BY DEF Chains, PeersTypes, P!TypeOK, P!Answer
<1> QED
  BY <1>1 DEF P!Chain

\* Every other step of the peers' part only copies, moves or loses chains.
LEMMA ExitChains ==
  ASSUME PeersTypes, NEW c \in Clients, P!Exit(c)
  PROVE  Chains' \subseteq Chains
<1>1. /\ \A d \in Clients : chain'[d] \in {chain[d], <<>>} /\ writing'[d] \in {writing[d], <<>>}
      /\ answers' \subseteq answers
  BY DEF P!Exit, PeersTypes, P!TypeOK
<1> QED
  BY <1>1 DEF Chains

LEMMA SyncChains ==
  ASSUME PeersTypes, NEW c \in Clients, P!SyncStep(c) \/ P!MissVersion(c) \/ P!MissChain(c)
  PROVE  Chains' \subseteq Chains
<1> USE DEF P!chainVars, P!syncVars, P!msgVars
<1>1. CASE \/ P!AskVersion(c) \/ P!NoChainFound(c) \/ P!AskChain(c)
           \/ P!MissVersion(c) \/ P!MissChain(c)
  <2>1. UNCHANGED <<chain, writing, answers>>
    BY <1>1 DEF P!AskVersion, P!NoChainFound, P!AskChain, P!MissVersion, P!MissChain
  <2> QED
    BY <2>1 DEF Chains
<1>2. CASE P!TakeVersion(c)
  <2>1. UNCHANGED <<chain, writing>> /\ answers' \subseteq answers
    BY <1>2 DEF P!TakeVersion
  <2> QED
    BY <2>1 DEF Chains
<1>3. CASE P!TakeChain(c)
  <2>1. PICK a \in answers : /\ answers' = answers \ {a}
                             /\ writing' = [writing EXCEPT ![c] = a.chain]
    BY <1>3 DEF P!TakeChain, P!Incoming
  <2>2. UNCHANGED chain
    BY <1>3 DEF P!TakeChain
  <2>3. \A d \in Clients : writing'[d] \in {writing[d], a.chain}
    BY <2>1 DEF PeersTypes, P!TypeOK
  <2> QED
    BY <2>1, <2>2, <2>3 DEF Chains
<1>4. CASE P!Store(c)
  <2>1. /\ UNCHANGED answers
        /\ \A d \in Clients : /\ chain'[d] \in {chain[d], writing[d]}
                              /\ writing'[d] \in {writing[d], <<>>}
    BY <1>4 DEF P!Store, PeersTypes, P!TypeOK
  <2> QED
    BY <2>1 DEF Chains
<1> QED
  BY <1>1, <1>2, <1>3, <1>4 DEF P!SyncStep

LEMMA ReplyChains ==
  ASSUME PeersTypes, NEW m \in calls, P!BlockchainVersion(m) \/ P!BlockchainSync(m)
  PROVE  Chains' \subseteq Chains
<1>1. UNCHANGED <<chain, writing>>
  BY DEF P!BlockchainVersion, P!BlockchainSync, P!chainVars
<1>2. PICK blocks \in {<<>>, chain[m.to]} : \E version : P!Reply(m, version, blocks)
  BY DEF P!BlockchainVersion, P!BlockchainSync
<1>3. \A a \in answers' : a \in answers \/ a.chain = blocks
  BY <1>2 DEF P!Reply
<1>4. m.to \in Clients
  BY PartyTypes
<1> QED
  BY <1>1, <1>2, <1>3, <1>4 DEF Chains

LEMMA ChainsStep ==
  ASSUME TypesInv, [Next]_vars
  PROVE  \/ Chains' \subseteq Chains
         \/ \E c \in Clients : Founds(c) /\ Chains' \subseteq Chains \union {<<c>>}
<1> USE DEF TrackerCall, PeersCall, Move, TypesInv
<1>1. ASSUME UNCHANGED <<chain, writing, answers>> PROVE Chains' \subseteq Chains
  BY <1>1 DEF Chains
<1>2. ASSUME UNCHANGED peersVars PROVE Chains' \subseteq Chains
  BY <1>1, <1>2 DEF peersVars
<1>3. ASSUME NEW c \in Clients, Connect(c) PROVE Chains' \subseteq Chains
  BY <1>2, <1>3 DEF Connect
<1>4. ASSUME NEW c \in Clients, MainStep(c), ~Founds(c) PROVE Chains' \subseteq Chains
  <2>1. CASE Ping(c) \/ Register(c) \/ List(c)
    BY <1>2, <2>1 DEF Ping, Register, List
  <2>2. CASE \/ TakeStatus(c, "pinging", "register") \/ TakeStatus(c, "registering", "start")
             \/ TakeList(c)
    BY <1>2, <2>2 DEF TakeStatus, TakeList
  <2>3. CASE Update(c) \/ Initialized(c) \/ Fail(c) \/ Timeout(c)
    BY <1>2, <2>3 DEF Update, Initialized, Fail, Timeout
  <2>4. CASE StartServer(c) \/ ConnectPeer(c)
    BY <1>1, <1>2, <2>4
       DEF StartServer, ConnectPeer, P!Start, P!Connect, P!chainVars, P!msgVars
  <2>5. CASE InitializeChain(c)
    <3>1. P!Join(c)
      BY <1>4, <2>5 DEF InitializeChain, Founds
    <3> QED
      BY <1>1, <3>1 DEF P!Join, P!chainVars, P!msgVars
  <2>6. CASE SyncStep(c)
    BY <2>6, SyncChains DEF SyncStep
  <2> QED
    BY <1>4, <2>1, <2>2, <2>3, <2>4, <2>5, <2>6 DEF MainStep
<1>5. ASSUME NEW c \in Clients, Founds(c) PROVE Chains' \subseteq Chains \union {<<c>>}
  <2>1. /\ UNCHANGED <<chain, answers>>
        /\ writing' = [writing EXCEPT ![c] = <<c>>]
    BY <1>5 DEF Founds, InitializeChain, P!Genesis, P!msgVars
  <2>2. \A d \in Clients : writing'[d] \in {writing[d], <<c>>}
    BY <2>1 DEF PeersTypes, P!TypeOK
  <2> QED
    BY <2>1, <2>2 DEF Chains
<1>6. ASSUME NEW c \in Clients, Miss(c) \/ LoseConnection(c) PROVE Chains' \subseteq Chains
  BY <1>2, <1>6, SyncChains DEF Miss, LoseConnection
<1>7. ASSUME NEW c \in Clients, Exit(c) PROVE Chains' \subseteq Chains
  BY <1>7, ExitChains DEF Exit
<1>8. ASSUME NEW c \in Clients, BreakPeer(c) PROVE Chains' \subseteq Chains
  <2>1. UNCHANGED <<chain, writing>> /\ answers' \subseteq answers
    BY <1>8 DEF BreakPeer, P!Break, P!chainVars
  <2> QED
    BY <2>1 DEF Chains
<1>9. CASE TrackerStep
  BY <1>2, <1>9 DEF TrackerStep
<1>10. ASSUME NEW m \in calls, Serve(m) PROVE Chains' \subseteq Chains
  <2>1. m.to \in Clients
    BY PartyTypes
  <2> QED
    BY <1>10, <2>1, ReplyChains, ExitChains DEF Serve, P!BlockchainSyncCrash
<1>11. CASE UNCHANGED vars
  BY <1>2, <1>11 DEF vars
<1> QED
  BY <1>3, <1>4, <1>5, <1>6, <1>7, <1>8, <1>9, <1>10, <1>11 DEF Next

(* ------------------------- a client's place ---------------------------- *)

\* What decides whether c is admitted, and whether it is or finds itself alone.
SamePlace(c) ==
  /\ pc'[c] = pc[c] /\ incoming'[c] = incoming[c]
  /\ peerContainer'[c] = peerContainer[c] /\ since'[c] = since[c]

\* A step of a client leaves the places of others as they are.
LEMMA OthersKeepPlace ==
  ASSUME TypesInv, NEW e \in Clients, NEW c \in Clients, c # e,
         \/ Connect(e) \/ MainStep(e) \/ Miss(e)
         \/ Exit(e) \/ LoseConnection(e) \/ BreakPeer(e)
  PROVE  SamePlace(c)
<1> USE DEF TrackerCall, PeersCall, Move
<1>1. incoming'[c] = incoming[c] /\ since'[c] = since[c]
  <2>1. ASSUME \/ T!Connect(e) \/ (\E msg : T!Send(e, msg)) \/ T!WaitingResponse(e)
               \/ T!LoseConnection(e) \/ Emptied(e) \/ UNCHANGED trackerVars
        PROVE  incoming'[c] = incoming[c] /\ since'[c] = since[c]
    BY <2>1, ClientStays DEF TypesInv, Stays
  <2>2. CASE Connect(e)
    BY <2>1, <2>2 DEF Connect
  <2>3. CASE MainStep(e)
    <3>1. CASE Ping(e) \/ Register(e) \/ List(e)
      <4>1. \E msg : T!Send(e, msg)
        BY <3>1 DEF Ping, Register, List, T!ServerPing, T!Registration, T!PeersList
      <4> QED
        BY <2>1, <4>1
    <3>2. CASE \/ TakeStatus(e, "pinging", "register") \/ TakeStatus(e, "registering", "start")
               \/ TakeList(e)
      BY <2>1, <3>2 DEF TakeStatus, TakeList
    <3>3. CASE Update(e)
      BY <2>1, <3>3 DEF Update, Emptied
    <3>4. CASE \/ StartServer(e) \/ ConnectPeer(e) \/ InitializeChain(e) \/ SyncStep(e)
               \/ Initialized(e) \/ Fail(e) \/ Timeout(e)
      BY <2>1, <3>4
         DEF StartServer, ConnectPeer, InitializeChain, SyncStep, Initialized, Fail, Timeout
    <3> QED
      BY <2>3, <3>1, <3>2, <3>3, <3>4 DEF MainStep
  <2>4. CASE Miss(e) \/ Exit(e) \/ LoseConnection(e) \/ BreakPeer(e)
    BY <2>1, <2>4 DEF Miss, Exit, CutOff, LoseConnection, BreakPeer
  <2> QED
    BY <2>2, <2>3, <2>4
<1>2. pc'[c] = pc[c]
  <2>1. UNCHANGED pc \/ \E s : Goto(e, s)
    <3>1. CASE MainStep(e)
      BY <3>1
         DEF MainStep, Ping, Register, List, TakeStatus, TakeList, StartServer, ConnectPeer,
             InitializeChain, SyncStep, Initialized, Update, Fail, Timeout, appVars
    <3>2. CASE Connect(e) \/ Miss(e) \/ Exit(e) \/ LoseConnection(e) \/ BreakPeer(e)
      BY <3>2 DEF Connect, Miss, Exit, LoseConnection, BreakPeer, appVars
    <3> QED
      BY <3>1, <3>2
  <2> QED
    BY <2>1 DEF Goto, TypesInv, AppTypes
<1>3. peerContainer'[c] = peerContainer[c]
  <2>1. CASE TakeList(e)
    BY <2>1 DEF TakeList, Keep, TypesInv, AppTypes
  <2>2. CASE MainStep(e) /\ ~TakeList(e)
    BY <2>2
       DEF MainStep, Ping, Register, List, TakeStatus, StartServer, ConnectPeer,
           InitializeChain, SyncStep, Initialized, Update, Fail, Timeout, appVars, Keep
  <2>3. CASE Connect(e) \/ Miss(e) \/ Exit(e) \/ LoseConnection(e) \/ BreakPeer(e)
    BY <2>3 DEF Connect, Miss, Exit, LoseConnection, BreakPeer, appVars, Keep
  <2> QED
    BY <2>1, <2>2, <2>3
<1> QED
  BY <1>1, <1>2, <1>3 DEF SamePlace

\* c was told SUCCESS by RegistrationPeer, or has founded a chain.
AdmittedAt == {"start", "list", "listing", "connect", "chain", "working"}

Admitted(c) ==
  \/ pc[c] \in AdmittedAt
  \/ pc[c] = "registering" /\ incoming[c] # <<>> /\ Head(incoming[c]).status = "SUCCESS"
  \/ <<c>> \in Chains

\* c is alone in the list it is sent or has taken, or has founded a chain.
Sole(c) ==
  \/ pc[c] = "listing" /\ incoming[c] # <<>>
     /\ KeysOf(Head(incoming[c]).body) \subseteq {KeyOf[c]}
  \/ pc[c] = "connect" /\ Empty(peerContainer[c])
  \/ <<c>> \in Chains

FoundersAt == {"chain", "working", "failed", "gone"}
FoundersGoneOn == \A c \in Clients : <<c>> \in Chains => pc[c] \in FoundersAt

LEMMA SoleIsAdmitted == \A c \in Clients : Sole(c) => Admitted(c)
BY DEF Sole, Admitted, AdmittedAt

\* Nobody but c itself founds the chain of c.
LEMMA OwnChain ==
  ASSUME TypesInv, [Next]_vars, NEW c \in Clients, <<c>> \in Chains'
  PROVE  <<c>> \in Chains \/ Founds(c)
BY ChainsStep

LEMMA PlaceStays ==
  ASSUME NEW c \in Clients, SamePlace(c), <<c>> \in Chains' => <<c>> \in Chains
  PROVE  /\ Admitted(c)' => Admitted(c)
         /\ Sole(c)' => Sole(c)
BY DEF SamePlace, Admitted, Sole

(* ------------------------- the founder's way --------------------------- *)

\* What a handler's answer changes for c.
LEMMA HandlePlace ==
  ASSUME TypesInv, Discipline, NEW w \in Workers, NEW c \in Clients, Handles(w, c),
         UNCHANGED <<appVars, peersVars>>
  PROVE  /\ UNCHANGED <<pc, peerContainer, since, Chains>>
         /\ Admitted(c)' => Admitted(c)
         /\ Sole(c)' => \/ Sole(c)
                        \/ /\ pc[c] = "listing" /\ conn[c] = "up"
                           /\ KeysOf(peers) \subseteq {KeyOf[c]}
<1>1. UNCHANGED <<pc, peerContainer, since, Chains>>
  BY DispatchEffect DEF appVars, peersVars, Chains, TypesInv
<1>2. CASE pc[c] \notin {"registering", "listing"}
  BY <1>1, <1>2 DEF Admitted, Sole
<1>3. CASE pc[c] \in {"registering", "listing"}
  <2>1. Head(requests[c]) = Asked(c) /\ incoming[c] = <<>>
    BY <1>3, TakesAsked DEF TypesInv, InQueue
  <2>2. CASE pc[c] = "registering"
    <3>1. \/ Answered(c, Create("REGISTRATION_PEER", "FAILURE", {}))
          \/ \E i : Suspended(w, c, i)
      BY <2>1, <2>2, HandleEffect DEF TypesInv, Asked, Create
    <3>2. Create("REGISTRATION_PEER", "FAILURE", {}).status = "FAILURE"
      BY DEF Create
    <3>3. incoming'[c] # <<>> => Head(incoming'[c]).status = "FAILURE"
      <4>1. ASSUME NEW i, Suspended(w, c, i) PROVE incoming'[c] = <<>>
        BY <2>1, <4>1 DEF Suspended
      <4>2. CASE Answered(c, Create("REGISTRATION_PEER", "FAILURE", {}))
        BY <2>1, <3>2, <4>2 DEF Answered
      <4> QED
        BY <3>1, <4>1, <4>2
    <3> QED
      BY <1>1, <2>2, <3>3 DEF Admitted, Sole, AdmittedAt
  <2>3. CASE pc[c] = "listing"
    <3>1. Answered(c, Create("REGISTRATION_PEER", "SUCCESS", peers))
      BY <2>1, <2>3, HandleEffect DEF TypesInv, Asked, Create
    <3>2. Create("REGISTRATION_PEER", "SUCCESS", peers).body = peers
      BY DEF Create
    <3>3. incoming'[c] # <<>> => conn[c] = "up" /\ Head(incoming'[c]).body = peers
      BY <2>1, <3>1, <3>2 DEF Answered
    <3> QED
      BY <1>1, <2>3, <3>3 DEF Admitted, Sole, AdmittedAt
  <2> QED
    BY <1>3, <2>2, <2>3
<1> QED
  BY <1>1, <1>2, <1>3

\* A step of c's own, other than a founding, makes nothing of it that it was not.
OwnPlace(c) ==
  /\ <<c>> \in Chains' => pc'[c] \in FoundersAt
  /\ Admitted(c)' => Admitted(c) /\ since'[c] = since[c]
  /\ Sole(c)' => Sole(c)

\* At most of its places c is neither alone nor admitted but by its chain.
LEMMA PlainPlace ==
  ASSUME NEW c \in Clients, pc'[c] \notin {"registering", "listing", "connect"},
         <<c>> \in Chains' => <<c>> \in Chains /\ pc'[c] \in FoundersAt,
         pc'[c] \in AdmittedAt \/ <<c>> \in Chains => Admitted(c) /\ since'[c] = since[c]
  PROVE  OwnPlace(c)
BY DEF OwnPlace, Admitted, Sole

LEMMA SinceStays ==
  ASSUME TypesInv, NEW c \in Clients, MainStep(c)
  PROVE  since' = since
<1> USE DEF TrackerCall, PeersCall, T!serverVars, T!lifeVars
<1>1. CASE Ping(c) \/ Register(c) \/ List(c)
  BY <1>1 DEF Ping, Register, List, T!ServerPing, T!Registration, T!PeersList, T!Send
<1>2. CASE \/ TakeStatus(c, "pinging", "register") \/ TakeStatus(c, "registering", "start")
           \/ TakeList(c) \/ Update(c)
  BY <1>2 DEF TakeStatus, TakeList, T!WaitingResponse, Update
<1>3. CASE \/ StartServer(c) \/ ConnectPeer(c) \/ InitializeChain(c) \/ SyncStep(c)
           \/ Initialized(c) \/ Fail(c) \/ Timeout(c)
  BY <1>3
     DEF StartServer, ConnectPeer, InitializeChain, SyncStep, Initialized, Fail, Timeout,
         trackerVars
<1> QED
  BY <1>1, <1>2, <1>3 DEF MainStep

LEMMA MainPlace ==
  ASSUME TypesInv, Discipline, FoundersGoneOn, [Next]_vars, NEW c \in Clients, MainStep(c)
  PROVE  OwnPlace(c)
<1> USE DEF TrackerCall, PeersCall, Move
<1>1. /\ since' = since
      /\ <<c>> \in Chains' => <<c>> \in Chains \/ Founds(c)
      /\ <<c>> \in Chains => pc[c] \in FoundersAt
  BY SinceStays, OwnChain DEF FoundersGoneOn
<1>2. \A s : Goto(c, s) => pc'[c] = s
  BY DEF Goto, TypesInv, AppTypes
<1>3. Founds(c) => pc[c] = "connect"
  BY DEF Founds, InitializeChain
<1>4. CASE Ping(c) \/ StartServer(c)
  <2>1. pc[c] \in {"connected", "start"} /\ pc'[c] \in {"pinging", "list"}
        /\ (pc'[c] = "list" => pc[c] = "start")
    BY <1>2, <1>4 DEF Ping, StartServer
  <2> QED
    BY <1>1, <1>3, <2>1, PlainPlace DEF Admitted, AdmittedAt, FoundersAt
<1>5. CASE Register(c) \/ List(c)
  <2>1. pc[c] \in {"register", "list"} /\ pc'[c] \in {"registering", "listing"}
        /\ (pc'[c] = "listing" => pc[c] = "list")
    BY <1>2, <1>5 DEF Register, List
  <2>2. incoming'[c] = <<>>
    <3>1. incoming[c] = <<>>
      BY <2>1, QuietOutsideWaits DEF Waiting, T!Quiet
    <3>2. incoming' = incoming
      BY <1>5 DEF Register, List, T!Registration, T!PeersList, T!Send
    <3> QED
      BY <3>1, <3>2
  <2>3. <<c>> \notin Chains'
    BY <1>1, <1>3, <2>1 DEF FoundersAt
  <2> QED
    BY <1>1, <2>1, <2>2, <2>3 DEF OwnPlace, Admitted, Sole, AdmittedAt
<1>6. CASE TakeStatus(c, "pinging", "register") \/ TakeStatus(c, "registering", "start")
  <2>1. /\ pc[c] \in {"pinging", "registering"} /\ incoming[c] # <<>>
        /\ pc'[c] \in {"register", "start", "failed"}
        /\ pc'[c] = "start" => pc[c] = "registering" /\ Head(incoming[c]).status = "SUCCESS"
    BY <1>2, <1>6 DEF TakeStatus
  <2> QED
    BY <1>1, <1>3, <2>1, PlainPlace DEF Admitted, AdmittedAt, FoundersAt
<1>7. CASE TakeList(c)
  <2>1. pc[c] = "listing" /\ incoming[c] # <<>> /\ <<c>> \notin Chains'
    BY <1>1, <1>3, <1>7 DEF TakeList, FoundersAt
  <2>2. Admitted(c)
    BY <2>1 DEF Admitted, AdmittedAt
  <2>3. CASE Head(incoming[c]).status = "SUCCESS"
    <3>1. PICK listed \in FromJson(Head(incoming[c]).body) :
            peerContainer' = [peerContainer EXCEPT ![c] = Erase(listed, info[c])]
      BY <1>7, <2>3 DEF TakeList
    <3>2. pc'[c] = "connect" /\ peerContainer'[c] = Erase(listed, info[c])
      BY <1>2, <1>7, <2>3, <3>1 DEF TakeList, TypesInv, AppTypes
    <3>3. info[c].key = KeyOf[c]
      BY <2>1 DEF Discipline, Orderly, Bound, Registered
    <3>4. KeysOf(listed) = KeysOf(Head(incoming[c]).body)
      BY <3>1 DEF FromJson
    <3>5. Empty(peerContainer'[c]) => Sole(c)
      BY <2>1, <3>2, <3>3, <3>4 DEF Empty, Erase, KeysOf, Sole
    <3>6. Sole(c)' => Empty(peerContainer'[c])
      BY <2>1, <3>2 DEF Sole, Empty
    <3> QED
      BY <1>1, <2>1, <2>2, <3>5, <3>6 DEF OwnPlace
  <2>4. CASE Head(incoming[c]).status # "SUCCESS"
    <3>1. pc'[c] = "failed"
      BY <1>2, <1>7, <2>4 DEF TakeList
    <3> QED
      BY <1>1, <2>1, <2>2, <3>1, PlainPlace
  <2> QED
    BY <2>3, <2>4
<1>8. CASE ConnectPeer(c)
  <2>1. UNCHANGED <<pc, incoming, peerContainer>> /\ pc[c] = "connect"
    BY <1>8 DEF ConnectPeer, trackerVars
  <2>2. <<c>> \notin Chains'
    <3>1. ~Founds(c)
      BY <2>1, <1>2 DEF Founds, InitializeChain
    <3> QED
      BY <1>1, <2>1, <3>1 DEF FoundersAt
  <2>3. SamePlace(c)
    BY <1>1, <2>1 DEF SamePlace
  <2> QED
    BY <1>1, <2>2, <2>3, PlaceStays DEF OwnPlace
<1>9. CASE InitializeChain(c)
  <2>1. pc[c] = "connect" /\ pc'[c] = "chain"
    BY <1>2, <1>9 DEF InitializeChain
  <2>2. Admitted(c) /\ (Founds(c) => Sole(c))
    BY <2>1 DEF Admitted, AdmittedAt, Founds, Sole
  <2>3. Sole(c)' => Sole(c)
    BY <1>1, <2>1, <2>2, SoleIsAdmitted DEF Sole
  <2> QED
    BY <1>1, <2>1, <2>2, <2>3 DEF OwnPlace, FoundersAt
<1>10. CASE SyncStep(c) \/ Initialized(c) \/ Update(c)
  <2>1. pc[c] \in {"chain", "working"} /\ pc'[c] \in {"chain", "working", "failed"}
    BY <1>2, <1>10 DEF SyncStep, Initialized, Update, appVars
  <2> QED
    BY <1>1, <1>3, <2>1, PlainPlace DEF Admitted, AdmittedAt, FoundersAt
<1>11. CASE Fail(c) \/ Timeout(c)
  <2>1. /\ pc[c] \in {"start", "connected", "list", "pinging", "registering", "listing"}
        /\ pc'[c] = "failed"
    BY <1>2, <1>11 DEF Fail, Timeout, Waiting
  <2> QED
    BY <1>1, <1>3, <2>1, PlainPlace DEF Admitted, AdmittedAt, FoundersAt
<1> QED
  BY <1>4, <1>5, <1>6, <1>7, <1>8, <1>9, <1>10, <1>11 DEF MainStep

ClientStep(c) ==
  \/ Connect(c) \/ MainStep(c) \/ Miss(c)
  \/ Exit(c) \/ LoseConnection(c) \/ BreakPeer(c)

\* Its process ends.
LEMMA EndPlace ==
  ASSUME TypesInv, FoundersGoneOn, [Next]_vars, NEW c \in Clients, Goto(c, "gone"), CutOff(c)
  PROVE  OwnPlace(c)
<1>1. pc'[c] = "gone" /\ since' = since
  BY DEF Goto, TypesInv, AppTypes, CutOff, T!LoseConnection, T!lifeVars, trackerVars
<1>2. <<c>> \in Chains' => <<c>> \in Chains
  <2>1. ~Founds(c)
    BY <1>1 DEF Founds, InitializeChain, Move, Goto, TypesInv, AppTypes
  <2> QED
    BY <2>1, OwnChain
<1> QED
  BY <1>1, <1>2, PlainPlace DEF FoundersAt, AdmittedAt, Admitted

LEMMA SameIsOwn ==
  ASSUME TypesInv, FoundersGoneOn, [Next]_vars, NEW c \in Clients, SamePlace(c)
  PROVE  OwnPlace(c)
<1>1. ~Founds(c)
  BY DEF SamePlace, Founds, InitializeChain, Move, Goto, TypesInv, AppTypes
<1>2. <<c>> \in Chains' => <<c>> \in Chains
  BY <1>1, OwnChain
<1> QED
  BY <1>2, PlaceStays DEF OwnPlace, FoundersGoneOn, SamePlace

\* A step of a client admits nobody and leaves nobody alone.
LEMMA ClientPlace ==
  ASSUME TypesInv, Discipline, FoundersGoneOn, [Next]_vars, NEW e \in Clients, ClientStep(e)
  PROVE  \A c \in Clients : OwnPlace(c)
<1>1. ASSUME NEW c \in Clients, c # e PROVE OwnPlace(c)
  BY <1>1, OthersKeepPlace, SameIsOwn DEF ClientStep
<1>2. CASE Connect(e)
  <2>1. pc[e] = "new" /\ pc'[e] \in {"connected", "failed"}
    BY <1>2 DEF Connect, TrackerCall, Move, Goto, TypesInv, AppTypes
  <2>2. <<e>> \notin Chains'
    <3>1. ~Founds(e)
      BY <2>1 DEF Founds, InitializeChain, Move
    <3> QED
      BY <2>1, <3>1, OwnChain DEF FoundersGoneOn, FoundersAt
  <2>3. OwnPlace(e)
    BY <2>1, <2>2 DEF OwnPlace, Admitted, Sole, AdmittedAt
  <2> QED
    BY <1>1, <2>3
<1>3. CASE MainStep(e)
  BY <1>1, <1>3, MainPlace
<1>4. CASE Exit(e)
  BY <1>1, <1>4, EndPlace DEF Exit
<1>5. CASE Miss(e) \/ LoseConnection(e) \/ BreakPeer(e)
  <2>1. SamePlace(e)
    BY <1>5
       DEF Miss, LoseConnection, BreakPeer, PeersCall, Keep, T!LoseConnection, T!lifeVars,
           appVars, trackerVars, SamePlace
  <2> QED
    BY <1>1, <2>1, SameIsOwn
<1> QED
  BY <1>2, <1>3, <1>4, <1>5 DEF ClientStep

\* A client that lists has its answer from the tracker, not from a step of its own.
LEMMA ClientLists ==
  ASSUME TypesInv, Discipline, NEW e \in Clients, ClientStep(e),
         NEW c \in Clients, pc'[c] = "listing", incoming'[c] # <<>>
  PROVE  pc[c] = "listing" /\ incoming'[c] = incoming[c]
<1>1. CASE c # e
  BY <1>1, OthersKeepPlace DEF ClientStep, SamePlace
<1>2. CASE c = e
  <2> USE DEF TrackerCall, PeersCall, Move
  <2>1. \A s : Goto(e, s) => s = "listing"
    BY <1>2 DEF Goto, TypesInv, AppTypes
  <2>2. CASE List(e)
    <3>1. incoming' = incoming /\ pc[e] = "list"
      BY <2>2 DEF List, T!PeersList, T!Send
    <3> QED
      BY <1>2, <3>1, QuietOutsideWaits DEF Waiting, T!Quiet
  <2>3. CASE MainStep(e) /\ ~List(e)
    BY <1>2, <2>1, <2>3
       DEF MainStep, Ping, Register, TakeStatus, TakeList, StartServer, ConnectPeer,
           InitializeChain, SyncStep, Initialized, Update, Fail, Timeout, appVars
  <2>4. CASE Connect(e) \/ Exit(e)
    BY <2>1, <2>4 DEF Connect, Exit
  <2>5. CASE Miss(e) \/ LoseConnection(e) \/ BreakPeer(e)
    BY <1>2, <2>5
       DEF Miss, LoseConnection, BreakPeer, T!LoseConnection, appVars, trackerVars
  <2> QED
    BY <2>2, <2>3, <2>4, <2>5 DEF ClientStep
<1> QED
  BY <1>1, <1>2

LEMMA ServePlace ==
  ASSUME TypesInv, FoundersGoneOn, [Next]_vars, NEW m \in calls, Serve(m)
  PROVE  \A c \in Clients : OwnPlace(c)
<1>1. m.to \in Clients
  BY PartyTypes DEF TypesInv
<1>2. CASE UNCHANGED <<appVars, trackerVars>>
  BY <1>2, SameIsOwn DEF SamePlace, appVars, trackerVars
<1>3. CASE Goto(m.to, "gone") /\ Keep /\ CutOff(m.to)
  <2>1. ASSUME NEW c \in Clients, c # m.to PROVE SamePlace(c)
    BY <1>3, <2>1
       DEF SamePlace, Goto, Keep, CutOff, T!LoseConnection, T!lifeVars, trackerVars,
           TypesInv, AppTypes
  <2> QED
    BY <1>1, <1>3, <2>1, SameIsOwn, EndPlace
<1> QED
  BY <1>2, <1>3 DEF Serve

\* What AddPeer and the answer after it change for c.
LEMMA AddPlace ==
  ASSUME TypesInv, Discipline, NEW w \in Workers, NEW c \in Clients, T!RegistrationAdd(w),
         UNCHANGED <<appVars, peersVars>>
  PROVE  /\ UNCHANGED <<pc, peerContainer, since, Chains>>
         /\ Admitted(c)' => \/ Admitted(c)
                            \/ c = job[w].client /\ job[w].info.key = KeyOf[c] /\ since[c] = life
         /\ Sole(c)' => Sole(c)
         /\ pc[c] = "listing" => incoming'[c] = incoming[c]
<1>1. UNCHANGED <<pc, peerContainer, since, Chains>>
  BY AddEffect DEF appVars, peersVars, Chains, TypesInv
<1>2. CASE c # job[w].client
  <2>1. incoming'[c] = incoming[c]
    BY <1>2, AddEffect DEF TypesInv
  <2> QED
    BY <1>1, <2>1 DEF Admitted, Sole
<1>3. CASE c = job[w].client
  <2>1. w \in T!Handling(c)
    BY <1>3 DEF T!RegistrationAdd, T!Handling
  <2>2. job[w].info.key = KeyOf[c] /\ since[c] = life
    BY <2>1 DEF Discipline, Orderly, Bound
  <2>3. pc[c] # "listing"
    BY <2>1 DEF Discipline, Orderly, Talk, T!Quiet, InQueue, InHandler, InAnswer, Waiting
  <2>4. Sole(c)' => Sole(c)
    BY <1>1, <2>3 DEF Sole
  <2> QED
    BY <1>1, <1>3, <2>2, <2>3, <2>4
<1> QED
  BY <1>2, <1>3

(* ------------------------- one founder in a life ----------------------- *)

\* The tracker knows whoever it has admitted in this life; c and d may both be
\* alone only under one identity.
Known ==
  /\ \A c \in Clients : Admitted(c) /\ since[c] = life => KeyOf[c] \in KeysOf(peers)
  /\ \A c, d \in Clients :
       Sole(c) /\ Sole(d) /\ since[c] = since[d] => KeyOf[c] = KeyOf[d]

KnownInv == FoundersGoneOn /\ Known /\ ListsItself

LEMMA OwnKeepsKnown ==
  ASSUME TypesInv, KnownInv, \A c \in Clients : OwnPlace(c), UNCHANGED <<peers, life>>,
         \A c \in Clients : pc'[c] = "listing" /\ incoming'[c] # <<>> =>
                             pc[c] = "listing" /\ incoming'[c] = incoming[c]
  PROVE  KnownInv'
<1>1. FoundersGoneOn'
  BY DEF OwnPlace, FoundersGoneOn
<1>2. \A c \in Clients : Sole(c)' => Sole(c) /\ since'[c] = since[c]
  <2>1. \A c \in Clients : Sole(c)' => Admitted(c)'
    BY DEF Sole, Admitted, AdmittedAt
  <2> QED
    BY <2>1 DEF OwnPlace
<1>3. Known'
  <2>1. \A c \in Clients : Admitted(c)' => Admitted(c) /\ since'[c] = since[c]
    BY DEF OwnPlace
  <2>2. KeysOf(peers)' = KeysOf(peers) /\ life' = life
    BY DEF KeysOf
  <2>3. (\A c \in Clients : Admitted(c) /\ since[c] = life => KeyOf[c] \in KeysOf(peers))'
    BY <2>1, <2>2 DEF KnownInv, Known
  <2>4. (\A c, d \in Clients :
           Sole(c) /\ Sole(d) /\ since[c] = since[d] => KeyOf[c] = KeyOf[d])'
    BY <1>2 DEF KnownInv, Known
  <2> QED
    BY <2>3, <2>4 DEF Known
<1>4. ListsItself'
  BY DEF KnownInv, ListsItself
<1> QED
  BY <1>1, <1>3, <1>4 DEF KnownInv

LEMMA HandleKeepsKnown ==
  ASSUME TypesInv, Discipline, KnownInv, NEW w \in Workers, NEW c \in Clients, Handles(w, c),
         UNCHANGED <<appVars, peersVars>>
  PROVE  KnownInv'
<1>1. UNCHANGED <<peers, life, pc, since, Chains, conn>>
  BY HandlePlace, DispatchEffect DEF TypesInv
<1>2. ASSUME NEW d \in Clients, d # c
      PROVE  /\ incoming'[d] = incoming[d]
             /\ Admitted(d)' => Admitted(d)
             /\ Sole(d)' => Sole(d)
  <2>1. incoming'[d] = incoming[d]
    BY <1>2, HandleStays DEF Stays, TypesInv
  <2> QED
    BY <1>1, <2>1 DEF Admitted, Sole, appVars
<1>3. FoundersGoneOn'
  BY <1>1 DEF KnownInv, FoundersGoneOn
<1>4. \A d \in Clients : Admitted(d)' => Admitted(d)
  BY <1>2, HandlePlace
<1>5. pc[c] = "listing" => Admitted(c)
  BY DEF Admitted, AdmittedAt
<1>6. Known'
  <2>1. ASSUME Sole(c)', ~Sole(c)
        PROVE  since[c] = life /\ KeysOf(peers) \subseteq {KeyOf[c]}
    BY <2>1, HandlePlace DEF Discipline, Orderly, Bound
  <2>2. ASSUME NEW d \in Clients, d # c, Sole(d)', Sole(c)', since[c] = since[d]
        PROVE  KeyOf[c] = KeyOf[d]
    <3>1. Sole(d)
      BY <1>2, <2>2
    <3>2. CASE Sole(c)
      BY <2>2, <3>1, <3>2 DEF KnownInv, Known
    <3>3. CASE ~Sole(c)
      <4>1. since[d] = life /\ KeysOf(peers) \subseteq {KeyOf[c]}
        BY <2>1, <2>2, <3>3
      <4>2. KeyOf[d] \in KeysOf(peers)
        BY <3>1, <4>1, SoleIsAdmitted DEF KnownInv, Known
      <4> QED
        BY <4>1, <4>2
    <3> QED
      BY <3>2, <3>3
  <2>3. \A a, b \in Clients :
          Sole(a)' /\ Sole(b)' /\ since[a] = since[b] => KeyOf[a] = KeyOf[b]
    BY <1>2, <2>2 DEF KnownInv, Known
  <2> QED
    BY <1>1, <1>4, <2>3 DEF KnownInv, Known
<1>7. ListsItself'
  <2>1. ASSUME pc[c] = "listing", incoming'[c] # <<>>
        PROVE  KeyOf[c] \in KeysOf(Head(incoming'[c]).body)
    <3>1. /\ incoming[c] = <<>> /\ Head(requests[c]) = Asked(c)
      BY <2>1, TakesAsked DEF TypesInv, InQueue
    <3>2. Answered(c, Create("REGISTRATION_PEER", "SUCCESS", peers))
      BY <2>1, <3>1, HandleEffect DEF TypesInv, Asked, Create
    <3>3. conn[c] = "up" /\ Head(incoming'[c]).body = peers
      BY <2>1, <3>1, <3>2 DEF Answered, Create
    <3>4. since[c] = life
      BY <3>3 DEF Discipline, Orderly, Bound
    <3> QED
      BY <1>5, <2>1, <3>3, <3>4 DEF KnownInv, Known
  <2> QED
    BY <1>1, <1>2, <2>1 DEF KnownInv, ListsItself
<1> QED
  BY <1>3, <1>6, <1>7 DEF KnownInv

LEMMA AddKeepsKnown ==
  ASSUME TypesInv, Discipline, KnownInv, NEW w \in Workers, T!RegistrationAdd(w),
         UNCHANGED <<appVars, peersVars>>
  PROVE  KnownInv'
<1>1. /\ UNCHANGED <<pc, since, life>>
      /\ KeysOf(peers') = KeysOf(peers) \union {job[w].info.key}
  BY AddEffect DEF TypesInv, appVars
<1>2. FoundersGoneOn'
  BY <1>1, AddPlace DEF KnownInv, FoundersGoneOn
<1>3. Known'
  <2>1. ASSUME NEW c \in Clients, Admitted(c)', since[c] = life
        PROVE  KeyOf[c] \in KeysOf(peers')
    BY <1>1, <2>1, AddPlace DEF KnownInv, Known
  <2>2. \A c \in Clients : Sole(c)' => Sole(c)
    BY AddPlace
  <2> QED
    BY <1>1, <2>1, <2>2 DEF KnownInv, Known
<1>4. ListsItself'
  BY <1>1, AddPlace DEF KnownInv, ListsItself
<1> QED
  BY <1>2, <1>3, <1>4 DEF KnownInv

LEMMA RestartKeepsKnown ==
  ASSUME TypesInv, Discipline, KnownInv, T!Restart, UNCHANGED <<appVars, peersVars>>
  PROVE  KnownInv'
<1>1. /\ UNCHANGED <<pc, peerContainer, incoming, since, Chains>>
      /\ life' = life + 1
  BY DEF T!Restart, appVars, peersVars, Chains
<1>2. \A c \in Clients : since[c] # life'
  BY <1>1 DEF Discipline, Orderly, Bound, TypesInv, TrackerTypes
<1>3. \A c \in Clients : Sole(c)' => Sole(c)
  BY <1>1 DEF Sole
<1>4. Known'
  BY <1>1, <1>2, <1>3 DEF KnownInv, Known
<1> QED
  BY <1>1, <1>4 DEF KnownInv, FoundersGoneOn, ListsItself

\* Only the tracker's own steps touch its container and its handlers.
LEMMA ClientKeepsServer ==
  ASSUME NEW e \in Clients, ClientStep(e)
  PROVE  UNCHANGED <<peers, job, grants, life>>
<1> USE DEF TrackerCall, PeersCall, Move, T!serverVars, T!lifeVars, trackerVars
<1>1. CASE MainStep(e)
  <2>1. CASE Ping(e) \/ Register(e) \/ List(e)
    BY <2>1 DEF Ping, Register, List, T!ServerPing, T!Registration, T!PeersList, T!Send
  <2>2. CASE \/ TakeStatus(e, "pinging", "register") \/ TakeStatus(e, "registering", "start")
             \/ TakeList(e) \/ Update(e)
    BY <2>2 DEF TakeStatus, TakeList, T!WaitingResponse, Update
  <2>3. CASE \/ StartServer(e) \/ ConnectPeer(e) \/ InitializeChain(e) \/ SyncStep(e)
             \/ Initialized(e) \/ Fail(e) \/ Timeout(e)
    BY <2>3
       DEF StartServer, ConnectPeer, InitializeChain, SyncStep, Initialized, Fail, Timeout
  <2> QED
    BY <1>1, <2>1, <2>2, <2>3 DEF MainStep
<1>2. CASE \/ Connect(e) \/ Miss(e) \/ Exit(e) \/ LoseConnection(e) \/ BreakPeer(e)
  BY <1>2 DEF Connect, T!Connect, Miss, Exit, CutOff, LoseConnection, T!LoseConnection, BreakPeer
<1> QED
  BY <1>1, <1>2 DEF ClientStep

LEMMA KnownStep == TypesInv /\ Discipline /\ KnownInv /\ [Next]_vars => KnownInv'
<1> SUFFICES ASSUME TypesInv, Discipline, KnownInv, [Next]_vars PROVE KnownInv'
  OBVIOUS
<1> USE DEF KnownInv
<1>1. ASSUME NEW e \in Clients, ClientStep(e) PROVE KnownInv'
  <2>1. UNCHANGED <<peers, life>>
    <3>1. UNCHANGED <<peers, job, grants, life>>
      BY <1>1, ClientKeepsServer
    <3> QED
      BY <3>1
  <2> QED
    BY <1>1, <2>1, ClientPlace, ClientLists, OwnKeepsKnown
<1>2. CASE TrackerStep
  BY <1>2, HandleKeepsKnown, AddKeepsKnown, RestartKeepsKnown
     DEF TrackerStep, T!ServerStep, T!Handle, Handles
<1>3. ASSUME NEW m \in calls, Serve(m) PROVE KnownInv'
  <2>1. UNCHANGED <<peers, life, incoming>>
    BY <1>3 DEF Serve, CutOff, T!LoseConnection, T!serverVars, T!lifeVars, trackerVars
  <2>2. \A c \in Clients : pc'[c] \in {pc[c], "gone"}
    <3>1. m.to \in Clients
      BY PartyTypes DEF TypesInv
    <3> QED
      BY <1>3, <3>1 DEF Serve, Goto, TypesInv, AppTypes, appVars
  <2> QED
    BY <1>3, <2>1, <2>2, ServePlace, OwnKeepsKnown
<1>4. CASE UNCHANGED vars
  <2>1. \A c \in Clients : SamePlace(c)
    BY <1>4 DEF vars, appVars, trackerVars, SamePlace
  <2> QED
    BY <1>4, <2>1, SameIsOwn, OwnKeepsKnown DEF vars, appVars, trackerVars
<1> QED
  BY <1>1, <1>2, <1>3, <1>4 DEF Next, ClientStep

LEMMA KnownInit == Init => KnownInv
<1> SUFFICES ASSUME Init PROVE KnownInv
  OBVIOUS
<1>1. Chains = {}
  BY DEF Init, P!Init, Chains
<1>2. \A c \in Clients : pc[c] = "new"
  BY DEF Init
<1> QED
  BY <1>1, <1>2
     DEF KnownInv, FoundersGoneOn, Known, ListsItself, Admitted, AdmittedAt, Sole

LEMMA KnownInvariant == Spec => [](TypesInv /\ Discipline /\ KnownInv)
BY TypesInit, TypesStep, DisciplineInit, DisciplineStep, KnownInit, KnownStep, PTL DEF Spec

\* A client finds itself in every list it is sent: it is registered before it
\* asks, and whatever is registered stays while the tracker lives; a tracker
\* started again never answers a client that came to it before.
THEOREM ListsHoldTheAsker == Spec => []ListsItself
<1>1. KnownInv => ListsItself
  BY DEF KnownInv
<1> QED
  BY <1>1, KnownInvariant, PTL

\* With any number of threads and whatever fails, the chains founded in one
\* life of the tracker are all founded under one identity: of two clients that
\* register, the later one's list holds the earlier one.
THEOREM OneIdentityFounds == Spec => []FoundersShareIdentity
<1>1. TypesInv /\ KnownInv => FoundersShareIdentity
  <2> SUFFICES ASSUME TypesInv, KnownInv, NEW x \in Chains, NEW y \in Chains,
                      since[x[1]] = since[y[1]]
               PROVE  KeyOf[x[1]] = KeyOf[y[1]]
    BY DEF FoundersShareIdentity
  <2>1. PICK c \in Clients, d \in Clients : x = <<c>> /\ y = <<d>>
    BY ChainsAre DEF TypesInv
  <2>2. Sole(c) /\ Sole(d) /\ x[1] = c /\ y[1] = d
    BY <2>1 DEF Sole
  <2> QED
    BY <2>2 DEF KnownInv, Known
<1> QED
  BY <1>1, KnownInvariant, PTL

(* ------------------------- one chain in a life ------------------------- *)

OneWorker == \A v, w \in Workers : v = w
Distinct == \A c, d \in Clients : KeyOf[c] = KeyOf[d] => c = d

\* With one thread nobody registers between Find and AddPeer, so an identity is
\* admitted once in a life.
Gap == \A w \in Workers : job[w] # Idle => ~Find(peers, job[w].info)
AdmitOnce ==
  \A c, d \in Clients :
    Admitted(c) /\ Admitted(d) /\ since[c] = since[d] /\ KeyOf[c] = KeyOf[d] => c = d
Once == Gap /\ AdmitOnce

LEMMA OwnKeepsOnce ==
  ASSUME Once, \A c \in Clients : OwnPlace(c), UNCHANGED <<peers, job>>
  PROVE  Once'
BY DEF Once, Gap, AdmitOnce, OwnPlace

LEMMA OnceStep ==
  ASSUME OneWorker, TypesInv, Discipline, KnownInv, Once, [Next]_vars
  PROVE  Once'
<1> USE DEF KnownInv
<1>1. ASSUME NEW e \in Clients, ClientStep(e) PROVE Once'
  <2>1. UNCHANGED <<peers, job, grants, life>>
    BY <1>1, ClientKeepsServer
  <2> QED
    BY <1>1, <2>1, ClientPlace, OwnKeepsOnce
<1>2. ASSUME NEW w \in Workers, NEW c \in Clients, Handles(w, c),
             UNCHANGED <<appVars, peersVars>>
      PROVE  Once'
  <2>1. UNCHANGED <<peers, pc, since, Chains>>
    BY <1>2, HandlePlace, DispatchEffect DEF TypesInv
  <2>2. \A d \in Clients : Admitted(d)' => Admitted(d)
    <3>1. ASSUME NEW d \in Clients, d # c PROVE Admitted(d)' => Admitted(d)
      <4>1. incoming'[d] = incoming[d]
        BY <1>2, <3>1, HandleStays DEF Stays, TypesInv
      <4> QED
        BY <2>1, <4>1 DEF Admitted
    <3> QED
      BY <1>2, <3>1, HandlePlace
  <2>3. Gap'
    <3>1. UNCHANGED job \/ \E i : Suspended(w, c, i)
      BY <1>2, HandleEffect DEF TypesInv, Answered
    <3>2. ASSUME NEW i, Suspended(w, c, i) PROVE Gap'
      <4>1. \A v \in Workers : job'[v].info = i
        BY <3>2 DEF OneWorker, Suspended
      <4>2. ~Find(peers, i)
        BY <3>2 DEF Suspended
      <4> QED
        BY <2>1, <4>1, <4>2 DEF Gap, Find, KeysOf
    <3>3. CASE UNCHANGED job
      BY <2>1, <3>3 DEF Once, Gap, Find, KeysOf
    <3> QED
      BY <3>1, <3>2, <3>3
  <2> QED
    BY <2>1, <2>2, <2>3 DEF Once, AdmitOnce
<1>3. ASSUME NEW w \in Workers, T!RegistrationAdd(w), UNCHANGED <<appVars, peersVars>>
      PROVE  Once'
  <2>1. UNCHANGED <<pc, since>> /\ job'[w] = Idle
    BY <1>3, AddEffect DEF TypesInv, appVars
  <2>2. Gap'
    BY <2>1 DEF OneWorker, Gap
  <2>3. job[w].info.key \notin KeysOf(peers)
    BY <1>3 DEF Once, Gap, Find, T!RegistrationAdd
  <2>4. ASSUME NEW d \in Clients, Admitted(d), since[d] = life
        PROVE  KeyOf[d] # job[w].info.key
    BY <2>3, <2>4 DEF KnownInv, Known
  <2>5. \A d \in Clients :
          Admitted(d)' => \/ Admitted(d)
                          \/ d = job[w].client /\ job[w].info.key = KeyOf[d] /\ since[d] = life
    BY <1>3, AddPlace
  <2>6. ASSUME NEW c \in Clients, NEW d \in Clients, Admitted(c)', Admitted(d)',
               since[c] = since[d], KeyOf[c] = KeyOf[d]
        PROVE  c = d
    <3>1. Admitted(c) /\ Admitted(d) => c = d
      BY <2>6 DEF Once, AdmitOnce
    <3> QED
      BY <2>4, <2>5, <2>6, <3>1
  <2>7. AdmitOnce'
    BY <2>1, <2>6 DEF AdmitOnce
  <2> QED
    BY <2>2, <2>7 DEF Once
<1>4. ASSUME T!Restart, UNCHANGED <<appVars, peersVars>> PROVE Once'
  <2>1. /\ UNCHANGED <<pc, incoming, since, Chains>>
        /\ \A w \in Workers : job'[w] = Idle
    BY <1>4 DEF T!Restart, appVars, peersVars, Chains
  <2> QED
    BY <2>1 DEF Once, Gap, AdmitOnce, Admitted
<1>5. ASSUME NEW m \in calls, Serve(m) PROVE Once'
  <2>1. UNCHANGED <<peers, job>>
    BY <1>5 DEF Serve, CutOff, T!LoseConnection, T!serverVars, trackerVars
  <2> QED
    BY <1>5, <2>1, ServePlace, OwnKeepsOnce
<1>6. CASE UNCHANGED vars
  <2>1. \A c \in Clients : SamePlace(c)
    BY <1>6 DEF vars, appVars, trackerVars, SamePlace
  <2> QED
    BY <1>6, <2>1, SameIsOwn, OwnKeepsOnce DEF vars, trackerVars
<1> QED
  BY <1>1, <1>2, <1>3, <1>4, <1>5, <1>6
     DEF Next, ClientStep, TrackerStep, T!ServerStep, T!Handle, Handles

LEMMA OnceInit == Init => Once
<1> SUFFICES ASSUME Init PROVE Once
  OBVIOUS
<1>1. Chains = {}
  BY DEF Init, P!Init, Chains
<1>2. (\A c \in Clients : pc[c] = "new") /\ \A w \in Workers : job[w] = Idle
  BY DEF Init, T!Init
<1> QED
  BY <1>1, <1>2 DEF Once, Gap, AdmitOnce, Admitted, AdmittedAt

LEMMA SharedIsSame ==
  ASSUME TypesInv, KnownInv, AdmitOnce
  PROVE  Agreement
<1> SUFFICES ASSUME NEW x \in Chains, NEW y \in Chains, since[x[1]] = since[y[1]]
             PROVE  x = y
  BY DEF Agreement
<1>1. PICK c \in Clients, d \in Clients : x = <<c>> /\ y = <<d>>
  BY ChainsAre DEF TypesInv
<1>2. Sole(c) /\ Sole(d) /\ x[1] = c /\ y[1] = d
  BY <1>1 DEF Sole
<1>3. KeyOf[c] = KeyOf[d]
  BY <1>2 DEF KnownInv, Known
<1>4. Admitted(c) /\ Admitted(d)
  BY <1>2, SoleIsAdmitted
<1> QED
  BY <1>1, <1>2, <1>3, <1>4 DEF AdmitOnce

\* Whenever the tracker has one thread, or no two runs of a client share an
\* address, port and username, the clients that came to it in one of its lives
\* have one chain at most, however their start-ups interleave and whatever
\* times out, breaks or ends.
THEOREM OneChain ==
  ASSUME OneWorker \/ Distinct
  PROVE  Spec => []Agreement
<1>1. CASE Distinct
  <2>1. AdmitOnce
    BY <1>1 DEF Distinct, AdmitOnce
  <2> QED
    BY <2>1, SharedIsSame, KnownInvariant, PTL
<1>2. CASE OneWorker
  <2>1. TypesInv /\ Discipline /\ KnownInv /\ Once /\ [Next]_vars => Once'
    BY <1>2, OnceStep
  <2>2. Spec => []Once
    BY <2>1, KnownInvariant, OnceInit, PTL DEF Spec
  <2>3. TypesInv /\ KnownInv /\ Once => Agreement
    BY SharedIsSame DEF Once
  <2> QED
    BY <2>2, <2>3, KnownInvariant, PTL
<1> QED
  BY <1>1, <1>2

(* ------------------------- chains and threads -------------------------- *)

\* The runs the tracker admitted in its life l under the identity k, and the
\* threads that have admitted one under k in this life.
Admits(l, k) == {c \in Clients : Admitted(c) /\ since[c] = l /\ KeyOf[c] = k}
Granters(k) == {w \in Workers : grants[<<w, k>>] # 0}

\* A thread that has admitted an identity finds it listed, so none is about to
\* admit the same one again: one run at most for each thread.
Granting ==
  /\ \A w \in Workers, k \in Keys : grants[<<w, k>>] # 0 => k \in KeysOf(peers)
  /\ \A w \in Workers : job[w] # Idle => grants[<<w, job[w].info.key>>] = 0
FewAdmits ==
  \A l \in Nat, k \in Keys :
    /\ IsFiniteSet(Admits(l, k))
    /\ Cardinality(Admits(l, k)) <=
         IF l = life THEN Cardinality(Granters(k)) ELSE Cardinality(Workers)
GrantInv == Granting /\ FewAdmits

LEMMA GrantersFinite ==
  ASSUME NEW k
  PROVE  /\ IsFiniteSet(Granters(k)) /\ Cardinality(Granters(k)) \in Nat
         /\ Cardinality(Granters(k)) <= Cardinality(Workers)
<1>1. Granters(k) \in SUBSET Workers
  BY DEF Granters
<1> QED
  BY <1>1, WorkersAssumption, FS_Subset, FS_CardinalityType

\* Whoever is admitted after a step was before, and in the same life.
LEMMA FewStay ==
  ASSUME GrantInv, \A c \in Clients : Admitted(c)' => Admitted(c) /\ since'[c] = since[c],
         UNCHANGED <<grants, life>>
  PROVE  FewAdmits'
<1> SUFFICES ASSUME NEW l \in Nat, NEW k \in Keys
             PROVE  /\ IsFiniteSet(Admits(l, k)')
                    /\ Cardinality(Admits(l, k)') <=
                         IF l = life' THEN Cardinality(Granters(k)') ELSE Cardinality(Workers)
  BY DEF FewAdmits
<1>1. Admits(l, k)' \in SUBSET Admits(l, k)
  BY DEF Admits
<1>2. /\ IsFiniteSet(Admits(l, k))
      /\ Cardinality(Admits(l, k)) <=
           IF l = life THEN Cardinality(Granters(k)) ELSE Cardinality(Workers)
  BY DEF GrantInv, FewAdmits
<1>3. IsFiniteSet(Admits(l, k)') /\ Cardinality(Admits(l, k)') <= Cardinality(Admits(l, k))
  BY <1>1, <1>2, FS_Subset
<1>4. /\ Cardinality(Admits(l, k)') \in Nat /\ Cardinality(Admits(l, k)) \in Nat
      /\ Cardinality(Granters(k)) \in Nat /\ Cardinality(Workers) \in Nat
  BY <1>2, <1>3, FS_CardinalityType, GrantersFinite, WorkersAssumption
<1>5. Granters(k)' = Granters(k) /\ life' = life
  BY DEF Granters
<1> QED
  BY <1>2, <1>3, <1>4, <1>5

LEMMA OwnKeepsGrants ==
  ASSUME GrantInv, \A c \in Clients : OwnPlace(c), UNCHANGED <<peers, job, grants, life>>
  PROVE  GrantInv'
<1>1. FewAdmits'
  BY FewStay DEF OwnPlace
<1>2. Granting'
  BY DEF GrantInv, Granting
<1> QED
  BY <1>1, <1>2 DEF GrantInv

LEMMA HandleKeepsGrants ==
  ASSUME TypesInv, Discipline, GrantInv, NEW w \in Workers, NEW c \in Clients, Handles(w, c),
         UNCHANGED <<appVars, peersVars>>
  PROVE  GrantInv'
<1>1. UNCHANGED <<peers, grants, life, pc, since, Chains>>
  BY HandlePlace, DispatchEffect DEF TypesInv
<1>2. \A d \in Clients : Admitted(d)' => Admitted(d)
  <2>1. ASSUME NEW d \in Clients, d # c PROVE Admitted(d)' => Admitted(d)
    <3>1. incoming'[d] = incoming[d]
      BY <2>1, HandleStays DEF Stays, TypesInv
    <3> QED
      BY <1>1, <3>1 DEF Admitted
  <2> QED
    BY <2>1, HandlePlace
<1>3. FewAdmits'
  BY <1>1, <1>2, FewStay
<1>4. Granting'
  <2>1. UNCHANGED job \/ \E i \in Head(requests[c]).body : Suspended(w, c, i)
    BY HandleEffect DEF TypesInv, Answered
  <2>2. ASSUME NEW i \in Head(requests[c]).body, Suspended(w, c, i) PROVE Granting'
    <3>1. i.key = KeyOf[c] /\ i.key \in Keys
      <4>1. 1 \in DOMAIN requests[c] /\ Head(requests[c]) = requests[c][1]
        BY DispatchEffect DEF TypesInv, TrackerTypes
      <4> QED
        BY <2>2, <4>1, KeyOfAssumption DEF Discipline, Orderly, Bound
    <3>2. i.key \notin KeysOf(peers)
      BY <2>2 DEF Suspended, Find
    <3>3. \A v \in Workers : grants[<<v, i.key>>] = 0
      BY <3>1, <3>2 DEF GrantInv, Granting
    <3> QED
      BY <1>1, <2>2, <3>3 DEF GrantInv, Granting, Suspended
  <2>3. CASE UNCHANGED job
    BY <1>1, <2>3 DEF GrantInv, Granting
  <2> QED
    BY <2>1, <2>2, <2>3
<1> QED
  BY <1>3, <1>4 DEF GrantInv

\* The only step that admits: a thread answers SUCCESS, its first under that key.
LEMMA AddKeepsGrants ==
  ASSUME TypesInv, Discipline, GrantInv, NEW w \in Workers, T!RegistrationAdd(w),
         UNCHANGED <<appVars, peersVars>>
  PROVE  GrantInv'
<1> DEFINE key == job[w].info.key
           c == job[w].client
<1>1. /\ UNCHANGED <<pc, since, life, Chains>>
      /\ job[w] # Idle /\ job'[w] = Idle
      /\ \A v \in Workers : v # w => job'[v] = job[v]
      /\ KeysOf(peers') = KeysOf(peers) \union {key}
  <2>1. UNCHANGED <<pc, Chains>> /\ job[w] # Idle
    BY DEF appVars, peersVars, Chains, T!RegistrationAdd
  <2> QED
    BY <2>1, AddEffect DEF TypesInv
<1>2. c \in Clients /\ key \in Keys /\ grants[<<w, key>>] = 0
  BY <1>1, AddEffect DEF TypesInv, Job, PeerInfo, GrantInv, Granting
<1>3. \A v \in Workers, k \in Keys :
        grants'[<<v, k>>] = IF v = w /\ k = key THEN 1 ELSE grants[<<v, k>>]
  <2>1. grants' = [grants EXCEPT ![<<w, key>>] = 0 + 1]
    BY <1>2 DEF T!RegistrationAdd
  <2>2. grants \in [Workers \X Keys -> Nat]
    BY DEF TypesInv, TrackerTypes
  <2> HIDE DEF key
  <2> QED
    BY <2>1, <2>2
<1>4. Granting'
  <2>1. \A v \in Workers, k \in Keys : grants'[<<v, k>>] # 0 => k \in KeysOf(peers')
    BY <1>1, <1>3 DEF GrantInv, Granting
  <2>2. ASSUME NEW v \in Workers, job'[v] # Idle PROVE grants'[<<v, job'[v].info.key>>] = 0
    <3>1. v # w /\ job'[v] = job[v]
      BY <1>1, <2>2
    <3>2. job[v].info.key \in Keys
      BY <2>2, <3>1 DEF TypesInv, TrackerTypes, Job, PeerInfo
    <3> QED
      BY <1>3, <2>2, <3>1, <3>2 DEF GrantInv, Granting
  <2> QED
    BY <2>1, <2>2 DEF Granting
<1>5. ASSUME NEW l \in Nat, NEW k \in Keys
      PROVE  /\ IsFiniteSet(Admits(l, k)')
             /\ Cardinality(Admits(l, k)') <=
                  IF l = life' THEN Cardinality(Granters(k)') ELSE Cardinality(Workers)
  <2>1. /\ IsFiniteSet(Admits(l, k)) /\ Cardinality(Admits(l, k)) \in Nat
        /\ Cardinality(Admits(l, k)) <=
             IF l = life THEN Cardinality(Granters(k)) ELSE Cardinality(Workers)
    BY FS_CardinalityType DEF GrantInv, FewAdmits
  <2>2. \A d \in Clients :
          Admitted(d)' => Admitted(d) \/ (d = c /\ key = KeyOf[d] /\ since[d] = life)
    BY AddPlace
  <2>3. CASE l = life /\ k = key
    <3>1. Admits(l, k)' \in SUBSET (Admits(l, k) \union {c})
      BY <1>1, <2>2 DEF Admits
    <3>2. Granters(k)' = Granters(k) \union {w} /\ w \notin Granters(k)
      BY <1>2, <1>3, <2>3 DEF Granters
    <3>3. /\ IsFiniteSet(Admits(l, k) \union {c})
          /\ Cardinality(Admits(l, k) \union {c}) \in Nat
          /\ Cardinality(Admits(l, k) \union {c}) <= Cardinality(Admits(l, k)) + 1
      <4>1. /\ IsFiniteSet(Admits(l, k) \union {c})
            /\ Cardinality(Admits(l, k) \union {c}) =
                 IF c \in Admits(l, k) THEN Cardinality(Admits(l, k))
                                       ELSE Cardinality(Admits(l, k)) + 1
        BY <2>1, FS_AddElement
      <4> QED
        BY <2>1, <4>1
    <3>4. /\ IsFiniteSet(Admits(l, k)') /\ Cardinality(Admits(l, k)') \in Nat
          /\ Cardinality(Admits(l, k)') <= Cardinality(Admits(l, k) \union {c})
      BY <3>1, <3>3, FS_Subset, FS_CardinalityType
    <3>5. /\ Cardinality(Granters(k)) \in Nat
          /\ Cardinality(Granters(k)') = Cardinality(Granters(k)) + 1
      BY <3>2, GrantersFinite, FS_AddElement
    <3> QED
      BY <1>1, <2>1, <2>3, <3>3, <3>4, <3>5
  <2>4. CASE ~(l = life /\ k = key)
    <3>1. Admits(l, k)' \in SUBSET Admits(l, k)
      BY <1>1, <2>2, <2>4 DEF Admits
    <3>2. /\ IsFiniteSet(Admits(l, k)') /\ Cardinality(Admits(l, k)') \in Nat
          /\ Cardinality(Admits(l, k)') <= Cardinality(Admits(l, k))
      BY <2>1, <3>1, FS_Subset, FS_CardinalityType
    <3>3. l = life => Granters(k)' = Granters(k)
      BY <1>3, <2>4 DEF Granters
    <3>4. Cardinality(Granters(k)) \in Nat /\ Cardinality(Workers) \in Nat
      BY GrantersFinite, WorkersAssumption, FS_CardinalityType
    <3> QED
      BY <1>1, <2>1, <3>2, <3>3, <3>4
  <2> QED
    BY <2>3, <2>4
<1> QED
  BY <1>4, <1>5 DEF GrantInv, FewAdmits

\* In its next life the tracker has admitted nobody yet.
LEMMA RestartKeepsGrants ==
  ASSUME TypesInv, Discipline, GrantInv, T!Restart, UNCHANGED <<appVars, peersVars>>
  PROVE  GrantInv'
<1>1. /\ UNCHANGED <<pc, incoming, since, Chains>> /\ life' = life + 1
      /\ \A w \in Workers : job'[w] = Idle
      /\ grants' = [wk \in Workers \X Keys |-> 0]
  BY DEF T!Restart, appVars, peersVars, Chains
<1>2. Granting'
  BY <1>1 DEF Granting
<1>3. ASSUME NEW l \in Nat, NEW k \in Keys
      PROVE  /\ IsFiniteSet(Admits(l, k)')
             /\ Cardinality(Admits(l, k)') <=
                  IF l = life' THEN Cardinality(Granters(k)') ELSE Cardinality(Workers)
  <2>1. /\ IsFiniteSet(Admits(l, k)) /\ Cardinality(Admits(l, k)) \in Nat
        /\ Cardinality(Admits(l, k)) <=
             IF l = life THEN Cardinality(Granters(k)) ELSE Cardinality(Workers)
    BY FS_CardinalityType DEF GrantInv, FewAdmits
  <2>2. Admits(l, k)' = Admits(l, k)
    BY <1>1 DEF Admits, Admitted
  <2>3. CASE l = life'
    <3>1. Admits(l, k) = {}
      BY <1>1, <2>3 DEF Admits, Discipline, Orderly, Bound, TypesInv, TrackerTypes
    <3>2. Granters(k)' = {}
      BY <1>1 DEF Granters
    <3>3. IsFiniteSet({}) /\ Cardinality({}) = 0
      BY FS_EmptySet
    <3>4. Admits(l, k)' = {}
      BY <2>2, <3>1
    <3>5. Cardinality(Granters(k)') = 0
      BY <3>2, <3>3
    <3> QED
      BY <2>3, <3>3, <3>4, <3>5
  <2>4. CASE l # life'
    BY <2>1, <2>2, <2>4, GrantersFinite, WorkersAssumption, FS_CardinalityType
  <2> QED
    BY <2>3, <2>4
<1> QED
  BY <1>2, <1>3 DEF GrantInv, FewAdmits

LEMMA GrantStep == TypesInv /\ Discipline /\ KnownInv /\ GrantInv /\ [Next]_vars => GrantInv'
<1> SUFFICES ASSUME TypesInv, Discipline, KnownInv, GrantInv, [Next]_vars PROVE GrantInv'
  OBVIOUS
<1> USE DEF KnownInv
<1>1. ASSUME NEW e \in Clients, ClientStep(e) PROVE GrantInv'
  <2>1. UNCHANGED <<peers, job, grants, life>>
    BY <1>1, ClientKeepsServer
  <2> QED
    BY <1>1, <2>1, ClientPlace, OwnKeepsGrants
<1>2. CASE TrackerStep
  BY <1>2, HandleKeepsGrants, AddKeepsGrants, RestartKeepsGrants
     DEF TrackerStep, T!ServerStep, T!Handle, Handles
<1>3. ASSUME NEW m \in calls, Serve(m) PROVE GrantInv'
  <2>1. UNCHANGED <<peers, job, grants, life>>
    BY <1>3 DEF Serve, CutOff, T!LoseConnection, T!serverVars, T!lifeVars, trackerVars
  <2> QED
    BY <1>3, <2>1, ServePlace, OwnKeepsGrants
<1>4. CASE UNCHANGED vars
  <2>1. \A c \in Clients : SamePlace(c)
    BY <1>4 DEF vars, appVars, trackerVars, SamePlace
  <2> QED
    BY <1>4, <2>1, SameIsOwn, OwnKeepsGrants DEF vars, trackerVars
<1> QED
  BY <1>1, <1>2, <1>3, <1>4 DEF Next, ClientStep

LEMMA GrantInit == Init => GrantInv
<1> SUFFICES ASSUME Init PROVE GrantInv
  OBVIOUS
<1>1. Chains = {}
  BY DEF Init, P!Init, Chains
<1>2. /\ \A c \in Clients : pc[c] = "new"
      /\ \A w \in Workers : job[w] = Idle
      /\ grants = [wk \in Workers \X Keys |-> 0]
  BY DEF Init, T!Init
<1>3. Granting
  BY <1>2 DEF Granting
<1>4. \A l, k : Admits(l, k) = {}
  BY <1>1, <1>2 DEF Admits, Admitted, AdmittedAt
<1>5. /\ \A k : Cardinality(Granters(k)) \in Nat
      /\ Cardinality(Workers) \in Nat
      /\ IsFiniteSet({}) /\ Cardinality({}) = 0
  BY GrantersFinite, WorkersAssumption, FS_CardinalityType, FS_EmptySet
<1>6. FewAdmits
  BY <1>4, <1>5 DEF FewAdmits
<1> QED
  BY <1>3, <1>6 DEF GrantInv

\* Each of the chains of a life is that of a run the tracker admitted in it, all
\* of them under one identity.
LEMMA ChainsAreFew ==
  ASSUME TypesInv, KnownInv, GrantInv, NEW l \in 1..life
  PROVE  Cardinality({x \in Chains : since[x[1]] = l}) <= Cardinality(Workers)
<1> DEFINE S == {x \in Chains : since[x[1]] = l}
<1>1. Cardinality(Workers) \in Nat /\ l \in Nat
  BY WorkersAssumption, FS_CardinalityType DEF TypesInv, TrackerTypes
<1>2. CASE S = {}
  <2>1. Cardinality(S) = 0
    BY <1>2, FS_EmptySet
  <2> QED
    BY <1>1, <2>1
<1>3. CASE S # {}
  <2>1. PICK y : y \in Chains /\ since[y[1]] = l
    BY <1>3
  <2> DEFINE k == KeyOf[y[1]]
             T1 == Admits(l, k)
  <2>2. PICK d \in Clients : y = <<d>>
    BY <2>1, ChainsAre DEF TypesInv
  <2>3. k \in Keys /\ y[1] = d /\ since[d] = l
    BY <2>1, <2>2, KeyOfAssumption
  <2>4. ASSUME NEW x \in S
        PROVE  x[1] \in T1 /\ x = <<x[1]>>
    <3>1. PICK c \in Clients : x = <<c>>
      BY <2>4, ChainsAre DEF TypesInv
    <3>2. Sole(c) /\ Sole(d) /\ x[1] = c /\ since[c] = l
      BY <2>1, <2>2, <2>4, <3>1 DEF Sole
    <3>3. KeyOf[c] = k /\ Admitted(c)
      BY <2>3, <3>2, SoleIsAdmitted DEF KnownInv, Known
    <3> QED
      BY <3>1, <3>2, <3>3 DEF Admits
  <2>5. /\ IsFiniteSet(T1) /\ Cardinality(T1) \in Nat
        /\ Cardinality(T1) <= Cardinality(Workers)
    <3>1. /\ IsFiniteSet(T1)
          /\ Cardinality(T1) <=
               IF l = life THEN Cardinality(Granters(k)) ELSE Cardinality(Workers)
      BY <1>1, <2>3 DEF GrantInv, FewAdmits
    <3> HIDE DEF T1, k
    <3> QED
      BY <1>1, <3>1, GrantersFinite, FS_CardinalityType
  <2> HIDE DEF S, T1
  <2> DEFINE f == [x \in S |-> x[1]]
  <2>6. f \in Injection(S, T1)
    <3>1. f \in [S -> T1] /\ \A x, z \in S : f[x] = f[z] => x = z
      BY <2>4
    <3> HIDE DEF f
    <3> QED
      BY <3>1 DEF Injection, IsInjective
  <2>7. IsFiniteSet(S) /\ Cardinality(S) <= Cardinality(T1)
    BY <2>5, <2>6, FS_Injection
  <2>8. Cardinality(S) \in Nat
    BY <2>7, FS_CardinalityType
  <2>9. Cardinality(S) <= Cardinality(Workers)
    BY <1>1, <2>5, <2>7, <2>8
  <2> QED
    BY <2>9 DEF S
<1> QED
  BY <1>2, <1>3

\* However many runs share an identity and race for it, there are no more chains
\* of a life of the tracker than its pool has threads: a thread that has answered
\* SUCCESS to an identity finds it in the container ever after, and all chains of
\* a life are founded under one identity.
THEOREM ForksAreBounded == Spec => []ForksBounded
<1>1. TypesInv /\ KnownInv /\ GrantInv => ForksBounded
  BY ChainsAreFew DEF ForksBounded
<1> QED
  BY <1>1, KnownInvariant, GrantInit, GrantStep, PTL DEF Spec
=============================================================================
