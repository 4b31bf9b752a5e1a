------------------------- MODULE DopechainAppProofs -------------------------
(***************************************************************************)
(* Theorems of DopechainApp, for any number of clients, pool threads,      *)
(* identities and restarts, and whatever fails.                            *)
(***************************************************************************)
EXTENDS DopechainApp, TLAPS

Job == [client : Clients, info : PeerInfo]

(* The definitions of the container and of messages are those of Tracker. *)
LEMMA SameDefinitions ==
  /\ T!PeerInfo = PeerInfo /\ T!Message = Message
  /\ \A set, i : T!Find(set, i) = Find(set, i) /\ T!AddPeer(set, i) = AddPeer(set, i)
  /\ \A type, status, data : T!Create(type, status, data) = Create(type, status, data)
  /\ \A key : T!GenerateUuidPeer(key) = GenerateUuidPeer(key)
BY DEF T!PeerInfo, PeerInfo, T!Message, Message, T!Types, Types, T!Statuses, Statuses,
       T!Find, Find, T!KeysOf, KeysOf, T!AddPeer, AddPeer, T!Create, Create,
       T!GenerateUuidPeer, GenerateUuidPeer

LEMMA MessageTypes ==
  ASSUME NEW data \in SUBSET PeerInfo
  PROVE  /\ Create("SERVER_PING", "CLIENT_STATUS", {}) \in Message
         /\ Create("SERVER_PING", "SUCCESS", {}) \in Message
         /\ Create("REGISTRATION_PEER", "CLIENT_STATUS", data) \in Message
         /\ Create("REGISTRATION_PEER", "FAILURE", {}) \in Message
         /\ Create("REGISTRATION_PEER", "SUCCESS", data) \in Message
         /\ Create("PEERS_LIST", "CLIENT_STATUS", {}) \in Message
BY DEF Create, Message, Types, Statuses

LEMMA AddPeerFacts ==
  ASSUME NEW set \in SUBSET PeerInfo, NEW i \in PeerInfo
  PROVE  /\ AddPeer(set, i) \in SUBSET PeerInfo
         /\ KeysOf(AddPeer(set, i)) = KeysOf(set) \union {i.key}
         /\ AddPeer(set, i) \subseteq set \union {i}
BY DEF AddPeer, Find, KeysOf

(* ------------------------- the tracker's part -------------------------- *)

\* What the application does with the tracker in a step.
Emptied(c) ==
  /\ incoming' = [incoming EXCEPT ![c] = <<>>]
  /\ UNCHANGED <<peers, job, conn, requests, grants, life, since>>

TrackerPart ==
  \/ \E w \in Workers : T!RegistrationAdd(w)
  \/ \E w \in Workers, c \in Clients :
       T!HandlePing(w, c) \/ T!HandlePeersList(w, c) \/ T!RegistrationFind(w, c)
  \/ \E c \in Clients :
       \/ T!Connect(c) \/ T!ServerPing(c) \/ T!PeersList(c)
       \/ \E i \in PeerInfo : T!Registration(c, i)
       \/ T!WaitingResponse(c) \/ T!LoseConnection(c) \/ Emptied(c)
  \/ T!Restart
  \/ UNCHANGED trackerVars

\* ... and with the peers.
PeersPart ==
  \/ \E c \in Clients :
       \/ P!Start(c) \/ P!Genesis(c) \/ P!Join(c)
       \/ P!SyncStep(c) \/ P!MissVersion(c) \/ P!MissChain(c) \/ P!Exit(c)
       \/ \E d \in Clients : P!Connect(c, d) \/ P!Break(c, d)
  \/ \E m \in calls : P!BlockchainVersion(m) \/ P!BlockchainSync(m) \/ P!BlockchainSyncCrash(m)
  \/ UNCHANGED peersVars

LEMMA Parts ==
  ASSUME TypeOK, [Next]_vars
  PROVE  TrackerPart /\ PeersPart
<1> USE DEF TrackerPart, PeersPart, TrackerCall, PeersCall
<1>1. ASSUME NEW c \in Clients, Connect(c) PROVE TrackerPart /\ PeersPart
  BY <1>1 DEF Connect
<1>2. ASSUME NEW c \in Clients, MainStep(c) PROVE TrackerPart /\ PeersPart
  <2>1. CASE Ping(c) \/ Register(c) \/ List(c)
    BY <2>1 DEF Ping, Register, List
  <2>2. CASE TakeStatus(c, "pinging", "register") \/ TakeStatus(c, "registering", "start")
             \/ TakeList(c)
    BY <2>2 DEF TakeStatus, TakeList
  <2>3. CASE StartServer(c) \/ ConnectPeer(c) \/ SyncStep(c)
    BY <2>3 DEF StartServer, ConnectPeer, SyncStep
  <2>4. CASE InitializeChain(c)
    BY <2>4 DEF InitializeChain
  <2>5. CASE Initialized(c) \/ Fail(c) \/ Timeout(c)
    BY <2>5 DEF Initialized, Fail, Timeout
  <2>6. CASE Update(c)
    BY <2>6 DEF Update, Emptied
  <2> QED
    BY <1>2, <2>1, <2>2, <2>3, <2>4, <2>5, <2>6 DEF MainStep
<1>3. ASSUME NEW c \in Clients, Miss(c) PROVE TrackerPart /\ PeersPart
  BY <1>3 DEF Miss
<1>4. ASSUME NEW c \in Clients, Exit(c) \/ LoseConnection(c) \/ BreakPeer(c)
      PROVE  TrackerPart /\ PeersPart
  BY <1>4 DEF Exit, CutOff, LoseConnection, BreakPeer
<1>5. CASE TrackerStep
  BY <1>5 DEF TrackerStep, T!ServerStep, T!Handle
<1>6. ASSUME NEW m \in calls, Serve(m) PROVE TrackerPart /\ PeersPart
  <2>1. m.to \in Clients
    BY DEF TypeOK, P!TypeOK, P!Request
  <2> QED
    BY <1>6, <2>1 DEF Serve, CutOff
<1>7. CASE UNCHANGED vars
  BY <1>7 DEF vars
<1> QED
  BY <1>1, <1>2, <1>3, <1>4, <1>5, <1>6, <1>7 DEF Next

(* ------------------------- type correctness ---------------------------- *)

\* T!TypeOK in this module's names.
TrackerTypes ==
  /\ peers \in SUBSET PeerInfo
  /\ job \in [Workers -> Job \union {Idle}]
  /\ conn \in [Clients -> {"new", "up", "lost"}]
  /\ requests \in [Clients -> Seq(Message)]
  /\ incoming \in [Clients -> Seq(Message)]
  /\ grants \in [Workers \X Keys -> Nat]
  /\ life \in Nat
  /\ since \in [Clients -> Nat]

LEMMA TrackerTypesAre == TrackerTypes <=> T!TypeOK
BY SameDefinitions DEF TrackerTypes, T!TypeOK, Job

LEMMA SendKeepsTypes ==
  ASSUME TrackerTypes, NEW c \in Clients, NEW msg \in Message, T!Send(c, msg)
  PROVE  TrackerTypes'
BY DEF TrackerTypes, T!Send, T!serverVars, T!lifeVars

LEMMA RespondKeepsTypes ==
  ASSUME TrackerTypes, NEW c \in Clients, NEW msg \in Message, T!Respond(c, msg)
  PROVE  incoming' \in [Clients -> Seq(Message)]
BY DEF TrackerTypes, T!Respond

LEMMA DispatchKeepsTypes ==
  ASSUME TrackerTypes, NEW w \in Workers, NEW c \in Clients, NEW type, T!Dispatch(w, c, type)
  PROVE  /\ requests' \in [Clients -> Seq(Message)]
         /\ Head(requests[c]) \in Message
BY DEF TrackerTypes, T!Dispatch

LEMMA RegistrationInfo ==
  ASSUME NEW c \in Clients, NEW i \in GenerateUuidPeer(KeyOf[c])
  PROVE  i \in PeerInfo /\ i.key = KeyOf[c]
<1>1. KeyOf[c] \in Keys
  BY KeyOfAssumption
<1> QED
  BY <1>1 DEF GenerateUuidPeer, PeerInfo

LEMMA TrackerTypeStep ==
  ASSUME TrackerTypes, TrackerPart
  PROVE  TrackerTypes'
<1> USE DEF T!serverVars, T!lifeVars
<1>1. ASSUME NEW w \in Workers, T!RegistrationAdd(w) PROVE TrackerTypes'
  <2>1. job[w] \in Job
    BY <1>1 DEF TrackerTypes, T!RegistrationAdd
  <2>2. job[w].client \in Clients /\ job[w].info \in PeerInfo /\ job[w].info.key \in Keys
    BY <2>1 DEF Job, PeerInfo
  <2>3. incoming' \in [Clients -> Seq(Message)]
    BY <1>1, <2>2, MessageTypes, SameDefinitions, RespondKeepsTypes DEF T!RegistrationAdd
  <2>4. peers' \in SUBSET PeerInfo
    <3>1. peers' = AddPeer(peers, job[w].info)
      BY <1>1, SameDefinitions DEF T!RegistrationAdd
    <3> QED
      BY <2>2, <3>1, AddPeerFacts DEF TrackerTypes
  <2>5. grants' \in [Workers \X Keys -> Nat]
    BY <1>1, <2>2 DEF T!RegistrationAdd, TrackerTypes
  <2> QED
    BY <1>1, <2>3, <2>4, <2>5 DEF T!RegistrationAdd, TrackerTypes
<1>2. ASSUME NEW w \in Workers, NEW c \in Clients, T!HandlePing(w, c) PROVE TrackerTypes'
  <2>1. incoming' \in [Clients -> Seq(Message)]
    BY <1>2, MessageTypes, SameDefinitions, RespondKeepsTypes DEF T!HandlePing
  <2> QED
    BY <1>2, <2>1, DispatchKeepsTypes DEF T!HandlePing, TrackerTypes
<1>3. ASSUME NEW w \in Workers, NEW c \in Clients, T!HandlePeersList(w, c) PROVE TrackerTypes'
  <2>1. Create("REGISTRATION_PEER", "SUCCESS", peers) \in Message
    BY MessageTypes DEF TrackerTypes
  <2>2. incoming' \in [Clients -> Seq(Message)]
    BY <1>3, <2>1, SameDefinitions, RespondKeepsTypes DEF T!HandlePeersList
  <2> QED
    BY <1>3, <2>2, DispatchKeepsTypes DEF T!HandlePeersList, TrackerTypes
<1>4. ASSUME NEW w \in Workers, NEW c \in Clients, T!RegistrationFind(w, c) PROVE TrackerTypes'
  <2>1. requests' \in [Clients -> Seq(Message)] /\ Head(requests[c]) \in Message
    BY <1>4, DispatchKeepsTypes DEF T!RegistrationFind
  <2>2. PICK i \in Head(requests[c]).body :
          \/ /\ T!Respond(c, T!Create("REGISTRATION_PEER", "FAILURE", {}))
             /\ UNCHANGED job
          \/ /\ job' = [job EXCEPT ![w] = [client |-> c, info |-> i]]
             /\ UNCHANGED incoming
    BY <1>4 DEF T!RegistrationFind
  <2>3. [client |-> c, info |-> i] \in Job
    BY <2>1, <2>2 DEF Message, Job
  <2>4. incoming' \in [Clients -> Seq(Message)]
    BY <2>2, MessageTypes, SameDefinitions, RespondKeepsTypes DEF TrackerTypes
  <2>5. job' \in [Workers -> Job \union {Idle}]
    BY <2>2, <2>3 DEF TrackerTypes
  <2> QED
    BY <1>4, <2>1, <2>4, <2>5 DEF T!RegistrationFind, TrackerTypes
<1>5. ASSUME NEW c \in Clients, T!Connect(c) PROVE TrackerTypes'
  BY <1>5 DEF T!Connect, TrackerTypes
<1>6. ASSUME NEW c \in Clients, T!ServerPing(c) \/ T!PeersList(c) PROVE TrackerTypes'
  BY <1>6, MessageTypes, SameDefinitions, SendKeepsTypes DEF T!ServerPing, T!PeersList
<1>7. ASSUME NEW c \in Clients, NEW i \in PeerInfo, T!Registration(c, i) PROVE TrackerTypes'
  BY <1>7, MessageTypes, SameDefinitions, SendKeepsTypes DEF T!Registration
<1>8. ASSUME NEW c \in Clients, T!WaitingResponse(c) \/ Emptied(c) PROVE TrackerTypes'
  <2>1. incoming[c] \in Seq(Message) /\ <<>> \in Seq(Message)
    BY DEF TrackerTypes
  <2>2. incoming[c] # <<>> => Tail(incoming[c]) \in Seq(Message)
    BY <2>1
  <2>3. incoming' \in [Clients -> Seq(Message)]
    BY <1>8, <2>1, <2>2 DEF T!WaitingResponse, Emptied, TrackerTypes
  <2> QED
    BY <1>8, <2>3 DEF T!WaitingResponse, Emptied, TrackerTypes
<1>9. ASSUME NEW c \in Clients, T!LoseConnection(c) PROVE TrackerTypes'
  <2>1. PICK kept \in {requests[c], <<>>} : requests' = [requests EXCEPT ![c] = kept]
    BY <1>9 DEF T!LoseConnection
  <2>2. requests[c] \in Seq(Message) /\ <<>> \in Seq(Message)
    BY DEF TrackerTypes
  <2>3. requests' \in [Clients -> Seq(Message)]
    BY <2>1, <2>2 DEF TrackerTypes
  <2> QED
    BY <1>9, <2>3 DEF T!LoseConnection, TrackerTypes
<1>10. ASSUME T!Restart PROVE TrackerTypes'
  <2>1. conn' \in [Clients -> {"new", "up", "lost"}]
    BY <1>10 DEF T!Restart, T!Cut, TrackerTypes
  <2>2. /\ peers' \in SUBSET PeerInfo /\ life' \in Nat
        /\ job' \in [Workers -> Job \union {Idle}]
        /\ requests' \in [Clients -> Seq(Message)]
        /\ grants' \in [Workers \X Keys -> Nat]
    BY <1>10 DEF T!Restart, TrackerTypes
  <2> QED
    BY <1>10, <2>1, <2>2 DEF T!Restart, TrackerTypes
<1>11. CASE UNCHANGED trackerVars
  BY <1>11 DEF trackerVars, TrackerTypes
<1> QED
  BY <1>1, <1>2, <1>3, <1>4, <1>5, <1>6, <1>7, <1>8, <1>9, <1>10, <1>11 DEF TrackerPart

\* What P!TypeOK needs to be inductive: the loop over the peers starts at 1.
PeersTypes == P!TypeOK /\ \A c \in Clients : at[c] >= 1

LEMMA ChainLength ==
  ASSUME NEW ch \in P!Chain
  PROVE  Len(ch) \in {0, 1} /\ (Len(ch) = 0 <=> ch = <<>>)
BY DEF P!Chain

LEMMA CurrentIsClient ==
  ASSUME PeersTypes, NEW c \in Clients, at[c] <= Len(peersConnections[c])
  PROVE  P!Current(c) \in Clients /\ at[c] \in DOMAIN peersConnections[c]
BY DEF PeersTypes, P!TypeOK, P!Current

LEMMA IndexTypes ==
  ASSUME PeersTypes, NEW c \in Clients
  PROVE  /\ at[c] \in Nat /\ at[c] >= 1
         /\ DOMAIN peersConnections[c] \subseteq Nat
BY DEF PeersTypes, P!TypeOK

LEMMA PartyTypes ==
  ASSUME PeersTypes, NEW m \in calls
  PROVE  m.from \in Clients /\ m.to \in Clients
BY DEF PeersTypes, P!TypeOK, P!Request

LEMMA AskKeepsTypes ==
  ASSUME PeersTypes, NEW c \in Clients, NEW d \in Clients, NEW type \in {"VERSION", "SYNC"},
         P!Ask(c, d, type)
  PROVE  calls' \in SUBSET P!Request
BY DEF PeersTypes, P!TypeOK, P!Ask, P!Request

LEMMA ReplyKeepsTypes ==
  ASSUME PeersTypes, NEW m \in calls, NEW version \in {0, 1, Torn}, NEW blocks \in P!Chain,
         P!Reply(m, version, blocks)
  PROVE  calls' \in SUBSET P!Request /\ answers' \in SUBSET P!Answer
BY DEF PeersTypes, P!TypeOK, P!Reply, P!Request, P!Answer

LEMMA ExitKeepsTypes ==
  ASSUME PeersTypes, NEW c \in Clients, P!Exit(c)
  PROVE  PeersTypes'
<1>1. <<>> \in P!Chain /\ "gone" \in P!Stages
  BY DEF P!Chain, P!Stages
<1> QED
  BY <1>1 DEF PeersTypes, P!TypeOK, P!Exit

LEMMA PeersTypeStep == PeersTypes /\ PeersPart => PeersTypes'
<1> SUFFICES ASSUME PeersTypes, PeersPart PROVE PeersTypes'
  OBVIOUS
<1> USE DEF PeersTypes, P!chainVars, P!syncVars, P!msgVars
<1>1. ASSUME NEW c \in Clients, P!Start(c) PROVE PeersTypes'
  BY <1>1 DEF P!Start, P!TypeOK
<1>2. ASSUME NEW c \in Clients, NEW d \in Clients, P!Connect(c, d) PROVE PeersTypes'
  BY <1>2 DEF P!Connect, P!TypeOK
<1>3. ASSUME NEW c \in Clients, P!Genesis(c) PROVE PeersTypes'
  BY <1>3 DEF P!Genesis, P!Goto, P!TypeOK, P!Stages, P!Chain
<1>4. ASSUME NEW c \in Clients, P!Join(c) PROVE PeersTypes'
  BY <1>4 DEF P!Join, P!Goto, P!TypeOK, P!Stages
<1>5. ASSUME NEW c \in Clients, P!AskVersion(c) PROVE PeersTypes'
  <2>1. calls' \in SUBSET P!Request
    BY <1>5, CurrentIsClient, AskKeepsTypes DEF P!AskVersion
  <2> QED
    BY <1>5, <2>1 DEF P!AskVersion, P!Goto, P!TypeOK, P!Stages
<1>6. ASSUME NEW c \in Clients, P!TakeVersion(c) PROVE PeersTypes'
  <2>1. PICK a \in P!Incoming(c, P!Current(c)) :
          /\ best' = IF a.type = "VERSION" /\ best[c].version < a.version
                     THEN [best EXCEPT ![c] = [peer |-> a.from, version |-> a.version]]
                     ELSE best
          /\ answers' = answers \ {a}
    BY <1>6 DEF P!TakeVersion
  <2>2. a.from \in Clients /\ a.version \in {0, 1, Torn}
    BY <2>1 DEF P!Incoming, P!TypeOK, P!Answer
  <2> QED
    BY <1>6, <2>1, <2>2 DEF P!TakeVersion, P!Goto, P!TypeOK, P!Stages
<1>7. ASSUME NEW c \in Clients, P!MissVersion(c) PROVE PeersTypes'
  BY <1>7 DEF P!MissVersion, P!Goto, P!TypeOK, P!Stages
<1>8. ASSUME NEW c \in Clients, P!NoChainFound(c) PROVE PeersTypes'
  BY <1>8 DEF P!NoChainFound, P!Goto, P!TypeOK, P!Stages
<1>9. ASSUME NEW c \in Clients, P!AskChain(c) PROVE PeersTypes'
  <2>1. best[c].peer \in Clients
    BY <1>9 DEF P!AskChain, P!TypeOK
  <2>2. calls' \in SUBSET P!Request
    BY <1>9, <2>1, AskKeepsTypes DEF P!AskChain
  <2> QED
    BY <1>9, <2>2 DEF P!AskChain, P!Goto, P!TypeOK, P!Stages
<1>10. ASSUME NEW c \in Clients, P!TakeChain(c) PROVE PeersTypes'
  <2>1. PICK a \in answers : /\ answers' = answers \ {a}
                             /\ writing' = [writing EXCEPT ![c] = a.chain]
    BY <1>10 DEF P!TakeChain, P!Incoming
  <2>2. a.chain \in P!Chain
    BY <2>1 DEF P!TypeOK, P!Answer
  <2> QED
    BY <1>10, <2>1, <2>2 DEF P!TakeChain, P!Goto, P!TypeOK, P!Stages
<1>11. ASSUME NEW c \in Clients, P!MissChain(c) PROVE PeersTypes'
  BY <1>11 DEF P!MissChain, P!Goto, P!TypeOK, P!Stages
<1>12. ASSUME NEW c \in Clients, P!Store(c) PROVE PeersTypes'
  BY <1>12 DEF P!Store, P!Goto, P!TypeOK, P!Stages, P!Chain
<1>13. ASSUME NEW c \in Clients, P!Exit(c) PROVE PeersTypes'
  BY <1>13, ExitKeepsTypes
<1>14. ASSUME NEW c \in Clients, NEW d \in Clients, P!Break(c, d) PROVE PeersTypes'
  <2>1. broken' \in SUBSET (Clients \X Clients)
    BY <1>14 DEF P!Break, P!TypeOK
  <2>2. calls' \in SUBSET P!Request /\ answers' \in SUBSET P!Answer
    BY <1>14 DEF P!Break, P!TypeOK
  <2> QED
    BY <1>14, <2>1, <2>2 DEF P!Break, P!TypeOK
<1>15. ASSUME NEW m \in calls, P!Handle(m) PROVE PeersTypes'
  <2>1. m.to \in Clients /\ <<>> \in P!Chain
    BY DEF P!TypeOK, P!Request, P!Chain
  <2>2. CASE P!BlockchainVersion(m)
    <3>1. chain[m.to] \in P!Chain
      BY <2>1 DEF P!TypeOK
    <3>2. Len(chain[m.to]) \in {0, 1, Torn}
      BY <3>1, ChainLength
    <3>3. calls' \in SUBSET P!Request /\ answers' \in SUBSET P!Answer
      BY <2>1, <2>2, <3>2, ReplyKeepsTypes DEF P!BlockchainVersion
    <3> QED
      BY <2>2, <3>3 DEF P!BlockchainVersion, P!TypeOK
  <2>3. CASE P!BlockchainSync(m)
    <3>1. chain[m.to] \in P!Chain
      BY <2>1 DEF P!TypeOK
    <3>2. calls' \in SUBSET P!Request /\ answers' \in SUBSET P!Answer
      BY <2>3, <3>1, ReplyKeepsTypes DEF P!BlockchainSync
    <3> QED
      BY <2>3, <3>2 DEF P!BlockchainSync, P!TypeOK
  <2>4. CASE P!BlockchainSyncCrash(m)
    BY <2>1, <2>4, ExitKeepsTypes DEF P!BlockchainSyncCrash
  <2> QED
    BY <1>15, <2>2, <2>3, <2>4 DEF P!Handle
<1>16. CASE UNCHANGED peersVars
  BY <1>16 DEF peersVars, P!TypeOK
<1> QED
  BY <1>1, <1>2, <1>3, <1>4, <1>5, <1>6, <1>7, <1>8, <1>9, <1>10, <1>11, <1>12, <1>13,
     <1>14, <1>15, <1>16 DEF PeersPart, P!SyncStep, P!Handle

AppTypes ==
  /\ pc \in [Clients -> Stages]
  /\ info \in [Clients -> PeerInfo \union {NoInfo}]
  /\ peerContainer \in [Clients -> SUBSET PeerInfo]
  /\ untried \in [Clients -> SUBSET PeerInfo]

\* What TypeOK needs to be inductive.
TypesInv == AppTypes /\ TrackerTypes /\ PeersTypes

LEMMA TypesAre == TypesInv => TypeOK
BY TrackerTypesAre DEF TypesInv, AppTypes, PeersTypes, TypeOK

\* Most steps leave the client's own data alone.
LEMMA GotoKeepsTypes ==
  ASSUME AppTypes, NEW c \in Clients, NEW s \in Stages, Goto(c, s), Keep
  PROVE  AppTypes'
BY DEF AppTypes, Goto, Keep

\* The list a client is sent.
LEMMA ListTypes ==
  ASSUME TrackerTypes, NEW c \in Clients, incoming[c] # <<>>,
         NEW listed \in FromJson(Head(incoming[c]).body)
  PROVE  listed \in SUBSET PeerInfo
<1>1. Head(incoming[c]) \in Message
  BY DEF TrackerTypes
<1> QED
  BY <1>1 DEF Message, FromJson

LEMMA TakeListKeepsTypes ==
  ASSUME AppTypes, TrackerTypes, NEW c \in Clients, TakeList(c)
  PROVE  AppTypes'
<1>1. incoming[c] # <<>>
  BY DEF TakeList
<1>2. CASE Head(incoming[c]).status = "SUCCESS"
  <2>1. PICK listed \in FromJson(Head(incoming[c]).body) :
          /\ peerContainer' = [peerContainer EXCEPT ![c] = Erase(listed, info[c])]
          /\ untried' = [untried EXCEPT ![c] = Erase(listed, info[c])]
    BY <1>2 DEF TakeList
  <2>2. Erase(listed, info[c]) \in SUBSET PeerInfo
    BY <1>1, <2>1, ListTypes DEF Erase
  <2>3. Goto(c, "connect") /\ UNCHANGED info
    BY <1>2 DEF TakeList
  <2> QED
    BY <2>1, <2>2, <2>3 DEF AppTypes, Goto, Stages
<1>3. CASE Head(incoming[c]).status # "SUCCESS"
  BY <1>3, GotoKeepsTypes DEF TakeList, Stages
<1> QED
  BY <1>2, <1>3

LEMMA AppTypeStep ==
  ASSUME AppTypes, TrackerTypes, PeersTypes, [Next]_vars
  PROVE  AppTypes'
<1> USE DEF TrackerCall, PeersCall, Move
<1>1. ASSUME NEW c \in Clients, Connect(c) PROVE AppTypes'
  BY <1>1, GotoKeepsTypes DEF Connect, Stages
<1>2. ASSUME NEW c \in Clients, MainStep(c) PROVE AppTypes'
  <2>1. CASE Ping(c) \/ List(c) \/ StartServer(c)
    BY <2>1, GotoKeepsTypes DEF Ping, List, StartServer, Stages, Waiting
  <2>2. CASE Register(c)
    BY <2>2 DEF Register, Goto, AppTypes, Stages, Waiting
  <2>3. CASE TakeStatus(c, "pinging", "register") \/ TakeStatus(c, "registering", "start")
    BY <2>3, GotoKeepsTypes DEF TakeStatus, Stages
  <2>4. CASE TakeList(c)
    BY <2>4, TakeListKeepsTypes
  <2>5. CASE ConnectPeer(c)
    BY <2>5 DEF ConnectPeer, AppTypes
  <2>6. CASE InitializeChain(c) \/ Initialized(c) \/ Fail(c) \/ Timeout(c)
    BY <2>6, GotoKeepsTypes DEF InitializeChain, Initialized, Fail, Timeout, Stages
  <2>7. CASE SyncStep(c) \/ Update(c)
    BY <2>7 DEF SyncStep, Update, AppTypes, Keep, appVars
  <2> QED
    BY <1>2, <2>1, <2>2, <2>3, <2>4, <2>5, <2>6, <2>7 DEF MainStep
<1>3. ASSUME NEW c \in Clients, Miss(c) \/ LoseConnection(c) \/ BreakPeer(c) PROVE AppTypes'
  BY <1>3 DEF Miss, LoseConnection, BreakPeer, AppTypes, Keep, appVars
<1>4. ASSUME NEW c \in Clients, Exit(c) PROVE AppTypes'
  BY <1>4, GotoKeepsTypes DEF Exit, Stages
<1>5. CASE TrackerStep
  BY <1>5 DEF TrackerStep, AppTypes, appVars
<1>6. ASSUME NEW m \in calls, Serve(m) PROVE AppTypes'
  <2>1. m.to \in Clients
    BY PartyTypes
  <2>2. CASE Goto(m.to, "gone") /\ Keep
    BY <2>1, <2>2, GotoKeepsTypes DEF Stages
  <2>3. CASE UNCHANGED appVars
    BY <2>3 DEF AppTypes, appVars
  <2> QED
    BY <1>6, <2>2, <2>3 DEF Serve
<1>7. CASE UNCHANGED vars
  BY <1>7 DEF vars, appVars, AppTypes
<1> QED
  BY <1>1, <1>2, <1>3, <1>4, <1>5, <1>6, <1>7 DEF Next

LEMMA TypesStep == TypesInv /\ [Next]_vars => TypesInv'
BY Parts, TypesAre, AppTypeStep, TrackerTypeStep, PeersTypeStep DEF TypesInv

LEMMA TypesInit == Init => TypesInv
<1> SUFFICES ASSUME Init PROVE TypesInv
  OBVIOUS
<1>1. AppTypes
  BY DEF Init, AppTypes, Stages
<1>2. TrackerTypes
  BY DEF Init, T!Init, TrackerTypes
<1>3. PeersTypes
  BY DEF Init, P!Init, PeersTypes, P!TypeOK, P!Chain, P!Stages
<1> QED
  BY <1>1, <1>2, <1>3 DEF TypesInv

LEMMA TypesInvariant == Spec => []TypesInv
BY TypesInit, TypesStep, PTL DEF Spec

\* Every variable of the composed system keeps its type, whatever fails: what
\* a client stores of an answer is a list of peers, and a chain it takes is one
\* that some process has.
THEOREM TypeCorrect == Spec => []TypeOK
BY TypesAre, TypesInvariant, PTL

(* ------------------------- the handlers' effects ----------------------- *)

\* All that is under way between d and the tracker stays.
Stays(d) ==
  /\ requests'[d] = requests[d] /\ incoming'[d] = incoming[d]
  /\ T!Handling(d)' = T!Handling(d) /\ \A v \in T!Handling(d) : job'[v] = job[v]

Handles(w, c) == T!HandlePing(w, c) \/ T!HandlePeersList(w, c) \/ T!RegistrationFind(w, c)

\* A handler is run on the first request of c.
LEMMA DispatchEffect ==
  ASSUME TrackerTypes, NEW w \in Workers, NEW c \in Clients, Handles(w, c)
  PROVE  /\ requests[c] # <<>> /\ job[w] = Idle
         /\ requests' = [requests EXCEPT ![c] = Tail(requests[c])]
         /\ UNCHANGED <<peers, conn, grants, life, since>>
<1> USE DEF T!Dispatch, T!serverVars, T!lifeVars
<1>1. CASE T!HandlePing(w, c)
  BY <1>1 DEF T!HandlePing
<1>2. CASE T!HandlePeersList(w, c)
  BY <1>2 DEF T!HandlePeersList
<1>3. CASE T!RegistrationFind(w, c)
  BY <1>3 DEF T!RegistrationFind
<1> QED
  BY <1>1, <1>2, <1>3 DEF Handles

\* It answers ...
Answered(c, msg) ==
  /\ UNCHANGED job
  /\ \A d \in Clients : d # c => incoming'[d] = incoming[d]
  /\ incoming'[c] = IF conn[c] = "up" THEN Append(incoming[c], msg) ELSE incoming[c]

\* ... or is suspended between Find and AddPeer.
Suspended(w, c, i) ==
  /\ ~Find(peers, i)
  /\ job'[w] = [client |-> c, info |-> i]
  /\ \A v \in Workers : v # w => job'[v] = job[v]
  /\ UNCHANGED incoming

LEMMA HandleEffect ==
  ASSUME TrackerTypes, NEW w \in Workers, NEW c \in Clients, Handles(w, c)
  PROVE  \/ Head(requests[c]).type = "SERVER_PING"
            /\ Answered(c, Create("SERVER_PING", "SUCCESS", {}))
         \/ Head(requests[c]).type = "PEERS_LIST"
            /\ Answered(c, Create("REGISTRATION_PEER", "SUCCESS", peers))
         \/ Head(requests[c]).type = "REGISTRATION_PEER"
            /\ Answered(c, Create("REGISTRATION_PEER", "FAILURE", {}))
         \/ Head(requests[c]).type = "REGISTRATION_PEER"
            /\ \E i \in Head(requests[c]).body : Suspended(w, c, i)
<1> USE DEF T!Dispatch, T!serverVars, T!lifeVars
<1>1. CASE T!HandlePing(w, c)
  BY <1>1, SameDefinitions DEF T!HandlePing, T!Respond, Answered, TrackerTypes
<1>2. CASE T!HandlePeersList(w, c)
  BY <1>2, SameDefinitions DEF T!HandlePeersList, T!Respond, Answered, TrackerTypes
<1>3. CASE T!RegistrationFind(w, c)
  <2>1. PICK i \in Head(requests[c]).body :
          \/ /\ T!Respond(c, T!Create("REGISTRATION_PEER", "FAILURE", {}))
             /\ UNCHANGED job
          \/ /\ ~T!Find(peers, i)
             /\ job' = [job EXCEPT ![w] = [client |-> c, info |-> i]]
             /\ UNCHANGED incoming
    BY <1>3 DEF T!RegistrationFind
  <2>2. ~T!Find(peers, i) => ~Find(peers, i)
    BY DEF T!Find, Find, T!KeysOf, KeysOf
  <2>3. Head(requests[c]).type = "REGISTRATION_PEER"
    BY <1>3 DEF T!RegistrationFind
  <2>4. CASE T!Respond(c, T!Create("REGISTRATION_PEER", "FAILURE", {})) /\ UNCHANGED job
    BY <2>3, <2>4, SameDefinitions DEF T!Respond, Answered, TrackerTypes
  <2>5. CASE /\ ~T!Find(peers, i)
             /\ job' = [job EXCEPT ![w] = [client |-> c, info |-> i]]
             /\ UNCHANGED incoming
    BY <2>1, <2>2, <2>3, <2>5 DEF Suspended, TrackerTypes
  <2> QED
    BY <2>1, <2>4, <2>5
<1> QED
  BY <1>1, <1>2, <1>3 DEF Handles

\* The other clients notice nothing.
LEMMA HandleStays ==
  ASSUME TrackerTypes, NEW w \in Workers, NEW c \in Clients, Handles(w, c),
         NEW d \in Clients, d # c
  PROVE  Stays(d)
<1>1. requests'[d] = requests[d] /\ job[w] = Idle
  BY DispatchEffect DEF TrackerTypes
<1>2. incoming'[d] = incoming[d]
  BY HandleEffect DEF Answered, Suspended
<1>3. \/ UNCHANGED job
      \/ /\ job'[w].client = c
         /\ \A v \in Workers : v # w => job'[v] = job[v]
  <2>1. (\E msg : Answered(c, msg)) \/ (\E i : Suspended(w, c, i))
    BY HandleEffect
  <2>2. ASSUME NEW i, Suspended(w, c, i) PROVE job'[w].client = c
    BY <2>2 DEF Suspended
  <2> QED
    BY <2>1, <2>2 DEF Answered, Suspended
<1>4. \A v \in Workers :
        (job'[v] # Idle /\ job'[v].client = d) <=> (job[v] # Idle /\ job[v].client = d)
  BY <1>1, <1>3
<1>5. T!Handling(d)' = T!Handling(d) /\ \A v \in T!Handling(d) : job'[v] = job[v]
  BY <1>1, <1>3, <1>4 DEF T!Handling
<1> QED
  BY <1>1, <1>2, <1>5 DEF Stays

\* A registration is entered and answered.
LEMMA AddEffect ==
  ASSUME TrackerTypes, NEW w \in Workers, T!RegistrationAdd(w)
  PROVE  /\ job[w] \in Job /\ job'[w] = Idle
         /\ \A v \in Workers : v # w => job'[v] = job[v]
         /\ peers' = AddPeer(peers, job[w].info)
         /\ KeysOf(peers') = KeysOf(peers) \union {job[w].info.key}
         /\ UNCHANGED <<requests, conn, life, since>>
         /\ \A d \in Clients : d # job[w].client => incoming'[d] = incoming[d]
         /\ incoming'[job[w].client] =
              IF conn[job[w].client] = "up"
              THEN Append(incoming[job[w].client], Create("REGISTRATION_PEER", "SUCCESS", {}))
              ELSE incoming[job[w].client]
<1> USE DEF T!RegistrationAdd, T!serverVars, T!lifeVars
<1>1. job[w] \in Job /\ job'[w] = Idle /\ \A v \in Workers : v # w => job'[v] = job[v]
  BY DEF TrackerTypes
<1>2. job[w].client \in Clients /\ job[w].info \in PeerInfo
  BY <1>1 DEF Job
<1>3. peers' = AddPeer(peers, job[w].info)
  BY SameDefinitions
<1>4. KeysOf(peers') = KeysOf(peers) \union {job[w].info.key}
  BY <1>2, <1>3, AddPeerFacts DEF TrackerTypes
<1>5. /\ \A d \in Clients : d # job[w].client => incoming'[d] = incoming[d]
      /\ incoming'[job[w].client] =
           IF conn[job[w].client] = "up"
           THEN Append(incoming[job[w].client], Create("REGISTRATION_PEER", "SUCCESS", {}))
           ELSE incoming[job[w].client]
  BY <1>2, SameDefinitions DEF T!Respond, TrackerTypes
<1> QED
  BY <1>1, <1>3, <1>4, <1>5

LEMMA AddStays ==
  ASSUME TrackerTypes, NEW w \in Workers, T!RegistrationAdd(w),
         NEW d \in Clients, d # job[w].client
  PROVE  Stays(d)
<1>1. /\ job'[w] = Idle /\ \A v \in Workers : v # w => job'[v] = job[v]
      /\ requests' = requests /\ incoming'[d] = incoming[d]
  BY AddEffect
<1> QED
  BY <1>1 DEF Stays, T!Handling

(* ------------------------- one question at a time ---------------------- *)

\* What c has asked the tracker and waits to have answered.
Asked(c) ==
  IF pc[c] = "pinging" THEN Create("SERVER_PING", "CLIENT_STATUS", {})
  ELSE IF pc[c] = "registering" THEN Create("REGISTRATION_PEER", "CLIENT_STATUS", {info[c]})
  ELSE Create("PEERS_LIST", "CLIENT_STATUS", {})

\* Where the question is, if it is not lost.
InQueue(c) == requests[c] = <<Asked(c)>> /\ incoming[c] = <<>> /\ T!Handling(c) = {}
InHandler(c) ==
  /\ pc[c] = "registering"
  /\ requests[c] = <<>> /\ incoming[c] = <<>>
  /\ \E w \in Workers : T!Handling(c) = {w}
InAnswer(c) ==
  requests[c] = <<>> /\ T!Handling(c) = {} /\ \E a \in Message : incoming[c] = <<a>>

\* A client asks one thing at a time, and gives up for good when a wait ends
\* without an answer: only then may something still be under way.
Talk(c) ==
  IF pc[c] \in Waiting
  THEN T!Quiet(c) \/ InQueue(c) \/ InHandler(c) \/ InAnswer(c)
  ELSE pc[c] \in {"failed", "gone"} \/ T!Quiet(c)

Registered ==
  {"registering", "start", "list", "listing", "connect", "chain", "working"}

\* The main thread's place, its connection and the life of the tracker it came
\* to go together, and it asks under its own identity.
Bound(c) ==
  /\ life >= 1 /\ since[c] <= life
  /\ pc[c] = "new" => conn[c] = "new"
  /\ conn[c] = "new" => since[c] = 0 /\ pc[c] \in {"new", "failed", "gone"}
  /\ conn[c] = "up" => since[c] = life
  /\ requests[c] # <<>> \/ T!Handling(c) # {} => since[c] = life
  /\ \A i \in DOMAIN requests[c] : \A p \in requests[c][i].body : p.key = KeyOf[c]
  /\ \A w \in T!Handling(c) : job[w].info.key = KeyOf[c]
  /\ pc[c] \in Registered => info[c] \in PeerInfo /\ info[c].key = KeyOf[c]

Orderly(c) == Talk(c) /\ Bound(c)
Discipline == \A c \in Clients : Orderly(c)

LEMMA OrderlyStays ==
  ASSUME NEW d \in Clients, Orderly(d), Stays(d), pc'[d] = pc[d], info'[d] = info[d],
         conn'[d] = conn[d], since'[d] = since[d], life' = life
  PROVE  Orderly(d)'
<1>1. Asked(d)' = Asked(d)
  BY DEF Asked
<1>2. Talk(d)'
  BY <1>1 DEF Orderly, Stays, Talk, T!Quiet, InQueue, InHandler, InAnswer
<1>3. Bound(d)'
  BY DEF Orderly, Stays, Bound
<1> QED
  BY <1>2, <1>3 DEF Orderly

\* A handler takes the question of c, if c still waits for the answer.
LEMMA TakesAsked ==
  ASSUME TrackerTypes, Discipline, NEW w \in Workers, NEW c \in Clients, Handles(w, c),
         pc[c] \notin {"failed", "gone"}
  PROVE  /\ pc[c] \in Waiting /\ InQueue(c)
         /\ Head(requests[c]) = Asked(c) /\ requests'[c] = <<>>
<1>1. requests[c] # <<>> /\ requests'[c] = Tail(requests[c])
  BY DispatchEffect DEF TrackerTypes
<1>2. pc[c] \in Waiting /\ InQueue(c)
  BY <1>1 DEF Discipline, Orderly, Talk, T!Quiet, InHandler, InAnswer
<1> QED
  BY <1>1, <1>2 DEF InQueue

LEMMA AskedFacts ==
  ASSUME NEW c \in Clients
  PROVE  /\ Asked(c).type = "SERVER_PING" => pc[c] = "pinging"
         /\ Asked(c).type = "REGISTRATION_PEER" => pc[c] = "registering" /\ Asked(c).body = {info[c]}
         /\ Asked(c).type = "PEERS_LIST" => pc[c] \notin {"pinging", "registering"}
BY DEF Asked, Create

LEMMA HandleKeepsDiscipline ==
  ASSUME TypesInv, Discipline, NEW w \in Workers, NEW c \in Clients, Handles(w, c),
         UNCHANGED appVars
  PROVE  Discipline'
<1> USE DEF TypesInv
<1>1. ASSUME NEW d \in Clients, d # c PROVE Orderly(d)'
  BY <1>1, HandleStays, DispatchEffect, OrderlyStays DEF Discipline, appVars
<1>2. /\ requests[c] \in Seq(Message) /\ requests[c] # <<>>
      /\ requests'[c] = Tail(requests[c])
      /\ UNCHANGED <<conn, life, since, pc, info>>
  BY DispatchEffect DEF TrackerTypes, appVars
<1>3. \A i \in DOMAIN requests'[c] : i + 1 \in DOMAIN requests[c] /\ requests'[c][i] = requests[c][i + 1]
  BY <1>2
<1>4. PICK q \in Message : q = Head(requests[c]) /\ \A p \in q.body : p.key = KeyOf[c]
  <2>1. 1 \in DOMAIN requests[c] /\ Head(requests[c]) = requests[c][1] /\ requests[c][1] \in Message
    BY <1>2
  <2> QED
    BY <2>1 DEF Discipline, Orderly, Bound
<1>5. \A v \in T!Handling(c)' : job'[v].info.key = KeyOf[c]
  <2>1. CASE UNCHANGED job
    BY <2>1 DEF Discipline, Orderly, Bound, T!Handling
  <2>2. CASE \E i \in q.body : Suspended(w, c, i)
    BY <1>4, <2>2 DEF Suspended, Discipline, Orderly, Bound, T!Handling
  <2> QED
    BY <1>4, <2>1, <2>2, HandleEffect DEF Answered
<1>6. Bound(c)'
  <2>1. \A i \in DOMAIN requests'[c] : \A p \in requests'[c][i].body : p.key = KeyOf[c]
    BY <1>3 DEF Discipline, Orderly, Bound
  <2> QED
    BY <1>2, <1>5, <2>1 DEF Discipline, Orderly, Bound
<1>7. Talk(c)'
  <2>1. CASE pc[c] \in {"failed", "gone"}
    BY <1>2, <2>1 DEF Talk, Waiting
  <2>2. CASE pc[c] \notin {"failed", "gone"}
    <3>1. /\ pc[c] \in Waiting /\ incoming[c] = <<>> /\ T!Handling(c) = {}
          /\ q = Asked(c) /\ requests'[c] = <<>>
      BY <1>4, <2>2, TakesAsked DEF InQueue
    <3>2. ASSUME NEW msg \in Message, Answered(c, msg) PROVE Talk(c)'
      <4>1. incoming'[c] \in {<<>>, <<msg>>} /\ T!Handling(c)' = {}
        BY <3>1, <3>2 DEF Answered, T!Handling
      <4> QED
        BY <1>2, <3>1, <4>1 DEF Talk, T!Quiet, InAnswer
    <3>3. ASSUME q.type = "REGISTRATION_PEER", NEW i \in q.body, Suspended(w, c, i) PROVE Talk(c)'
      <4>1. T!Handling(c)' = {w} /\ incoming'[c] = <<>>
        <5>1. [client |-> c, info |-> i] # Idle
          <6>1. i \in PeerInfo
            BY <1>4 DEF Message
          <6> QED
            BY <6>1, IdleAssumption
        <5> QED
          BY <3>1, <3>3, <5>1 DEF Suspended, T!Handling
      <4>2. pc[c] = "registering"
        BY <3>1, <3>3, AskedFacts
      <4> QED
        BY <1>2, <3>1, <4>1, <4>2 DEF Talk, InHandler
    <3>4. peers \in SUBSET PeerInfo
      BY DEF TrackerTypes
    <3> QED
      BY <1>4, <3>2, <3>3, <3>4, HandleEffect, MessageTypes
  <2> QED
    BY <2>1, <2>2
<1> QED
  BY <1>1, <1>6, <1>7 DEF Discipline, Orderly

LEMMA AddKeepsDiscipline ==
  ASSUME TypesInv, Discipline, NEW w \in Workers, T!RegistrationAdd(w), UNCHANGED appVars
  PROVE  Discipline'
<1> USE DEF TypesInv
<1>1. ASSUME NEW d \in Clients, d # job[w].client PROVE Orderly(d)'
  BY <1>1, AddStays, AddEffect, OrderlyStays DEF Discipline, appVars
<1>2. PICK c \in Clients : c = job[w].client /\ w \in T!Handling(c)
  BY AddEffect DEF T!RegistrationAdd, T!Handling, Job
<1>3. /\ UNCHANGED <<requests, conn, life, since, pc, info>>
      /\ T!Handling(c)' = T!Handling(c) \ {w}
      /\ \A v \in T!Handling(c)' : job'[v] = job[v]
      /\ incoming'[c] \in {incoming[c],
                           Append(incoming[c], Create("REGISTRATION_PEER", "SUCCESS", {}))}
  BY <1>2, AddEffect DEF T!Handling, appVars
<1>4. Bound(c)'
  BY <1>3 DEF Discipline, Orderly, Bound
<1>5. Talk(c)'
  <2>1. CASE pc[c] \in {"failed", "gone"}
    BY <1>3, <2>1 DEF Talk, Waiting
  <2>2. CASE pc[c] \notin {"failed", "gone"}
    <3>1. pc[c] \in Waiting /\ InHandler(c)
      BY <1>2, <2>2 DEF Discipline, Orderly, Talk, T!Quiet, InQueue, InAnswer
    <3>2. T!Handling(c)' = {} /\ requests'[c] = <<>>
      BY <1>2, <1>3, <3>1 DEF InHandler
    <3>3. PICK msg \in Message : incoming'[c] \in {<<>>, <<msg>>}
      <4>1. Create("REGISTRATION_PEER", "SUCCESS", {}) \in Message
        BY MessageTypes
      <4>2. \A m : Append(<<>>, m) = <<m>>
        OBVIOUS
      <4> QED
        BY <1>3, <3>1, <4>1, <4>2 DEF InHandler
    <3> QED
      BY <1>3, <3>1, <3>2, <3>3 DEF Talk, T!Quiet, InAnswer
  <2> QED
    BY <2>1, <2>2
<1> QED
  BY <1>1, <1>2, <1>4, <1>5 DEF Discipline, Orderly

\* The steps of c leave what is under way for others alone.
LEMMA ClientStays ==
  ASSUME TrackerTypes, NEW c \in Clients, NEW d \in Clients, d # c,
         \/ T!Connect(c) \/ (\E msg : T!Send(c, msg)) \/ T!WaitingResponse(c)
         \/ T!LoseConnection(c) \/ Emptied(c) \/ UNCHANGED trackerVars
  PROVE  Stays(d) /\ conn'[d] = conn[d] /\ since'[d] = since[d] /\ life' = life
<1> USE DEF T!serverVars, T!lifeVars
<1>1. UNCHANGED <<job, life>>
  BY DEF T!Connect, T!Send, T!WaitingResponse, T!LoseConnection, Emptied, trackerVars
<1>2. requests'[d] = requests[d] /\ incoming'[d] = incoming[d]
  BY DEF T!Connect, T!Send, T!WaitingResponse, T!LoseConnection, Emptied, trackerVars,
         TrackerTypes
<1>3. conn'[d] = conn[d] /\ since'[d] = since[d]
  BY DEF T!Connect, T!Send, T!WaitingResponse, T!LoseConnection, Emptied, trackerVars,
         TrackerTypes
<1> QED
  BY <1>1, <1>2, <1>3 DEF Stays, T!Handling

\* The main thread of c goes on to s and asks.
LEMMA AskKeepsDiscipline ==
  ASSUME TypesInv, Discipline, NEW c \in Clients, NEW s \in Waiting, NEW msg \in Message,
         T!Quiet(c), T!Send(c, msg), Goto(c, s), Asked(c)' = msg,
         \A p \in msg.body : p.key = KeyOf[c],
         s \in Registered => info'[c] \in PeerInfo /\ info'[c].key = KeyOf[c],
         \A d \in Clients : d # c => info'[d] = info[d]
  PROVE  Discipline'
<1> USE DEF TypesInv, T!serverVars, T!lifeVars
<1>1. pc'[c] = s /\ \A d \in Clients : d # c => pc'[d] = pc[d]
  BY DEF Goto, AppTypes
<1>2. ASSUME NEW d \in Clients, d # c PROVE Orderly(d)'
  BY <1>1, <1>2, ClientStays, OrderlyStays DEF Discipline
<1>3. /\ UNCHANGED <<job, conn, incoming, life, since>>
      /\ conn[c] # "new" /\ requests[c] = <<>> /\ incoming[c] = <<>>
      /\ requests'[c] = IF conn[c] = "up" THEN Append(requests[c], msg) ELSE requests[c]
  BY DEF T!Send, T!Quiet, TrackerTypes
<1>4. \/ requests'[c] = <<>>
      \/ conn[c] = "up" /\ requests'[c] = <<msg>>
  BY <1>3
<1>5. T!Handling(c)' = {}
  BY <1>3 DEF T!Handling, T!Quiet
<1>6. Talk(c)'
  <2>1. T!Quiet(c)' \/ InQueue(c)'
    BY <1>3, <1>4, <1>5 DEF T!Quiet, InQueue
  <2> QED
    BY <1>1, <2>1 DEF Talk
<1>7. Bound(c)'
  <2>1. \A i \in DOMAIN requests'[c] : \A p \in requests'[c][i].body : p.key = KeyOf[c]
    BY <1>4
  <2>2. s # "new"
    BY DEF Waiting
  <2> QED
    BY <1>1, <1>3, <1>5, <2>1, <2>2, <1>4 DEF Discipline, Orderly, Bound
<1> QED
  BY <1>2, <1>6, <1>7 DEF Discipline, Orderly

\* It takes the answer it waits for.
LEMMA AnswerKeepsDiscipline ==
  ASSUME TypesInv, Discipline, NEW c \in Clients, pc[c] \in Waiting, T!WaitingResponse(c),
         NEW s \in Stages \ (Waiting \union {"new"}), Goto(c, s), UNCHANGED info,
         s \in Registered => pc[c] \in Registered
  PROVE  Discipline'
<1> USE DEF TypesInv, T!serverVars, T!lifeVars
<1>1. pc'[c] = s /\ \A d \in Clients : d # c => pc'[d] = pc[d]
  BY DEF Goto, AppTypes
<1>2. ASSUME NEW d \in Clients, d # c PROVE Orderly(d)'
  BY <1>1, <1>2, ClientStays, OrderlyStays DEF Discipline
<1>3. /\ UNCHANGED <<job, conn, requests, life, since>>
      /\ incoming[c] # <<>> /\ incoming'[c] = Tail(incoming[c])
  BY DEF T!WaitingResponse, TrackerTypes
<1>4. InAnswer(c)
  BY <1>3 DEF Discipline, Orderly, Talk, T!Quiet, InQueue, InHandler
<1>5. T!Quiet(c)'
  BY <1>3, <1>4 DEF InAnswer, T!Quiet, T!Handling
<1>6. Talk(c)'
  BY <1>1, <1>5 DEF Talk
<1>7. Bound(c)'
  <2>1. conn[c] # "new"
    BY DEF Discipline, Orderly, Bound, Waiting
  <2> QED
    BY <1>1, <1>3, <1>5, <2>1 DEF Discipline, Orderly, Bound, T!Quiet
<1> QED
  BY <1>2, <1>6, <1>7 DEF Discipline, Orderly

\* It goes on, or gives up, or its process ends, without the tracker.
LEMMA MoveKeepsDiscipline ==
  ASSUME TypesInv, Discipline, NEW c \in Clients, UNCHANGED trackerVars,
         NEW s \in Stages \ (Waiting \union {"new"}), Goto(c, s), UNCHANGED info,
         s \in {"failed", "gone"} \/ (T!Quiet(c) /\ conn[c] # "new"),
         s \in Registered => pc[c] \in Registered
  PROVE  Discipline'
<1> USE DEF TypesInv
<1>1. pc'[c] = s /\ \A d \in Clients : d # c => pc'[d] = pc[d]
  BY DEF Goto, AppTypes
<1>2. ASSUME NEW d \in Clients, d # c PROVE Orderly(d)'
  BY <1>1, <1>2, ClientStays, OrderlyStays DEF Discipline
<1>3. UNCHANGED <<job, conn, requests, incoming, life, since>>
  BY DEF trackerVars
<1>4. Talk(c)'
  BY <1>1, <1>3 DEF Talk, T!Quiet, T!Handling
<1>5. Bound(c)'
  BY <1>1, <1>3 DEF Discipline, Orderly, Bound, T!Handling
<1> QED
  BY <1>2, <1>4, <1>5 DEF Discipline, Orderly

\* The connection of c breaks, or its process ends and its connection with it.
LEMMA CutKeepsDiscipline ==
  ASSUME TypesInv, Discipline, NEW c \in Clients, T!LoseConnection(c),
         UNCHANGED pc \/ Goto(c, "gone"), UNCHANGED info
  PROVE  Discipline'
<1> USE DEF TypesInv, T!serverVars, T!lifeVars
<1>1. pc'[c] \in {pc[c], "gone"} /\ \A d \in Clients : d # c => pc'[d] = pc[d]
  BY DEF Goto, AppTypes
<1>2. ASSUME NEW d \in Clients, d # c PROVE Orderly(d)'
  BY <1>1, <1>2, ClientStays, OrderlyStays DEF Discipline
<1>3. /\ UNCHANGED <<job, incoming, life, since>>
      /\ conn[c] = "up" /\ conn'[c] = "lost"
      /\ requests'[c] \in {requests[c], <<>>}
  BY DEF T!LoseConnection, TrackerTypes
<1>4. Talk(c)'
  <2>1. CASE pc'[c] = "gone"
    BY <2>1 DEF Talk, Waiting
  <2>2. CASE pc'[c] = pc[c]
    <3>1. Asked(c)' = Asked(c)
      BY <2>2 DEF Asked
    <3> QED
      BY <1>3, <2>2, <3>1
         DEF Discipline, Orderly, Talk, T!Quiet, InQueue, InHandler, InAnswer, T!Handling
  <2> QED
    BY <1>1, <2>1, <2>2
<1>5. Bound(c)'
  <2>1. \A i \in DOMAIN requests'[c] : \A p \in requests'[c][i].body : p.key = KeyOf[c]
    BY <1>3 DEF Discipline, Orderly, Bound
  <2>2. pc'[c] # "new"
    BY <1>1, <1>3 DEF Discipline, Orderly, Bound
  <2> QED
    BY <1>1, <1>3, <2>1, <2>2 DEF Discipline, Orderly, Bound, T!Handling, Registered
<1> QED
  BY <1>2, <1>4, <1>5 DEF Discipline, Orderly

\* The tracker forgets all that was under way, but for answers that arrived.
LEMMA RestartKeepsDiscipline ==
  ASSUME TypesInv, Discipline, T!Restart, UNCHANGED appVars
  PROVE  Discipline'
<1> USE DEF TypesInv
<1> SUFFICES ASSUME NEW c \in Clients PROVE Orderly(c)'
  BY DEF Discipline
<1>1. /\ UNCHANGED <<pc, info, incoming, since>> /\ life' = life + 1
      /\ requests'[c] = <<>>
      /\ conn'[c] = IF conn[c] = "up" THEN "lost" ELSE conn[c]
      /\ \A w \in Workers : job'[w] = Idle
  BY DEF T!Restart, T!Cut, appVars
<1>2. T!Handling(c)' = {}
  BY <1>1 DEF T!Handling
<1>3. Talk(c)'
  BY <1>1, <1>2 DEF Discipline, Orderly, Talk, T!Quiet, InQueue, InHandler, InAnswer
<1>4. life \in Nat /\ since[c] \in Nat
  BY DEF TrackerTypes
<1>5. Bound(c)'
  BY <1>1, <1>2, <1>4 DEF Discipline, Orderly, Bound
<1> QED
  BY <1>3, <1>5 DEF Orderly

LEMMA StopKeepsDiscipline ==
  ASSUME TypesInv, Discipline, NEW c \in Clients, UNCHANGED trackerVars,
         NEW s \in {"failed", "gone"}, Goto(c, s), UNCHANGED info
  PROVE  Discipline'
<1>1. s \in Stages \ (Waiting \union {"new"}) /\ s \notin Registered
  BY DEF Stages, Waiting, Registered
<1>2. s \in {"failed", "gone"} \/ (T!Quiet(c) /\ conn[c] # "new")
  OBVIOUS
<1>3. s \in Registered => pc[c] \in Registered
  BY <1>1
<1> QED
  BY <1>1, <1>2, <1>3, MoveKeepsDiscipline

LEMMA ConnectKeepsDiscipline ==
  ASSUME TypesInv, Discipline, NEW c \in Clients, Connect(c)
  PROVE  Discipline'
<1>1. CASE Move(c, "new", "failed") /\ Keep /\ UNCHANGED trackerVars
  BY <1>1, StopKeepsDiscipline DEF Move, Keep
<1>2. CASE Move(c, "new", "connected") /\ Keep /\ T!Connect(c)
  <2> USE DEF TypesInv, T!serverVars, T!lifeVars
  <2>1. /\ pc[c] = "new" /\ pc'[c] = "connected"
        /\ \A d \in Clients : d # c => pc'[d] = pc[d]
        /\ UNCHANGED info
    BY <1>2 DEF Move, Goto, Keep, AppTypes
  <2>2. ASSUME NEW d \in Clients, d # c PROVE Orderly(d)'
    BY <1>2, <2>1, <2>2, ClientStays, OrderlyStays DEF Discipline
  <2>3. /\ conn'[c] = "up" /\ since'[c] = life
        /\ UNCHANGED <<job, requests, incoming, life>>
    BY <1>2 DEF T!Connect, TrackerTypes
  <2>4. T!Quiet(c) /\ life \in Nat
    BY <2>1 DEF Discipline, Orderly, Talk, Waiting, TrackerTypes
  <2>5. Talk(c)'
    BY <2>1, <2>3, <2>4 DEF Talk, T!Quiet, T!Handling, Waiting
  <2>6. Bound(c)'
    BY <2>1, <2>3, <2>4 DEF Discipline, Orderly, Bound, T!Quiet, T!Handling, Registered
  <2> QED
    BY <2>2, <2>5, <2>6 DEF Discipline, Orderly
<1> QED
  BY <1>1, <1>2 DEF Connect, TrackerCall

\* Outside its waits a running main thread has nothing under way, and is
\* connected or was.
LEMMA QuietOutsideWaits ==
  ASSUME Discipline, NEW c \in Clients, pc[c] \notin Waiting \union {"new", "failed", "gone"}
  PROVE  T!Quiet(c) /\ conn[c] # "new"
BY DEF Discipline, Orderly, Talk, Bound

LEMMA MainKeepsDiscipline ==
  ASSUME TypesInv, Discipline, NEW c \in Clients, MainStep(c)
  PROVE  Discipline'
<1> USE DEF TrackerCall, PeersCall, Move, Keep
<1>1. CASE Ping(c)
  <2>1. T!Send(c, Create("SERVER_PING", "CLIENT_STATUS", {}))
    BY <1>1, SameDefinitions DEF Ping, T!ServerPing
  <2>2. pc'[c] = "pinging"
    BY <1>1 DEF Ping, Goto, TypesInv, AppTypes
  <2>3. Asked(c)' = Create("SERVER_PING", "CLIENT_STATUS", {})
    BY <2>2 DEF Asked, Create
  <2>4. Create("SERVER_PING", "CLIENT_STATUS", {}).body = {}
    BY DEF Create
  <2> QED
    BY <1>1, <2>1, <2>3, <2>4, QuietOutsideWaits, MessageTypes, AskKeepsDiscipline
       DEF Ping, Waiting, Registered
<1>2. CASE Register(c)
  <2>1. PICK i \in PeerInfo : T!Registration(c, i) /\ info' = [info EXCEPT ![c] = i]
    BY <1>2 DEF Register
  <2>2. i.key = KeyOf[c] /\ T!Send(c, Create("REGISTRATION_PEER", "CLIENT_STATUS", {i}))
    BY <2>1, SameDefinitions, RegistrationInfo DEF T!Registration
  <2>3. /\ pc'[c] = "registering" /\ info'[c] = i
        /\ \A d \in Clients : d # c => info'[d] = info[d]
    BY <1>2, <2>1 DEF Register, Goto, TypesInv, AppTypes
  <2>4. Asked(c)' = Create("REGISTRATION_PEER", "CLIENT_STATUS", {i})
    BY <2>3 DEF Asked, Create
  <2>5. Create("REGISTRATION_PEER", "CLIENT_STATUS", {i}).body = {i}
    BY DEF Create
  <2>6. Create("REGISTRATION_PEER", "CLIENT_STATUS", {i}) \in Message
    BY MessageTypes
  <2>7. T!Quiet(c) /\ Goto(c, "registering") /\ "registering" \in Waiting
    BY <1>2, QuietOutsideWaits DEF Register, Waiting
  <2> QED
    BY <2>2, <2>3, <2>4, <2>5, <2>6, <2>7, AskKeepsDiscipline
<1>3. CASE List(c)
  <2>1. T!Send(c, Create("PEERS_LIST", "CLIENT_STATUS", {}))
    BY <1>3, SameDefinitions DEF List, T!PeersList
  <2>2. pc[c] = "list" /\ pc'[c] = "listing" /\ Goto(c, "listing") /\ UNCHANGED info
    BY <1>3 DEF List, Goto, TypesInv, AppTypes
  <2>3. Asked(c)' = Create("PEERS_LIST", "CLIENT_STATUS", {})
    BY <2>2 DEF Asked, Create
  <2>4. Create("PEERS_LIST", "CLIENT_STATUS", {}).body = {}
    BY DEF Create
  <2>5. info[c] \in PeerInfo /\ info[c].key = KeyOf[c]
    BY <2>2 DEF Discipline, Orderly, Bound, Registered
  <2>6. T!Quiet(c) /\ "listing" \in Waiting
    BY <2>2, QuietOutsideWaits DEF Waiting
  <2> QED
    BY <2>1, <2>2, <2>3, <2>4, <2>5, <2>6, MessageTypes, AskKeepsDiscipline
<1>4. CASE TakeStatus(c, "pinging", "register") \/ TakeStatus(c, "registering", "start")
  BY <1>4, AnswerKeepsDiscipline DEF TakeStatus, Stages, Waiting, Registered
<1>5. CASE TakeList(c)
  <2>1. PICK s \in {"connect", "failed"} : Goto(c, s)
    BY <1>5 DEF TakeList
  <2>2. pc[c] = "listing" /\ T!WaitingResponse(c) /\ UNCHANGED info
    BY <1>5 DEF TakeList
  <2> QED
    BY <2>1, <2>2, AnswerKeepsDiscipline DEF Stages, Waiting, Registered
<1>6. CASE StartServer(c)
  BY <1>6, QuietOutsideWaits, MoveKeepsDiscipline DEF StartServer, Stages, Waiting, Registered
<1>7. CASE InitializeChain(c)
  BY <1>7, QuietOutsideWaits, MoveKeepsDiscipline
     DEF InitializeChain, Stages, Waiting, Registered
<1>8. CASE Initialized(c)
  <2>1. PICK s \in {"working", "failed"} : Goto(c, s)
    BY <1>8 DEF Initialized
  <2> QED
    BY <1>8, <2>1, QuietOutsideWaits, MoveKeepsDiscipline
       DEF Initialized, Stages, Waiting, Registered
<1>9. CASE Fail(c) \/ Timeout(c)
  <2>1. Goto(c, "failed") /\ UNCHANGED <<info, trackerVars>>
    BY <1>9 DEF Fail, Timeout
  <2> QED
    BY <2>1, StopKeepsDiscipline
<1>10. CASE ConnectPeer(c) \/ SyncStep(c)
  <2>1. UNCHANGED <<pc, info, trackerVars>>
    BY <1>10 DEF ConnectPeer, SyncStep
  <2> QED
    BY <2>1, OrderlyStays DEF Discipline, Stays, T!Handling, trackerVars
<1>11. CASE Update(c)
  <2>1. T!Quiet(c)
    BY <1>11, QuietOutsideWaits DEF Update, Waiting
  <2>2. incoming' = incoming
    BY <1>11, <2>1 DEF Update, T!Quiet, TypesInv, TrackerTypes
  <2> QED
    BY <1>11, <2>2, OrderlyStays DEF Update, Discipline, Stays, T!Handling, appVars
<1> QED
  BY <1>1, <1>2, <1>3, <1>4, <1>5, <1>6, <1>7, <1>8, <1>9, <1>10, <1>11 DEF MainStep

LEMMA DisciplineStep == TypesInv /\ Discipline /\ [Next]_vars => Discipline'
<1> SUFFICES ASSUME TypesInv, Discipline, [Next]_vars PROVE Discipline'
  OBVIOUS
<1>1. ASSUME UNCHANGED <<pc, info, trackerVars>> PROVE Discipline'
  BY <1>1, OrderlyStays DEF Discipline, Stays, T!Handling, trackerVars
<1>2. ASSUME NEW c \in Clients, Miss(c) \/ BreakPeer(c) PROVE Discipline'
  BY <1>1, <1>2 DEF Miss, BreakPeer, PeersCall, Keep, appVars
<1>3. ASSUME NEW c \in Clients, LoseConnection(c) PROVE Discipline'
  BY <1>3, CutKeepsDiscipline DEF LoseConnection, appVars
<1>4. ASSUME NEW c \in Clients, Goto(c, "gone"), Keep, CutOff(c) PROVE Discipline'
  <2>1. CASE T!LoseConnection(c)
    BY <1>4, <2>1, CutKeepsDiscipline DEF Keep
  <2>2. CASE UNCHANGED trackerVars
    BY <1>4, <2>2, StopKeepsDiscipline DEF Keep
  <2> QED
    BY <1>4, <2>1, <2>2 DEF CutOff
<1>5. ASSUME NEW c \in Clients, Exit(c) PROVE Discipline'
  BY <1>4, <1>5 DEF Exit
<1>6. CASE TrackerStep
  BY <1>6, HandleKeepsDiscipline, AddKeepsDiscipline, RestartKeepsDiscipline
     DEF TrackerStep, T!ServerStep, T!Handle, Handles
<1>7. ASSUME NEW m \in calls, Serve(m) PROVE Discipline'
  <2>1. m.to \in Clients
    BY PartyTypes DEF TypesInv
  <2> QED
    BY <1>1, <1>4, <1>7, <2>1 DEF Serve, appVars
<1>8. CASE UNCHANGED vars
  BY <1>1, <1>8 DEF vars, appVars
<1> QED
  BY <1>2, <1>3, <1>5, <1>6, <1>7, <1>8, ConnectKeepsDiscipline, MainKeepsDiscipline DEF Next

LEMMA DisciplineInit == Init => Discipline
<1> SUFFICES ASSUME Init, NEW c \in Clients PROVE Orderly(c)
  BY DEF Discipline
<1>1. T!Quiet(c)
  BY DEF Init, T!Init, T!Quiet, T!Handling
<1>2. Talk(c)
  BY <1>1 DEF Init, Talk, Waiting
<1>3. Bound(c)
  BY <1>1 DEF Init, T!Init, Bound, T!Quiet, Registered
<1> QED
  BY <1>2, <1>3 DEF Orderly

LEMMA DisciplineInvariant == Spec => [](TypesInv /\ Discipline)
BY TypesInit, TypesStep, DisciplineInit, DisciplineStep, PTL DEF Spec

(* ------------------------- the tracker's environment ------------------- *)

LEMMA UsesTrackerStep == TypesInv /\ Discipline /\ [Next]_vars => [T!Next]_(T!vars)
<1> SUFFICES ASSUME TypesInv, Discipline, [Next]_vars PROVE [T!Next]_(T!vars)
  OBVIOUS
<1> USE DEF TrackerCall, PeersCall, Move, trackerVars, T!vars
<1>1. ASSUME NEW c \in Clients,
             \/ T!Connect(c) \/ T!Call(c) \/ T!WaitingResponse(c) \/ T!LoseConnection(c)
      PROVE  T!Next
  BY <1>1 DEF T!Next, T!ClientStep
<1>2. ASSUME NEW c \in Clients, Connect(c) PROVE [T!Next]_(T!vars)
  BY <1>1, <1>2 DEF Connect
<1>3. ASSUME NEW c \in Clients, MainStep(c) PROVE [T!Next]_(T!vars)
  <2>1. CASE Ping(c) \/ Register(c) \/ List(c)
    <3>1. T!Quiet(c)
      BY <2>1, QuietOutsideWaits DEF Ping, Register, List, Waiting
    <3>2. T!ServerPing(c) \/ T!PeersList(c) \/ \E i \in PeerInfo : T!Registration(c, i)
      BY <2>1 DEF Ping, Register, List
    <3>3. T!Call(c)
      BY <3>1, <3>2, SameDefinitions DEF T!Call
    <3> QED
      BY <1>1, <3>3
  <2>2. CASE \/ TakeStatus(c, "pinging", "register") \/ TakeStatus(c, "registering", "start")
             \/ TakeList(c)
    BY <1>1, <2>2 DEF TakeStatus, TakeList
  <2>3. CASE Update(c)
    <3>1. T!Quiet(c)
      BY <2>3, QuietOutsideWaits DEF Update, Waiting
    <3>2. incoming' = incoming
      BY <2>3, <3>1 DEF Update, T!Quiet, TypesInv, TrackerTypes
    <3> QED
      BY <2>3, <3>2 DEF Update, trackerVars
  <2>4. CASE StartServer(c) \/ ConnectPeer(c) \/ InitializeChain(c) \/ SyncStep(c)
    BY <2>4 DEF StartServer, ConnectPeer, InitializeChain, SyncStep
  <2>5. CASE Initialized(c) \/ Fail(c) \/ Timeout(c)
    BY <2>5 DEF Initialized, Fail, Timeout
  <2> QED
    BY <1>3, <2>1, <2>2, <2>3, <2>4, <2>5 DEF MainStep
<1>4. ASSUME NEW c \in Clients, CutOff(c) PROVE [T!Next]_(T!vars)
  BY <1>1, <1>4 DEF CutOff
<1>5. ASSUME NEW c \in Clients, Miss(c) \/ Exit(c) \/ LoseConnection(c) \/ BreakPeer(c)
      PROVE  [T!Next]_(T!vars)
  BY <1>1, <1>4, <1>5 DEF Miss, Exit, LoseConnection, BreakPeer
<1>6. CASE TrackerStep
  BY <1>6 DEF TrackerStep, T!Next
<1>7. ASSUME NEW m \in calls, Serve(m) PROVE [T!Next]_(T!vars)
  <2>1. m.to \in Clients
    BY PartyTypes DEF TypesInv
  <2> QED
    BY <1>4, <1>7, <2>1 DEF Serve
<1>8. CASE UNCHANGED vars
  BY <1>8 DEF vars
<1> QED
  BY <1>2, <1>3, <1>5, <1>6, <1>7, <1>8 DEF Next

\* Whatever times out, breaks, ends or restarts, the application keeps to the
\* environment Tracker is modelled and proved with: it never has two questions
\* to the tracker under way, and asks nothing after a wait that ended without an
\* answer.
THEOREM KeepsToTracker == Spec => UsesTracker
<1>1. Init => T!Init
  BY DEF Init
<1> QED
  BY <1>1, DisciplineInvariant, UsesTrackerStep, PTL DEF Spec, UsesTracker, T!Spec

(* ------------------------- acquaintances ------------------------------- *)

Unlisted ==
  {"new", "connected", "pinging", "register", "registering", "start", "list", "listing"}

\* Whom c has still to connect to, and whom it is connected to: never itself,
\* and nobody twice.
Acquainted(c) ==
  /\ untried[c] \subseteq peerContainer[c]
  /\ \A p \in untried[c] : p.key # KeyOf[c]
  /\ \A p, q \in untried[c] : p.key = q.key => p = q
  /\ \A i \in DOMAIN peersConnections[c] :
       /\ KeyOf[peersConnections[c][i]] # KeyOf[c]
       /\ \A p \in untried[c] : p.key # KeyOf[peersConnections[c][i]]
  /\ Empty(peerContainer[c]) => peersConnections[c] = <<>>

\* How far the peers' part of c is when its main thread is at pc[c].
InStep(c) ==
  /\ pc[c] \in Unlisted => peersConnections[c] = <<>>
  /\ pc[c] \in Unlisted \union {"connect"} => stage[c] = "idle"
  /\ pc[c] \in {"list", "listing", "connect", "chain", "working"} => c \in serving

Social(c) == Acquainted(c) /\ InStep(c)
Acquaintance == \A c \in Clients : Social(c)

\* All that Social(c) looks at, but for the main thread's place.
SamePeers(c) ==
  /\ untried'[c] = untried[c] /\ peerContainer'[c] = peerContainer[c]
  /\ peersConnections'[c] = peersConnections[c]
  /\ stage'[c] = stage[c] /\ (c \in serving => c \in serving')

LEMMA SocialStays ==
  ASSUME NEW c \in Clients, Social(c), SamePeers(c), pc'[c] = pc[c]
  PROVE  Social(c)'
BY DEF Social, SamePeers, Acquainted, InStep, Empty

\* The main thread of c goes on, and nothing else of the peers' part changes.
LEMMA MoveKeepsSocial ==
  ASSUME TypesInv, Acquaintance, NEW c \in Clients, NEW s, Goto(c, s),
         \A d \in Clients : SamePeers(d),
         s \in Unlisted => pc[c] \in Unlisted,
         s = "connect" => pc[c] = "connect",
         s \in {"list", "listing", "chain", "working"} =>
           pc[c] \in {"list", "listing", "connect", "chain", "working"}
  PROVE  Acquaintance'
<1>1. pc'[c] = s /\ \A d \in Clients : d # c => pc'[d] = pc[d]
  BY DEF Goto, TypesInv, AppTypes
<1>2. Social(c)'
  BY <1>1 DEF Acquaintance, Social, SamePeers, Acquainted, InStep, Empty, Unlisted
<1> QED
  BY <1>1, <1>2, SocialStays DEF Acquaintance

LEMMA NothingKeepsSocial ==
  ASSUME TypesInv, Acquaintance, UNCHANGED pc, \A d \in Clients : SamePeers(d)
  PROVE  Acquaintance'
BY SocialStays DEF Acquaintance

\* Synchronising is within the stages, and has no part in acquaintances.
LEMMA SyncEffect ==
  ASSUME PeersTypes, NEW c \in Clients, P!SyncStep(c) \/ P!MissVersion(c) \/ P!MissChain(c)
  PROVE  /\ UNCHANGED <<serving, peersConnections>>
         /\ \A d \in Clients : d # c => stage'[d] = stage[d]
BY DEF PeersTypes, P!TypeOK, P!SyncStep, P!AskVersion, P!TakeVersion, P!MissVersion,
       P!NoChainFound, P!AskChain, P!TakeChain, P!MissChain, P!Store, P!Goto

LEMMA EndKeepsSocial ==
  ASSUME TypesInv, Acquaintance, NEW c \in Clients, Goto(c, "gone"), Keep, P!Exit(c)
  PROVE  Acquaintance'
<1>1. /\ pc'[c] = "gone"
      /\ \A d \in Clients : d # c => pc'[d] = pc[d] /\ SamePeers(d)
  BY DEF Goto, Keep, P!Exit, SamePeers, TypesInv, AppTypes, PeersTypes, P!TypeOK
<1>2. Social(c)'
  BY <1>1 DEF Keep, P!Exit, Acquaintance, Social, Acquainted, InStep, Unlisted, Empty
<1> QED
  BY <1>1, <1>2, SocialStays DEF Acquaintance

\* The list c is sent, less its own entry, holds every other identity once.
LEMMA TakeListKeepsSocial ==
  ASSUME TypesInv, Discipline, Acquaintance, NEW c \in Clients, TakeList(c)
  PROVE  Acquaintance'
<1> USE DEF TypesInv
<1>1. UNCHANGED peersVars /\ pc[c] = "listing" /\ incoming[c] # <<>>
  BY DEF TakeList
<1>2. CASE Head(incoming[c]).status = "SUCCESS"
  <2>1. PICK listed \in FromJson(Head(incoming[c]).body) :
          /\ peerContainer' = [peerContainer EXCEPT ![c] = Erase(listed, info[c])]
          /\ untried' = [untried EXCEPT ![c] = Erase(listed, info[c])]
    BY <1>2 DEF TakeList
  <2>2. info[c].key = KeyOf[c]
    BY <1>1 DEF Discipline, Orderly, Bound, Registered
  <2>3. \A p, q \in listed : p.key = q.key => p = q
    BY <2>1 DEF FromJson
  <2>4. pc'[c] = "connect" /\ \A d \in Clients : d # c => pc'[d] = pc[d]
    BY <1>2 DEF TakeList, Goto, AppTypes
  <2>5. ASSUME NEW d \in Clients, d # c PROVE Social(d)'
    BY <1>1, <2>1, <2>4, <2>5, SocialStays DEF Acquaintance, SamePeers, AppTypes, peersVars
  <2>6. /\ untried'[c] = Erase(listed, info[c])
        /\ peerContainer'[c] = Erase(listed, info[c])
        /\ peersConnections'[c] = <<>> /\ stage'[c] = "idle" /\ c \in serving'
    BY <1>1, <2>1 DEF AppTypes, peersVars, Acquaintance, Social, InStep, Unlisted
  <2>7. Acquainted(c)'
    BY <2>2, <2>3, <2>6 DEF Acquainted, Erase
  <2>8. InStep(c)'
    BY <2>4, <2>6 DEF InStep, Unlisted
  <2> QED
    BY <2>5, <2>7, <2>8 DEF Acquaintance, Social
<1>3. CASE Head(incoming[c]).status # "SUCCESS"
  <2>1. Goto(c, "failed") /\ \A d \in Clients : SamePeers(d)
    BY <1>1, <1>3 DEF TakeList, Keep, SamePeers, peersVars
  <2> QED
    BY <2>1, MoveKeepsSocial DEF Unlisted
<1> QED
  BY <1>2, <1>3

LEMMA ConnectPeerKeepsSocial ==
  ASSUME TypesInv, Acquaintance, NEW c \in Clients, ConnectPeer(c)
  PROVE  Acquaintance'
<1> USE DEF TypesInv
<1>1. PICK peer \in untried[c] :
        /\ untried' = [untried EXCEPT ![c] = @ \ {peer}]
        /\ \/ \E d \in Clients : KeyOf[d] = peer.key /\ P!Connect(c, d)
           \/ UNCHANGED peersVars
  BY DEF ConnectPeer
<1>2. UNCHANGED <<pc, info, peerContainer>> /\ pc[c] = "connect"
  BY DEF ConnectPeer
<1>3. /\ untried'[c] = untried[c] \ {peer}
      /\ \A d \in Clients : d # c => untried'[d] = untried[d]
  BY <1>1 DEF AppTypes
<1>4. UNCHANGED <<serving, stage>>
  BY <1>1 DEF P!Connect, peersVars, P!chainVars, P!syncVars, P!msgVars
<1>5. /\ \A d \in Clients : d # c => peersConnections'[d] = peersConnections[d]
      /\ \/ peersConnections'[c] = peersConnections[c]
         \/ \E d \in Clients : /\ KeyOf[d] = peer.key
                               /\ peersConnections'[c] = Append(peersConnections[c], d)
  BY <1>1 DEF P!Connect, peersVars, PeersTypes, P!TypeOK
<1>6. ASSUME NEW d \in Clients, d # c PROVE Social(d)'
  BY <1>2, <1>3, <1>4, <1>5, <1>6, SocialStays DEF Acquaintance, SamePeers
<1>7. \A i \in DOMAIN peersConnections'[c] :
        \/ i \in DOMAIN peersConnections[c] /\ peersConnections'[c][i] = peersConnections[c][i]
        \/ KeyOf[peersConnections'[c][i]] = peer.key
  <2>1. peersConnections[c] \in Seq(Clients)
    BY DEF PeersTypes, P!TypeOK
  <2> QED
    BY <1>5, <2>1
<1>8. Acquainted(c)'
  <2>1. Acquainted(c) /\ ~Empty(peerContainer[c])
    BY DEF Acquaintance, Social, Acquainted, Empty
  <2>2. ASSUME NEW i \in DOMAIN peersConnections'[c]
        PROVE  /\ KeyOf[peersConnections'[c][i]] # KeyOf[c]
               /\ \A p \in untried'[c] : p.key # KeyOf[peersConnections'[c][i]]
    BY <1>3, <1>7, <2>1 DEF Acquainted
  <2> QED
    BY <1>2, <1>3, <2>1, <2>2 DEF Acquainted, Empty
<1>9. InStep(c)'
  BY <1>2, <1>4 DEF Acquaintance, Social, InStep, Unlisted
<1> QED
  BY <1>6, <1>8, <1>9 DEF Acquaintance, Social

LEMMA StartKeepsSocial ==
  ASSUME TypesInv, Acquaintance, NEW c \in Clients, StartServer(c)
  PROVE  Acquaintance'
<1>1. /\ pc[c] = "start" /\ pc'[c] = "list"
      /\ \A d \in Clients : d # c => pc'[d] = pc[d]
      /\ UNCHANGED <<untried, peerContainer>>
      /\ P!Start(c)
  BY DEF StartServer, Move, PeersCall, Goto, Keep, TypesInv, AppTypes
<1>2. /\ UNCHANGED <<peersConnections, stage>>
      /\ serving \subseteq serving' /\ c \in serving'
  BY <1>1 DEF P!Start, P!syncVars
<1>3. ASSUME NEW d \in Clients, d # c PROVE Social(d)'
  BY <1>1, <1>2, <1>3, SocialStays DEF Acquaintance, SamePeers
<1>4. Social(c)'
  BY <1>1, <1>2 DEF Acquaintance, Social, Acquainted, InStep, Empty, Unlisted
<1> QED
  BY <1>3, <1>4 DEF Acquaintance

\* From InitializeChain on only the stage of c changes.
LEMMA SyncKeepsSocial ==
  ASSUME TypesInv, Acquaintance, NEW c \in Clients, Keep,
         pc[c] \in {"connect", "chain"}, pc'[c] = "chain",
         \A d \in Clients : d # c => pc'[d] = pc[d],
         UNCHANGED <<serving, peersConnections>>,
         \A d \in Clients : d # c => stage'[d] = stage[d]
  PROVE  Acquaintance'
<1>1. ASSUME NEW d \in Clients, d # c PROVE Social(d)'
  BY <1>1, SocialStays DEF Acquaintance, SamePeers, Keep
<1>2. Social(c)'
  BY DEF Acquaintance, Social, Acquainted, InStep, Empty, Unlisted, Keep
<1> QED
  BY <1>1, <1>2 DEF Acquaintance

LEMMA MainKeepsSocial ==
  ASSUME TypesInv, Discipline, Acquaintance, NEW c \in Clients, MainStep(c)
  PROVE  Acquaintance'
<1> USE DEF TrackerCall, PeersCall, Move
<1>1. CASE Ping(c) \/ List(c)
  <2>1. \A d \in Clients : SamePeers(d)
    BY <1>1 DEF Ping, List, Keep, SamePeers, peersVars
  <2> QED
    BY <1>1, <2>1, MoveKeepsSocial DEF Ping, List, Unlisted
<1>2. CASE Register(c)
  <2>1. \A d \in Clients : SamePeers(d)
    BY <1>2 DEF Register, SamePeers, peersVars
  <2> QED
    BY <1>2, <2>1, MoveKeepsSocial DEF Register, Unlisted
<1>3. CASE TakeStatus(c, "pinging", "register") \/ TakeStatus(c, "registering", "start")
  <2>1. \A d \in Clients : SamePeers(d)
    BY <1>3 DEF TakeStatus, Keep, SamePeers, peersVars
  <2>2. PICK s \in {"register", "start", "failed"} : Goto(c, s)
    BY <1>3 DEF TakeStatus
  <2>3. pc[c] \in Unlisted
    BY <1>3 DEF TakeStatus, Unlisted
  <2> QED
    BY <2>1, <2>2, <2>3, MoveKeepsSocial
<1>4. CASE Initialized(c) \/ Fail(c) \/ Timeout(c)
  <2>1. \A d \in Clients : SamePeers(d)
    BY <1>4 DEF Initialized, Fail, Timeout, Keep, SamePeers, peersVars
  <2>2. Goto(c, "failed") \/ (Goto(c, "working") /\ pc[c] = "chain")
    BY <1>4 DEF Initialized, Fail, Timeout
  <2> QED
    BY <2>1, <2>2, MoveKeepsSocial DEF Unlisted
<1>5. CASE InitializeChain(c) \/ SyncStep(c)
  <2>1. /\ pc[c] \in {"connect", "chain"} /\ pc'[c] = "chain"
        /\ \A d \in Clients : d # c => pc'[d] = pc[d]
        /\ Keep
    BY <1>5 DEF InitializeChain, SyncStep, Goto, TypesInv, AppTypes
  <2>2. P!Genesis(c) \/ P!Join(c) \/ P!SyncStep(c)
    BY <1>5 DEF InitializeChain, SyncStep
  <2>3. CASE P!Genesis(c) \/ P!Join(c)
    <3>1. /\ UNCHANGED <<serving, peersConnections>>
          /\ \A d \in Clients : d # c => stage'[d] = stage[d]
      BY <2>3 DEF P!Genesis, P!Join, P!Goto, TypesInv, PeersTypes, P!TypeOK
    <3> QED
      BY <2>1, <3>1, SyncKeepsSocial
  <2>4. CASE P!SyncStep(c)
    BY <2>1, <2>4, SyncEffect, SyncKeepsSocial DEF TypesInv
  <2> QED
    BY <2>2, <2>3, <2>4
<1>6. CASE Update(c)
  BY <1>6, NothingKeepsSocial DEF Update, SamePeers, appVars, peersVars
<1> QED
  BY <1>1, <1>2, <1>3, <1>4, <1>5, <1>6, StartKeepsSocial, TakeListKeepsSocial,
     ConnectPeerKeepsSocial DEF MainStep

LEMMA AcquaintanceStep ==
  TypesInv /\ Discipline /\ Acquaintance /\ [Next]_vars => Acquaintance'
<1> SUFFICES ASSUME TypesInv, Discipline, Acquaintance, [Next]_vars PROVE Acquaintance'
  OBVIOUS
<1>1. ASSUME NEW c \in Clients, Connect(c) PROVE Acquaintance'
  <2>1. \A d \in Clients : SamePeers(d)
    BY <1>1 DEF Connect, TrackerCall, Keep, SamePeers, peersVars
  <2>2. pc[c] = "new" /\ (Goto(c, "connected") \/ Goto(c, "failed"))
    BY <1>1 DEF Connect, TrackerCall, Move
  <2> QED
    BY <2>1, <2>2, MoveKeepsSocial DEF Unlisted
<1>2. ASSUME NEW c \in Clients, Miss(c) PROVE Acquaintance'
  <2>1. /\ pc[c] = "chain" /\ UNCHANGED pc /\ Keep
        /\ P!MissVersion(c) \/ P!MissChain(c)
    BY <1>2 DEF Miss, PeersCall
  <2> QED
    BY <2>1, SyncEffect, SyncKeepsSocial DEF TypesInv
<1>3. ASSUME NEW c \in Clients, LoseConnection(c) PROVE Acquaintance'
  BY <1>3, NothingKeepsSocial DEF LoseConnection, SamePeers, appVars, peersVars
<1>4. ASSUME NEW c \in Clients, BreakPeer(c) PROVE Acquaintance'
  BY <1>4, NothingKeepsSocial DEF BreakPeer, P!Break, P!syncVars, SamePeers, appVars
<1>5. ASSUME NEW c \in Clients, Exit(c) PROVE Acquaintance'
  BY <1>5, EndKeepsSocial DEF Exit
<1>6. CASE TrackerStep
  BY <1>6, NothingKeepsSocial DEF TrackerStep, SamePeers, appVars, peersVars
<1>7. ASSUME NEW m \in calls, Serve(m) PROVE Acquaintance'
  <2>1. m.to \in Clients
    BY PartyTypes DEF TypesInv
  <2>2. CASE (P!BlockchainVersion(m) \/ P!BlockchainSync(m)) /\ UNCHANGED appVars
    BY <2>2, NothingKeepsSocial
       DEF P!BlockchainVersion, P!BlockchainSync, P!syncVars, SamePeers, appVars
  <2>3. CASE P!BlockchainSyncCrash(m) /\ Goto(m.to, "gone") /\ Keep
    BY <2>1, <2>3, EndKeepsSocial DEF P!BlockchainSyncCrash
  <2> QED
    BY <1>7, <2>2, <2>3 DEF Serve
<1>8. CASE UNCHANGED vars
  BY <1>8, NothingKeepsSocial DEF vars, SamePeers, appVars, peersVars
<1> QED
  BY <1>1, <1>2, <1>3, <1>4, <1>5, <1>6, <1>7, <1>8, MainKeepsSocial DEF Next

LEMMA AcquaintanceInit == Init => Acquaintance
BY DEF Init, P!Init, Acquaintance, Social, Acquainted, InStep, Empty

LEMMA AcquaintanceInvariant == Spec => [](TypesInv /\ Discipline /\ Acquaintance)
BY TypesInit, TypesStep, DisciplineInit, DisciplineStep, AcquaintanceInit, AcquaintanceStep,
   PTL DEF Spec

\* No client ever connects to itself: it registered the entry it erases from
\* the list, whatever uuid the list gives it.
THEOREM NobodyItsOwnPeer == Spec => []NoSelfConnection
<1>1. Acquaintance => NoSelfConnection
  BY DEF Acquaintance, Social, Acquainted, NoSelfConnection
<1> QED
  BY <1>1, AcquaintanceInvariant, PTL

(* ------------------------- the peers' environment ---------------------- *)

LEMMA UsesPeersStep ==
  TypesInv /\ Acquaintance /\ [Next]_vars => [P!Next]_(P!vars)
<1> SUFFICES ASSUME TypesInv, Acquaintance, [Next]_vars PROVE [P!Next]_(P!vars)
  OBVIOUS
<1> USE DEF TrackerCall, PeersCall, Move, peersVars, P!vars
<1>1. ASSUME NEW c \in Clients,
             \/ P!Prepare(c) \/ P!SyncStep(c) \/ P!MissVersion(c) \/ P!MissChain(c)
             \/ P!Exit(c) \/ \E d \in Clients : P!Break(c, d)
      PROVE  P!Next
  BY <1>1 DEF P!Next
<1>2. ASSUME NEW c \in Clients, Connect(c) PROVE [P!Next]_(P!vars)
  BY <1>2 DEF Connect
<1>3. ASSUME NEW c \in Clients, MainStep(c) PROVE [P!Next]_(P!vars)
  <2>1. CASE Ping(c) \/ List(c)
    BY <2>1 DEF Ping, List
  <2>2. CASE Register(c)
    BY <2>2 DEF Register
  <2>3. CASE \/ TakeStatus(c, "pinging", "register") \/ TakeStatus(c, "registering", "start")
             \/ TakeList(c)
    BY <2>3 DEF TakeStatus, TakeList
  <2>4. CASE Update(c) \/ Initialized(c) \/ Fail(c) \/ Timeout(c)
    BY <2>4 DEF Update, Initialized, Fail, Timeout
  <2>5. CASE StartServer(c)
    BY <1>1, <2>5 DEF StartServer, P!Prepare
  <2>6. CASE ConnectPeer(c)
    <3>1. pc[c] = "connect" /\ c \in serving
      BY <2>6 DEF ConnectPeer, Acquaintance, Social, InStep
    <3>2. PICK peer \in untried[c] : \/ \E d \in Clients : KeyOf[d] = peer.key /\ P!Connect(c, d)
                                     \/ UNCHANGED peersVars
      BY <2>6 DEF ConnectPeer
    <3>3. ASSUME NEW d \in Clients, KeyOf[d] = peer.key, P!Connect(c, d) PROVE P!Next
      <4>1. d # c /\ \A i \in DOMAIN peersConnections[c] : peersConnections[c][i] # d
        BY <3>2, <3>3 DEF Acquaintance, Social, Acquainted
      <4> QED
        BY <1>1, <3>1, <3>3, <4>1 DEF P!Prepare
    <3> QED
      BY <3>2, <3>3
  <2>7. CASE InitializeChain(c)
    <3>1. /\ c \in serving
          /\ Empty(peerContainer[c]) => peersConnections[c] = <<>>
      BY <2>7 DEF InitializeChain, Acquaintance, Social, Acquainted, InStep
    <3> QED
      BY <1>1, <2>7, <3>1 DEF InitializeChain, P!Prepare
  <2>8. CASE SyncStep(c)
    BY <1>1, <2>8 DEF SyncStep
  <2> QED
    BY <1>3, <2>1, <2>2, <2>3, <2>4, <2>5, <2>6, <2>7, <2>8 DEF MainStep
<1>4. ASSUME NEW c \in Clients, Miss(c) \/ Exit(c) \/ LoseConnection(c) \/ BreakPeer(c)
      PROVE  [P!Next]_(P!vars)
  BY <1>1, <1>4 DEF Miss, Exit, LoseConnection, BreakPeer
<1>5. CASE TrackerStep
  BY <1>5 DEF TrackerStep
<1>6. ASSUME NEW m \in calls, Serve(m) PROVE [P!Next]_(P!vars)
  BY <1>6 DEF Serve, P!Next, P!Handle
<1>7. CASE UNCHANGED vars
  BY <1>7 DEF vars
<1> QED
  BY <1>2, <1>3, <1>4, <1>5, <1>6, <1>7 DEF Next

\* Among themselves the clients keep to the environment Peers is modelled and
\* proved with: nobody connects to itself or twice to one process, and a client
\* founds a chain only if it has no connections.
THEOREM KeepsToPeers == Spec => UsesPeers
<1>1. Init => P!Init
  BY DEF Init
<1> QED
  BY <1>1, AcquaintanceInvariant, UsesPeersStep, PTL DEF Spec, UsesPeers, P!Spec
=============================================================================
