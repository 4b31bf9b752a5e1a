---------------------------- MODULE DopechainApp ----------------------------
(***************************************************************************)
(* The whole system: client processes running main() and                   *)
(* DopechainApp::Initialize (dopechain_client/dopechain_main.cpp,          *)
(* dopechain_app.hpp) against the tracker (module Tracker) and each other  *)
(* (module Peers).                                                         *)
(*                                                                         *)
(* pc[c] is the main thread's place in Initialize; a pc that ends in "ing" *)
(* waits for an answer of the tracker.  When Initialize fails main() waits *)
(* for a key and the local server, if it was started, goes on serving.     *)
(* Every wait on the tracker may time out (3250 ms), every connection may  *)
(* fail to come up or break, every process may end at any step, and the    *)
(* tracker may end and be started again.                                   *)
(***************************************************************************)
EXTENDS DopechainMessage, Sequences, FiniteSets, Naturals

CONSTANTS
  Clients, Workers, KeyOf, Idle, MaxLives,   \* see Tracker
  Nobody, Torn, MaxBroken,         \* see Peers
  NoInfo,                          \* a default-constructed peer info
  Faulty                           \* bound of a run: the clients that may end,
                                   \* lose a connection or time out

ASSUME WorkersAssumption == IsFiniteSet(Workers)
ASSUME KeyOfAssumption == KeyOf \in [Clients -> Keys]
ASSUME IdleAssumption == Idle \notin [client : Clients, info : PeerInfo]
ASSUME LivesAssumption == MaxLives \in Nat
ASSUME NobodyAssumption == Nobody \notin Clients
ASSUME TornAssumption == Torn \in Nat /\ Torn > 1
ASSUME BrokenAssumption == MaxBroken \in Nat
ASSUME NoInfoAssumption == NoInfo \notin PeerInfo
ASSUME FaultyAssumption == Faulty \subseteq Clients

VARIABLES
  pc,             \* pc[c]: the main thread
  info,           \* info[c]: DopechainClient::info, default until Registration
  peerContainer,  \* peerContainer[c]: the peers c knows
  untried,        \* untried[c]: those DopechainPeerManager has yet to connect to
  peers, job, conn, requests, incoming, grants, life, since,   \* see Tracker
  serving, chain, writing, peersConnections,           \* see Peers
  stage, at, best, calls, answers, broken

T == INSTANCE Tracker
P == INSTANCE Peers

trackerVars == <<peers, job, conn, requests, incoming, grants, life, since>>
peersVars ==
  <<serving, chain, writing, peersConnections, stage, at, best, calls, answers, broken>>
appVars == <<pc, info, peerContainer, untried>>
vars == <<appVars, trackerVars, peersVars>>

Waiting == {"pinging", "registering", "listing"}
Stages == Waiting \union
  {"new", "connected", "register", "start", "list", "connect", "chain",
   "working", "failed", "gone"}

TypeOK ==
  /\ pc \in [Clients -> Stages]
  /\ info \in [Clients -> PeerInfo \union {NoInfo}]
  /\ peerContainer \in [Clients -> SUBSET PeerInfo]
  /\ untried \in [Clients -> SUBSET PeerInfo]
  /\ T!TypeOK
  /\ P!TypeOK

Init ==
  /\ pc = [c \in Clients |-> "new"]
  /\ info = [c \in Clients |-> NoInfo]
  /\ peerContainer = [c \in Clients |-> {}]
  /\ untried = [c \in Clients |-> {}]
  /\ T!Init
  /\ P!Init

Goto(c, s) == pc' = [pc EXCEPT ![c] = s]
Move(c, from, to) == pc[c] = from /\ Goto(c, to)
Keep == UNCHANGED <<info, peerContainer, untried>>

\* A step of the main thread that only calls the tracker, or only the peers.
TrackerCall(step) == step /\ Keep /\ UNCHANGED peersVars
PeersCall(step) == step /\ Keep /\ UNCHANGED trackerVars
-----------------------------------------------------------------------------
(* Initialize *)

\* ConnectionsTrackerServer: Connect, IsConnected, ServerPing.
Connect(c) ==
  \/ Move(c, "new", "connected") /\ TrackerCall(T!Connect(c))
  \/ /\ c \in Faulty
     /\ Move(c, "new", "failed") /\ Keep
     /\ UNCHANGED <<trackerVars, peersVars>>
Ping(c) == Move(c, "connected", "pinging") /\ TrackerCall(T!ServerPing(c))

\* RegistrationTrackerServer
Register(c) ==
  /\ Move(c, "register", "registering")
  /\ \E i \in PeerInfo : T!Registration(c, i) /\ info' = [info EXCEPT ![c] = i]
  /\ UNCHANGED <<peerContainer, untried, peersVars>>

\* InitializeLocalPeerServer and StartAsyncProcessHandle.  Runs of one identity
\* may serve at once: whether the second has its port refused (Fail) is up to
\* the network library.
StartServer(c) == Move(c, "start", "list") /\ PeersCall(P!Start(c))

\* InitializePeers; PeersList gives nullptr at once when not connected.
List(c) == Move(c, "list", "listing") /\ TrackerCall(T!PeersList(c))

\* The answer to ServerPing or Registration: only its status is looked at.
TakeStatus(c, from, to) ==
  /\ pc[c] = from /\ incoming[c] # <<>>
  /\ Goto(c, IF Head(incoming[c]).status = "SUCCESS" THEN to ELSE "failed")
  /\ TrackerCall(T!WaitingResponse(c))

\* Mutant: the client's own entry is not erased.
TakeWholeList(c) ==
  /\ pc[c] = "listing" /\ incoming[c] # <<>>
  /\ Goto(c, "connect")
  /\ \E listed \in FromJson(Head(incoming[c]).body) :
       /\ peerContainer' = [peerContainer EXCEPT ![c] = listed]
       /\ untried' = [untried EXCEPT ![c] = listed]
  /\ UNCHANGED info
  /\ T!WaitingResponse(c)
  /\ UNCHANGED peersVars

\* Mutant: the container is given the message, not the peers in it.
TakeRawList(c) ==
  /\ pc[c] = "listing" /\ incoming[c] # <<>>
  /\ Goto(c, "connect")
  /\ peerContainer' = [peerContainer EXCEPT ![c] = {Head(incoming[c])}]
  /\ untried' = [untried EXCEPT ![c] = Erase(Head(incoming[c]).body, info[c])]
  /\ UNCHANGED info
  /\ T!WaitingResponse(c)
  /\ UNCHANGED peersVars

\* The answer to PeersList; Erase removes the client's own entry, whatever its
\* uuid.  The constructor of DopechainPeerManager is entered.
TakeList(c) ==
  /\ pc[c] = "listing" /\ incoming[c] # <<>>
  /\ IF Head(incoming[c]).status = "SUCCESS"
     THEN /\ Goto(c, "connect")
          /\ \E listed \in FromJson(Head(incoming[c]).body) :
               /\ peerContainer' = [peerContainer EXCEPT ![c] = Erase(listed, info[c])]
               /\ untried' = [untried EXCEPT ![c] = Erase(listed, info[c])]
          /\ UNCHANGED info
     ELSE Goto(c, "failed") /\ Keep
  /\ T!WaitingResponse(c)
  /\ UNCHANGED peersVars

\* Mutant: the loop does not advance.
ConnectPeerAgain(c) ==
  /\ pc[c] = "connect"
  /\ \E peer \in untried[c], d \in Clients : KeyOf[d] = peer.key /\ P!Connect(c, d)
  /\ UNCHANGED <<appVars, trackerVars>>

\* One pass of the constructor's loop: connected to whoever serves at that
\* address, or passed over.
ConnectPeer(c) ==
  /\ pc[c] = "connect"
  /\ \E peer \in untried[c] :
       /\ untried' = [untried EXCEPT ![c] = @ \ {peer}]
       /\ \/ \E d \in Clients : KeyOf[d] = peer.key /\ P!Connect(c, d)
          \/ UNCHANGED peersVars
  /\ UNCHANGED <<pc, info, peerContainer, trackerVars>>

\* Mutant: a client that could not connect to anybody founds a chain.
InitializeUnconnected(c) ==
  /\ Move(c, "connect", "chain")
  /\ untried[c] = {}
  /\ PeersCall(IF peersConnections[c] = <<>> THEN P!Genesis(c) ELSE P!Join(c))

\* InitializeChain
InitializeChain(c) ==
  /\ Move(c, "connect", "chain")
  /\ untried[c] = {}
  /\ PeersCall(IF Empty(peerContainer[c]) THEN P!Genesis(c) ELSE P!Join(c))

SyncStep(c) ==
  /\ pc[c] = "chain"
  /\ PeersCall(P!SyncStep(c))
  /\ UNCHANGED pc

\* A wait for a peer's answer returns without one.
Miss(c) ==
  /\ pc[c] = "chain"
  /\ PeersCall(P!MissVersion(c) \/ P!MissChain(c))
  /\ UNCHANGED pc

\* InitializeChain returns, and Initialize with it; main() goes on.
Initialized(c) ==
  /\ pc[c] = "chain"
  /\ \/ stage[c] = "done" /\ Goto(c, "working")
     \/ stage[c] = "failed" /\ Goto(c, "failed")
  /\ Keep
  /\ UNCHANGED <<trackerVars, peersVars>>

\* The loop of main(): Update empties the queue of the tracker's connection,
\* then runs a command of the console, none of which changes anything.
Update(c) ==
  /\ pc[c] = "working"
  /\ incoming' = [incoming EXCEPT ![c] = <<>>]
  /\ UNCHANGED <<appVars, peers, job, conn, requests, grants, life, since, peersVars>>

\* The local port cannot be had, or the connection is found broken.
Fail(c) ==
  /\ \/ c \in Faulty /\ pc[c] = "start"
     \/ pc[c] \in {"connected", "list"} /\ conn[c] = "lost"
  /\ Goto(c, "failed")
  /\ Keep
  /\ UNCHANGED <<trackerVars, peersVars>>

\* Mutant: a ping that is not answered in time is ignored.
TimeoutIgnored(c) ==
  /\ c \in Faulty \/ conn[c] = "lost"
  /\ pc[c] \in Waiting /\ incoming[c] = <<>>
  /\ Goto(c, IF pc[c] = "pinging" THEN "register" ELSE "failed")
  /\ Keep
  /\ UNCHANGED <<trackerVars, peersVars>>

\* Mutant: the wait for the answer to Registration has no time limit.
TimeoutUnlimited(c) ==
  /\ c \in Faulty \/ conn[c] = "lost"
  /\ pc[c] \in Waiting \ {"registering"} /\ incoming[c] = <<>>
  /\ Goto(c, "failed")
  /\ Keep
  /\ UNCHANGED <<trackerVars, peersVars>>

\* WaitingResponse gives nullptr after 3250 ms without an answer.
Timeout(c) ==
  /\ c \in Faulty \/ conn[c] = "lost"
  /\ pc[c] \in Waiting /\ incoming[c] = <<>>
  /\ Goto(c, "failed")
  /\ Keep
  /\ UNCHANGED <<trackerVars, peersVars>>

MainStep(c) ==
  \/ Ping(c) \/ TakeStatus(c, "pinging", "register")
  \/ Register(c) \/ TakeStatus(c, "registering", "start")
  \/ StartServer(c) \/ List(c) \/ TakeList(c)
  \/ ConnectPeer(c) \/ InitializeChain(c) \/ SyncStep(c) \/ Initialized(c)
  \/ Update(c) \/ Fail(c) \/ Timeout(c)
-----------------------------------------------------------------------------
(* What happens around the main threads. *)

CutOff(c) ==
  \/ T!LoseConnection(c)
  \/ conn[c] # "up" /\ UNCHANGED trackerVars

\* The process ends; so do its local server and its connection.
Exit(c) ==
  /\ c \in Faulty
  /\ pc[c] \notin {"new", "gone"}
  /\ Goto(c, "gone")
  /\ P!Exit(c)
  /\ CutOff(c)
  /\ Keep

LoseConnection(c) ==
  /\ c \in Faulty
  /\ pc[c] # "gone"
  /\ T!LoseConnection(c)
  /\ UNCHANGED <<appVars, peersVars>>

\* A connection between two clients breaks.
BreakPeer(c) ==
  /\ c \in Faulty
  /\ \E d \in Clients : P!Break(c, d)
  /\ UNCHANGED <<appVars, trackerVars>>

TrackerStep == (T!ServerStep \/ T!Restart) /\ UNCHANGED <<appVars, peersVars>>

\* A handler of the local server of m.to; one that crashes ends the process.
Serve(m) ==
  /\ m \in calls
  /\ \/ P!BlockchainVersion(m) /\ UNCHANGED <<appVars, trackerVars>>
     \/ P!BlockchainSync(m) /\ UNCHANGED <<appVars, trackerVars>>
     \/ /\ P!BlockchainSyncCrash(m)
        /\ Goto(m.to, "gone") /\ Keep
        /\ CutOff(m.to)

Next ==
  \/ \E c \in Clients :
       \/ Connect(c) \/ MainStep(c) \/ Miss(c)
       \/ Exit(c) \/ LoseConnection(c) \/ BreakPeer(c)
  \/ TrackerStep
  \/ \E m \in calls : Serve(m)

\* Once started, a main thread runs on; the pools of the tracker and of the
\* local servers serve what they are given.  Nobody has to start, end or fail.
Fairness ==
  /\ \A c \in Clients : WF_vars(MainStep(c))
  /\ \A c \in Clients : WF_vars(\E w \in Workers : T!Handle(w, c) /\ UNCHANGED <<appVars, peersVars>>)
  /\ \A w \in Workers : WF_vars(T!RegistrationAdd(w) /\ UNCHANGED <<appVars, peersVars>>)
  /\ \A m \in P!Request : WF_vars(Serve(m))

Spec == Init /\ [][Next]_vars
FairSpec == Spec /\ Fairness
-----------------------------------------------------------------------------
(* Properties *)

\* Nobody becomes its own peer: the entry a client made itself is erased from
\* the list it is sent, so it never asks itself for a chain ("Removing
\* information about a local peer client from the general peer list",
\* dopechain_app.hpp:131).
NoSelfConnection ==
  \A c \in Clients : \A i \in DOMAIN peersConnections[c] :
    KeyOf[peersConnections[c][i]] # KeyOf[c]

\* The chains there are: in processes, being stored, or on their way.
Chains ==
  ({chain[c] : c \in Clients} \union {writing[c] : c \in Clients}
     \union {a.chain : a \in answers}) \ {<<>>}

\* However the start-ups of clients interleave, and whatever fails, the clients
\* that came to the tracker in one of its lives have one chain at most: two that
\* register concurrently see each other, or one of them is in the other's list,
\* so they cannot both find themselves alone.
Agreement == \A x, y \in Chains : since[x[1]] = since[y[1]] => x = y

\* Where runs share an identity and the tracker has several threads, two runs
\* may both be registered and both found a chain; but only those.
FoundersShareIdentity ==
  \A x, y \in Chains : since[x[1]] = since[y[1]] => KeyOf[x[1]] = KeyOf[y[1]]

\* The race costs no more chains than the pool has threads, however many runs
\* share an identity: a thread that has admitted one of them refuses the others.
ForksBounded ==
  \A l \in 1..life :
    Cardinality({x \in Chains : since[x[1]] = l}) <= Cardinality(Workers)

\* The first chain of a life of the tracker is its last: whoever comes later,
\* also when its founder and all copies are gone, never founds another one.
LedgerForEver ==
  \A c \in Clients :
    []( <<c>> \in Chains =>
        [](\A d \in Clients : <<d>> \in Chains /\ since[d] = since[c] => d = c))

\* A client that is through Initialize and believed no torn version.
Joined(c) == pc[c] = "working" /\ best[c].version # Torn

\* Those that came to the tracker in one of its lives have the ledger, all of
\* them the same, although Initialize never looks at the chain it received.
WorkingShareLedger ==
  \A c, d \in Clients :
    Joined(c) /\ Joined(d) /\ since[c] = since[d] =>
      chain[c] = chain[d] /\ chain[c] # <<>>

\* A tracker that restarts splits the clients for good: those of one life never
\* come by the chain of another, although all of them go on running.  (Where no
\* client shares the identity of one that came before the restart.)
ChainsKeepToTheirLife ==
  \A c \in Clients : chain[c] # <<>> => since[chain[c][1]] = since[c]

\* A client always finds itself in the list it is sent, whatever becomes of the
\* tracker between its registration and its question: what it takes for the
\* answer to its question is that, and comes from the tracker it registered with.
\* (An empty list would do for a client that is alone: it erases itself.)
ListsItself ==
  \A c \in Clients :
    pc[c] = "listing" /\ incoming[c] # <<>> =>
      KeyOf[c] \in KeysOf(Head(incoming[c]).body)

\* A client from which a chain may still come: it has one or is being sent
\* one, or it is, or will find itself, alone in the tracker's list.
Alone(c) == conn[c] = "up" /\ KeysOf(peers) = {KeyOf[c]}
Granted(c) ==
  \/ pc[c] \in {"start", "list"}
  \/ pc[c] = "registering" /\ (T!Handling(c) # {} \/ \E i \in DOMAIN incoming[c] :
                                                       incoming[c][i].status = "SUCCESS")
Source(c) ==
  \/ chain[c] # <<>> \/ writing[c] # <<>>
  \/ \E a \in answers : a.to = c /\ a.chain # <<>>
  \/ Granted(c) /\ Alone(c)
  \/ pc[c] = "listing" /\ IF incoming[c] = <<>> THEN Alone(c)
                          ELSE KeysOf(Head(incoming[c]).body) = {KeyOf[c]}
  \/ pc[c] = "connect" /\ Empty(peerContainer[c])

\* The tracker never forgets a peer, so once it knows some and none of them is
\* a source, no chain ever comes about again, whoever joins, as long as the
\* tracker lives: the founder gone before it was copied, or two clients whose
\* first lists held each other.
Extinct == peers # {} /\ \A c \in Clients : ~Source(c)
ExtinctForEver == [][Extinct => Extinct' \/ life' # life]_vars

\* The application keeps to the discipline the tracker is modelled with: one
\* call at a time, and none after a timeout, so that an answer is never taken
\* for the answer to an earlier question.
UsesTracker == T!Spec

\* And so it does with Peers: nobody connects to itself or twice to one
\* process, and only a client without connections founds a chain.
UsesPeers == P!Spec

\* Every start-up comes to its end, whatever times out, breaks or ends on the
\* way, except for a client that waits for a peer that is gone or cut off:
\* waits on the tracker have a time limit, waits on peers have none.
StartUpEnds ==
  \A c \in Clients :
    pc[c] = "connected" ~>
      \/ pc[c] \in {"working", "failed", "gone"}
      \/ \E d \in Clients : P!WaitsFor(c, d) /\ P!Unreachable(c, d)
=============================================================================
