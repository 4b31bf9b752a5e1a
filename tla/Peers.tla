------------------------------- MODULE Peers -------------------------------
(***************************************************************************)
(* The client processes among themselves (dopechain_client/): the local    *)
(* DopechainServer with its two chain handlers, the DopechainPeer          *)
(* connections, and DopechainPeerManager::BlockchainSync, the main thread's*)
(* search for the longest chain.                                           *)
(*                                                                         *)
(* Blocks are never added after the genesis block, so a chain is <<>> or   *)
(* <<f>>, the genesis block mined by the process f (two of them differ in  *)
(* their time of creation).  The vector is written by the main thread, once*)
(* (push_back, or operator= in BlockchainSync), with no lock against the   *)
(* handlers of the server, which already runs: while the vector's pointers *)
(* are being stored, size() may compute anything and an iteration may run  *)
(* off the vector.  writing[c] marks that window.                          *)
(*                                                                         *)
(* Connections of the Net library keep messages in order and lose none     *)
(* until they break, which they may do while both processes live; nobody   *)
(* connects again.  Nothing is assumed of a wait() on a peer that is gone  *)
(* or cut off: it may go on for ever or return with an empty queue.        *)
(***************************************************************************)
EXTENDS Sequences, FiniteSets, Naturals

CONSTANTS
  Clients,  \* client processes
  Nobody,   \* the null DopechainPeer
  Torn,     \* a size computed from half-stored pointers, larger than a true one
  MaxBroken \* bound: connections that break while both processes live

ASSUME NobodyAssumption == Nobody \notin Clients
ASSUME TornAssumption == Torn \in Nat /\ Torn > 1
ASSUME BrokenAssumption == MaxBroken \in Nat

VARIABLES
  serving,           \* processes whose DopechainServer runs
  chain,             \* chain[c]: blockchainLogic->chain
  writing,           \* writing[c]: the vector being stored into it, or <<>>
  peersConnections,  \* peersConnections[c]: the peers c is connected to
  stage,             \* stage[c]: where the main thread is in InitializeChain
  at,                \* at[c]: index of the loop over peersConnections
  best,              \* best[c]: maxVersion and maxVersionPeer
  calls,             \* requests sent by one process to another's server
  answers,           \* answers in the Incoming() queues of DopechainPeers
  broken             \* <<c, d>>: the connection c made to d broke

chainVars == <<chain, writing>>
syncVars == <<peersConnections, stage, at, best>>
msgVars == <<calls, answers, broken>>
vars == <<serving, chain, writing, peersConnections, stage, at, best, calls, answers, broken>>

Chain == {<<>>} \union {<<f>> : f \in Clients}
Request == [from : Clients, to : Clients, type : {"VERSION", "SYNC"}]
Answer == [from : Clients, to : Clients, type : {"VERSION", "SYNC"},
           version : {0, 1, Torn}, chain : Chain]

\* "idle" before InitializeChain; "ask" and "version": the next peer is asked
\* for its version, its answer is awaited; "sync": the chain is awaited;
\* "store": the vector is written; "done" and "failed": the result.
Stages == {"idle", "ask", "version", "sync", "store", "done", "failed", "gone"}

TypeOK ==
  /\ serving \in SUBSET Clients
  /\ chain \in [Clients -> Chain]
  /\ writing \in [Clients -> Chain]
  /\ peersConnections \in [Clients -> Seq(Clients)]
  /\ stage \in [Clients -> Stages]
  /\ at \in [Clients -> Nat]
  /\ best \in [Clients -> [peer : Clients \union {Nobody}, version : {0, 1, Torn}]]
  /\ calls \in SUBSET Request
  /\ answers \in SUBSET Answer
  /\ broken \in SUBSET (Clients \X Clients)

Init ==
  /\ serving = {}
  /\ chain = [c \in Clients |-> <<>>]
  /\ writing = [c \in Clients |-> <<>>]
  /\ peersConnections = [c \in Clients |-> <<>>]
  /\ stage = [c \in Clients |-> "idle"]
  /\ at = [c \in Clients |-> 1]
  /\ best = [c \in Clients |-> [peer |-> Nobody, version |-> 0]]
  /\ calls = {}
  /\ answers = {}
  /\ broken = {}
-----------------------------------------------------------------------------
(* The process around the peers. *)

\* serverLocalPeer->Start() and StartAsyncProcessHandle().
Start(c) ==
  /\ stage[c] = "idle" /\ c \notin serving
  /\ serving' = serving \union {c}
  /\ UNCHANGED <<chainVars, syncVars, msgVars>>

\* One pass of the loop in DopechainPeerManager's constructor that succeeds.
Connect(c, d) ==
  /\ stage[c] = "idle" /\ d \in serving
  /\ peersConnections' = [peersConnections EXCEPT ![c] = Append(@, d)]
  /\ UNCHANGED <<serving, chainVars, stage, at, best, msgVars>>

\* The process ends: a crash, or the key press main() waits for after a
\* failure.  What it had asked or was asked is lost; answers it gave are not.
Exit(c) ==
  /\ stage[c] # "gone"
  /\ stage' = [stage EXCEPT ![c] = "gone"]
  /\ serving' = serving \ {c}
  /\ chain' = [chain EXCEPT ![c] = <<>>]
  /\ writing' = [writing EXCEPT ![c] = <<>>]
  /\ calls' = {m \in calls : c \notin {m.from, m.to}}
  /\ answers' = {m \in answers : m.to # c}
  /\ UNCHANGED <<peersConnections, at, best, broken>>

\* What is in the queue of c's connection to d.
Incoming(c, d) == {a \in answers : a.to = c /\ a.from = d}

\* A connection breaks.  A request on it is lost; an answer on it may be.
\* OnDisconnect of the local server only logs.
Break(c, d) ==
  /\ Cardinality(broken) < MaxBroken
  /\ \E i \in DOMAIN peersConnections[c] : peersConnections[c][i] = d
  /\ <<c, d>> \notin broken /\ "gone" \notin {stage[c], stage[d]}
  /\ broken' = broken \union {<<c, d>>}
  /\ calls' = {m \in calls : m.from # c \/ m.to # d}
  /\ answers' \in {answers, answers \ Incoming(c, d)}
  /\ UNCHANGED <<serving, chainVars, syncVars>>
-----------------------------------------------------------------------------
(* InitializeChain and BlockchainSync. *)

Goto(c, s) == stage' = [stage EXCEPT ![c] = s]

\* InitBlockchain(GENESIS): the block is mined; its push_back begins.
Genesis(c) ==
  /\ stage[c] = "idle"
  /\ Goto(c, "store")
  /\ writing' = [writing EXCEPT ![c] = <<c>>]
  /\ UNCHANGED <<serving, chain, peersConnections, at, best, msgVars>>

\* InitBlockchain(JOIN), and BlockchainSync is entered.
Join(c) ==
  /\ stage[c] = "idle"
  /\ Goto(c, "ask")
  /\ UNCHANGED <<serving, chainVars, peersConnections, at, best, msgVars>>

\* Net::ClientInterface::Send; on a broken connection the request is dropped.
Ask(c, d, type) ==
  calls' = IF <<c, d>> \in broken THEN calls
           ELSE calls \union {[from |-> c, to |-> d, type |-> type]}

Current(c) == peersConnections[c][at[c]]

\* DopechainPeer::BlockchainVersion, up to the wait.
AskVersion(c) ==
  /\ stage[c] = "ask" /\ at[c] <= Len(peersConnections[c])
  /\ Ask(c, Current(c), "VERSION")
  /\ Goto(c, "version")
  /\ UNCHANGED <<serving, chainVars, peersConnections, at, best, answers, broken>>

\* Mutant: the first peer is remembered, whoever answered.
TakeVersionOfFirst(c) ==
  /\ stage[c] = "version"
  /\ \E a \in Incoming(c, Current(c)) :
       /\ best' = IF a.type = "VERSION" /\ best[c].version < a.version
                  THEN [best EXCEPT ![c] = [peer |-> peersConnections[c][1], version |-> a.version]]
                  ELSE best
       /\ answers' = answers \ {a}
  /\ at' = [at EXCEPT ![c] = @ + 1]
  /\ Goto(c, "ask")
  /\ UNCHANGED <<serving, chainVars, peersConnections, calls, broken>>

\* ... and after it: the first longest chain is remembered.
TakeVersion(c) ==
  /\ stage[c] = "version"
  /\ \E a \in Incoming(c, Current(c)) :
       /\ best' = IF a.type = "VERSION" /\ best[c].version < a.version
                  THEN [best EXCEPT ![c] = [peer |-> a.from, version |-> a.version]]
                  ELSE best
       /\ answers' = answers \ {a}
  /\ at' = [at EXCEPT ![c] = @ + 1]
  /\ Goto(c, "ask")
  /\ UNCHANGED <<serving, chainVars, peersConnections, calls, broken>>

\* Mutant: the peer is asked once more.
MissVersionRetry(c) ==
  /\ stage[c] = "version" /\ Incoming(c, Current(c)) = {}
  /\ Goto(c, "ask")
  /\ UNCHANGED <<serving, chainVars, peersConnections, at, best, msgVars>>

\* wait() returns with the queue empty: the peer is passed over.
MissVersion(c) ==
  /\ stage[c] = "version" /\ Incoming(c, Current(c)) = {}
  /\ at' = [at EXCEPT ![c] = @ + 1]
  /\ Goto(c, "ask")
  /\ UNCHANGED <<serving, chainVars, peersConnections, best, msgVars>>

AskedAll(c) == stage[c] = "ask" /\ at[c] > Len(peersConnections[c])

NoChainFound(c) ==
  /\ AskedAll(c)
  /\ best[c].peer = Nobody \/ best[c].version = 0
  /\ Goto(c, "failed")
  /\ UNCHANGED <<serving, chainVars, peersConnections, at, best, msgVars>>

AskChain(c) ==
  /\ AskedAll(c)
  /\ best[c].peer # Nobody /\ best[c].version # 0
  /\ Ask(c, best[c].peer, "SYNC")
  /\ Goto(c, "sync")
  /\ UNCHANGED <<serving, chainVars, peersConnections, at, best, answers, broken>>

\* The answer is parsed; an empty one assigns an empty vector to an empty one.
\* from_json throws on an answer that is no chain: there the step is not enabled,
\* and AnswersMatch says that none is ever found in this place.
TakeChain(c) ==
  /\ stage[c] = "sync"
  /\ \E a \in Incoming(c, best[c].peer) :
       /\ a.type = "SYNC"
       /\ answers' = answers \ {a}
       /\ writing' = [writing EXCEPT ![c] = a.chain]
  /\ Goto(c, "store")
  /\ UNCHANGED <<serving, chain, peersConnections, at, best, calls, broken>>

MissChain(c) ==
  /\ stage[c] = "sync" /\ Incoming(c, best[c].peer) = {}
  /\ Goto(c, "failed")
  /\ UNCHANGED <<serving, chainVars, peersConnections, at, best, msgVars>>

\* The last pointer of the vector is stored.
Store(c) ==
  /\ stage[c] = "store"
  /\ chain' = [chain EXCEPT ![c] = writing[c]]
  /\ writing' = [writing EXCEPT ![c] = <<>>]
  /\ Goto(c, "done")
  /\ UNCHANGED <<serving, peersConnections, at, best, msgVars>>
-----------------------------------------------------------------------------
(* The handlers of the local server; they run beside the main thread. *)

Reply(m, version, blocks) ==
  /\ calls' = calls \ {m}
  /\ answers' = answers \union
       {[from |-> m.to, to |-> m.from, type |-> m.type,
         version |-> version, chain |-> blocks]}

\* Mutant: the version is one more than the size.
VersionOffByOne(m) ==
  /\ m \in calls /\ m.type = "VERSION" /\ m.to \in serving
  /\ Reply(m, Len(chain[m.to]) + 1, <<>>)
  /\ UNCHANGED <<serving, chainVars, syncVars, broken>>

\* Mutant: the server only answers when its main thread is not waiting.
VersionByMainThread(m) ==
  /\ m \in calls /\ m.type = "VERSION" /\ m.to \in serving
  /\ stage[m.to] \notin {"version", "sync"}
  /\ Reply(m, Len(chain[m.to]), <<>>)
  /\ UNCHANGED <<serving, chainVars, syncVars, broken>>

\* The server is never without a blockchain, so its FAILURE is never sent.
BlockchainVersion(m) ==
  /\ m \in calls /\ m.type = "VERSION" /\ m.to \in serving
  /\ \/ Reply(m, Len(chain[m.to]), <<>>)
     \/ writing[m.to] # <<>> /\ Reply(m, Torn, <<>>)
  /\ UNCHANGED <<serving, chainVars, syncVars, broken>>

\* Mutant: a vector is sent before it is stored.
SyncEarly(m) ==
  /\ m \in calls /\ m.type = "SYNC" /\ m.to \in serving
  /\ Reply(m, 0, IF writing[m.to] # <<>> THEN writing[m.to] ELSE chain[m.to])
  /\ UNCHANGED <<serving, chainVars, syncVars, broken>>

BlockchainSync(m) ==
  /\ m \in calls /\ m.type = "SYNC" /\ m.to \in serving
  /\ Reply(m, 0, chain[m.to])
  /\ UNCHANGED <<serving, chainVars, syncVars, broken>>

\* to_json runs off a vector that is being stored: the process dies.
BlockchainSyncCrash(m) ==
  /\ m \in calls /\ m.type = "SYNC" /\ m.to \in serving
  /\ writing[m.to] # <<>>
  /\ Exit(m.to)

Handle(m) == BlockchainVersion(m) \/ BlockchainSync(m) \/ BlockchainSyncCrash(m)
-----------------------------------------------------------------------------
\* BlockchainSync and the writing of its result; the two Miss steps are apart
\* because nothing obliges wait() to return with an empty queue.
SyncStep(c) ==
  \/ AskVersion(c) \/ TakeVersion(c) \/ NoChainFound(c)
  \/ AskChain(c) \/ TakeChain(c) \/ Store(c)

\* Any process may connect to any other that serves, once each; one without
\* connections may found a chain.
Prepare(c) ==
  \/ Start(c)
  \/ c \in serving /\ \E d \in Clients \ {c} :
       (\A i \in DOMAIN peersConnections[c] : peersConnections[c][i] # d) /\ Connect(c, d)
  \/ c \in serving /\ peersConnections[c] = <<>> /\ Genesis(c)
  \/ c \in serving /\ Join(c)

Next ==
  \/ \E c \in Clients :
       \/ Prepare(c) \/ SyncStep(c) \/ MissVersion(c) \/ MissChain(c) \/ Exit(c)
       \/ \E d \in Clients : Break(c, d)
  \/ \E m \in calls : Handle(m)

\* The main thread runs on, and the server's threads serve every request.
Fairness ==
  /\ \A c \in Clients : WF_vars(SyncStep(c))
  /\ \A m \in Request : WF_vars(Handle(m))

Spec == Init /\ [][Next]_vars
FairSpec == Spec /\ Fairness
-----------------------------------------------------------------------------
(* Properties *)

\* The client code does not look at the type of an answer.  It need not: the
\* answer it finds is to the question it is waiting on, also after a wait that
\* gave up, because a peer that gave no version is never asked for its chain.
AnswersMatch ==
  \A c \in Clients :
    /\ stage[c] = "version" => \A a \in Incoming(c, Current(c)) : a.type = "VERSION"
    /\ stage[c] = "sync" => \A a \in Incoming(c, best[c].peer) : a.type = "SYNC"

\* BlockchainSync reports success without looking at what it received.  The
\* chain it adopted is empty only if the version it believed was torn: a peer
\* that truly answered a version still has that chain, or is gone.
SyncedHasChain ==
  \A c \in Clients :
    stage[c] = "done" /\ chain[c] = <<>> => best[c].version = Torn

\* "The blockchain version will be determined by its size"
\* (blockchain.hpp:40): a version answered by a process that is still there
\* is no more than the size of its chain.
VersionIsSize ==
  \A a \in answers :
    a.type = "VERSION" /\ a.from \in serving => a.version <= Len(chain[a.from])

\* The processes never wait for each other in a circle, however they are
\* connected: the handlers answer while the main thread waits.  A process that
\* enters BlockchainSync leaves it, or waits for one that is gone or cut off.
WaitsFor(c, d) ==
  \/ stage[c] = "version" /\ d = Current(c)
  \/ stage[c] = "sync" /\ d = best[c].peer

Unreachable(c, d) == stage[d] = "gone" \/ <<c, d>> \in broken

WaitsOnlyForTheGone ==
  \A c \in Clients :
    stage[c] = "ask" ~>
      \/ stage[c] \in {"done", "failed", "gone"}
      \/ \E d \in Clients : WaitsFor(c, d) /\ Unreachable(c, d)

\* Whatever is torn, skipped or cut short, a chain only ever spreads by copies
\* of what a process held.
Obtained(c) ==
  IF writing[c] # <<>> THEN writing[c]
  ELSE IF stage[c] = "sync" /\ \E a \in answers : a.to = c /\ a.chain # <<>>
       THEN (CHOOSE a \in answers : a.to = c /\ a.chain # <<>>).chain
       ELSE <<>>

Abstract == INSTANCE Ledger WITH held <- chain, fetched <- [c \in Clients |-> Obtained(c)]
CopiesOnly == Abstract!Spec
=============================================================================
