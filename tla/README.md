# Verification of dopechain

dopechain is a small peer-to-peer blockchain in C++: a **tracker** process knows
who takes part, and **client** processes register with it, fetch the list of
the others, and found a chain or copy the longest one they find. This
directory holds TLA+ modules of both programs and of the classes they share,
TLC configurations that check them on small instances, and TLAPS proofs.

    tlc -config MCTracker_race.cfg MCTracker      # a run
    tlapm TrackerProofs.tla                       # the proofs

## Inventory

| Part (source) | State | Operations | Interacts with | Hard behaviour | What makes it correct |
|---|---|---|---|---|---|
| Tracker server (`dopechain_tracker/`) | one container of peers | `ServerPing`, `RegistrationPeer`, `PeersList` handlers on a thread pool; `OnDisconnect` only logs | clients, by messages | `Find` and `AddPeer` lock separately; registrations outlive clients; the container does not outlive the process | one entry per identity; an identity granted once, lists ordered, both while the tracker lives; every request answered |
| Tracker connection (`client_impl.hpp`) | `info`, incoming queue | `ServerPing`, `Registration`, `PeersList`, `WaitingResponse` (3250 ms) | tracker | late answers stay in the queue, types are not compared | an answer is never taken for another question's |
| Container and peer info (`container_peers.hpp`, `peers_info.hpp`) | set of infos, mutex | `AddPeer`, `Find`, `Erase`, `Empty`, JSON | tracker, client | uuid is read from uninitialised memory and not part of equality | one entry per (address, port, username) |
| Start-up (`dopechain_app.hpp`, `dopechain_main.cpp`) | main thread, peer container | `Initialize`: ping, register, start local server, list, connect, initialise chain | everything | many clients start, fail and restart at once; a failed client's server keeps answering; the tracker may restart in between | one ledger per life of the tracker; start-up ends |
| Local server (`server_impl*.hpp`) | shares the chain, no lock | `BlockchainVersion`, `BlockchainSync` handlers on a pool | other clients | runs beside the main thread that writes the vector | answers are the chain's |
| Peer manager (`peer_manager.hpp`, `peer_connection.hpp`) | connections | constructor's loop, `BlockchainSync` | other clients' servers | waits without time limit; the best peer may go, or the connection to it break, between two calls | the chain adopted is one a peer held; no circular waits |
| Block, blockchain (`block.hpp`, `blockchain.hpp`) | vector of blocks | mining, `AddBlock`, JSON, `IsValid`, assignment | start-up, local server | mining may find no nonce; time is set after hashing | copies equal originals; linked chains are valid |
| Transactions, signatures, mempool | none in use | none called | nothing | none | not modelled |

The Net library (`xProjectLib`: connections, message queues, handler pool) is a
submodule whose sources are not in the repository. It is modelled from how it is
used; definitions that stand for it are marked external in `PROJECT.json`.
There are no docs and no tests; the comments in the code are the only text.

## Modules

**PeerContainer**, **DopechainMessage.** Pure definitions. A *key* stands for
(address, port, username), all that `operator==` and the hash look at; a peer
info is a key and a uuid, any uuid, because `GenerateUuidPeer` parses 36
characters out of a buffer of the address's length plus ten bytes. A message is
type, status and a list of infos.

**Tracker.** The tracker and the connections to it. `RegistrationPeer::Handle`
is two steps, `RegistrationFind` (up to `container->Find`, line 47) and
`RegistrationAdd` (from `AddPeer`, line 51): each method of the container locks
for its own body only, so anything may come between. All other handlers touch
the container at most once and are one step. `Restart` is the end of the
process and its next start: the container, the handlers under way and the
connections (`Cut`) are gone, answers that arrived are not, and no client
connects a second time. `life` counts the starts and `since[c]` is the life c
connected in; both are history, like `grants`, which counts per life. `job[w]`
is the handler suspended on thread w. An element of `Clients` is one run of a
client process, and `KeyOf` may give two runs one identity: a restart, or two
clients with one address and port (the user name is always "danil"). On its own
the module has clients that call anything in any order, one call at a time.
`PeersList` answers with the type `REGISTRATION_PEER`, as the code does.

**AtomicTracker.** The promise of a tracker without threads: requests are served
one at a time, an identity is accepted once and refused ever after, a list is
the set of those accepted so far; a restart makes all of that void.
`Tracker!AppearsAtomic` states that `Tracker` implements it under the mapping
that puts a registration under way back into the queue it came from.

**Peers.** Clients among themselves: `Start`, `Connect` (one pass of the peer
manager's loop), `Genesis` and `Join` (the two branches of `InitBlockchain`),
`BlockchainSync` as `AskVersion`/`TakeVersion`/`MissVersion` per peer, then
`NoChainFound` or `AskChain`/`TakeChain`/`MissChain`, and `Store`, the end of
the vector's write. The handlers run beside the main thread. No code ever adds a
block after genesis, so a chain is `<<>>` or `<<f>>` with f its founder.
`writing[c] # <<>>` is the window in which the main thread stores the vector's
pointers with no lock while handlers read them: `BlockchainVersion` may then
answer `Torn`, a size computed from half-stored pointers, and iterating the
vector may kill the process (`BlockchainSyncCrash`). Both are outcomes of the
data race with the usual layout of three pointers: the first pointer is stored,
the end pointer is still null. `MissVersion` and `MissChain` are
`wait()` returning with the queue empty, for which the code has a branch; they
may happen, and are never relied on. `Break` is a connection that fails while
both processes live: requests and answers on it may be lost, and later ones are
dropped by `Send` without an error (`Ask`); `broken` remembers it, for nobody
connects again.

**Ledger.** What chains promise without messages: founded by a node, then only
copied from a node that holds one at that moment.

**DopechainApp.** The system: `INSTANCE Tracker` and `INSTANCE Peers` over shared
variables, driven by the main thread of `Initialize` (`pc[c]`). Each call to the
tracker is two steps, the send and the answer; `Timeout` is `WaitingResponse`
giving `nullptr`. After a failure `main()` waits for a key and the local server
goes on serving. `Update` is the loop of `main()` after a start-up that
succeeded: it empties the queue of the tracker's connection; the console
commands read and print. `Exit` is the end of a process at any step, by a crash or by
that key; `LoseConnection`, `BreakPeer` and `T!Restart` are the other faults.
`Faulty` bounds who may fail in a run.

**Blockchain.** The classes `Block` and `DopechainBlockchain` under any sequence
of their methods' calls, with symbolic hashes (the tuple of what is hashed; the
nonce is a function of it, and counters and difficulties are one digit so that
their concatenation is injective too). `Minable` are the difficulties for which
the loop up to `INT_MAX` finds a nonce; for the others the block is pushed
uncreated, as in the code. The programs themselves only add genesis blocks; the
module takes the class at its public interface.

**MCTracker**, **MCPeers**, **MCApp**, **MCBlockchain** give instances.
**TrackerProofs**, **TrackerRefinementProofs**, **PeersProofs**,
**BlockchainProofs**, **DopechainAppProofs**, **AgreementProofs**,
**LivesProofs** and **ExtinctionProofs** hold the theorems. Operators preceded by "Mutant:" are
plausible bugs, used to show that each property can fail.

## Runs

| Run | Instance | Shows |
|---|---|---|
| `tracker_race` | 3 clients, two share an identity, 2 threads, 2 uuids, one restart | types; one entry per identity; an identity is granted at most once per thread; lists ordered |
| `tracker_atomic1` | the same clients, 1 thread, one restart | the tracker implements `AtomicTracker`; every request is answered |
| `tracker_atomic2` | 2 identities, 2 threads, 2 uuids, one restart | the same refinement |
| `peers_safety` | 3 clients, any connections, any may end, one connection may break | answers match questions; a synchronised client has a chain unless it believed a torn version; `Ledger` is implemented |
| `peers_live` | 2 clients, one connection may break | no two clients wait for each other for ever |
| `peers_version` | 2 clients | violated: a version is the size of a chain |
| `app_two` | 2 identities, 2 threads, 2 uuids, one restart, one broken peer connection, all faults | no self-connection; one ledger per life of the tracker; ledgers keep to their life; a client is in its own list; clients that work share one non-empty ledger; extinction is final; the application keeps to the environments that `Tracker` and `Peers` are modelled with |
| `app_restart` | 3 clients, two share an identity, 1 thread, one restart of the tracker; both runs of the shared identity may fail | runs of one identity fork no ledger |
| `app_race` | 4 clients, three share an identity, 2 threads, no restart; the client of the other identity may fail | two ledgers only from runs of one identity, and no more than threads, although more runs than threads race |
| `app_live` | 2 clients, 1 thread, one restart, one broken peer connection, all faults, fair | start-up ends, but for a wait on a peer that is gone or cut off; the first ledger of a life of the tracker is its last |
| `blockchain_api` | 2 nodes, 3 blocks, 3 ticks, a difficulty without a nonce | JSON round trips; the hash of a last block names its linked chain |
| `blockchain_valid` | the same | violated: a linked chain is valid |

What the runs say of the code:

* With one pool thread, or no shared identity, the tracker is atomic. With two
  threads and a shared identity it is not: two runs may both be told `SUCCESS`
  and each find only its own identity in the list, so both found a chain. (Ask
  `app_race` for `Agreement` to see it.) `OneGrantPerWorker`, `UniqueEntries`
  and `FoundersShareIdentity` say how far the damage goes, and `ForksBounded`
  what it can cost: one ledger per thread, however many runs race.
* Distinct clients never fork the ledger while the tracker lives, however their
  start-ups interleave: a client lists after it has registered, and lists are
  ordered, so two of them cannot both be alone in their lists. Nor does the
  ledger ever change hands: `LedgerForEver` says that once there was one nobody
  founds another in that life, not even after the founder and every copy are
  gone (nothing takes the founder out of the container).
* A restart of the tracker does fork it. `ChainsKeepToTheirLife` says how: the
  first client of the new life founds another chain, and although the clients
  of both lives go on running, none ever gets a chain of the other life.
  `ListsItself` shows that the case between the two is harmless: a client that
  registered before the restart and asks for the list after it gets no list at
  all, rather than one it is not in.
* The price is `ExtinctForEver`: once the tracker knows somebody and there is
  no chain left to come (the founder ended before it was copied, or the first
  two clients saw each other and both joined), no chain ever comes about until
  the tracker is restarted, and the clients of the identities it knows are
  refused besides.
* `SyncedHasChain`: a client that read a torn version may report success
  with an empty chain. All others that get to work in one life of the tracker
  have one and the same chain, though `Initialize` does not look at what it
  received (`WorkingShareLedger`).
* `BlockchainSync` cannot deadlock between living clients, but may wait for ever
  for one that ended after it was connected, or whose connection broke.
* The hash of a linked chain's last block and the chain from its last genesis
  block on determine each other: the time a block was made, and who made it,
  leave no trace in a hash (`TipNamesChain`). Two founders' genesis blocks have one hash.

### Findings

* `peers_version`: `blockchain.hpp:40` says "The blockchain version will be
  determined by its size". The handler (`server_impl_handlers.hpp:41`) reads
  `size()` while the main thread may be inside `push_back` or `operator=`; there
  is no lock, and the server starts before the chain is initialised.
* `blockchain_valid`: the comparison of `IsValid` (`blockchain.hpp:103`) ends in
  `;`, so `return false` is taken for every block that is not a genesis block.
  Nothing calls `IsValid` yet.

### Bounds and what they cover

Two clients suffice for a race of two registrations, for a founder and a joiner,
and for two joiners that wait for each other; the third adds a second run of an
identity beside an unrelated client (`app_restart`), or a peer from
which the best version may be taken away by a third (`peers_safety`). Two pool
threads suffice to split one registration by another. Two uuids tell equality by
key from equality by key and uuid. `MaxLives` = 2 starts of the tracker have
clients of the old life, of the new one, and clients caught between; a third
would repeat that. `MaxBroken` = 1 broken connection can hit the best peer
between the two questions, or either wait; with two clients each has but one.
Chains are at most one block in `Peers` because the program makes no more.
`Faulty` names who may fail; `app_restart` and `app_race` restrict it, and
switch broken connections (and `app_race` the restart) off, because of their
size; the theorems below cover all of it at once. `app_race` has a fourth client:
three runs of one identity, more than its two threads, so that `ForksBounded`
does not follow from `FoundersShareIdentity` by counting: two of the runs can
found a ledger, and a tracker that admitted without looking would let the third
found one as well. Client processes are finite
runs: none restarts but as another element of `Clients`. Calls of a standalone
tracker client are one at a time (`Quiet`), which keeps queues short;
`UsesTracker` shows the application does the same. `MaxBlocks` and `MaxTime`
bound `Blockchain`. Deadlock checking is off where everything may have stopped:
every process ended or waiting for a key. `peers_safety` uses the symmetry of
clients, `app_race` that of the threads and of the three runs of one identity,
none of which is `Faulty`. Their properties respect it: there are invariants,
action properties and a safety refinement among them, and no liveness property.

### Fairness

`Tracker!Fairness`: a received request is taken by a thread, and a handler
resumed: the pool takes tasks in order and the tracker's threads do not stop.
`DopechainApp!Fairness` adds that a started main thread runs on and that local
servers serve. The timeout of `WaitingResponse` is a step of the main thread, so
it is fair too; `MissVersion`, `MissChain`, starts, ends, failures and restarts of the
tracker are not.

## Proofs

The theorems hold for any clients, threads, identities, uuids, any `KeyOf`, any
bounds `MaxLives` and `MaxBroken`, any difficulties and up to nine blocks, from
the named assumptions of the modules (`KeyOf` is a function into `Keys`; the
application's tracker has finitely many threads; `Idle`,
`Nobody` and `NoInfo` are not a job, a client, a peer info; `Torn` is larger
than 1; difficulties are digits and the genesis difficulty can be mined). Those
with one more assumption say so.

| Module | Theorem | States |
|---|---|---|
| `TrackerProofs` | `TypeCorrect` | `Spec => []TypeOK` |
| | `OneEntryForAKey` | `Spec => []UniqueEntries` |
| | `GrantsBounded` | `Spec => []OneGrantPerWorker` |
| | `ListsInOrder` | `Spec => []ListsOrdered` |
| `TrackerRefinementProofs` | `TrackerAppearsAtomic` | `Separate`: `Spec => AppearsAtomic` |
| `PeersProofs` | `TypeCorrect` | `Spec => []TypeOK` |
| | `AnswersToQuestions` | `Spec => []AnswersMatch` |
| | `SyncedUnlessTorn` | `Spec => []SyncedHasChain` |
| | `ChainsAreCopies` | `Spec => CopiesOnly` |
| `BlockchainProofs` | `TypeCorrect` | `Spec => []TypeOK` |
| | `CopiesFaithful` | `Spec => []RoundTrip` |
| | `TipsNameChains` | `Spec => []TipNamesChain` |
| `DopechainAppProofs` | `TypeCorrect` | `Spec => []TypeOK` |
| | `KeepsToTracker` | `Spec => UsesTracker` |
| | `KeepsToPeers` | `Spec => UsesPeers` |
| | `NobodyItsOwnPeer` | `Spec => []NoSelfConnection` |
| `AgreementProofs` | `ListsHoldTheAsker` | `Spec => []ListsItself` |
| | `OneIdentityFounds` | `Spec => []FoundersShareIdentity` |
| | `OneChain` | `OneWorker` or `Distinct`: `Spec => []Agreement` |
| | `ForksAreBounded` | `Spec => []ForksBounded` |
| `LivesProofs` | `LivesStayApart` | `Distinct`: `Spec => []ChainsKeepToTheirLife` |
| | `WorkersShareTheLedger` | `Distinct`: `Spec => []WorkingShareLedger` |
| `ExtinctionProofs` | `ExtinctionIsFinal` | `Spec => ExtinctForEver` |
| | `FirstLedgerIsLast` | `OneWorker` or `Distinct`: `Spec => LedgerForEver` |

`OneWorker` says the pool has at most one thread, `Distinct` that no two clients
share an identity, `Separate` that one of the two holds. They are needed: with
two threads and a shared identity TLC finds the forks. `ChainsKeepToTheirLife`
needs `Distinct` even with one thread (`app_restart` refutes it): a client that
registers after the restart under an identity from before it puts that address
into the new list, and whoever serves there is asked.

**Tracker.** `UniqueEntries` is inductive given `TypeOK`: `AddPeer` inserts only
an unknown key. `OneGrantPerWorker` is not: a thread between `Find` and
`AddPeer` relies on what it saw. `GrantInv` adds that an identity a thread has
granted is in the container (`GrantedIsListed`), so its `Find` would have
refused it, and that an identity a thread is about to grant it has not granted
yet (`PendingNotGranted`), which no other thread's step can undo. `ListsOrdered`
needs that every list under way in this life is contained in the container
(`ListedIsKnown`): the container only grows, so a new list contains every older
one. For the refinement, `QuestionInv` says that a client has one question under
way, in its queue or in one handler, so the mapping that puts it back is a
queue of length one, and `GapInv` that what a suspended registration did not
find is still not there; this is what `Separate` is for. `RegistrationAdd`
then is `Accept`, the `RegistrationFind` that suspends is a stutter, and every
other action its namesake.

**Peers.** `AnswersMatch` does not look inductive from its words: an answer of
the wrong type could come from a question given up long ago. `SyncInv` follows
what is in flight: a connection is asked for its version once, in the order of
`peersConnections` and without repetition (`Distinct`), so what is under way
from a peer is of type VERSION until the loop has passed it, and the best peer,
which answered its version, has nothing else under way when it is asked for its
chain. `ChainInv` adds that a version other than 0 and `Torn` is answered only by a
process that has a chain (`VersionsTrue`), which it keeps until it ends. The refinement
to `Ledger` maps a chain under way to c to `fetched[c]`.

**Blockchain.** `BlockInv` says every block is settled (it has a hash, or its
difficulty has no nonce) and bounded; then reading a block back changes nothing.
`TipNamesChain` says what an induction along two chains would show, but no such
induction is needed: `LineageInv` states it for all prefixes of all chains
(`Prefixes`) and is inductive over the steps of the system. A block that is
added makes one new prefix, and two linked ones that end in equal hashes are
either genesis blocks or extend shorter ones in `Prefixes` that end in equal
hashes too, for the previous hash is hashed with a block; an adopted chain
makes no prefix that was not there, by `CopiesFaithful`'s invariant.

**DopechainApp.** Typing is proved in three parts. `Discipline` ties `pc[c]` to
what is under way between c and the tracker: a request, a handler or one answer to the
question that `pc[c]` waits on, and nothing otherwise unless the wait ended
(then nothing is asked again), or the client is of an earlier life. So every step is a
step of `Tracker!Spec`, with its guard `Quiet`. `Acquaintance` says that peers yet to be
tried are other identities, that none of them is connected to yet, and how far
the peers' part of a client is at each `pc`; so every step is a step of
`Peers!Spec`.

**Agreement.** A client is *admitted* in a life when it was told `SUCCESS` and
is *sole* when it is to found a chain or has founded one: it found nobody else
in its list. `KnownInv` says that whoever is admitted in the present life is in the
container, that two sole clients of one life share their identity (the later
one's list was taken when the earlier one was in the container), and that
founders are past their lists. `Agreement` needs `Once` besides, that an
identity is admitted once in a life: from `Gap` (what a
suspended registration did not find is still not there) with one thread, and
at once when identities are distinct. Without either, `ForksBounded` counts:
the runs admitted in a life under an identity (`Admits`) are no more than the
threads that have granted it (`Granters`), because a thread that has granted an
identity finds it in the container for the rest of that life (`Granting`); once the life is
over the number of threads bounds them still (`FewAdmits`).

**Lives.** `LivesInv` follows acquaintance across lives: the identities in the
container, in the lists under way in this life and among the peers yet to be
tried belong to clients of that life, so connections, questions, answers and
the chains in them stay within it. For `WorkingShareLedger`, `FoundInv` says
that a version other than 0 and `Torn` was given by a process that still has its
chain or is gone, that the chain is asked of the peer the best version came
from (`Settled`), and hence that what it answers, and what is then stored, is
not empty; `Agreement` and `ChainsKeepToTheirLife` make it the same for all.

**Extinction.** `Extinct` is `Lost`: the container is not empty, there are no
chains, and nobody is, or will find itself, alone. A step in one life cannot
make anybody alone again, for the container only grows, and a client that
registers is not alone in one that already holds another; by `Discipline` and
`KnownInv` it can be so only if the container held nobody else. `LedgerForEver`
is about a founder c that may be long gone, so its invariant cannot be about
chains: `Led(c)` says that c's identity is in the container while that life
lasts, so that who comes to be alone in a list is of that identity, and
`LedAlone(c)` that nobody else was admitted under it. Both hold when c founds
its chain and never end.

What `Tracker` and `Peers` promise carries over to the application, whose every
behaviour is one of each (`KeepsToTracker`, `KeepsToPeers`).

Only model-checked: liveness (`EveryRequestAnswered`, `WaitsOnlyForTheGone`,
`StartUpEnds`), which the prover cannot treat. The two violation runs are
counterexamples.

## Not modelled

* Bytes, JSON text, logging, the console's commands (they change nothing),
  tables, option parsing.
* `mempool`, `Mempool()` and `TransactionNotification` (no bodies, no callers),
  `Transaction`, `DopechainSigner` (empty), `Shutdown`, `Clear`, the two-argument
  `AddPeer` (no callers), peers' `Ping`.
* Ill-formed messages: `Validate` accepts a registration without `USERNAME`,
  `from_json` then throws. No client here sends one, and what becomes of an
  exception on a pool thread is in the Net library, whose sources are missing.
  Likewise an answer to `BLOCKCHAIN_SYNC` that is no chain: `from_json` would
  throw, and `TakeChain` is not enabled. `AnswersMatch`, a property of the states
  before that step, says that there is no such answer.
* The `FAILURE` of the `BlockchainVersion` handler: its blockchain is never null.
* That a second process may fail to bind a port in use: `StartServer` lets two
  runs of one identity serve at once, and `Fail` is a choice of `Faulty` clients.
* The merkle tree (never filled) and concatenations of longer numbers in the
  hashed header.
* Third-party code under `src/3dpart/` (by far most of the repository's lines):
  a JSON library, logging, tables, hashing, networking. The programs use small
  parts of it, as pure functions.

## Plan

Everything of the programs' own code that runs and changes state is modelled, and every
safety property of a passing run is proved. What would add
to it:

1. The unlocked window of `Peers` per stored pointer of the vector, which needs
   the layout of the build's `std::vector`; now it is two outcomes, a torn size
   and a crash.
2. The Net library, once its sources are there: reconnection, the order of tasks
   in the pool and exceptions of handlers are assumptions now.
3. `Transaction`, the mempool and the merkle tree, once some code uses them.
