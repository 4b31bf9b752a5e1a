------------------------------ MODULE Tracker ------------------------------
(***************************************************************************)
(* The tracker process (dopechain_tracker/) and the connections to it.     *)
(*                                                                         *)
(* The main loop hands every received message to a HandlerMediator with a  *)
(* pool of Workers; the three handlers run on pool threads and share one   *)
(* DopechainContainerPeers.  ServerPing and PeersList touch the container  *)
(* at most once, RegistrationPeer twice: Find and AddPeer lock separately, *)
(* and other handlers run in between.                                      *)
(*                                                                         *)
(* An element of Clients is one run of a client process.  A process that   *)
(* is restarted, or a second one started with the same address and port,   *)
(* is another element with the same KeyOf.                                 *)
(*                                                                         *)
(* The container is nowhere but in memory: a tracker that ends and is      *)
(* started again knows nobody, and clients do not connect a second time.   *)
(*                                                                         *)
(* The Net library (xProjectLib) is not in the repository; connections,    *)
(* the Incoming() queue and the pool are modelled from how they are used.  *)
(***************************************************************************)
EXTENDS DopechainMessage, Sequences, Naturals

CONSTANTS
  Clients,  \* client processes
  Workers,  \* threads of the tracker's HandlerMediator
  KeyOf,    \* the identity each client registers under
  Idle,     \* a worker that runs no handler
  MaxLives  \* bound: how often the tracker is started

ASSUME KeyOfAssumption == KeyOf \in [Clients -> Keys]
ASSUME IdleAssumption == Idle \notin [client : Clients, info : PeerInfo]
ASSUME LivesAssumption == MaxLives \in Nat

VARIABLES
  peers,     \* DopechainTracker::container
  job,       \* job[w]: RegistrationPeer::Handle of w between Find and AddPeer
  conn,      \* conn[c]: the client's connection, "new", "up" or "lost"
  requests,  \* requests[c]: messages of c received and not yet handled
  incoming,  \* incoming[c]: clientTrackerServer->Incoming()
  grants,    \* history: grants[<<w, k>>] SUCCESS answers of w to key k in this life
  life,      \* history: how often the tracker has been started
  since      \* history: since[c] is the life c connected in, 0 before

serverVars == <<peers, job, grants>>
lifeVars == <<life, since>>
vars == <<peers, job, conn, requests, incoming, grants, life, since>>

\* The workers between Find and AddPeer for c.
Handling(c) == {w \in Workers : job[w] # Idle /\ job[w].client = c}

\* Nothing of c is under way: no request, handler or unread answer.
Quiet(c) == requests[c] = <<>> /\ incoming[c] = <<>> /\ Handling(c) = {}

TypeOK ==
  /\ peers \in SUBSET PeerInfo
  /\ job \in [Workers -> [client : Clients, info : PeerInfo] \union {Idle}]
  /\ conn \in [Clients -> {"new", "up", "lost"}]
  /\ requests \in [Clients -> Seq(Message)]
  /\ incoming \in [Clients -> Seq(Message)]
  /\ grants \in [Workers \X Keys -> Nat]
  /\ life \in Nat
  /\ since \in [Clients -> Nat]

Init ==
  /\ peers = {}
  /\ job = [w \in Workers |-> Idle]
  /\ conn = [c \in Clients |-> "new"]
  /\ requests = [c \in Clients |-> <<>>]
  /\ incoming = [c \in Clients |-> <<>>]
  /\ grants = [wk \in Workers \X Keys |-> 0]
  /\ life = 1
  /\ since = [c \in Clients |-> 0]
-----------------------------------------------------------------------------
(* The client side: DopechainClient (client_impl.hpp).                     *)

Connect(c) ==
  /\ conn[c] = "new"
  /\ conn' = [conn EXCEPT ![c] = "up"]
  /\ since' = [since EXCEPT ![c] = life]
  /\ UNCHANGED <<serverVars, requests, incoming, life>>

\* Net::ClientInterface::Send; on a lost connection the message is dropped.
Send(c, msg) ==
  /\ conn[c] # "new"
  /\ requests' = IF conn[c] = "up"
                 THEN [requests EXCEPT ![c] = Append(@, msg)]
                 ELSE requests
  /\ UNCHANGED <<serverVars, conn, incoming, lifeVars>>

ServerPing(c) == Send(c, Create("SERVER_PING", "CLIENT_STATUS", {}))

Registration(c, info) ==
  /\ info \in GenerateUuidPeer(KeyOf[c])
  /\ Send(c, Create("REGISTRATION_PEER", "CLIENT_STATUS", {info}))

PeersList(c) ==
  /\ conn[c] = "up"
  /\ Send(c, Create("PEERS_LIST", "CLIENT_STATUS", {}))

\* WaitingResponse returns the first message of the queue.
WaitingResponse(c) ==
  /\ incoming[c] # <<>>
  /\ incoming' = [incoming EXCEPT ![c] = Tail(@)]
  /\ UNCHANGED <<serverVars, conn, requests, lifeVars>>

\* Mutant: OnDisconnect takes the client out of the container.
LoseAndUnregister(c) ==
  /\ conn[c] = "up"
  /\ conn' = [conn EXCEPT ![c] = "lost"]
  /\ \E kept \in {requests[c], <<>>} : requests' = [requests EXCEPT ![c] = kept]
  /\ peers' = {p \in peers : p.key # KeyOf[c]}
  /\ UNCHANGED <<job, grants, incoming, lifeVars>>

\* The connection breaks.  What the tracker has received is still handled or
\* goes with the connection; unread answers stay in the client's queue.
\* OnDisconnect only logs: the registration stays.
LoseConnection(c) ==
  /\ conn[c] = "up"
  /\ conn' = [conn EXCEPT ![c] = "lost"]
  /\ \E kept \in {requests[c], <<>>} : requests' = [requests EXCEPT ![c] = kept]
  /\ UNCHANGED <<serverVars, incoming, lifeVars>>
-----------------------------------------------------------------------------
(* The handlers, each run by a free worker on the oldest message of c.     *)

Dispatch(w, c, type) ==
  /\ job[w] = Idle
  /\ requests[c] # <<>>
  /\ Head(requests[c]).type = type
  /\ requests' = [requests EXCEPT ![c] = Tail(@)]

Respond(c, msg) ==
  incoming' = IF conn[c] = "up"
              THEN [incoming EXCEPT ![c] = Append(@, msg)]
              ELSE incoming

HandlePing(w, c) ==
  /\ Dispatch(w, c, "SERVER_PING")
  /\ Respond(c, Create("SERVER_PING", "SUCCESS", {}))
  /\ UNCHANGED <<serverVars, conn, lifeVars>>

\* Mutant: the answer is created without its data.
HandlePeersListBare(w, c) ==
  /\ Dispatch(w, c, "PEERS_LIST")
  /\ Respond(c, Create("REGISTRATION_PEER", "SUCCESS", {}))
  /\ UNCHANGED <<serverVars, conn, lifeVars>>

\* The answer carries the type REGISTRATION_PEER, as in the code.
HandlePeersList(w, c) ==
  /\ Dispatch(w, c, "PEERS_LIST")
  /\ Respond(c, Create("REGISTRATION_PEER", "SUCCESS", peers))
  /\ UNCHANGED <<serverVars, conn, lifeVars>>

\* Mutant: a known peer is not refused.
RegistrationUnchecked(w, c) ==
  /\ Dispatch(w, c, "REGISTRATION_PEER")
  /\ \E info \in Head(requests[c]).body :
       job' = [job EXCEPT ![w] = [client |-> c, info |-> info]]
  /\ UNCHANGED <<peers, grants, conn, incoming, lifeVars>>

\* Mutant: a known peer is refused without an answer.
RegistrationSilent(w, c) ==
  /\ Dispatch(w, c, "REGISTRATION_PEER")
  /\ \E info \in Head(requests[c]).body :
       \/ Find(peers, info) /\ UNCHANGED job
       \/ ~Find(peers, info) /\ job' = [job EXCEPT ![w] = [client |-> c, info |-> info]]
  /\ UNCHANGED <<peers, grants, conn, incoming, lifeVars>>

\* RegistrationPeer::Handle up to container->Find: a known peer is refused.
\* (The body holds the one info that Registration sent; Validate accepts it.)
RegistrationFind(w, c) ==
  /\ Dispatch(w, c, "REGISTRATION_PEER")
  /\ \E info \in Head(requests[c]).body :
       \/ /\ Find(peers, info)
          /\ Respond(c, Create("REGISTRATION_PEER", "FAILURE", {}))
          /\ UNCHANGED job
       \/ /\ ~Find(peers, info)
          /\ job' = [job EXCEPT ![w] = [client |-> c, info |-> info]]
          /\ UNCHANGED incoming
  /\ UNCHANGED <<peers, grants, conn, lifeVars>>

\* Mutant: AddPeer is left out.
RegistrationForgotten(w) ==
  /\ job[w] # Idle
  /\ Respond(job[w].client, Create("REGISTRATION_PEER", "SUCCESS", {}))
  /\ grants' = [grants EXCEPT ![<<w, job[w].info.key>>] = @ + 1]
  /\ job' = [job EXCEPT ![w] = Idle]
  /\ UNCHANGED <<peers, conn, requests, lifeVars>>

\* RegistrationPeer::Handle from container->AddPeer to the SUCCESS answer.
RegistrationAdd(w) ==
  /\ job[w] # Idle
  /\ peers' = AddPeer(peers, job[w].info)
  /\ Respond(job[w].client, Create("REGISTRATION_PEER", "SUCCESS", {}))
  /\ grants' = [grants EXCEPT ![<<w, job[w].info.key>>] = @ + 1]
  /\ job' = [job EXCEPT ![w] = Idle]
  /\ UNCHANGED <<conn, requests, lifeVars>>

Handle(w, c) ==
  \/ HandlePing(w, c)
  \/ HandlePeersList(w, c)
  \/ RegistrationFind(w, c)
-----------------------------------------------------------------------------
(* The process. *)

Cut(c) == IF conn[c] = "up" THEN "lost" ELSE conn[c]

\* Mutant: the container is read back from disk.
RestartWithPeers ==
  /\ life < MaxLives
  /\ life' = life + 1
  /\ job' = [w \in Workers |-> Idle]
  /\ grants' = [wk \in Workers \X Keys |-> 0]
  /\ conn' = [c \in Clients |-> Cut(c)]
  /\ requests' = [c \in Clients |-> <<>>]
  /\ UNCHANGED <<peers, incoming, since>>

\* Mutant: the clients' connections outlive the tracker.
RestartReconnected ==
  /\ life < MaxLives
  /\ life' = life + 1
  /\ peers' = {}
  /\ job' = [w \in Workers |-> Idle]
  /\ grants' = [wk \in Workers \X Keys |-> 0]
  /\ requests' = [c \in Clients |-> <<>>]
  /\ UNCHANGED <<conn, incoming, since>>

\* The tracker ends and is started again, at once: a client that connects in
\* between fails, as it may at any time.  All it had in memory is gone, with
\* its connections; answers that arrived stay in the clients' queues.
Restart ==
  /\ life < MaxLives
  /\ life' = life + 1
  /\ peers' = {}
  /\ job' = [w \in Workers |-> Idle]
  /\ grants' = [wk \in Workers \X Keys |-> 0]
  /\ conn' = [c \in Clients |-> Cut(c)]
  /\ requests' = [c \in Clients |-> <<>>]
  /\ UNCHANGED <<incoming, since>>
-----------------------------------------------------------------------------
(* A client of this module calls in any order, one call at a time.         *)

Call(c) ==
  /\ Quiet(c)
  /\ \/ ServerPing(c)
     \/ \E info \in PeerInfo : Registration(c, info)
     \/ PeersList(c)

ServerStep == \E w \in Workers : RegistrationAdd(w) \/ \E c \in Clients : Handle(w, c)
ClientStep == \E c \in Clients :
                Connect(c) \/ Call(c) \/ WaitingResponse(c) \/ LoseConnection(c)

Next == ServerStep \/ ClientStep \/ Restart

\* The pool takes tasks in order and its threads do not stop.  Nothing makes a
\* tracker restart.
Fairness ==
  /\ \A c \in Clients : WF_vars(\E w \in Workers : Handle(w, c))
  /\ \A w \in Workers : WF_vars(RegistrationAdd(w))

Spec == Init /\ [][Next]_vars
FairSpec == Spec /\ Fairness
-----------------------------------------------------------------------------
(* Properties *)

\* Whatever uuids GenerateUuidPeer reads and however handlers interleave, the
\* container never holds two entries for one (address, port, username).
UniqueEntries == \A p, q \in peers : p.key = q.key => p = q

\* The window between Find and AddPeer lets two clients with one identity both
\* be told SUCCESS, but never more of them than the pool has threads: a thread
\* that has granted an identity finds it ever after.  With one thread an
\* identity is granted once.
OneGrantPerWorker == \A w \in Workers, k \in Keys : grants[<<w, k>>] <= 1

\* Two peer lists under way to clients never disagree on who came first: one
\* contains the other, because nothing is ever taken out of the container while
\* the tracker lives.  (A client that finds itself alone in its list relies on
\* this.)  Lists of different lives need not agree on anything.
ListsOrdered ==
  \A c, d \in Clients : since[c] = since[d] =>
    \A i \in DOMAIN incoming[c], j \in DOMAIN incoming[d] :
      \/ incoming[c][i].body \subseteq incoming[d][j].body
      \/ incoming[d][j].body \subseteq incoming[c][i].body

\* A request that reached the tracker is answered, or its connection is gone:
\* no handler waits on another one and the pool drains.
EveryRequestAnswered ==
  \A c \in Clients :
    (requests[c] # <<>> \/ Handling(c) # {})
      ~> (conn[c] = "lost" \/ incoming[c] # <<>>)

\* Handlers appear atomic: a registration under way counts as not yet taken
\* from the queue.  Holds with one worker, or when no two clients share an
\* identity; with both, the check and the insert of RegistrationPeer::Handle
\* can be split by another registration of the same identity.
Unserved(c) ==
  IF Handling(c) = {} THEN requests[c]
  ELSE <<Create("REGISTRATION_PEER", "CLIENT_STATUS",
                {job[w].info : w \in Handling(c)})>> \o requests[c]

Atomic == INSTANCE AtomicTracker
            WITH requests <- [c \in Clients |-> Unserved(c)]

AppearsAtomic == Atomic!Spec
=============================================================================
