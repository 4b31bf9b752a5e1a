--------------------------- MODULE AtomicTracker ---------------------------
(***************************************************************************)
(* What a tracker promises, without its threads: requests are served one   *)
(* at a time, an identity is accepted once and refused ever after, and a   *)
(* list is the set of all identities accepted so far, until the tracker     *)
(* ends, and another one that knows nobody takes its place.                *)
(***************************************************************************)
EXTENDS DopechainMessage, Sequences

CONSTANTS Clients

VARIABLES peers, conn, requests, incoming

vars == <<peers, conn, requests, incoming>>

Init ==
  /\ peers = {}
  /\ conn = [c \in Clients |-> "new"]
  /\ requests = [c \in Clients |-> <<>>]
  /\ incoming = [c \in Clients |-> <<>>]

Deliver(c, msg) ==
  incoming' = IF conn[c] = "up"
              THEN [incoming EXCEPT ![c] = Append(@, msg)]
              ELSE incoming

Accept(c, info) ==
  /\ ~Find(peers, info)
  /\ peers' = peers \union {info}
  /\ Deliver(c, Create("REGISTRATION_PEER", "SUCCESS", {}))

Refuse(c, info) ==
  /\ Find(peers, info)
  /\ Deliver(c, Create("REGISTRATION_PEER", "FAILURE", {}))
  /\ UNCHANGED peers

Report(c) ==
  /\ Deliver(c, Create("REGISTRATION_PEER", "SUCCESS", peers))
  /\ UNCHANGED peers

Pong(c) ==
  /\ Deliver(c, Create("SERVER_PING", "SUCCESS", {}))
  /\ UNCHANGED peers

Serve(c) ==
  /\ requests[c] # <<>>
  /\ requests' = [requests EXCEPT ![c] = Tail(@)]
  /\ UNCHANGED conn
  /\ LET msg == Head(requests[c]) IN
       \/ msg.type = "SERVER_PING" /\ Pong(c)
       \/ msg.type = "PEERS_LIST" /\ Report(c)
       \/ /\ msg.type = "REGISTRATION_PEER"
          /\ \E info \in msg.body : Accept(c, info) \/ Refuse(c, info)

Connect(c) ==
  /\ conn[c] = "new"
  /\ conn' = [conn EXCEPT ![c] = "up"]
  /\ UNCHANGED <<peers, requests, incoming>>

Call(c) ==
  /\ conn[c] = "up"
  /\ \E msg \in [type : Types, status : {"CLIENT_STATUS"},
                 body : {{}} \union {{info} : info \in PeerInfo}] :
       requests' = [requests EXCEPT ![c] = Append(@, msg)]
  /\ UNCHANGED <<peers, conn, incoming>>

Read(c) ==
  /\ incoming[c] # <<>>
  /\ incoming' = [incoming EXCEPT ![c] = Tail(@)]
  /\ UNCHANGED <<peers, conn, requests>>

Lose(c) ==
  /\ conn[c] = "up"
  /\ conn' = [conn EXCEPT ![c] = "lost"]
  /\ \E kept \in {requests[c], <<>>} : requests' = [requests EXCEPT ![c] = kept]
  /\ UNCHANGED <<peers, incoming>>

\* What was promised is void; what was answered stays.
Restart ==
  /\ peers' = {}
  /\ conn' = [c \in Clients |-> IF conn[c] = "up" THEN "lost" ELSE conn[c]]
  /\ requests' = [c \in Clients |-> <<>>]
  /\ UNCHANGED incoming

Next ==
  \/ Restart
  \/ \E c \in Clients : Serve(c) \/ Connect(c) \/ Call(c) \/ Read(c) \/ Lose(c)

Spec == Init /\ [][Next]_vars
=============================================================================
