------------------------------- MODULE Ledger -------------------------------
(***************************************************************************)
(* What the chains of a set of nodes promise, without messages: a chain    *)
(* begins as the block of the node that founds it, and reaches another     *)
(* node only as a copy fetched from a node that holds it at that moment.   *)
(***************************************************************************)
CONSTANTS Clients

VARIABLES
  held,     \* held[c]: the chain of node c
  fetched   \* fetched[c]: the copy c has obtained and not stored yet

vars == <<held, fetched>>

Init ==
  /\ held = [c \in Clients |-> <<>>]
  /\ fetched = [c \in Clients |-> <<>>]

\* The block of a founder is its own copy to store.
Found(c) ==
  /\ held[c] = <<>> /\ fetched[c] = <<>>
  /\ fetched' = [fetched EXCEPT ![c] = <<c>>]
  /\ UNCHANGED held

Fetch(c, d) ==
  /\ c # d
  /\ held[c] = <<>> /\ fetched[c] = <<>> /\ held[d] # <<>>
  /\ fetched' = [fetched EXCEPT ![c] = held[d]]
  /\ UNCHANGED held

Store(c) ==
  /\ fetched[c] # <<>>
  /\ held' = [held EXCEPT ![c] = fetched[c]]
  /\ fetched' = [fetched EXCEPT ![c] = <<>>]

\* A node stops, or loses the copy it waits for.
Lose(c) ==
  /\ fetched' = [fetched EXCEPT ![c] = <<>>]
  /\ held' \in {held, [held EXCEPT ![c] = <<>>]}

Next == \E c \in Clients : Found(c) \/ Store(c) \/ Lose(c) \/ \E d \in Clients : Fetch(c, d)

Spec == Init /\ [][Next]_vars
=============================================================================
