--------------------------- MODULE PeerContainer ---------------------------
(***************************************************************************)
(* DopechainPeerInfo and DopechainContainerPeers                           *)
(* (dopechain_common/peers_info.hpp, container_peers.hpp).                 *)
(*                                                                         *)
(* A key stands for the triple (address, port, username): it is all that   *)
(* operator== and DopechainPeerInfoHash look at.  The uuid travels in the  *)
(* JSON form but takes no part in equality.  GenerateUuidPeer parses the   *)
(* 36 characters of a uuid out of a buffer of address.size() + 10 bytes,   *)
(* so its result is whatever the heap holds: any uuid.                     *)
(*                                                                         *)
(* A container is a set of infos.  Every method holds containerMtx for its *)
(* whole body, so each operator below is one atomic step of its caller.    *)
(***************************************************************************)
EXTENDS FiniteSets

CONSTANTS
  Keys,   \* identities (address, port, username)
  Uuids   \* the values GenerateUuidPeer may read from memory

ASSUME UuidsAssumption == Uuids # {}

PeerInfo == [key : Keys, uuid : Uuids]

\* The infos the constructor may build for a key.
GenerateUuidPeer(key) == {[key |-> key, uuid |-> u] : u \in Uuids}

KeysOf(peers) == {p.key : p \in peers}

\* Mutant: operator== compares the uuid as well.
FindByUuid(peers, info) == info \in peers

Find(peers, info) == info.key \in KeysOf(peers)

\* Mutant: the set tells entries with different uuids apart.
AddPeerByUuid(peers, info) == peers \union {info}

\* unordered_set::insert leaves an equal element in place.
AddPeer(peers, info) ==
  IF Find(peers, info) THEN peers ELSE peers \union {info}

Erase(peers, info) == {p \in peers : p.key # info.key}

Empty(peers) == peers = {}

\* The container a JSON list is read into: from_json adds one peer after the
\* other, in any order, so of two infos with one key the first read stays.
\* (An empty container has no JSON body and is read back as an empty one.)
FromJson(body) ==
  {peers \in SUBSET body :
     /\ KeysOf(peers) = KeysOf(body)
     /\ \A p, q \in peers : p.key = q.key => p = q}
=============================================================================
