-------------------------- MODULE DopechainMessage --------------------------
(***************************************************************************)
(* The messages between a client and the tracker                           *)
(* (dopechain_common/message_impl.hpp, message_mapping.hpp).  The only     *)
(* data such a message carries is a list of peer infos; a message created  *)
(* with no data, or with the null JSON of an empty container, has no body. *)
(***************************************************************************)
EXTENDS PeerContainer

Types == {"SERVER_PING", "REGISTRATION_PEER", "PEERS_LIST"}
Statuses == {"CLIENT_STATUS", "SUCCESS", "FAILURE"}
Message == [type : Types, status : Statuses, body : SUBSET PeerInfo]

\* Mutant: SetType and SetStatus are swapped.
CreateSwapped(type, status, data) == [type |-> status, status |-> type, body |-> data]

\* MessageFactory::Create
Create(type, status, data) == [type |-> type, status |-> status, body |-> data]
=============================================================================
