------------------------- MODULE MCDisconnectBlock --------------------------
(* Instances of DisconnectBlock for TLC. *)
EXTENDS DisconnectBlock
=============================================================================
