------------------------- MODULE MCSecRilConnection -------------------------
(* Small instances of SecRilConnection. *)
EXTENDS SecRilConnection
=============================================================================
