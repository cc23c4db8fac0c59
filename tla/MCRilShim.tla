----------------------------- MODULE MCRilShim ------------------------------
(* Small instances of RilShim. *)
EXTENDS RilShim
=============================================================================
