-------------------------- MODULE MCSecRilRequests --------------------------
(* Small instances of SecRilRequests. *)
EXTENDS SecRilRequests
=============================================================================
