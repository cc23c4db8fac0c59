-------------------------- MODULE MCAudioHardware --------------------------
(* Small instances of AudioHardware. *)
EXTENDS AudioHardware
=============================================================================
