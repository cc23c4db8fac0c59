------------------------- MODULE MCSensorsActivate --------------------------
(* Small instances of SensorsActivate. *)
EXTENDS SensorsActivate
=============================================================================
