--------------------------- MODULE MCSensorsPoll ----------------------------
(* Small instances of SensorsPoll. *)
EXTENDS SensorsPoll
=============================================================================
