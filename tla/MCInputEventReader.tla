------------------------- MODULE MCInputEventReader -------------------------
(***************************************************************************)
(* Small instances of InputEventReader and of the drivers over it, one of  *)
(* them in a behaviour.                                                    *)
(***************************************************************************)
EXTENDS InputEventReader, SensorDrivers

VARIABLE part

allVars == << vars, drvVars, part >>

InitParts ==
  /\ Init /\ InitDrivers
  /\ \/ part = "drivers"
     \/ part = "reader" /\ drv = LightSensor(-1)

NextParts ==
  /\ UNCHANGED part
  /\ \/ part = "reader" /\ Next /\ UNCHANGED drvVars
     \/ part = "drivers" /\ NextDrivers /\ UNCHANGED vars

SpecParts == InitParts /\ [][NextParts]_allVars
=============================================================================
