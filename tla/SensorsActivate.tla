-------------------------- MODULE SensorsActivate ---------------------------
(***************************************************************************)
(* Switching sensors on and off: sensors_poll_context_t::activate and      *)
(* real_activate (src/libsensors/sensors.cpp) over the enable() of the     *)
(* drivers.  The orientation sensor is computed from the accelerometer and *)
(* the magnetic sensor, which it shares with their own clients; three      *)
(* flags say who uses what.                                                *)
(*                                                                         *)
(* The framework makes one call at a time.  A call is a sequence of        *)
(* enable()s, each of which can fail, so that the poll thread can run      *)
(* between them and a later one may find an earlier one done.              *)
(***************************************************************************)
EXTENDS Naturals

CONSTANTS
  Others,      \* the sensors with no part in orientation: light and proximity
  Failures,    \* what can go wrong in enable(): opening the file, writing to it
  CompassInit  \* what the uninitialised CompassSensor::mEnabled can hold

Handles == {"A", "M", "O"} \cup Others
Garbage == 2   \* stands for every value of an int but 0 and 1

ASSUME OtherSensors == Others \subseteq {"L", "P"}
ASSUME FailureKinds == Failures \subseteq {"open", "write"}
ASSUME CompassValues == CompassInit \subseteq {0, 1, Garbage} /\ CompassInit # {}

VARIABLES
  mAccelActive, mMagnetActive, mOrientationActive,
  mEnabled,   \* what each driver believes
  on,         \* whether each device runs, as its enable file was last written
  unwritten,  \* devices whose driver believes in a write that never reached them: the last
              \* one was lost, or the compass found a 1 in its flag and has made none
  call,       \* [pc, handle, enabled]: the call in progress
  wanted,     \* per handle, what its last call asked for and whether it returned 0
  faultless   \* no call has failed

flags == << mAccelActive, mMagnetActive, mOrientationActive >>
devices == << mEnabled, on, unwritten >>
vars == << flags, devices, call, wanted, faultless >>

Idle == [pc |-> "idle", handle |-> "A", enabled |-> 0]

-----------------------------------------------------------------------------
\* Definitions named X_Slip are X with a plausible mistake; no action uses them.

\* What enable() leaves in mEnabled.
Flag(d, en) == en

\* write(), whose result every driver ignores.
Write(d, en) ==
  \/ on' = [on EXCEPT ![d] = en = 1] /\ unwritten' = unwritten \ {d}
  \/ "write" \in Failures /\ on' = on /\ unwritten' = unwritten \cup {d}

\* enable(): nothing to do, or the file cannot be opened, or it is written to.
enable(d, en, err) ==
  \/ /\ mEnabled[d] = en /\ err = 0
     /\ UNCHANGED devices
  \/ /\ mEnabled[d] # en /\ err = 1 /\ "open" \in Failures
     /\ UNCHANGED devices
  \/ /\ mEnabled[d] # en /\ err = 0
     /\ mEnabled' = [mEnabled EXCEPT ![d] = Flag(d, en)]
     /\ Write(d, en)

Result(en, err) == IF err # 0 THEN "failed" ELSE IF en = 1 THEN "on" ELSE "off"

Return(h, en, err) ==
  /\ call' = Idle
  /\ wanted' = [wanted EXCEPT ![h] = Result(en, err)]
  /\ faultless' = (faultless /\ err = 0)

\* The flag of sensor d after a call for h.
NowActive_Slip(h, en, d, active) == IF h = d /\ ~ (h # "O" /\ mOrientationActive) THEN en = 1 ELSE active
NowActive(h, en, d, active) == IF h = d THEN en = 1 ELSE active

\* The bookkeeping at the start of activate().
activate(h, en) ==
  /\ call.pc = "idle"
  /\ mOrientationActive' = NowActive(h, en, "O", mOrientationActive)
  /\ mAccelActive' = NowActive(h, en, "A", mAccelActive)
  /\ mMagnetActive' = NowActive(h, en, "M", mMagnetActive)
  /\ UNCHANGED devices
  /\ \/ /\ h \in {"A", "M"} /\ mOrientationActive
        /\ Return(h, en, 0)
     \/ /\ ~ (h \in {"A", "M"} /\ mOrientationActive)
        /\ call' = [pc |-> IF h = "O" THEN "accel" ELSE "self", handle |-> h, enabled |-> en]
        /\ UNCHANGED << wanted, faultless >>

\* One source of the orientation sensor: left alone when its own client uses it.
Source(at, d, active, then) ==
  /\ call.pc = at
  /\ UNCHANGED flags
  /\ \/ /\ active
        /\ call' = [call EXCEPT !.pc = then]
        /\ UNCHANGED << devices, wanted, faultless >>
     \/ /\ ~ active
        /\ enable(d, call.enabled, 0)
        /\ call' = [call EXCEPT !.pc = then]
        /\ UNCHANGED << wanted, faultless >>
     \/ /\ ~ active
        /\ enable(d, call.enabled, 1)
        /\ Return("O", call.enabled, 1)

ActivateAccel == Source("accel", "A", mAccelActive, "magnet")
ActivateMagnet == Source("magnet", "M", mMagnetActive, "self")

ActivateSelf ==
  /\ call.pc = "self"
  /\ UNCHANGED flags
  /\ \E err \in {0, 1} : enable(call.handle, call.enabled, err) /\ Return(call.handle, call.enabled, err)

\* The constructors switch the light and the proximity sensor on, which can fail too.
Init ==
  /\ mAccelActive = FALSE /\ mMagnetActive = FALSE /\ mOrientationActive = FALSE
  /\ \E c \in CompassInit, unopened, lost \in SUBSET Others :
       /\ unopened \cap lost = {}
       /\ unopened # {} => "open" \in Failures
       /\ lost # {} => "write" \in Failures
       /\ mEnabled = [d \in Handles |-> IF d = "M" THEN c ELSE IF d \in Others \ unopened THEN 1 ELSE 0]
       /\ on = [d \in Handles |-> d \in Others \ (unopened \cup lost)]
       /\ unwritten = lost \cup (IF c = 1 THEN {"M"} ELSE {})
  /\ call = Idle
  /\ wanted = [h \in Handles |-> "never"]
  /\ faultless = TRUE

Next == \/ \E h \in Handles, en \in {0, 1} : activate(h, en)
        \/ ActivateAccel \/ ActivateMagnet \/ ActivateSelf

Spec == Init /\ [][Next]_vars

-----------------------------------------------------------------------------
TypeOK ==
  /\ mAccelActive \in BOOLEAN /\ mMagnetActive \in BOOLEAN /\ mOrientationActive \in BOOLEAN
  /\ mEnabled \in [Handles -> {0, 1, Garbage}]
  /\ on \in [Handles -> BOOLEAN]
  /\ unwritten \subseteq Handles
  /\ call \in [pc : {"idle", "accel", "magnet", "self"}, handle : Handles, enabled : {0, 1}]
  /\ wanted \in [Handles -> {"never", "on", "off", "failed"}]
  /\ faultless \in BOOLEAN

Sources == {"A", "M"}
Released(h) == wanted[h] \in {"never", "off"}

\* Whatever failed before: once the last call for each of the three motion
\* sensors is a deactivation that returned 0, none of them is left running,
\* but one whose '0' the device did not take, which enable() never hears of.
QuietWhenReleased ==
  call.pc = "idle" /\ (\A h \in Sources \cup {"O"} : Released(h))
    => \A d \in (Sources \cup {"O"}) \ unwritten : ~ on[d]

\* As long as no call has failed, a source whose last write reached it runs exactly while
\* its own client or the orientation sensor's wants it: neither takes it from the other,
\* and a write that was lost for one device, or made good later, is no other's trouble.
SourcesShared ==
  call.pc = "idle" /\ faultless =>
    /\ \A d \in Sources \ unwritten : on[d] = (wanted[d] = "on" \/ wanted["O"] = "on")
    /\ "O" \notin unwritten => on["O"] = (wanted["O"] = "on")

\* Activation is sound: what nobody wants is off and what somebody wants is on, as far as
\* the writes of the drivers reach their devices.
ActivationSound == TypeOK /\ QuietWhenReleased /\ SourcesShared

\* Refuted.  What nobody wants is off: a write that fails leaves the sensor running with
\* every call answered by 0 (CompassSensor.cpp:88-91).
AlwaysQuiet ==
  call.pc = "idle" /\ (\A h \in Sources \cup {"O"} : Released(h))
    => \A d \in Sources \cup {"O"} : ~ on[d]

\* Refuted.  "Orientation requires accelerometer and magnetic sensor" (sensors.cpp:242):
\* an orientation client that was told 0 has them running.
OrientationHasSources ==
  call.pc = "idle" /\ wanted["O"] = "on" => \A d \in Sources : on[d]

\* Refuted.  "that will handle it" (sensors.cpp:257): an accelerometer or magnetic client
\* that was told 0 because the orientation sensor is active has its sensor.
HandledByOrientation ==
  call.pc = "idle" /\ mOrientationActive
    => \A d \in Sources : wanted[d] = "on" => on[d]
=============================================================================
