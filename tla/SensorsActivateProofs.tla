------------------------ MODULE SensorsActivateProofs ------------------------
(***************************************************************************)
(* Proofs about SensorsActivate: sensors that nobody wants are off and     *)
(* shared ones are on, for every sequence of calls, whatever fails,        *)
(* whatever writes are lost and whatever the compass finds in its          *)
(* uninitialised flag; a device is excepted while the last write to it is  *)
(* lost, and for as long only.                                             *)
(***************************************************************************)
EXTENDS SensorsActivate, TLAPS

Motion == Sources \cup {"O"}

\* The flag that activate() keeps for a motion sensor.
Active(h) == IF h = "A" THEN mAccelActive ELSE IF h = "M" THEN mMagnetActive ELSE mOrientationActive

Calling(h) == call.pc # "idle" /\ call.handle = h

\* No step of the call in progress is still to come for source d.
Done(d) ==
  /\ ~ (call.pc = "self" /\ call.handle = d)
  /\ call.pc # "accel" /\ ~ (d = "M" /\ call.pc = "magnet")

\* Nobody wants h: its last call switched it off, or the one in progress does.
Off(h) == IF Calling(h) THEN call.enabled = 0 ELSE Released(h)

\* The two steps before the last one are the orientation sensor's, and a source's own
\* step is made only while the orientation sensor is off.
CallShape ==
  /\ call.pc \in {"accel", "magnet"} => call.handle = "O"
  /\ call.pc = "self" /\ call.handle \in Sources => ~ mOrientationActive

\* The flags are what was asked for, of a call that failed as well.
FlagsFollow ==
  \A h \in Motion :
    /\ Calling(h) => Active(h) = (call.enabled = 1)
    /\ ~ Calling(h) => (wanted[h] = "on" => Active(h)) /\ (Released(h) => ~ Active(h))

\* A driver whose last write reached its device knows whether that runs.
Believed ==
  /\ \A d \in Handles \ unwritten : on[d] = (mEnabled[d] = 1)
  /\ faultless => \A d \in Handles : wanted[d] # "failed"

\* What nobody wants is off, from the step on that had to see to it.
Quiet ==
  /\ \A d \in Sources \ unwritten : Done(d) /\ Off(d) /\ Off("O") => ~ on[d]
  /\ ~ Calling("O") /\ Released("O") /\ "O" \notin unwritten => ~ on["O"]

\* What somebody wants is on and nothing else is, from that step on; and a source with a
\* client of its own stays on while the orientation sensor's calls go on.
Shared ==
  faultless =>
    /\ \A d \in Sources \ unwritten :
         /\ Done(d) => on[d] = (Active(d) \/ mOrientationActive)
         /\ ~ Done(d) /\ call.handle = "O" /\ Active(d) => on[d]
    /\ ~ Calling("O") /\ "O" \notin unwritten => on["O"] = mOrientationActive

\* The inductive invariant.
IInv == TypeOK /\ CallShape /\ FlagsFollow /\ Believed /\ Quiet /\ Shared

USE DEF Motion, Sources, Released, Active, Calling, Done, Off

\* Before any call nothing but the light and the proximity sensor is on.
LEMMA InitInv == Init => IInv
<1> SUFFICES ASSUME Init PROVE IInv
  OBVIOUS
<1>1. PICK c \in CompassInit, unopened, lost \in SUBSET Others :
        /\ unopened \cap lost = {}
        /\ mEnabled = [d \in Handles |-> IF d = "M" THEN c ELSE IF d \in Others \ unopened THEN 1 ELSE 0]
        /\ on = [d \in Handles |-> d \in Others \ (unopened \cup lost)]
        /\ unwritten = lost \cup (IF c = 1 THEN {"M"} ELSE {})
  BY DEF Init
<1>2. /\ c \in {0, 1, Garbage} /\ "M" \notin Others /\ "A" \notin Others /\ "O" \notin Others
      /\ \A d \in Handles : mEnabled[d] = IF d = "M" THEN c ELSE IF d \in Others \ unopened THEN 1 ELSE 0
      /\ mEnabled \in [Handles -> {0, 1, Garbage}]
  BY <1>1, CompassValues, OtherSensors
<1>3. /\ on \in [Handles -> BOOLEAN] /\ \A d \in Handles : on[d] = (d \in Others \ (unopened \cup lost))
      /\ unwritten \subseteq Handles
      /\ wanted \in [Handles -> {"never", "on", "off", "failed"}] /\ \A h \in Handles : wanted[h] = "never"
      /\ call = Idle /\ faultless = TRUE
      /\ mAccelActive = FALSE /\ mMagnetActive = FALSE /\ mOrientationActive = FALSE
  <2>1. on \in [Handles -> BOOLEAN] /\ \A d \in Handles : on[d] = (d \in Others \ (unopened \cup lost))
    <3>1. \A d \in Handles : on[d] = (d \in Others \ (unopened \cup lost))
      BY Zenon, <1>1
    <3>2. \A d \in Handles : (d \in Others \ (unopened \cup lost)) \in BOOLEAN
      OBVIOUS
    <3>3. on \in [Handles -> BOOLEAN]
      BY Zenon, <1>1, <3>2
    <3>4. QED
      BY Zenon, <3>1, <3>3
  <2>2. unwritten \subseteq Handles
    BY <1>1 DEF Handles
  <2>3. /\ wanted \in [Handles -> {"never", "on", "off", "failed"}] /\ \A h \in Handles : wanted[h] = "never"
        /\ call = Idle /\ faultless = TRUE
        /\ mAccelActive = FALSE /\ mMagnetActive = FALSE /\ mOrientationActive = FALSE
    BY DEF Init
  <2>4. QED
    BY Zenon, <2>1, <2>2, <2>3
<1>4. TypeOK
  BY <1>2, <1>3 DEF TypeOK, Handles, Idle
<1>5. CallShape /\ FlagsFollow /\ Quiet /\ Shared
  <2>1. on["A"] = FALSE /\ on["M"] = FALSE /\ on["O"] = FALSE
    BY <1>2, <1>3 DEF Handles
  <2>2. CallShape /\ FlagsFollow
    BY <1>3 DEF CallShape, FlagsFollow, Handles, Idle
  <2>3. Quiet /\ Shared
    BY <1>3, <2>1 DEF Quiet, Shared, Idle
  <2>4. QED
    BY <2>2, <2>3
<1>6. ASSUME NEW d \in Handles \ unwritten PROVE on[d] = (mEnabled[d] = 1)
  <2>1. CASE d = "M"
    BY <1>1, <1>2, <1>3, <2>1 DEF Garbage
  <2>2. CASE d # "M"
    BY <1>1, <1>2, <1>3, <2>2
  <2>3. QED
    BY <2>1, <2>2
<1>7. Believed
  BY <1>3, <1>6 DEF Believed
<1>8. QED
  BY <1>4, <1>5, <1>7 DEF IInv

\* enable() changes one driver and its device, which agree after it unless the write was
\* lost; and if it returns 0 the device is then as asked.
LEMMA EnableOne ==
  ASSUME TypeOK, Believed, NEW d \in Handles, NEW en \in {0, 1}, NEW err \in {0, 1}, enable(d, en, err)
  PROVE  /\ mEnabled' \in [Handles -> {0, 1, Garbage}] /\ on' \in [Handles -> BOOLEAN]
         /\ unwritten' \subseteq Handles
         /\ \A x \in Handles \ {d} : /\ mEnabled'[x] = mEnabled[x] /\ on'[x] = on[x]
                                     /\ x \in unwritten' <=> x \in unwritten
         /\ d \notin unwritten' => on'[d] = (mEnabled'[d] = 1)
         /\ err = 0 => mEnabled'[d] = en
<1>0. mEnabled \in [Handles -> {0, 1, Garbage}] /\ on \in [Handles -> BOOLEAN] /\ unwritten \subseteq Handles
  BY DEF TypeOK
<1>1. CASE mEnabled[d] = en /\ err = 0 /\ UNCHANGED devices
  BY <1>0, <1>1 DEF Believed, devices
<1>2. CASE mEnabled[d] # en /\ err = 1 /\ UNCHANGED devices
  BY <1>0, <1>2 DEF Believed, devices
<1>3. CASE mEnabled[d] # en /\ err = 0 /\ mEnabled' = [mEnabled EXCEPT ![d] = en] /\ Write(d, en)
  <2>1. /\ mEnabled' \in [Handles -> {0, 1, Garbage}] /\ mEnabled'[d] = en
        /\ \A x \in Handles \ {d} : mEnabled'[x] = mEnabled[x]
    BY <1>0, <1>3
  <2>2. CASE on' = [on EXCEPT ![d] = en = 1] /\ unwritten' = unwritten \ {d}
    <3>1. PICK b \in BOOLEAN : b = (en = 1)
      BY Zenon
    <3>2. on' = [on EXCEPT ![d] = b]
      BY Zenon, <2>2, <3>1
    <3>3. on' \in [Handles -> BOOLEAN] /\ on'[d] = b /\ \A x \in Handles \ {d} : on'[x] = on[x]
      BY <1>0, <3>2
    <3>4. on'[d] = (mEnabled'[d] = 1)
      BY Zenon, <2>1, <3>1, <3>3
    <3>5. unwritten' \subseteq Handles /\ \A x \in Handles \ {d} : x \in unwritten' <=> x \in unwritten
      BY <1>0, <2>2
    <3>6. QED
      BY Zenon, <2>1, <3>3, <3>4, <3>5
  <2>3. CASE on' = on /\ unwritten' = unwritten \cup {d}
    BY <1>0, <2>1, <2>3
  <2>4. QED
    BY Zenon, <1>3, <2>2, <2>3 DEF Write
<1>4. QED
  BY Zenon, <1>1, <1>2, <1>3 DEF enable, Flag

\* The bookkeeping of activate().
LEMMA ActivateInv ==
  ASSUME IInv, NEW h \in Handles, NEW en \in {0, 1}, activate(h, en)
  PROVE  IInv'
<1>1. /\ call.pc = "idle" /\ UNCHANGED << mEnabled, on, unwritten >>
      /\ mAccelActive' = IF h = "A" THEN en = 1 ELSE mAccelActive
      /\ mMagnetActive' = IF h = "M" THEN en = 1 ELSE mMagnetActive
      /\ mOrientationActive' = IF h = "O" THEN en = 1 ELSE mOrientationActive
  BY DEF activate, NowActive, devices
<1>2. CASE /\ h \in {"A", "M"} /\ mOrientationActive
           /\ call' = Idle /\ wanted' = [wanted EXCEPT ![h] = IF en = 1 THEN "on" ELSE "off"]
           /\ faultless' = faultless
  <2>1. TypeOK'
    BY <1>1, <1>2 DEF IInv, TypeOK, Idle, Handles
  <2>2. CallShape' /\ Believed'
    BY <1>1, <1>2 DEF IInv, TypeOK, CallShape, Believed, Idle
  <2>3. FlagsFollow'
    BY <1>1, <1>2 DEF IInv, TypeOK, FlagsFollow, Idle, Handles
  <2>4. Quiet' /\ Shared'
    BY <1>1, <1>2 DEF IInv, TypeOK, FlagsFollow, Quiet, Shared, Idle, Handles
  <2>5. QED
    BY <2>1, <2>2, <2>3, <2>4 DEF IInv
<1>3. CASE /\ ~ (h \in {"A", "M"} /\ mOrientationActive)
           /\ call' = [pc |-> IF h = "O" THEN "accel" ELSE "self", handle |-> h, enabled |-> en]
           /\ UNCHANGED << wanted, faultless >>
  <2>1. TypeOK'
    BY <1>1, <1>3 DEF IInv, TypeOK, Handles
  <2>2. CallShape' /\ Believed'
    BY <1>1, <1>3 DEF IInv, TypeOK, CallShape, Believed
  <2>3. FlagsFollow'
    BY <1>1, <1>3 DEF IInv, TypeOK, FlagsFollow, Handles
  <2>4. Quiet'
    BY <1>1, <1>3 DEF IInv, TypeOK, FlagsFollow, Quiet, Handles
  <2>5. Shared'
    BY <1>1, <1>3 DEF IInv, TypeOK, FlagsFollow, Shared, Handles
  <2>6. QED
    BY <2>1, <2>2, <2>3, <2>4, <2>5 DEF IInv
<1>4. Result(en, 0) = (IF en = 1 THEN "on" ELSE "off") /\ (faultless /\ 0 = 0) = faultless
  BY DEF Result, IInv, TypeOK
<1>5. QED
  BY Zenon, <1>2, <1>3, <1>4 DEF activate, Return

\* One source of the orientation sensor.
LEMMA SourceInv ==
  ASSUME IInv, NEW at, NEW d \in Sources, NEW then,
         \/ at = "accel" /\ d = "A" /\ then = "magnet"
         \/ at = "magnet" /\ d = "M" /\ then = "self",
         Source(at, d, Active(d), then)
  PROVE  IInv'
<1>0. /\ call.pc = at /\ call.handle = "O" /\ call.enabled \in {0, 1} /\ d \in Handles
      /\ UNCHANGED flags
  BY DEF IInv, TypeOK, CallShape, Source, Handles
<1>1. CASE Active(d) /\ call' = [call EXCEPT !.pc = then] /\ UNCHANGED << mEnabled, on, unwritten, wanted, faultless >>
  BY <1>0, <1>1 DEF IInv, TypeOK, CallShape, FlagsFollow, Believed, Quiet, Shared, flags, Handles
<1>2. CASE ~ Active(d) /\ enable(d, call.enabled, 0) /\ call' = [call EXCEPT !.pc = then]
           /\ UNCHANGED << wanted, faultless >>
  BY <1>0, <1>2, EnableOne DEF IInv, TypeOK, CallShape, FlagsFollow, Believed, Quiet, Shared, flags, Handles
<1>3. CASE ~ Active(d) /\ enable(d, call.enabled, 1) /\ Return("O", call.enabled, 1)
  BY <1>0, <1>3, EnableOne
     DEF IInv, TypeOK, CallShape, FlagsFollow, Believed, Quiet, Shared, flags, Handles, Return, Result, Idle
<1>4. QED
  BY <1>1, <1>2, <1>3 DEF Source, devices

\* The sensor itself.
LEMMA SelfInv == ASSUME IInv, ActivateSelf PROVE IInv'
<1>1. PICK err \in {0, 1} : enable(call.handle, call.enabled, err) /\ Return(call.handle, call.enabled, err)
  BY DEF ActivateSelf
<1>2. /\ call.pc = "self" /\ UNCHANGED flags /\ call.handle \in Handles /\ call.enabled \in {0, 1}
  BY DEF ActivateSelf, IInv, TypeOK
<1> DEFINE h == call.handle
           en == call.enabled
<1>3. /\ call' = Idle /\ wanted' = [wanted EXCEPT ![h] = Result(en, err)]
      /\ faultless' = (faultless /\ err = 0)
  BY <1>1 DEF Return
<1>4. /\ mEnabled' \in [Handles -> {0, 1, Garbage}] /\ on' \in [Handles -> BOOLEAN]
      /\ unwritten' \subseteq Handles
      /\ \A x \in Handles \ {h} : /\ mEnabled'[x] = mEnabled[x] /\ on'[x] = on[x]
                                  /\ x \in unwritten' <=> x \in unwritten
      /\ h \notin unwritten' => on'[h] = (mEnabled'[h] = 1)
      /\ err = 0 => mEnabled'[h] = en
  BY <1>1, <1>2, EnableOne DEF IInv
<1>5. TypeOK' /\ CallShape'
  BY <1>2, <1>3, <1>4 DEF IInv, TypeOK, CallShape, flags, Idle, Result, Handles
<1>6. FlagsFollow'
  BY <1>2, <1>3 DEF IInv, TypeOK, FlagsFollow, flags, Idle, Result, Handles
<1>7. Believed'
  BY <1>2, <1>3, <1>4 DEF IInv, TypeOK, Believed, Result
<1>8. Quiet'
  BY <1>2, <1>3, <1>4 DEF IInv, TypeOK, FlagsFollow, Quiet, flags, Idle, Result, Handles
<1>9. Shared'
  <2>1. CASE err = 0
    <3>1. h \notin unwritten' => on'[h] = (en = 1)
      BY <1>2, <1>4, <2>1 DEF IInv, TypeOK
    <3>2. CASE h \in Sources
      <4>1. ~ mOrientationActive /\ Active(h) = (en = 1)
        BY <1>2, <3>2 DEF IInv, CallShape, FlagsFollow
      <4>2. \A d \in Sources \ {h} : on'[d] = on[d] /\ (d \in unwritten' <=> d \in unwritten) /\ Done(d)
        BY <1>2, <1>4, <3>2 DEF Handles
      <4>3. faultless /\ "O" \notin unwritten' => on'["O"] = on["O"] /\ on["O"] = mOrientationActive
        BY <1>2, <1>4, <3>2 DEF IInv, Shared, Handles
      <4>4. h \notin unwritten' => on'[h] = Active(h)
        BY <3>1, <4>1
      <4>5. /\ \A d \in Sources : Done(d)' /\ UNCHANGED Active(d)
            /\ UNCHANGED mOrientationActive /\ (faultless' => faultless)
        BY <1>2, <1>3 DEF flags, Idle
      <4>6. faultless => \A d \in Sources \ unwritten' : on'[d] = (Active(d) \/ mOrientationActive)
        <5>1. faultless => \A d \in (Sources \ {h}) \ unwritten : on[d] = (Active(d) \/ mOrientationActive)
          BY <4>2 DEF IInv, Shared
        <5>2. QED
          BY <4>1, <4>2, <4>4, <5>1
      <4>7. QED
        BY <4>3, <4>5, <4>6 DEF Shared
    <3>3. CASE h \notin Sources
      <4>1. \A d \in Sources : /\ on'[d] = on[d] /\ (d \in unwritten' <=> d \in unwritten)
                               /\ Done(d) /\ Done(d)'
        BY <1>2, <1>3, <1>4, <3>3 DEF Idle, Handles
      <4>2. faultless /\ h # "O" /\ "O" \notin unwritten' => on'["O"] = on["O"] /\ on["O"] = mOrientationActive
        BY <1>2, <1>3, <1>4 DEF IInv, Shared, Handles
      <4>3. h = "O" => mOrientationActive = (en = 1)
        BY <1>2 DEF IInv, FlagsFollow
      <4>4. QED
        BY <1>2, <1>3, <2>1, <3>1, <4>1, <4>2, <4>3 DEF IInv, Shared, flags, Idle
    <3>4. QED
      BY <3>2, <3>3
  <2>2. QED
    BY <1>3, <2>1 DEF Shared
<1>10. QED
  BY <1>5, <1>6, <1>7, <1>8, <1>9 DEF IInv

\* Every step keeps the invariant.
LEMMA StepInv == IInv /\ [Next]_vars => IInv'
<1> SUFFICES ASSUME IInv, [Next]_vars PROVE IInv'
  OBVIOUS
<1>1. ASSUME NEW h \in Handles, NEW en \in {0, 1}, activate(h, en) PROVE IInv'
  BY <1>1, ActivateInv
<1>2. CASE ActivateAccel
  BY <1>2, SourceInv DEF ActivateAccel
<1>3. CASE ActivateMagnet
  BY <1>3, SourceInv DEF ActivateMagnet
<1>4. CASE ActivateSelf
  BY <1>4, SelfInv
<1>5. CASE UNCHANGED vars
  BY <1>5 DEF vars, flags, devices, IInv, TypeOK, CallShape, FlagsFollow, Believed, Quiet, Shared
<1>6. QED
  BY <1>1, <1>2, <1>3, <1>4, <1>5 DEF Next

\* Once the last calls for the motion sensors have switched them off none of them is
\* running, and as long as no call failed each source runs exactly for its own client
\* or for the orientation sensor's (activate() and real_activate()): whatever opens fail
\* and whatever writes are lost, for every device the last write reached.
THEOREM ActivationIsSound == Spec => []ActivationSound
<1>1. IInv => ActivationSound
  <2> SUFFICES ASSUME IInv PROVE ActivationSound
    OBVIOUS
  <2>1. QuietWhenReleased
    BY DEF IInv, Quiet, QuietWhenReleased
  <2>2. SourcesShared
    BY DEF IInv, TypeOK, FlagsFollow, Believed, Shared, SourcesShared, Handles
  <2>3. QED
    BY <2>1, <2>2 DEF IInv, ActivationSound
<1>2. QED
  BY <1>1, InitInv, StepInv, PTL DEF Spec
=============================================================================
