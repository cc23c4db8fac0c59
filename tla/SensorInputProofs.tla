-------------------------- MODULE SensorInputProofs ---------------------------
(***************************************************************************)
(* Proofs about the input of the sensors: the event reader, for a ring of  *)
(* any size, and the five drivers over it, for a kernel queue, a reader    *)
(* and a number of samples of any size.                                    *)
(***************************************************************************)
EXTENDS InputEventReader, SensorDrivers, SequenceTheorems, TLAPS

-----------------------------------------------------------------------------
(* The drivers.  The events that wait are those of the reader and then those of the    *)
(* kernel; the one that the device sends next comes after them.                        *)

Names == {"x", "y", "z", "SYN"}
Events == [axis : Names \cup {"SYN_DROPPED"}, value : Nat \cup {Unknown}, of : Nat]
Short == drv.kind \in {"light", "proximity"}

Waits == Len(reader.ring) + Len(kernel)
Event(i) == IF i <= Len(reader.ring) THEN reader.ring[i] ELSE kernel[i - Len(reader.ring)]

AxisAfter(axis) ==
  CASE axis = "SYN" -> "x" [] axis = "x" /\ ~ Short -> "y" [] axis = "y" -> "z" [] OTHER -> "SYN"
AxesBefore(axis) ==
  CASE axis = "x" -> {} [] axis = "y" -> {"x"} [] axis = "z" -> {"x", "y"} [] OTHER -> AxisSet(drv.kind)
DueAxis ==
  CASE source.sent = 0 -> "x" [] source.sent = 1 -> AxisAfter("x") [] source.sent = 2 -> "z"
    [] OTHER -> "SYN"
Due == [axis |-> DueAxis, of |-> source.sample]
Coming(i) == IF i <= Waits THEN Event(i) ELSE Due

\* The types.
DriverTypes ==
  /\ drv \in [kind : Kinds, fd : Int, enabled : {0, 1}, period : Nat, asked : Nat]
  /\ source \in [sample : 1..(Samples + 1), sent : 0..3] /\ (Short => source.sent <= 1)
  /\ kernel \in Seq(Events) /\ Len(kernel) <= KernelRoom
  /\ reader \in [ring : Seq(Events), count : 0..2] /\ Len(reader.ring) <= ReaderRoom
  /\ pending \in [AxisSet(drv.kind) -> Nat]
  /\ report \in [vector : [AxisSet(drv.kind) -> Nat], with : Nat, torn : BOOLEAN]
  /\ past \in [last : Nat, dropped : BOOLEAN]

\* An event is one of this device, and an axis has the value of its sample.
EventFits(e) ==
  \/ e = Dropped
  \/ e.axis = "SYN"
  \/ e.axis \in AxisSet(drv.kind) /\ (drv.kind # "proximity" => e.value = e.of)
EventsFit == \A i \in 1..Waits : EventFits(Event(i))

\* Of two events in a row the second is the next of the device, but at a gap.
Follows(e, f) == f.axis = AxisAfter(e.axis) /\ f.of = IF e.axis = "SYN" THEN e.of + 1 ELSE e.of
Joined(e, f) == e.axis = "SYN_DROPPED" \/ f.axis = "SYN_DROPPED" \/ Follows(e, f)
EventsJoined == \A i \in 1..Waits : Joined(Event(i), Coming(i + 1))

\* What has been taken since the last EV_SYN is what comes before the first event.
Ready(e) ==
  past.dropped \/ e.axis = "SYN_DROPPED" \/
    /\ e.of = past.last + 1
    /\ drv.kind # "proximity" => \A a \in AxesBefore(e.axis) : pending[a] = e.of

\* The inductive invariant.
DriversInv ==
  /\ DriverTypes /\ EventsFit /\ EventsJoined /\ Ready(Coming(1)) /\ VectorWhole /\ DelayHonoured

LEMMA AxisNames ==
  ASSUME NEW kind \in Kinds
  PROVE  /\ AxisSet(kind) = IF kind \in {"light", "proximity"} THEN {"x"} ELSE {"x", "y", "z"}
         /\ Len(Axes(kind)) = IF kind \in {"light", "proximity"} THEN 1 ELSE 3
<1>1. CASE kind \in {"light", "proximity"}
  <2>1. Axes(kind) = << "x" >>
    BY <1>1 DEF Axes
  <2>2. QED
    BY <1>1, <2>1 DEF AxisSet, ToSet
<1>2. CASE kind \notin {"light", "proximity"}
  <2>1. Axes(kind) = << "x", "y", "z" >>
    BY <1>2 DEF Axes
  <2>2. QED
    BY <1>2, <2>1 DEF AxisSet, ToSet
<1>3. QED
  BY <1>1, <1>2

LEMMA DriversStart == InitDrivers => DriversInv
<1> SUFFICES ASSUME InitDrivers PROVE DriversInv
  OBVIOUS
<1>1. PICK devices \in {<< "other", "sensor" >>, << "other" >>}, en \in {0, 1} :
         drv \in {Smb380Sensor(openInput("sensor", devices)), CompassSensor(openInput("sensor", devices), en),
                  OrientationSensor(openInput("sensor", devices)),
                  LightSensor(openInput("sensor", devices)), ProximitySensor(openInput("sensor", devices))}
  BY DEF InitDrivers
<1>2. openInput("sensor", devices) \in Int
  <2>1. DOMAIN devices \subseteq Int
    OBVIOUS
  <2>2. CASE \E i \in DOMAIN devices : devices[i] = "sensor"
    <3>1. devices = << "other", "sensor" >>
      BY <2>2
    <3>2. 2 \in DOMAIN devices /\ devices[2] = "sensor" /\ \A j \in 1..(2 - 1) : devices[j] # "sensor"
      BY <3>1
    <3>3. QED
      BY <2>1, <2>2, <3>2, Zenon DEF openInput
  <2>3. CASE ~ \E i \in DOMAIN devices : devices[i] = "sensor"
    BY <2>3 DEF openInput
  <2>4. QED
    BY <2>2, <2>3
<1>3. drv \in [kind : Kinds, fd : Int, enabled : {0, 1}, period : Nat, asked : Nat]
      /\ drv.period = 0 /\ drv.asked = 0
  BY <1>1, <1>2 DEF Smb380Sensor, CompassSensor, OrientationSensor, LightSensor, ProximitySensor, Made, Kinds
<1>4. /\ source = [sample |-> 1, sent |-> 0] /\ kernel = << >> /\ reader = [ring |-> << >>, count |-> 0]
      /\ pending = [a \in AxisSet(drv.kind) |-> 0]
      /\ report = [vector |-> pending, with |-> 0, torn |-> FALSE]
      /\ past = [last |-> 0, dropped |-> FALSE]
  BY DEF InitDrivers
<1>5. DriverTypes
  BY Rooms, SampleBound, <1>3, <1>4 DEF DriverTypes, Short
<1>6. Waits = 0 /\ Coming(1).axis = "x" /\ Coming(1).of = 1
  BY <1>4 DEF Waits, Coming, Due, DueAxis
<1>7. EventsFit /\ EventsJoined /\ Ready(Coming(1))
  BY <1>4, <1>6 DEF EventsFit, EventsJoined, Ready, AxesBefore
<1>8. VectorWhole
  BY <1>4 DEF VectorWhole
<1>9. DelayHonoured
  BY <1>3 DEF DelayHonoured
<1>10. QED
  BY <1>5, <1>7, <1>8, <1>9 DEF DriversInv

\* The kernel's queue takes an event at its end, or keeps nothing but it.
LEMMA QueuedEvents ==
  ASSUME DriverTypes, NEW e \in Events, kernel' = Queued(e), UNCHANGED reader
  PROVE  /\ kernel' \in Seq(Events) /\ Len(kernel') <= KernelRoom /\ Waits \in Nat
         /\ \E n \in 0..Waits :
              /\ \A i \in 1..n : Event(i)' = Event(i)
              /\ \/ n = Waits /\ Waits' = n + 1 /\ Event(n + 1)' = e
                 \/ Waits' = n + 2 /\ Event(n + 1)' = Dropped /\ Event(n + 2)' = e
<1>1. /\ kernel \in Seq(Events) /\ reader.ring \in Seq(Events) /\ Len(kernel) \in Nat
      /\ Len(reader.ring) \in Nat /\ Len(kernel) <= KernelRoom
  BY DEF DriverTypes
<1>2. PICK r \in Nat, k \in Nat : r = Len(reader.ring) /\ k = Len(kernel)
  BY <1>1
<1>3. k <= KernelRoom /\ Waits = r + k /\ Waits' = r + Len(kernel')
  BY <1>1, <1>2 DEF Waits
<1>4. ASSUME NEW i \in Nat
      PROVE  /\ i <= r => Event(i)' = Event(i)
             /\ i > r => Event(i) = kernel[i - r] /\ Event(i)' = kernel'[i - r]
  BY <1>2 DEF Event
<1>5. CASE k < KernelRoom
  <2>1. kernel' = Append(kernel, e)
    BY <1>2, <1>5 DEF Queued
  <2>2. /\ kernel' \in Seq(Events) /\ Len(kernel') = k + 1
        /\ kernel'[k + 1] = e /\ \A i \in 1..k : kernel'[i] = kernel[i]
    BY <1>1, <1>2, <2>1
  <2>3. ASSUME NEW i \in 1..(r + k) PROVE Event(i)' = Event(i)
    <3>1. CASE i <= r
      BY <1>4, <3>1
    <3>2. CASE i > r
      <4>1. i - r \in 1..k
        BY <3>2
      <4>2. QED
        BY <1>4, <2>2, <3>2, <4>1
    <3>3. QED
      BY <3>1, <3>2
  <2>4. Event(r + k + 1)' = e
    <3>1. (r + k + 1) - r = k + 1 /\ r + k + 1 > r /\ r + k + 1 \in Nat
      OBVIOUS
    <3>2. QED
      BY <1>4, <2>2, <3>1
  <2>5. QED
    <3>1. r + k = Waits /\ r + k \in 0..Waits /\ Waits' = r + k + 1 /\ Len(kernel') <= KernelRoom
      BY Rooms, <1>3, <1>5, <2>2
    <3>2. QED
      BY <2>2, <2>3, <2>4, <3>1
<1>6. CASE ~ k < KernelRoom
  <2>1. kernel' = << Dropped, e >>
    BY <1>2, <1>6 DEF Queued
  <2>2. Dropped \in Events
    BY DEF Dropped, Events
  <2>3. /\ kernel' \in Seq(Events) /\ Len(kernel') = 2 /\ kernel'[1] = Dropped /\ kernel'[2] = e
    BY <2>1, <2>2
  <2>4. r \in 0..Waits /\ Waits' = r + 2 /\ Waits \in Nat
    BY <1>3, <2>3
  <2>5. Event(r + 1)' = Dropped /\ Event(r + 2)' = e
    <3>1. (r + 1) - r = 1 /\ (r + 2) - r = 2 /\ r + 1 > r /\ r + 2 > r
      OBVIOUS
    <3>2. QED
      BY <1>4, <2>3, <3>1
  <2>6. \A i \in 1..r : Event(i)' = Event(i)
    BY <1>4
  <2>7. QED
    BY Rooms, <1>3, <2>3, <2>4, <2>5, <2>6
<1>7. QED
  BY <1>5, <1>6

\* fill() moves events to the reader and changes nothing of their order.
LEMMA FilledEvents ==
  ASSUME DriverTypes, readEvents
  PROVE  /\ DriverTypes' /\ Waits' = Waits /\ Waits \in Nat
         /\ \A i \in 1..Waits : Event(i)' = Event(i)
<1> DEFINE room == ReaderRoom - Len(reader.ring)
           m == IF Len(kernel) < room THEN Len(kernel) ELSE room
           got == SubSeq(kernel, 1, m)
<1>1. /\ kernel \in Seq(Events) /\ reader.ring \in Seq(Events) /\ Len(kernel) \in Nat
      /\ Len(reader.ring) \in Nat /\ Len(kernel) <= KernelRoom /\ Len(reader.ring) <= ReaderRoom
  BY DEF DriverTypes
<1>2. m \in Nat /\ m <= Len(kernel) /\ m <= room
  <2>1. room \in Nat
    BY Rooms, <1>1
  <2> HIDE DEF room
  <2>2. QED
    BY <1>1, <2>1
<1>3. got = FillReader(room)
  BY DEF FillReader
<1>4. /\ got \in Seq(Events) /\ Len(got) = m /\ \A i \in 1..m : got[i] = kernel[i]
  BY <1>1, <1>2, SubSeqProperties
<1>5. PICK count \in 1..2 :
        /\ reader' = [ring |-> reader.ring \o got, count |-> count]
        /\ kernel' = SubSeq(kernel, Len(got) + 1, Len(kernel))
  BY <1>3, Zenon DEF readEvents
<1> HIDE DEF got, m
<1>6. kernel' = SubSeq(kernel, m + 1, Len(kernel))
  BY <1>4, <1>5
<1>7. /\ kernel' \in Seq(Events) /\ Len(kernel') = Len(kernel) - m
      /\ \A i \in 1..(Len(kernel) - m) : kernel'[i] = kernel[m + i]
  BY <1>1, <1>2, <1>6, SubSeqProperties
<1>8. /\ reader'.ring \in Seq(Events) /\ Len(reader'.ring) = Len(reader.ring) + m
      /\ \A i \in 1..Len(reader.ring) : reader'.ring[i] = reader.ring[i]
      /\ \A i \in 1..m : reader'.ring[Len(reader.ring) + i] = kernel[i]
  <2>1. reader'.ring = reader.ring \o got
    BY <1>5
  <2>2. /\ reader.ring \o got \in Seq(Events) /\ Len(reader.ring \o got) = Len(reader.ring) + Len(got)
        /\ \A i \in 1..Len(reader.ring) + Len(got) :
             (reader.ring \o got)[i] = IF i <= Len(reader.ring) THEN reader.ring[i]
                                      ELSE got[i - Len(reader.ring)]
    <3>1. reader.ring \in Seq(Events) /\ got \in Seq(Events)
      BY <1>1, <1>4
    <3>2. QED
      BY <3>1, ConcatProperties, Zenon
  <2>3. ASSUME NEW i \in 1..m PROVE reader'.ring[Len(reader.ring) + i] = kernel[i]
    <3>1. /\ Len(reader.ring) + i \in 1..Len(reader.ring) + Len(got)
          /\ ~ Len(reader.ring) + i <= Len(reader.ring) /\ (Len(reader.ring) + i) - Len(reader.ring) = i
      BY <1>1, <1>2, <1>4
    <3>2. QED
      BY <1>4, <2>1, <2>2, <3>1
  <2>4. ASSUME NEW i \in 1..Len(reader.ring) PROVE reader'.ring[i] = reader.ring[i]
    BY <1>1, <1>2, <1>4, <2>1, <2>2
  <2>5. QED
    BY <1>4, <2>1, <2>2, <2>3, <2>4
<1>9. Waits' = Waits
  BY <1>1, <1>2, <1>7, <1>8 DEF Waits
<1>10. ASSUME NEW i \in 1..Waits PROVE Event(i)' = Event(i)
  <2>1. CASE i <= Len(reader.ring)
    BY <1>1, <1>2, <1>8, <2>1 DEF Event
  <2>2. CASE i > Len(reader.ring) /\ i <= Len(reader.ring) + m
    <3>1. i - Len(reader.ring) \in 1..m /\ Len(reader.ring) + (i - Len(reader.ring)) = i
      BY <1>1, <1>2, <2>2
    <3>2. reader'.ring[i] = kernel[i - Len(reader.ring)]
      BY <1>8, <3>1
    <3>3. QED
      BY <1>1, <1>2, <1>8, <2>2, <3>2 DEF Event
  <2>3. CASE i > Len(reader.ring) + m
    <3>1. i - (Len(reader.ring) + m) \in 1..(Len(kernel) - m)
      BY <1>1, <1>2, <2>3 DEF Waits
    <3> DEFINE j == i - (Len(reader.ring) + m)
    <3>2. kernel'[j] = kernel[m + j]
      BY <1>7, <3>1
    <3>4. m + j = i - Len(reader.ring) /\ i > Len(reader.ring) /\ i - Len(reader'.ring) = j
      BY <1>1, <1>2, <1>8, <2>3, <3>1
    <3>5. QED
      BY <1>1, <1>2, <1>8, <2>3, <3>2, <3>4 DEF Event
  <2>4. QED
    BY <1>1, <1>2, <2>1, <2>2, <2>3
<1>11. DriverTypes'
  <2>1. UNCHANGED << drv, source, pending, report, past >>
    BY DEF readEvents
  <2>2. reader' \in [ring : Seq(Events), count : 0..2] /\ Len(reader'.ring) <= ReaderRoom
    BY Rooms, <1>1, <1>2, <1>5, <1>8
  <2>3. Len(kernel') <= KernelRoom
    BY Rooms, <1>1, <1>2, <1>7
  <2>4. QED
    BY <1>7, <2>1, <2>2, <2>3 DEF DriverTypes, Short
<1>12. QED
  BY <1>1, <1>9, <1>10, <1>11 DEF Waits

\* A turn takes the first event and leaves the others in their order.
LEMMA TurnedEvents ==
  ASSUME DriverTypes, reader.count > 0, reader.ring # << >>, reader' = After(Head(reader.ring)),
         UNCHANGED << drv, kernel >>
  PROVE  /\ reader' \in [ring : Seq(Events), count : 0..2] /\ Len(reader'.ring) <= ReaderRoom
         /\ Waits \in Nat /\ Waits > 0 /\ Waits' = Waits - 1
         /\ Head(reader.ring) = Event(1) /\ Event(1) \in Events
         /\ \A i \in 1..(Waits - 1) : Event(i)' = Event(i + 1)
<1> DEFINE rest == Tail(reader.ring)
<1>1. /\ kernel \in Seq(Events) /\ reader.ring \in Seq(Events) /\ Len(kernel) \in Nat
      /\ Len(reader.ring) \in Nat /\ Len(reader.ring) > 0 /\ Len(reader.ring) <= ReaderRoom
      /\ reader.count \in 1..2
  BY DEF DriverTypes
<1>2. /\ rest \in Seq(Events) /\ Len(rest) = Len(reader.ring) - 1
      /\ \A i \in 1..Len(rest) : rest[i] = reader.ring[i + 1]
  BY <1>1, HeadTailProperties
<1>3. Head(reader.ring) = reader.ring[1] /\ reader.ring[1] \in Events
  BY <1>1
<1>4. Room(Head(reader.ring)) \in 0..2
  BY <1>1 DEF Room
<1>5. reader' = [ring |-> rest, count |-> IF rest = << >> THEN 0 ELSE Room(Head(reader.ring))]
  BY DEF After
<1> HIDE DEF rest
<1>6. reader' \in [ring : Seq(Events), count : 0..2] /\ reader'.ring = rest
  BY <1>2, <1>4, <1>5
<1>7. Waits \in Nat /\ Waits > 0 /\ Waits' = Waits - 1 /\ Len(reader'.ring) <= ReaderRoom
  <2>1. Waits = Len(reader.ring) + Len(kernel) /\ Waits' = Len(reader'.ring) + Len(kernel)
    BY DEF Waits
  <2>2. Len(reader'.ring) = Len(reader.ring) - 1
    BY <1>2, <1>6
  <2>3. PICK k \in Nat, r \in Nat : k = Len(kernel) /\ r = Len(reader.ring) /\ r > 0 /\ r <= ReaderRoom
    BY <1>1
  <2>4. Waits = r + k /\ Waits' = (r - 1) + k
    BY <2>1, <2>2, <2>3
  <2>5. Len(reader'.ring) <= ReaderRoom
    BY Rooms, <2>2, <2>3
  <2>6. QED
    BY <2>3, <2>4, <2>5
<1>8. Event(1) = reader.ring[1]
  BY <1>1 DEF Event
<1>9. ASSUME NEW i \in 1..(Waits - 1) PROVE Event(i)' = Event(i + 1)
  <2>1. CASE i <= Len(rest)
    BY <1>1, <1>2, <1>6, <2>1 DEF Event
  <2>2. CASE i > Len(rest)
    <3>1. i - Len(rest) = (i + 1) - Len(reader.ring) /\ ~ i + 1 <= Len(reader.ring)
      BY <1>1, <1>2, <2>2
    <3>2. Event(i)' = kernel[i - Len(rest)]
      BY <1>6, <2>2 DEF Event
    <3>3. Event(i + 1) = kernel[(i + 1) - Len(reader.ring)]
      BY <3>1 DEF Event
    <3>4. QED
      BY <3>1, <3>2, <3>3
  <2>3. QED
    BY <1>2, <2>1, <2>2
<1>10. QED
  BY <1>3, <1>6, <1>7, <1>8, <1>9

LEMMA PeriodHonoured ==
  ASSUME NEW kind \in Kinds, NEW ms \in Nat
  PROVE  Period(kind, ms) \in Nat /\ Period(kind, ms) <= (IF ms < 10 /\ kind # "light" THEN 10 ELSE ms)
<1>1. (ms \div 10) * 10 \in Nat /\ (ms \div 10) * 10 <= ms
  BY SMT
<1>2. /\ CompassDelay(ms) \in {1, 20, 60, 200, 1000} /\ (ms < 20 => CompassDelay(ms) = 1)
      /\ (ms >= 20 => CompassDelay(ms) <= ms)
  BY DEF CompassDelay
<1>3. CASE kind = "compass"
  <2>1. Period(kind, ms) = CompassDelay(ms)
    BY <1>3 DEF Period
  <2>2. QED
    BY <1>2, <1>3, <2>1
<1>4. CASE kind \in {"accel", "orientation"}
  BY <1>1, <1>4 DEF Period, Smb380Delay, OrientationDelay
<1>5. CASE kind \in {"light", "proximity"}
  BY <1>5 DEF Period, LightDelay
<1>6. QED
  BY <1>3, <1>4, <1>5 DEF Kinds

\* The calls of the framework leave the events alone.
LEMMA DriverCallInv == ASSUME DriversInv, setDelay \/ enable PROVE DriversInv'
<1>1. UNCHANGED << source, kernel, reader, pending, report, past >>
  BY DEF setDelay, enable
<1>2. drv \in [kind : Kinds, fd : Int, enabled : {0, 1}, period : Nat, asked : Nat]
  BY DEF DriversInv, DriverTypes
<1>3. /\ drv' \in [kind : Kinds, fd : Int, enabled : {0, 1}, period : Nat, asked : Nat]
      /\ drv'.kind = drv.kind /\ DelayHonoured'
  <2>1. CASE setDelay
    <3>1. PICK ms \in Delays : drv' = [drv EXCEPT !.period = Period(drv.kind, ms), !.asked = ms]
      BY <2>1 DEF setDelay
    <3>2. ms \in Nat /\ drv.kind \in Kinds
      BY SampleBound, <1>2
    <3>3. Period(drv.kind, ms) \in Nat
          /\ Period(drv.kind, ms) <= (IF ms < 10 /\ drv.kind # "light" THEN 10 ELSE ms)
      BY <3>2, PeriodHonoured
    <3>4. QED
      BY <1>2, <3>1, <3>2, <3>3 DEF DelayHonoured
  <2>2. CASE enable
    BY <1>2, <2>2 DEF enable, DriversInv, DelayHonoured
  <2>3. QED
    BY <2>1, <2>2
<1>4. DriverTypes'
  BY <1>1, <1>3 DEF DriversInv, DriverTypes, Short
<1>5. ASSUME NEW i \in Nat PROVE Event(i)' = Event(i) /\ Coming(i)' = Coming(i)
  BY <1>1, <1>3 DEF Event, Coming, Waits, Due, DueAxis, AxisAfter, Short
<1>6. Waits' = Waits
  BY <1>1 DEF Waits
<1>7. EventsFit' /\ EventsJoined'
  BY <1>3, <1>5, <1>6 DEF DriversInv, EventsFit, EventFits, EventsJoined, Joined, Follows, AxisAfter, Short
<1>8. Ready(Coming(1))'
  BY <1>1, <1>3, <1>5 DEF DriversInv, Ready, AxesBefore
<1>9. VectorWhole'
  BY <1>1, <1>3 DEF DriversInv, VectorWhole
<1>10. QED
  BY <1>3, <1>4, <1>7, <1>8, <1>9 DEF DriversInv

\* The device sends the event that was due, and the next one is due after it.
LEMMA SendInv == ASSUME DriversInv, Send PROVE DriversInv'
<1> DEFINE axes == Axes(drv.kind)
<1>1. /\ UNCHANGED << drv, reader, pending, report, past >> /\ source.sample <= Samples
      /\ drv.kind \in Kinds /\ DriverTypes /\ source.sample \in Nat /\ source.sent \in 0..3
      /\ Short => source.sent <= 1
  BY DEF Send, DriversInv, DriverTypes
<1>2. PICK e \in Events :
        /\ kernel' = Queued(e) /\ e.axis = DueAxis /\ e.of = source.sample /\ EventFits(e)
        /\ Due' = [axis |-> AxisAfter(e.axis), of |-> IF e.axis = "SYN" THEN e.of + 1 ELSE e.of]
        /\ source' \in [sample : 1..(Samples + 1), sent : 0..3] /\ (Short => source'.sent <= 1)
  <2>1. axes = IF Short THEN << "x" >> ELSE << "x", "y", "z" >>
    BY <1>1 DEF Axes, Short
  <2>2. AxisSet(drv.kind) = IF Short THEN {"x"} ELSE {"x", "y", "z"}
    BY <1>1, AxisNames DEF Short
  <2>3. Len(axes) = IF Short THEN 1 ELSE 3
    BY <1>1, AxisNames DEF Short
  <2>4. \/ /\ source.sent < Len(axes) /\ source' = [source EXCEPT !.sent = @ + 1]
           /\ \E v \in {source.sample} \cup (IF drv.kind = "proximity" THEN {Unknown} ELSE {}) :
                kernel' = Queued([axis |-> axes[source.sent + 1], value |-> v, of |-> source.sample])
        \/ /\ source.sent = Len(axes) /\ source' = [sample |-> source.sample + 1, sent |-> 0]
           /\ kernel' = Queued([axis |-> "SYN", value |-> 0, of |-> source.sample])
    BY Zenon DEF Send
  <2>5. source \in [sample : 1..(Samples + 1), sent : 0..3]
    BY <1>1 DEF DriverTypes
  <2>6. ASSUME source.sent < Len(axes), source' = [source EXCEPT !.sent = @ + 1],
               NEW v \in {source.sample} \cup (IF drv.kind = "proximity" THEN {Unknown} ELSE {}),
               kernel' = Queued([axis |-> axes[source.sent + 1], value |-> v, of |-> source.sample])
        PROVE  \E e \in Events :
                 /\ kernel' = Queued(e) /\ e.axis = DueAxis /\ e.of = source.sample /\ EventFits(e)
                 /\ Due' = [axis |-> AxisAfter(e.axis), of |-> IF e.axis = "SYN" THEN e.of + 1 ELSE e.of]
                 /\ source' \in [sample : 1..(Samples + 1), sent : 0..3] /\ (Short => source'.sent <= 1)
    <3> DEFINE e == [axis |-> axes[source.sent + 1], value |-> v, of |-> source.sample]
    <3>1. source'.sent = source.sent + 1 /\ source'.sample = source.sample
          /\ source' \in [sample : 1..(Samples + 1), sent : 0..3] /\ (Short => source'.sent <= 1)
      BY <2>3, <2>5, <2>6
    <3>2. /\ axes[source.sent + 1] = DueAxis /\ DueAxis \in AxisSet(drv.kind) /\ DueAxis # "SYN"
          /\ DueAxis' = AxisAfter(DueAxis)
      BY <1>1, <2>1, <2>2, <2>3, <2>6, <3>1 DEF DueAxis, AxisAfter, Short
    <3>3. e \in Events /\ EventFits(e)
      BY <1>1, <2>2, <3>2 DEF Events, Names, EventFits
    <3>4. QED
      BY <2>6, <3>1, <3>2, <3>3 DEF Due
  <2>7. ASSUME source.sent = Len(axes), source' = [sample |-> source.sample + 1, sent |-> 0],
               kernel' = Queued([axis |-> "SYN", value |-> 0, of |-> source.sample])
        PROVE  \E e \in Events :
                 /\ kernel' = Queued(e) /\ e.axis = DueAxis /\ e.of = source.sample /\ EventFits(e)
                 /\ Due' = [axis |-> AxisAfter(e.axis), of |-> IF e.axis = "SYN" THEN e.of + 1 ELSE e.of]
                 /\ source' \in [sample : 1..(Samples + 1), sent : 0..3] /\ (Short => source'.sent <= 1)
    <3> DEFINE e == [axis |-> "SYN", value |-> 0, of |-> source.sample]
    <3>1. source' \in [sample : 1..(Samples + 1), sent : 0..3] /\ source'.sent = 0
          /\ source'.sample = source.sample + 1
      BY SampleBound, <1>1, <2>5, <2>7
    <3>2. DueAxis = "SYN" /\ DueAxis' = "x" /\ AxisAfter("SYN") = "x"
      BY <1>1, <2>3, <2>7, <3>1 DEF DueAxis, AxisAfter
    <3>3. e \in Events /\ EventFits(e)
      BY <1>1 DEF Events, Names, EventFits
    <3>4. Due' = [axis |-> "x", of |-> source.sample + 1]
      BY <3>1, <3>2 DEF Due
    <3>5. QED
      BY <2>7, <3>1, <3>2, <3>3, <3>4
  <2>8. QED
    BY <2>4, <2>6, <2>7
<1>3. /\ kernel' \in Seq(Events) /\ Len(kernel') <= KernelRoom /\ Waits \in Nat
      /\ \E n \in 0..Waits :
           /\ \A i \in 1..n : Event(i)' = Event(i)
           /\ \/ n = Waits /\ Waits' = n + 1 /\ Event(n + 1)' = e
              \/ Waits' = n + 2 /\ Event(n + 1)' = Dropped /\ Event(n + 2)' = e
  BY <1>1, <1>2, QueuedEvents
<1>4. PICK n \in 0..Waits :
           /\ \A i \in 1..n : Event(i)' = Event(i)
           /\ \/ n = Waits /\ Waits' = n + 1 /\ Event(n + 1)' = e
              \/ Waits' = n + 2 /\ Event(n + 1)' = Dropped /\ Event(n + 2)' = e
  BY <1>3, Zenon
<1>5. DriverTypes'
  BY <1>1, <1>2, <1>3 DEF DriverTypes, Short
<1>6. ASSUME NEW f PROVE /\ EventFits(f)' <=> EventFits(f)
                         /\ AxisAfter(f)' = AxisAfter(f) /\ AxesBefore(f)' = AxesBefore(f)
  BY <1>1 DEF EventFits, AxisAfter, AxesBefore, Short
<1>7. \A i \in 1..n : Event(i)' = Event(i)
  BY <1>4
<1>8. n \in Nat /\ Waits' \in Nat /\ Waits' > n
  BY <1>3, <1>4
<1>9. EventsFit'
  <2> SUFFICES ASSUME NEW i \in Nat, i >= 1, i <= Waits' PROVE EventFits(Event(i))'
    BY <1>8 DEF EventsFit
  <2>1. CASE i <= n
    <3>1. i \in 1..Waits /\ Event(i)' = Event(i)
      BY <1>3, <1>4, <2>1
    <3>2. QED
      BY <1>6, <3>1 DEF DriversInv, EventsFit
  <2>2. CASE i > n
    <3>1. Event(i)' = e \/ Event(i)' = Dropped
      BY <1>4, <1>8, <2>2
    <3>2. EventFits(e) /\ EventFits(Dropped)
      BY <1>2 DEF EventFits
    <3>3. QED
      BY <1>6, <3>1, <3>2
  <2>3. QED
    BY <2>1, <2>2
<1>10. ASSUME NEW i \in Nat, i > 0
       PROVE  /\ i <= n => Event(i)' = Event(i) /\ Event(i) = Coming(i) /\ Coming(i)' = Coming(i)
              /\ i = Waits' => Event(i)' = e /\ Coming(i + 1)' = Due'
              /\ i = n + 1 /\ i # Waits' => Event(i)' = Dropped /\ Coming(i)' = Dropped
              /\ i = n + 1 /\ i = Waits' => Coming(i)' = e /\ Coming(i) = Due
  <2>1. /\ i <= Waits => Coming(i) = Event(i)
        /\ ~ i <= Waits => Coming(i) = Due
        /\ i <= Waits' => Coming(i)' = Event(i)'
        /\ ~ i + 1 <= Waits' => Coming(i + 1)' = Due'
    BY DEF Coming
  <2>2. n <= Waits /\ (i <= n => Event(i)' = Event(i))
    BY <1>3, <1>4, <1>7, <1>10
  <2>3. i = Waits' => Event(i)' = e
    BY <1>4, <1>8
  <2>4. i = n + 1 /\ i # Waits' => Event(i)' = Dropped
    BY <1>4, <1>8
  <2>5. i = n + 1 /\ i = Waits' => n = Waits
    BY <1>4, <1>8
  <2>6. QED
    BY <1>3, <1>8, <2>1, <2>2, <2>3, <2>4, <2>5
<1>11. EventsJoined'
  <2> SUFFICES ASSUME NEW i \in Nat, i >= 1, i <= Waits'
               PROVE  Joined(Event(i), Coming(i + 1))'
    BY <1>8 DEF EventsJoined
  <2>1. CASE i < n
    <3>1. Joined(Event(i), Coming(i + 1))
      BY <1>3, <1>4, <2>1 DEF DriversInv, EventsJoined
    <3>2. Event(i)' = Event(i) /\ Coming(i + 1)' = Coming(i + 1)
      BY <1>10, <2>1
    <3>3. QED
      BY <1>1, <3>1, <3>2 DEF Joined, Follows, AxisAfter, Short
  <2>2. CASE i = n
    <3>1. Joined(Event(i), Coming(i + 1)) /\ Event(i)' = Event(i)
      BY <1>3, <1>4, <1>10, <2>2 DEF DriversInv, EventsJoined
    <3>2. CASE Waits' = n + 1
      <4>1. Coming(i + 1)' = e /\ Coming(i + 1) = Due
        BY <1>10, <2>2, <3>2
      <4>2. QED
        BY <1>1, <1>2, <3>1, <4>1 DEF Joined, Follows, AxisAfter, Short, Due
    <3>3. CASE Waits' # n + 1
      <4>1. Coming(i + 1)' = Dropped
        BY <1>10, <2>2, <3>3
      <4>2. QED
        BY <4>1 DEF Joined, Dropped
    <3>4. QED
      BY <3>2, <3>3
  <2>3. CASE i = n + 1 /\ i # Waits'
    <3>1. Event(i)' = Dropped
      BY <1>10, <2>3
    <3>2. QED
      BY <3>1 DEF Joined, Dropped
  <2>4. CASE i = Waits'
    <3>1. Event(i)' = e /\ Coming(i + 1)' = Due'
      BY <1>10, <2>4
    <3>2. QED
      BY <1>1, <1>2, <3>1 DEF Joined, Follows, AxisAfter, Short
  <2>5. QED
    BY <1>4, <1>8, <2>1, <2>2, <2>3, <2>4
<1>12. Ready(Coming(1))'
  <2>1. CASE Coming(1)' = Coming(1)
    BY <1>1, <2>1 DEF DriversInv, Ready, AxesBefore
  <2>2. CASE Coming(1)' = Dropped
    BY <2>2 DEF Ready, Dropped
  <2>3. CASE Coming(1)' = e /\ Coming(1) = Due
    BY <1>1, <1>2, <2>3 DEF DriversInv, Ready, AxesBefore, Due
  <2>4. QED
    BY <1>8, <1>10, <2>1, <2>2, <2>3
<1>13. VectorWhole' /\ DelayHonoured'
  BY <1>1 DEF DriversInv, VectorWhole, DelayHonoured
<1>14. QED
  BY <1>5, <1>9, <1>11, <1>12, <1>13 DEF DriversInv

LEMMA ReadEventsInv == ASSUME DriversInv, readEvents PROVE DriversInv'
<1>1. /\ DriverTypes' /\ Waits' = Waits /\ Waits \in Nat /\ \A i \in 1..Waits : Event(i)' = Event(i)
      /\ UNCHANGED << drv, source, pending, report, past >>
  BY FilledEvents DEF DriversInv, readEvents
<1>2. Due' = Due
  BY <1>1 DEF Due, DueAxis, AxisAfter, Short
<1>3. ASSUME NEW i \in Nat, i > 0 PROVE Coming(i)' = Coming(i)
  <2>1. Coming(i) = (IF i <= Waits THEN Event(i) ELSE Due)
        /\ Coming(i)' = (IF i <= Waits' THEN Event(i)' ELSE Due')
    BY DEF Coming
  <2>2. QED
    BY <1>1, <1>2, <1>3, <2>1
<1>4. EventsFit'
  BY <1>1 DEF DriversInv, EventsFit, EventFits
<1>5. EventsJoined'
  BY <1>1, <1>3 DEF DriversInv, EventsJoined, Joined, Follows, AxisAfter, Short
<1>6. Ready(Coming(1))'
  BY <1>1, <1>3 DEF DriversInv, Ready, AxesBefore
<1>7. VectorWhole' /\ DelayHonoured'
  BY <1>1 DEF DriversInv, VectorWhole, DelayHonoured
<1>8. QED
  BY <1>1, <1>4, <1>5, <1>6, <1>7 DEF DriversInv

\* A turn: an axis joins the others of its sample, and an EV_SYN finds all of its own.
LEMMA TurnInv ==
  ASSUME DriversInv, NEW kind, Turn(kind)
  PROVE  DriversInv' /\ (past'.last # past.last => past'.last = past.last + 1 \/ past.dropped)
<1> DEFINE e == Head(reader.ring)
<1>1. /\ drv.kind = kind /\ kind \in Kinds /\ reader.count > 0 /\ reader.ring # << >> /\ reader' = After(e)
      /\ UNCHANGED << drv, source, kernel >> /\ DriverTypes
      /\ IF e.axis \in {"SYN", "SYN_DROPPED"} THEN Sync(e) ELSE TakeAxis(kind, e)
  BY DEF Turn, DriversInv, DriverTypes
<1>2. /\ reader' \in [ring : Seq(Events), count : 0..2] /\ Len(reader'.ring) <= ReaderRoom
      /\ Waits \in Nat /\ Waits > 0 /\ Waits' = Waits - 1
      /\ e = Event(1) /\ e \in Events
      /\ \A i \in 1..(Waits - 1) : Event(i)' = Event(i + 1)
  BY <1>1, TurnedEvents
<1>3. /\ e.axis \in Names \cup {"SYN_DROPPED"} /\ e.value \in Nat \cup {Unknown} /\ e.of \in Nat
      /\ EventFits(e) /\ Ready(e) /\ Joined(e, Coming(2))
  <2>1. Coming(1) = e
    BY <1>2 DEF Coming
  <2>2. QED
    BY <1>2, <2>1 DEF DriversInv, EventsFit, EventsJoined, Events
<1> HIDE DEF e
<1>4. ASSUME NEW i \in Nat, i > 0 PROVE Coming(i)' = Coming(i + 1)
  <2>1. Due' = Due
    BY <1>1 DEF Due, DueAxis, AxisAfter, Short
  <2>2. Coming(i + 1) = (IF i + 1 <= Waits THEN Event(i + 1) ELSE Due)
        /\ Coming(i)' = (IF i <= Waits' THEN Event(i)' ELSE Due')
    BY DEF Coming
  <2>3. QED
    BY <1>2, <1>4, <2>1, <2>2
<1>5. EventsFit'
  BY <1>1, <1>2 DEF DriversInv, EventsFit, EventFits
<1>6. EventsJoined'
  <2> SUFFICES ASSUME NEW i \in 1..(Waits - 1) PROVE Joined(Event(i), Coming(i + 1))'
    BY <1>2 DEF EventsJoined
  <2>1. Joined(Event(i + 1), Coming(i + 2))
    BY <1>2 DEF DriversInv, EventsJoined
  <2>2. Event(i)' = Event(i + 1) /\ Coming(i + 1)' = Coming(i + 2)
    BY <1>2, <1>4
  <2>3. QED
    BY <1>1, <2>1, <2>2 DEF Joined, Follows, AxisAfter, Short
<1>7. DelayHonoured'
  BY <1>1 DEF DriversInv, DelayHonoured
<1>8. /\ pending \in [AxisSet(kind) -> Nat] /\ past.last \in Nat /\ past.dropped \in BOOLEAN
      /\ past \in [last : Nat, dropped : BOOLEAN] /\ report.torn \in BOOLEAN
      /\ report \in [vector : [AxisSet(kind) -> Nat], with : Nat, torn : BOOLEAN]
      /\ AxisSet(kind) = IF kind \in {"light", "proximity"} THEN {"x"} ELSE {"x", "y", "z"}
  BY <1>1, AxisNames DEF DriverTypes
<1>9. ASSUME pending' \in [AxisSet(kind) -> Nat], past' \in [last : Nat, dropped : BOOLEAN],
             report' \in [vector : [AxisSet(kind) -> Nat], with : Nat, torn : BOOLEAN]
      PROVE  DriverTypes'
  BY <1>1, <1>2, <1>9 DEF DriverTypes, Short
<1>10. Coming(1)' = Coming(2)
  BY <1>4
<1>11. CASE e.axis \notin {"SYN", "SYN_DROPPED"}
  <2>1. /\ UNCHANGED << report, past >> /\ e.axis \in AxisSet(kind) /\ e # Dropped
        /\ kind # "proximity" => e.value = e.of
        /\ TakeAxis(kind, e)
    BY <1>1, <1>3, <1>11 DEF TakeAxis, TakeProximity, Take, EventFits, Dropped
  <2>2. \/ pending' = [pending EXCEPT ![e.axis] = e.value] /\ e.value \in Nat
        \/ pending' = pending /\ kind = "proximity"
    BY <1>3, <2>1 DEF TakeAxis, TakeProximity, Take
  <2>3. pending' \in [AxisSet(kind) -> Nat]
    BY <1>8, <2>1, <2>2
  <2>4. Ready(Coming(1))'
    <3> SUFFICES ASSUME ~ past.dropped, Coming(2).axis # "SYN_DROPPED"
                 PROVE  /\ Coming(2).of = past.last + 1
                        /\ kind # "proximity" =>
                             \A a \in AxesBefore(Coming(2).axis) : pending'[a] = Coming(2).of
      BY <1>1, <1>10, <2>1 DEF Ready, AxesBefore
    <3>1. Coming(2).axis = AxisAfter(e.axis) /\ Coming(2).of = e.of /\ e.of = past.last + 1
          /\ (kind # "proximity" => \A a \in AxesBefore(e.axis) : pending[a] = e.of)
      BY <1>1, <1>3, <1>11 DEF Joined, Follows, Ready
    <3>2. ASSUME kind # "proximity" PROVE \A a \in AxesBefore(AxisAfter(e.axis)) : pending'[a] = e.of
      <4>1. AxesBefore(AxisAfter(e.axis)) \subseteq AxesBefore(e.axis) \cup {e.axis}
        BY <1>1, <1>3, <1>8, <1>11, <2>1 DEF AxesBefore, AxisAfter, Short, Names
      <4>2. AxesBefore(e.axis) \subseteq AxisSet(kind)
        BY <1>1, <1>3, <1>8, <1>11, <2>1 DEF AxesBefore, Names
      <4>3. pending' = [pending EXCEPT ![e.axis] = e.of]
        BY <2>1, <2>2, <3>2
      <4>4. QED
        BY <1>8, <2>1, <3>1, <3>2, <4>1, <4>2, <4>3
    <3>3. QED
      BY <3>1, <3>2
  <2>5. VectorWhole'
    BY <1>1, <2>1 DEF DriversInv, VectorWhole
  <2>6. DriverTypes'
    BY <1>8, <1>9, <2>1, <2>3
  <2>7. QED
    BY <1>5, <1>6, <1>7, <2>1, <2>4, <2>5, <2>6 DEF DriversInv
<1>12. CASE e.axis = "SYN"
  <2>1. /\ e # Dropped /\ Sync(e)
    BY <1>1, <1>12 DEF Dropped
  <2>2. /\ pending' = pending /\ past' = [last |-> e.of, dropped |-> FALSE]
        /\ report' = IF drv.enabled = 0 THEN report
                     ELSE [vector |-> pending, with |-> e.of, torn |-> past.dropped]
    BY <1>8, <2>1 DEF Sync
  <2>3. ~ past.dropped =>
          /\ e.of = past.last + 1
          /\ kind # "proximity" => \A a \in AxisSet(kind) : pending[a] = e.of
    BY <1>1, <1>3, <1>12 DEF Ready, AxesBefore
  <2>4. Ready(Coming(1))'
    <3>1. Coming(2).axis = "SYN_DROPPED" \/ (Coming(2).axis = "x" /\ Coming(2).of = e.of + 1)
      BY <1>3, <1>12 DEF Joined, Follows, AxisAfter
    <3>2. QED
      BY <1>10, <2>2, <3>1 DEF Ready, AxesBefore
  <2>5. VectorWhole'
    BY <1>1, <1>8, <2>2, <2>3 DEF DriversInv, VectorWhole
  <2>6. DriverTypes'
    BY <1>3, <1>8, <1>9, <2>2
  <2>7. QED
    BY <1>5, <1>6, <1>7, <2>2, <2>3, <2>4, <2>5, <2>6 DEF DriversInv
<1>13. CASE e.axis = "SYN_DROPPED"
  <2>1. e = Dropped /\ Sync(e)
    <3>1. "SYN_DROPPED" \notin AxisSet(kind)
      BY <1>8
    <3>2. QED
      BY <1>1, <1>3, <1>13, <3>1 DEF EventFits
  <2>2. /\ pending' = pending /\ past' = [past EXCEPT !.dropped = TRUE]
        /\ report' = IF drv.enabled = 0 THEN report
                     ELSE [vector |-> pending, with |-> e.of, torn |-> TRUE]
    BY <1>8, <2>1 DEF Sync
  <2>3. DriverTypes'
    BY <1>3, <1>8, <1>9, <2>2
  <2>4. Ready(Coming(1))' /\ past'.last = past.last
    BY <1>8, <2>2 DEF Ready
  <2>5. VectorWhole'
    BY <1>1, <1>8, <2>2 DEF DriversInv, VectorWhole
  <2>6. QED
    BY <1>5, <1>6, <1>7, <2>3, <2>4, <2>5 DEF DriversInv
<1>14. QED
  BY <1>3, <1>11, <1>12, <1>13

LEMMA DriversSteps ==
  ASSUME DriversInv, [NextDrivers]_drvVars
  PROVE  DriversInv' /\ (past'.last # past.last => past'.last = past.last + 1 \/ past.dropped)
<1>1. CASE setDelay \/ enable
  BY <1>1, DriverCallInv DEF setDelay, enable
<1>2. CASE Send
  BY <1>2, SendInv DEF Send
<1>3. CASE readEvents
  BY <1>3, ReadEventsInv DEF readEvents
<1>4. CASE Turns
  BY <1>4, TurnInv DEF Turns, Smb380Turn, CompassTurn, OrientationTurn, LightTurn, ProximityTurn
<1>5. CASE UNCHANGED drvVars
  <2>1. /\ UNCHANGED << drv, source, kernel, reader, pending, report, past >>
    BY <1>5 DEF drvVars
  <2>2. DriverTypes' /\ VectorWhole' /\ DelayHonoured'
    BY <2>1 DEF DriversInv, DriverTypes, Short, VectorWhole, DelayHonoured
  <2>3. ASSUME NEW i PROVE Event(i)' = Event(i) /\ Coming(i)' = Coming(i)
    BY <2>1 DEF Event, Coming, Waits, Due, DueAxis, AxisAfter, Short
  <2>4. EventsFit' /\ EventsJoined' /\ Ready(Coming(1))'
    BY <2>1, <2>3 DEF DriversInv, EventsFit, EventFits, EventsJoined, Joined, Follows, AxisAfter, Short,
       Ready, AxesBefore, Waits
  <2>5. QED
    BY <2>1, <2>2, <2>4 DEF DriversInv
<1>6. QED
  BY <1>1, <1>2, <1>3, <1>4, <1>5 DEF NextDrivers

\* Whatever the rooms of the kernel and of the reader, wherever the reads cut the packets
\* and whenever the sensor is switched off and on: the five readEvents() report vectors of
\* one sample, unless events had been dropped, a distance that the device has sent, and at
\* least as often as setDelay() was asked to.
THEOREM ReportsAreTrue == SpecDrivers => []ReportsTrue
<1>1. DriversInv => ReportsTrue
  <2> SUFFICES ASSUME DriversInv PROVE ReportsTrue
    OBVIOUS
  <2>1. DriversTypeOK
    BY DEF DriversInv, DriverTypes, DriversTypeOK
  <2>2. DistanceKnown
    <3>1. report.vector \in [AxisSet(drv.kind) -> Nat]
      BY DEF DriversInv, DriverTypes
    <3>2. QED
      BY <3>1 DEF DistanceKnown, Unknown
  <2>3. QED
    BY <2>1, <2>2 DEF DriversInv, ReportsTrue
<1>2. DriversInv /\ [NextDrivers]_drvVars => DriversInv'
  BY DriversSteps
<1>3. QED
  BY <1>1, <1>2, DriversStart, PTL DEF SpecDrivers

\* Packets are read in their order, none twice and none skipped unless the kernel has
\* dropped it.
THEOREM PacketsInOrder == SpecDrivers => InOrder
<1>1. DriversInv /\ [NextDrivers]_drvVars => DriversInv'
  BY DriversSteps
<1>2. DriversInv /\ [NextDrivers]_drvVars =>
        [past'.last # past.last => past'.last = past.last + 1 \/ past.dropped]_drvVars
  BY DriversSteps
<1>3. QED
  BY <1>1, <1>2, DriversStart, PTL DEF SpecDrivers, InOrder

-----------------------------------------------------------------------------
(* The event reader.                                                       *)

USE RingSize, EventBound

\* The initial state is an empty ring.
LEMMA InitInv == Init => IInv
  BY DEF Init, IInv, TypeOK, HeadFollows, UnreadInPlace, CellOf, Unread, Cells

\* One read(), of any size that fits, keeps the ring in order.
LEMMA FillInv == ASSUME IInv, NEW n \in 1 .. numEvents, fill(n) PROVE IInv'
<1>1. /\ numEvents \in Nat \ {0} /\ n \in Nat /\ n > 0 /\ n <= mFreeSpace
      /\ mHead \in Nat /\ mHead <= numEvents
      /\ mCurr \in Nat /\ mCurr < numEvents
      /\ mFreeSpace \in Nat /\ mFreeSpace <= numEvents
      /\ taken \in Nat /\ given \in Nat /\ last \in Nat
      /\ taken = given + (numEvents - mFreeSpace)
      /\ mBuffer \in [0 .. 2 * numEvents - 1 -> Nat]
  <2>1. n <= mFreeSpace
    BY DEF fill
  <2>2. n \in Nat /\ n > 0
    OBVIOUS
  <2>3. taken = given + (numEvents - mFreeSpace)
    BY DEF IInv, Unread
  <2>4. TypeOK
    BY DEF IInv
  <2>5. QED
    BY <2>1, <2>2, <2>3, <2>4 DEF TypeOK, Cells
<1>2. /\ mCurr' = mCurr /\ given' = given /\ last' = last
      /\ taken' = taken + n /\ mFreeSpace' = mFreeSpace - n
  BY DEF fill
<1>3. \/ mHead = mCurr + (numEvents - mFreeSpace)
      \/ mHead = mCurr + (numEvents - mFreeSpace) - numEvents
      \/ mHead = numEvents /\ mCurr = 0 /\ mFreeSpace = numEvents
  BY <1>1 DEF IInv, HeadFollows, Unread
<1>4. \A k \in 0 .. numEvents - mFreeSpace - 1 : mBuffer[CellOf(k)] = given + 1 + k
  BY DEF IInv, UnreadInPlace, Unread
<1>5. \A c \in Cells : Stored(n)[c] = IF mHead <= c /\ c < mHead + n
                                     THEN taken + 1 + (c - mHead) ELSE mBuffer[c]
  BY DEF Stored
<1>6. \A c \in Cells : Stored(n)[c] \in Nat
  <2> SUFFICES ASSUME NEW c \in Cells PROVE Stored(n)[c] \in Nat
    OBVIOUS
  <2>1. c \in Nat /\ mBuffer[c] \in Nat
    BY <1>1 DEF Cells
  <2>2. QED
    BY <1>1, <1>5, <2>1
<1>7. CASE mHead + n <= numEvents
  <2>1. mBuffer' = Stored(n) /\ mHead' = mHead + n
    BY <1>1, <1>7 DEF fill, Wraps, CopiedBack, mBufferEnd
  <2>2. TypeOK'
    BY <1>1, <1>2, <1>6, <1>7, <2>1 DEF TypeOK, Cells, Stored
  <2>3. HeadFollows' /\ taken' = given' + Unread'
    BY <1>1, <1>2, <1>3, <1>7, <2>1 DEF HeadFollows, Unread
  <2>4. UnreadInPlace'
    <3> SUFFICES ASSUME NEW k \in 0 .. numEvents - (mFreeSpace - n) - 1
                 PROVE  mBuffer'[CellOf(k)] = given + 1 + k
      BY <1>2 DEF UnreadInPlace, Unread, CellOf
    <3>1. k \in Nat /\ CellOf(k) \in Cells
      BY <1>1 DEF CellOf, Cells
    <3>2. CASE k < numEvents - mFreeSpace
      <4>1. ~ (mHead <= CellOf(k) /\ CellOf(k) < mHead + n)
        BY <1>1, <1>3, <1>7, <3>1, <3>2 DEF CellOf
      <4>2. QED
        BY <1>1, <1>4, <1>5, <2>1, <3>1, <3>2, <4>1
    <3>3. CASE k >= numEvents - mFreeSpace
      <4>1. CellOf(k) = mHead + (k - (numEvents - mFreeSpace))
        BY <1>1, <1>3, <1>7, <3>1, <3>3 DEF CellOf
      <4>2. QED
        BY <1>1, <1>5, <2>1, <3>1, <3>3, <4>1
    <3>4. QED
      BY <1>1, <3>1, <3>2, <3>3
  <2>5. QED
    BY <2>2, <2>3, <2>4 DEF IInv
<1>8. CASE mHead + n > numEvents
  <2>1. /\ mHead' = mHead + n - numEvents
        /\ mBuffer' = [c \in Cells |-> IF c < mHead + n - numEvents
                                       THEN Stored(n)[c + numEvents] ELSE Stored(n)[c]]
    BY <1>1, <1>8 DEF fill, Wraps, CopiedBack, mBufferEnd
  <2>2. \A c \in Cells : c < mHead + n - numEvents => c + numEvents \in Cells
    BY <1>1 DEF Cells
  <2>3. TypeOK'
    <3>1. mBuffer' \in [Cells -> Nat]
      BY <1>6, <2>1, <2>2
    <3>2. QED
      BY <1>1, <1>2, <1>3, <1>8, <2>1, <3>1 DEF TypeOK, Cells
  <2>4. HeadFollows' /\ taken' = given' + Unread'
    BY <1>1, <1>2, <1>3, <1>8, <2>1 DEF HeadFollows, Unread
  <2>5. UnreadInPlace'
    <3> SUFFICES ASSUME NEW k \in 0 .. numEvents - (mFreeSpace - n) - 1
                 PROVE  mBuffer'[CellOf(k)] = given + 1 + k
      BY <1>2 DEF UnreadInPlace, Unread, CellOf
    <3>1. k \in Nat /\ CellOf(k) \in Cells /\ CellOf(k) < numEvents
      BY <1>1 DEF CellOf, Cells
    <3>2. CASE k < numEvents - mFreeSpace
      <4>1. /\ ~ (mHead <= CellOf(k) /\ CellOf(k) < mHead + n)
            /\ ~ CellOf(k) < mHead + n - numEvents
        BY <1>1, <1>3, <1>8, <3>1, <3>2 DEF CellOf
      <4>2. mBuffer'[CellOf(k)] = mBuffer[CellOf(k)]
        BY <1>5, <2>1, <3>1, <4>1
      <4>3. QED
        BY <1>1, <1>4, <3>1, <3>2, <4>2
    <3>3. CASE k >= numEvents - mFreeSpace
      <4> DEFINE c == mHead + (k - (numEvents - mFreeSpace))
      <4>1. c \in Cells /\ mHead <= c /\ c < mHead + n
        BY <1>1, <1>3, <3>1, <3>3 DEF Cells
      <4>2. Stored(n)[c] = given + 1 + k
        <5>1. Stored(n)[c] = taken + 1 + (c - mHead)
          BY <1>5, <4>1
        <5>2. QED
          BY <1>1, <3>1, <3>3, <5>1
      <4>3. CASE c < numEvents
        <5>1. CellOf(k) = c /\ ~ CellOf(k) < mHead + n - numEvents
          BY <1>1, <1>3, <1>8, <3>1, <3>3, <4>3 DEF CellOf
        <5>2. QED
          BY <2>1, <3>1, <4>2, <5>1
      <4>4. CASE c >= numEvents
        <5>1. CellOf(k) + numEvents = c /\ CellOf(k) < mHead + n - numEvents
          BY <1>1, <1>3, <1>8, <3>1, <3>3, <4>4 DEF CellOf
        <5>2. QED
          BY <2>1, <3>1, <4>2, <5>1
      <4>5. QED
        BY <1>1, <3>1, <4>3, <4>4
    <3>4. QED
      BY <1>1, <3>1, <3>2, <3>3
  <2>6. QED
    BY <2>3, <2>4, <2>5 DEF IInv
<1>9. QED
  BY <1>1, <1>7, <1>8

\* Taking an event keeps the ring in order, and the event taken is the oldest.
LEMMA NextInv == ASSUME IInv, next PROVE IInv' /\ last' = given + 1
<1> USE DEF IInv, TypeOK, Cells, mBufferEnd, Unread
<1>1. last' = given + 1
  BY DEF next, UnreadInPlace, CellOf
<1>2. /\ TypeOK' /\ taken' = given' + Unread'
  BY <1>1 DEF next, AfterCurr
<1>3. HeadFollows'
  BY DEF next, AfterCurr, HeadFollows
<1>4. UnreadInPlace'
  <2> SUFFICES ASSUME NEW k \in 0 .. Unread' - 1
               PROVE  mBuffer[CellOf(k)'] = given' + 1 + k
    BY DEF next, UnreadInPlace
  <2>1. k + 1 \in 0 .. Unread - 1 /\ CellOf(k)' = CellOf(k + 1)
    BY DEF next, AfterCurr, CellOf
  <2>2. mBuffer[CellOf(k + 1)] = given + 1 + (k + 1)
    BY <2>1 DEF UnreadInPlace
  <2>3. QED
    BY <2>1, <2>2 DEF next
<1>5. QED
  BY <1>1, <1>2, <1>3, <1>4

LEMMA StepInv == IInv /\ [Next]_vars => IInv'
<1> SUFFICES ASSUME IInv, [Next]_vars PROVE IInv'
  OBVIOUS
<1>1. CASE \E n \in 1 .. numEvents : fill(n)
  BY <1>1, FillInv
<1>2. CASE next
  BY <1>2, NextInv
<1>3. CASE UNCHANGED vars
  BY <1>3 DEF vars, IInv, TypeOK, HeadFollows, UnreadInPlace, CellOf, Unread
<1>4. QED
  BY <1>1, <1>2, <1>3 DEF Next

\* The ring is consistent in every reachable state: fill() and next()
\* (InputEventReader.cpp) agree on what is unread and where it lies.
THEOREM RingConsistent == Spec => []IInv
  BY InitInv, StepInv, PTL DEF Spec

\* The variables keep their ranges: mCurr never rests at mBufferEnd, mHead may.
THEOREM TypeCorrect == Spec => []TypeOK
  BY RingConsistent, PTL DEF IInv

\* No read() stores outside the array and the copy back does not overlap.
THEOREM ReadsStayInside == Spec => []StaysInside
<1>1. IInv => StaysInside
  BY DEF IInv, TypeOK, StaysInside, HeadFollows, Unread, mBufferEnd
<1>2. QED
  BY <1>1, RingConsistent, PTL

\* The indices of the reader (mHead, mCurr, mFreeSpace) and what fill() stores stay in
\* the array it was given.
THEOREM RingIsSound == Spec => []RingSound
  BY TypeCorrect, ReadsStayInside, PTL DEF RingSound

\* The reader implements a bounded first-in first-out queue, for every size of
\* the ring and every sizes of the reads.
THEOREM ImplementsFifo == Spec => IsFifo
<1>1. Init => Fifo!Init
  BY DEF Init, Fifo!Init
<1>2. IInv /\ [Next]_vars => [Fifo!Next]_<< taken, given, last >>
  <2> SUFFICES ASSUME IInv, [Next]_vars
               PROVE  [Fifo!Next]_<< taken, given, last >>
    OBVIOUS
  <2>1. ASSUME NEW n \in 1 .. numEvents, fill(n) PROVE Fifo!Accept(n)
    BY <2>1 DEF fill, Fifo!Accept, IInv, TypeOK, Unread
  <2>2. CASE next
    <3>1. last' = given + 1
      BY <2>2, NextInv
    <3>2. Fifo!Give
      BY <2>2, <3>1 DEF next, Fifo!Give, IInv, TypeOK, Unread
    <3>3. QED
      BY <3>2 DEF Fifo!Next
  <2>3. CASE UNCHANGED vars
    BY <2>3 DEF vars
  <2>4. QED
    BY <2>1, <2>2, <2>3 DEF Next, Fifo!Next
<1>3. QED
  BY <1>1, <1>2, RingConsistent, PTL DEF Spec, IsFifo, Fifo!Spec
=============================================================================
