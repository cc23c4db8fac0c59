---------------------------- MODULE SensorDrivers ----------------------------
(***************************************************************************)
(* The drivers of the sensors HAL (src/libsensors/Smb380Sensor.cpp,        *)
(* CompassSensor.cpp, OrientationSensor.cpp, LightSensor.cpp and           *)
(* ProximitySensor.cpp over SensorBase.cpp): from the input events of a    *)
(* device to the vectors that are reported.                                *)
(*                                                                         *)
(* A device sends one event per axis and then EV_SYN.  They wait in the    *)
(* kernel's queue and, a few at a time, in the driver's reader; readEvents *)
(* stops when the caller's buffer is full, in the middle of a packet or    *)
(* not, and goes on in a later call; meanwhile the sensor can be switched  *)
(* off and on.  A queue that overflows is emptied, all but the newest      *)
(* event, with an EV_SYN of its own kind in front, SYN_DROPPED.            *)
(*                                                                         *)
(* Sample n has the value n on each of its axes.  An event says of which   *)
(* sample it is, which no driver reads.                                    *)
(***************************************************************************)
EXTENDS Integers, Sequences, SequencesExt

CONSTANTS
  Samples,     \* bound: how many samples the device takes
  KernelRoom,  \* the events the kernel keeps for the HAL
  ReaderRoom,  \* mInputReader(4)
  Delays       \* what the framework asks for, in ms

ASSUME Rooms == KernelRoom \in Nat /\ KernelRoom >= 2 /\ ReaderRoom \in Nat \ {0}
ASSUME SampleBound == Samples \in Nat /\ Delays \subseteq Nat

VARIABLES
  drv,      \* the driver: its kind, whether its device is there, mEnabled, the period
            \* written to the device and the one asked for
  source,   \* the device: the sample under way and the axes it has sent of it
  kernel,   \* the kernel's queue
  reader,   \* mInputReader, and count, the room left in the caller's buffer; 0 outside
            \* of readEvents()
  pending,  \* mPendingEvent: the value of each axis
  report,   \* the vector reported last, the sample of its EV_SYN, and whether events
            \* had been dropped since the EV_SYN before
  past      \* history: the sample of the last EV_SYN, whether events were dropped after it

drvVars == << drv, source, kernel, reader, pending, report, past >>

Kinds == {"accel", "compass", "orientation", "light", "proximity"}
Axes(kind) == IF kind \in {"light", "proximity"} THEN << "x" >> ELSE << "x", "y", "z" >>
AxisSet(kind) == ToSet(Axes(kind))
Unknown == -1      \* what the proximity sensor sends sometimes
Dropped == [axis |-> "SYN_DROPPED", value |-> 0, of |-> 0]

-----------------------------------------------------------------------------
(* The constructors, which look for the device by its name and, for the    *)
(* light and the proximity sensor, switch it on.                           *)

\* openInput(): the first device of /dev/input with the name.
openInput(name, devices) ==
  IF \E i \in DOMAIN devices : devices[i] = name
  THEN CHOOSE i \in DOMAIN devices : devices[i] = name /\ \A j \in 1..(i - 1) : devices[j] # name
  ELSE -1

Made(kind, fd, en) ==
  [kind |-> kind, fd |-> fd, enabled |-> IF fd = -1 THEN 0 ELSE en, period |-> 0, asked |-> 0]
Smb380Sensor(fd)      == Made("accel", fd, 0)
CompassSensor(fd, en) == Made("compass", fd, en)   \* en: its mEnabled is not initialised
OrientationSensor(fd) == Made("orientation", fd, 0)
LightSensor(fd)       == Made("light", fd, 1)
ProximitySensor(fd)   == Made("proximity", fd, 1)

InitDrivers ==
  /\ \E devices \in {<< "other", "sensor" >>, << "other" >>}, en \in {0, 1} :
       LET fd == openInput("sensor", devices)
       IN  drv \in {Smb380Sensor(fd), CompassSensor(fd, en), OrientationSensor(fd),
                    LightSensor(fd), ProximitySensor(fd)}
  /\ source = [sample |-> 1, sent |-> 0] /\ kernel = << >>
  /\ reader = [ring |-> << >>, count |-> 0]
  /\ pending = [a \in AxisSet(drv.kind) |-> 0]
  /\ report = [vector |-> pending, with |-> 0, torn |-> FALSE]
  /\ past = [last |-> 0, dropped |-> FALSE]

-----------------------------------------------------------------------------
(* The calls of the framework, and the poll thread in readEvents().         *)

\* Definitions named X_Slip are X with a plausible mistake; no action uses them.

\* The periods in ms: those the compass knows, and those of the stock library.
CompassDelay(ms) ==
  CASE ms < 20 -> 1 [] ms \in 20..59 -> 20 [] ms \in 60..199 -> 60 [] ms \in 200..999 -> 200
    [] OTHER -> 1000
Smb380Delay(ms)      == IF ms < 10 THEN 10 ELSE (ms \div 10) * 10
OrientationDelay(ms) == IF ms < 10 THEN 10 ELSE (ms \div 10) * 10
LightDelay(ms)       == ms

Period(kind, ms) ==
  CASE kind = "compass"     -> CompassDelay(ms)
    [] kind = "accel"       -> Smb380Delay(ms)
    [] kind = "orientation" -> OrientationDelay(ms)
    [] kind = "light"       -> LightDelay(ms)
    [] kind = "proximity"   -> 0        \* SensorBase::setDelay()

\* Bound: before the first sample.
setDelay ==
  /\ drv.fd # -1 /\ source = [sample |-> 1, sent |-> 0]
  /\ \E ms \in Delays : drv' = [drv EXCEPT !.period = Period(drv.kind, ms), !.asked = ms]
  /\ UNCHANGED << source, kernel, reader, pending, report, past >>

enable ==
  /\ drv.fd # -1
  /\ \E en \in {0, 1} : en # drv.enabled /\ drv' = [drv EXCEPT !.enabled = en]
  /\ UNCHANGED << source, kernel, reader, pending, report, past >>

\* The kernel's queue takes an event.
Queued(e) ==
  IF Len(kernel) < KernelRoom THEN Append(kernel, e) ELSE << Dropped, e >>

\* The device, while it is on, sends the next axis of its sample or the EV_SYN.  It
\* ends a packet that it has begun.
Send ==
  /\ source.sample <= Samples /\ (drv.enabled = 1 \/ source.sent > 0)
  /\ LET axes == Axes(drv.kind) IN
       \/ /\ source.sent < Len(axes)
          /\ source' = [source EXCEPT !.sent = @ + 1]
          /\ \E v \in {source.sample} \cup (IF drv.kind = "proximity" THEN {Unknown} ELSE {}) :
               kernel' = Queued([axis |-> axes[source.sent + 1], value |-> v, of |-> source.sample])
       \/ /\ source.sent = Len(axes)
          /\ source' = [sample |-> source.sample + 1, sent |-> 0]
          /\ kernel' = Queued([axis |-> "SYN", value |-> 0, of |-> source.sample])
  /\ UNCHANGED << drv, reader, pending, report, past >>

\* fill() takes what is there and fits.
FillReader(room) == SubSeq(kernel, 1, IF Len(kernel) < room THEN Len(kernel) ELSE room)

\* readEvents() begins, when poll() has seen that there are events.
readEvents_Slip ==
  /\ reader.count = 0 /\ kernel # << >>
  /\ reader' = [ring |-> FillReader(ReaderRoom), count |-> 1]
  /\ kernel' = SubSeq(kernel, Len(FillReader(ReaderRoom)) + 1, Len(kernel))
  /\ UNCHANGED << drv, source, pending, report, past >>
readEvents ==
  /\ reader.count = 0 /\ kernel # << >>
  /\ \E count \in 1..2 :
       LET got == FillReader(ReaderRoom - Len(reader.ring)) IN
         /\ reader' = [ring |-> reader.ring \o got, count |-> count]
         /\ kernel' = SubSeq(kernel, Len(got) + 1, Len(kernel))
  /\ UNCHANGED << drv, source, pending, report, past >>

\* An event of an axis.
Take(e) ==
  /\ pending' = [pending EXCEPT ![e.axis] = e.value]
  /\ UNCHANGED << report, past >>

\* The proximity sensor's, which the comment calls "not sure why".
TakeProximity(e) ==
  IF e.value = Unknown THEN UNCHANGED << pending, report, past >> ELSE Take(e)

TakeAxis(kind, e) == IF kind = "proximity" THEN TakeProximity(e) ELSE Take(e)

\* The end of a packet, or what looks like one.
Sync(e) ==
  /\ past' = IF e = Dropped THEN [past EXCEPT !.dropped = TRUE]
             ELSE [last |-> e.of, dropped |-> FALSE]
  /\ report' = IF drv.enabled = 0 THEN report
               ELSE [vector |-> pending, with |-> e.of, torn |-> past'.dropped \/ past.dropped]
  /\ UNCHANGED pending

\* How much room an event leaves: the loop ends with the room or with the events.
Room(e) == reader.count - IF e.axis \in {"SYN", "SYN_DROPPED"} /\ drv.enabled = 1 THEN 1 ELSE 0
After_Slip(e) == [ring |-> IF Room(e) = 0 THEN << >> ELSE Tail(reader.ring), count |-> Room(e)]
After(e) ==
  LET rest == Tail(reader.ring)
  IN  [ring |-> rest, count |-> IF rest = << >> THEN 0 ELSE Room(e)]

\* One turn of the loop of each driver.
Turn(kind) ==
  /\ drv.kind = kind /\ reader.count > 0 /\ reader.ring # << >>
  /\ LET e == Head(reader.ring) IN
       /\ reader' = After(e)
       /\ IF e.axis \in {"SYN", "SYN_DROPPED"} THEN Sync(e) ELSE TakeAxis(kind, e)
  /\ UNCHANGED << drv, source, kernel >>
Smb380Turn      == Turn("accel")
CompassTurn     == Turn("compass")
OrientationTurn == Turn("orientation")
LightTurn       == Turn("light")
ProximityTurn   == Turn("proximity")

Turns == Smb380Turn \/ CompassTurn \/ OrientationTurn \/ LightTurn \/ ProximityTurn
NextDrivers == setDelay \/ enable \/ Send \/ readEvents \/ Turns
SpecDrivers == InitDrivers /\ [][NextDrivers]_drvVars
-----------------------------------------------------------------------------
\* The reader never holds more than its array.
DriversTypeOK ==
  /\ drv.kind \in Kinds /\ drv.enabled \in {0, 1} /\ drv.period \in Nat
  /\ source.sample \in 1..(Samples + 1) /\ source.sent \in 0..3
  /\ Len(kernel) <= KernelRoom /\ Len(reader.ring) <= ReaderRoom /\ reader.count \in 0..2
  /\ DOMAIN pending = AxisSet(drv.kind)

\* A vector that is reported is one that the device had: its axes are of one sample,
\* that of the EV_SYN, wherever the reads and the caller's buffers have cut the
\* packets and whenever the sensor was switched off and on, unless the kernel has
\* dropped events since the EV_SYN before.
VectorWhole ==
  ~ report.torn /\ drv.kind # "proximity" =>
    \A a \in DOMAIN report.vector : report.vector[a] = report.with

\* Packets are neither skipped nor read twice, however full reader and buffers are,
\* but for those that the kernel has dropped.
InOrder ==
  [][past'.last # past.last => past'.last = past.last + 1 \/ past.dropped]_drvVars

\* The distance is one that the device has sent, not the mark for none.
DistanceKnown == \A a \in DOMAIN report.vector : report.vector[a] # Unknown

\* No sensor is slower than it was asked to be, down to the shortest period that its
\* device knows: stepping and rounding go down.
DelayHonoured ==
  drv.period <= (IF drv.asked < 10 /\ drv.kind # "light" THEN 10 ELSE drv.asked)

\* What a sensor reports is true: whole vectors, a known distance, often enough.
ReportsTrue == DriversTypeOK /\ VectorWhole /\ DistanceKnown /\ DelayHonoured

\* Refuted.  The same without the exception: a SYN_DROPPED is taken for the end of a
\* packet (in all five readEvents()), and the vector has axes of two samples.
VectorAlwaysWhole ==
  \A a, b \in DOMAIN report.vector : report.vector[a] = report.vector[b]
=============================================================================
