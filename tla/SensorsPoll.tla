----------------------------- MODULE SensorsPoll ----------------------------
(***************************************************************************)
(* Collecting sensor events: sensors_poll_context_t::pollEvents            *)
(* (src/libsensors/sensors.cpp) over the readEvents() of the drivers, and  *)
(* the enable() of a driver that runs meanwhile on the framework's other   *)
(* thread.  The two share mEnabled, the pending event of the proximity     *)
(* sensor and the wake pipe; there is no lock.                             *)
(*                                                                         *)
(* Drivers are numbered in the order of the scan.  Input events are        *)
(* counted: a report of a device is a packet of PacketSize events, the     *)
(* last of them the EV_SYN that makes readEvents() return one.  The ring   *)
(* of a driver is module InputEventReader; here it is how many events it   *)
(* holds.  The descriptors of the devices block.                           *)
(***************************************************************************)
EXTENDS Naturals, FiniteSets

CONSTANTS
  numSensorDrivers,
  Prox,          \* the proximity driver, the only one with pending events
  RingSize,      \* events a driver's ring holds
  PacketSize,    \* input events of a report
  KernelEvents,  \* bound: events a device queues
  PipeSize,      \* bound: bytes the wake pipe holds
  Counts         \* sizes of the buffer passed to pollEvents

Drivers == 0 .. numSensorDrivers - 1

ASSUME DriverCount == numSensorDrivers \in Nat \ {0} /\ Prox \in Drivers
ASSUME Sizes == /\ RingSize \in Nat \ {0} /\ PacketSize \in Nat \ {0}
                /\ KernelEvents \in Nat /\ PipeSize \in Nat \ {0}
ASSUME BufferSizes == Counts \subseteq Nat \ {0}

VARIABLES
  mEnabled,          \* drivers switched on
  mHasPendingEvent,  \* of the proximity driver
  current,           \* its mPendingEvent holds what the last enable() found
  owed,              \* the state found by the last enable() is still to be reported
  kernel,            \* events queued in each device
  ring,              \* events in each driver's ring
  phase,             \* place in its packet of the next event in the ring
  revents,           \* drivers whose mPollFds entry says POLLIN
  wake,              \* bytes in the wake pipe
  poller,            \* [pc, i, count, nbEvents, got, size]: the polling thread
  activator          \* [pc, driver, en]: the thread in real_activate()

shared == << mEnabled, mHasPendingEvent, current, owed >>
queues == << kernel, ring, phase >>
vars == << shared, queues, revents, wake, poller, activator >>

PollerIdle == [pc |-> "idle", i |-> 0, count |-> 0, nbEvents |-> 0, got |-> 0, size |-> 0]
ActivatorIdle == [pc |-> "idle", driver |-> 0, en |-> FALSE]

Smaller(a, b) == IF a < b THEN a ELSE b

\* Definitions named X_Slip are X with a plausible mistake; no action uses them.

-----------------------------------------------------------------------------
(* pollEvents. *)

pollEvents(c) ==
  /\ poller.pc = "idle"
  /\ poller' = [PollerIdle EXCEPT !.pc = "scan", !.count = c, !.size = c]
  /\ UNCHANGED << shared, queues, revents, wake, activator >>

NextDriver(nb) ==
  [poller EXCEPT !.pc = "scan", !.i = poller.i + 1, !.got = 0,
                 !.count = poller.count - nb, !.nbEvents = poller.nbEvents + nb]

\* revents after readEvents() of the current driver returned nb.
StillReady(nb) == IF nb < poller.count THEN revents \ {poller.i} ELSE revents

hasPendingEvents_Slip(d) == d = Prox /\ mHasPendingEvent /\ d \in revents
hasPendingEvents(d) == d = Prox /\ mHasPendingEvent

\* The scan over the drivers: look at one that has nothing, and go on.
Skip ==
  /\ poller.pc = "scan"
  /\ poller.i < numSensorDrivers /\ poller.count > 0
  /\ poller.i \notin revents /\ ~ hasPendingEvents(poller.i)
  /\ poller' = NextDriver(0)
  /\ UNCHANGED << shared, queues, revents, wake, activator >>

\* readEvents() with a pending event: it is returned, or dropped when the sensor
\* is off, and nothing else is read.
ReadPending ==
  /\ poller.pc = "scan"
  /\ hasPendingEvents(poller.i) /\ poller.count > 0
  /\ mHasPendingEvent' = FALSE
  /\ LET nb == IF Prox \in mEnabled THEN 1 ELSE 0
     IN /\ owed' = (owed /\ ~ (nb = 1 /\ current))
        /\ revents' = StillReady(nb)
        /\ poller' = NextDriver(nb)
  /\ UNCHANGED << mEnabled, current, queues, wake, activator >>

StartRead ==
  /\ poller.pc = "scan"
  /\ poller.i \in revents /\ poller.count > 0
  /\ ~ hasPendingEvents(poller.i)
  /\ poller' = [poller EXCEPT !.pc = "fill"]
  /\ UNCHANGED << shared, queues, revents, wake, activator >>

Fits(d) == Smaller(RingSize - ring[d], kernel[d])

\* fill(): read() takes what fits, and waits for an event if there is none.
Fill ==
  /\ poller.pc = "fill"
  /\ LET d == poller.i
         n == Fits(d)
     IN /\ ring[d] < RingSize => kernel[d] > 0
        /\ ring' = [ring EXCEPT ![d] = @ + n]
        /\ kernel' = [kernel EXCEPT ![d] = @ - n]
  /\ poller' = [poller EXCEPT !.pc = "consume"]
  /\ UNCHANGED << shared, phase, revents, wake, activator >>

Room == poller.got < poller.count

\* One turn of the loop of readEvents(): an event of the ring; the EV_SYN of an
\* enabled sensor fills an entry of the buffer.
Consume ==
  /\ poller.pc = "consume"
  /\ LET d == poller.i
         report == phase[d] = PacketSize - 1 /\ d \in mEnabled
     IN /\ Room /\ ring[d] > 0
        /\ ring' = [ring EXCEPT ![d] = @ - 1]
        /\ phase' = [phase EXCEPT ![d] = (@ + 1) % PacketSize]
        /\ poller' = IF report THEN [poller EXCEPT !.got = @ + 1] ELSE poller
        /\ owed' = (owed /\ ~ (report /\ d = Prox))
  /\ UNCHANGED << mEnabled, mHasPendingEvent, current, kernel, revents, wake, activator >>

EndRead ==
  /\ poller.pc = "consume"
  /\ ~ Room \/ ring[poller.i] = 0
  /\ revents' = StillReady(poller.got)
  /\ poller' = NextDriver(poller.got)
  /\ UNCHANGED << shared, queues, wake, activator >>

EndScan ==
  /\ poller.pc = "scan"
  /\ poller.i = numSensorDrivers \/ poller.count = 0
  /\ poller' = IF poller.count = 0 THEN PollerIdle ELSE [poller EXCEPT !.pc = "poll"]
  /\ UNCHANGED << shared, queues, revents, wake, activator >>

\* The timeout: 0, or -1 (wait) with nothing collected.
MayReturn_Slip(n) == TRUE
MayReturn(n) == poller.nbEvents = 0 => n > 0

\* poll(): it waits only if nothing has been collected.  One byte of the wake
\* pipe is read.  With nothing ready pollEvents returns, else it scans again.
Poll ==
  /\ poller.pc = "poll"
  /\ LET ready == {d \in Drivers : kernel[d] > 0}
         n == Cardinality(ready) + (IF wake > 0 THEN 1 ELSE 0)
     IN /\ MayReturn(n)
        /\ revents' = ready
        /\ poller' = IF n = 0 THEN PollerIdle ELSE [poller EXCEPT !.pc = "scan", !.i = 0]
  /\ wake' = IF wake > 0 THEN wake - 1 ELSE 0
  /\ UNCHANGED << shared, queues, activator >>

-----------------------------------------------------------------------------
(* real_activate() on the other thread. *)

AfterEnable_Slip(d, en) == IF en /\ d # Prox THEN [pc |-> "wake", driver |-> d, en |-> en] ELSE ActivatorIdle
AfterEnable(d, en) == IF en THEN [pc |-> "wake", driver |-> d, en |-> en] ELSE ActivatorIdle

\* enable(): the driver is on or off as asked already, or it is switched.
Enable(d, en) ==
  /\ activator.pc = "idle"
  /\ mEnabled' = IF en THEN mEnabled \cup {d} ELSE mEnabled \ {d}
  /\ activator' = IF d = Prox /\ mEnabled' # mEnabled
                  THEN [pc |-> "flag", driver |-> d, en |-> en] ELSE AfterEnable(d, en)
  /\ owed' = (owed /\ Prox \in mEnabled')
  /\ UNCHANGED << mHasPendingEvent, current, queues, revents, wake, poller >>

\* setInitialState(): the flag first, the distance after it; neither when the
\* ioctl fails.
SetFlag ==
  /\ activator.pc = "flag"
  /\ \/ /\ mHasPendingEvent' = TRUE
        /\ current' = FALSE
        /\ owed' = activator.en
        /\ activator' = [activator EXCEPT !.pc = "distance"]
     \/ /\ activator' = AfterEnable(activator.driver, activator.en)
        /\ UNCHANGED << mHasPendingEvent, current, owed >>
  /\ UNCHANGED << mEnabled, queues, revents, wake, poller >>

SetDistance ==
  /\ activator.pc = "distance"
  /\ current' = TRUE
  /\ activator' = AfterEnable(activator.driver, activator.en)
  /\ UNCHANGED << mEnabled, mHasPendingEvent, owed, queues, revents, wake, poller >>

\* The wake message; a full pipe drops it.
Wake ==
  /\ activator.pc = "wake"
  /\ wake' = Smaller(wake + 1, PipeSize)
  /\ activator' = ActivatorIdle
  /\ UNCHANGED << shared, queues, revents, poller >>

-----------------------------------------------------------------------------
\* A device that is switched on reports.
Report(d) ==
  /\ d \in mEnabled
  /\ kernel[d] + PacketSize <= KernelEvents
  /\ kernel' = [kernel EXCEPT ![d] = @ + PacketSize]
  /\ UNCHANGED << shared, ring, phase, revents, wake, poller, activator >>

\* The constructor has switched the proximity sensor on.
Init ==
  /\ mEnabled = {Prox}
  /\ mHasPendingEvent = TRUE /\ current = TRUE /\ owed = TRUE
  /\ kernel = [d \in Drivers |-> 0]
  /\ ring = [d \in Drivers |-> 0]
  /\ phase = [d \in Drivers |-> 0]
  /\ revents = {}
  /\ wake = 0
  /\ poller = PollerIdle
  /\ activator = ActivatorIdle

PollerStep == Skip \/ ReadPending \/ StartRead \/ Fill \/ Consume \/ EndRead \/ EndScan \/ Poll
ActivatorStep == SetFlag \/ SetDistance \/ Wake

Next == \/ \E c \in Counts : pollEvents(c)
        \/ PollerStep
        \/ \E d \in Drivers, en \in BOOLEAN : Enable(d, en)
        \/ ActivatorStep
        \/ \E d \in Drivers : Report(d)

Spec == Init /\ [][Next]_vars

\* The framework polls again and again, and a thread that can run runs.
FairSpec == /\ Spec
            /\ WF_vars(\E c \in Counts : pollEvents(c)) /\ WF_vars(PollerStep) /\ WF_vars(ActivatorStep)

-----------------------------------------------------------------------------
TypeOK ==
  /\ mEnabled \subseteq Drivers /\ revents \subseteq Drivers
  /\ mHasPendingEvent \in BOOLEAN /\ current \in BOOLEAN /\ owed \in BOOLEAN
  /\ kernel \in [Drivers -> 0 .. KernelEvents]
  /\ ring \in [Drivers -> 0 .. RingSize]
  /\ phase \in [Drivers -> 0 .. PacketSize - 1]
  /\ wake \in 0 .. PipeSize
  /\ poller \in [pc : {"idle", "scan", "fill", "consume", "poll"}, i : 0 .. numSensorDrivers,
                 count : Nat, nbEvents : Nat, got : Nat, size : Nat]
  /\ activator \in [pc : {"idle", "flag", "distance", "wake"}, driver : Drivers, en : BOOLEAN]

Waiting == poller.pc = "poll" /\ poller.nbEvents = 0 /\ wake = 0 /\ \A d \in Drivers : kernel[d] = 0
ReadBlocked == poller.pc = "fill" /\ ring[poller.i] < RingSize /\ kernel[poller.i] = 0

\* A complete report of an enabled driver lies in its ring.
Leftover(d) == d \in mEnabled /\ ring[d] >= PacketSize - phase[d]

\* Events are stored inside the caller's buffer: what has been stored and what
\* is left of it are its size, and a driver stores no more than is left.
StaysInBuffer == poller.nbEvents + poller.count = poller.size /\ poller.got <= poller.count

\* pollEvents() returns with at least one event.
NeverEmptyHanded == [][ poller.pc \in {"scan", "poll"} /\ poller'.pc = "idle" => poller.nbEvents > 0 ]_vars

\* No lost wake-up: the poller does not sleep in poll() while the pending event
\* of a sensor that has been switched on waits for it.
PendingEndsWait ==
  Waiting /\ activator.pc = "idle" => ~ (mHasPendingEvent /\ Prox \in mEnabled)

\* A poll is sound: it stays in the caller's buffer and does not sleep over an event.
PollSound == TypeOK /\ StaysInBuffer /\ PendingEndsWait

\* The pending event of a sensor that is on is taken, unless the poller is held
\* in a driver's read(): reports of the drivers scanned first do not starve it.
PendingTaken ==
  mHasPendingEvent /\ Prox \in mEnabled
    ~> ~ mHasPendingEvent \/ Prox \notin mEnabled \/ ReadBlocked

\* Refuted.  "or just wait if we don't have anything to return" (sensors.cpp:312): the
\* poller does not wait in read() with events to return.
WaitsOnlyWhenEmpty ==
  ReadBlocked => /\ poller.nbEvents = 0
                 /\ \A d \in Drivers : ~ Leftover(d)
                 /\ ~ (mHasPendingEvent /\ Prox \in mEnabled)

\* Refuted.  "see if we have some leftover from the last poll()" (sensors.cpp:294): the
\* poller does not sleep in poll() while a report lies in a driver's ring.
LeftoverRead == Waiting /\ activator.pc = "idle" => \A d \in Drivers : ~ Leftover(d)

\* Refuted.  "make sure to report an event immediately" (ProximitySensor.cpp:60): the
\* state that enable() found is reported, or still pending.
InitialStateReported == owed /\ activator.pc = "idle" => mHasPendingEvent
=============================================================================
