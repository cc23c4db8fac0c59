-------------------------- MODULE SensorsPollProofs --------------------------
(***************************************************************************)
(* Proofs about SensorsPoll: the poll loop stays in the caller's buffer    *)
(* and does not sleep over a pending event, for any number of drivers,     *)
(* every size of rings, packets and buffers, and any enable() meanwhile.   *)
(***************************************************************************)
EXTENDS SensorsPoll, TLAPS

\* A driver that is being read is one, and enable() of the proximity sensor goes on for
\* what it has written to mEnabled.
Busy ==
  /\ poller.pc \in {"fill", "consume"} => poller.i \in Drivers
  /\ activator.pc \in {"flag", "distance"} =>
       activator.driver = Prox /\ activator.en = (Prox \in mEnabled)

\* The scan comes to the proximity sensor before it can wait.
BeforeProx ==
  \/ poller.pc = "idle"
  \/ poller.pc = "scan" /\ (poller.i <= Prox \/ poller.count = 0)
  \/ poller.pc \in {"fill", "consume"} /\ poller.i < Prox

\* A pending event is seen: there is a wake message, the scan still comes to it, or
\* there are events to return, with which poll() does not wait.
PendingSeen ==
  mHasPendingEvent /\ Prox \in mEnabled /\ activator.pc = "idle" =>
    wake > 0 \/ BeforeProx \/ poller.nbEvents > 0

\* What the polling thread and the thread in real_activate() may hold.
Pollers == [pc : {"idle", "scan", "fill", "consume", "poll"}, i : 0 .. numSensorDrivers,
            count : Nat, nbEvents : Nat, got : Nat, size : Nat]
Activators == [pc : {"idle", "flag", "distance", "wake"}, driver : Drivers, en : BOOLEAN]

\* The inductive invariant.
IInv == TypeOK /\ StaysInBuffer /\ Busy /\ PendingSeen

USE DriverCount, Sizes, BufferSizes

\* At the start the constructor's pending event waits for the first scan.
LEMMA InitInv == Init => IInv
<1> SUFFICES ASSUME Init PROVE IInv
  OBVIOUS
<1>1. TypeOK
  <2>1. kernel \in [Drivers -> 0 .. KernelEvents] /\ ring \in [Drivers -> 0 .. RingSize]
        /\ phase \in [Drivers -> 0 .. PacketSize - 1]
    BY DEF Init
  <2>2. 0 \in Drivers /\ 0 \in 0 .. numSensorDrivers
    BY DEF Drivers
  <2>3. QED
    BY <2>1, <2>2 DEF Init, TypeOK, PollerIdle, ActivatorIdle
<1>2. StaysInBuffer /\ Busy /\ PendingSeen
  BY DEF Init, StaysInBuffer, Busy, PendingSeen, BeforeProx, PollerIdle, ActivatorIdle
<1>3. QED
  BY <1>1, <1>2 DEF IInv

\* Going on to the next driver of the scan, after one that has given nb events.
LEMMA NextDriverInv ==
  ASSUME IInv, poller.i \in Drivers, NEW nb \in Nat, nb <= poller.count, poller' = NextDriver(nb)
  PROVE  /\ poller' \in Pollers /\ StaysInBuffer'
         /\ poller'.pc = "scan" /\ poller'.i = poller.i + 1
         /\ poller'.count = poller.count - nb /\ poller'.nbEvents = poller.nbEvents + nb
<1>1. poller \in Pollers
  BY DEF IInv, TypeOK, Pollers
<1>2. /\ poller.i + 1 \in 0 .. numSensorDrivers /\ poller.count - nb \in Nat
      /\ poller.nbEvents + nb \in Nat
  BY <1>1 DEF Pollers, Drivers
<1>3. poller' = [poller EXCEPT !.pc = "scan", !.i = poller.i + 1, !.got = 0,
                               !.count = poller.count - nb, !.nbEvents = poller.nbEvents + nb]
  BY DEF NextDriver
<1>4. poller' \in Pollers
  <2>1. poller' = [pc |-> "scan", i |-> poller.i + 1, count |-> poller.count - nb,
                   nbEvents |-> poller.nbEvents + nb, got |-> 0, size |-> poller.size]
    BY <1>1, <1>3 DEF Pollers
  <2>2. poller.size \in Nat /\ 0 \in Nat
    BY <1>1 DEF Pollers
  <2>3. QED
    BY <1>2, <2>1, <2>2 DEF Pollers
<1>5. /\ poller'.pc = "scan" /\ poller'.i = poller.i + 1 /\ poller'.got = 0
      /\ poller'.count = poller.count - nb /\ poller'.nbEvents = poller.nbEvents + nb
      /\ poller'.size = poller.size
  BY <1>1, <1>3 DEF Pollers
<1>6. StaysInBuffer'
  BY <1>1, <1>2, <1>5 DEF IInv, StaysInBuffer, Pollers
<1>7. QED
  BY <1>4, <1>5, <1>6

\* After that the thread is not in a driver.
LEMMA NextDriverTypes ==
  ASSUME IInv, poller.i \in Drivers, NEW nb \in Nat, nb <= poller.count, poller' = NextDriver(nb),
         revents' \subseteq Drivers, mHasPendingEvent' \in BOOLEAN, owed' \in BOOLEAN,
         UNCHANGED << mEnabled, current, queues, wake, activator >>
  PROVE  TypeOK' /\ StaysInBuffer' /\ Busy'
<1>1. poller' \in Pollers /\ poller'.pc = "scan" /\ StaysInBuffer'
  BY NextDriverInv
<1>2. TypeOK'
  BY <1>1 DEF IInv, TypeOK, queues, Pollers
<1>3. Busy'
  BY <1>1 DEF IInv, Busy
<1>4. QED
  BY <1>1, <1>2, <1>3

\* pollEvents() begins with the whole buffer.
LEMMA PollEventsInv == ASSUME IInv, NEW c \in Counts, pollEvents(c) PROVE IInv'
<1>1. /\ poller' = [pc |-> "scan", i |-> 0, count |-> c, nbEvents |-> 0, got |-> 0, size |-> c]
      /\ c \in Nat
  BY DEF pollEvents, PollerIdle
<1>2. TypeOK'
  BY <1>1 DEF pollEvents, shared, queues, IInv, TypeOK
<1>3. StaysInBuffer'
  BY <1>1 DEF StaysInBuffer
<1>4. Busy'
  BY <1>1 DEF pollEvents, shared, IInv, Busy
<1>5. PendingSeen'
  BY <1>1 DEF PendingSeen, BeforeProx, Drivers
<1>6. QED
  BY <1>2, <1>3, <1>4, <1>5 DEF IInv

\* A driver that has nothing is passed; it is not the proximity sensor with its event.
LEMMA SkipInv == ASSUME IInv, Skip PROVE IInv'
<1>1. /\ poller.pc = "scan" /\ poller.i \in Drivers /\ poller' = NextDriver(0) /\ poller.count > 0
      /\ ~ (poller.i = Prox /\ mHasPendingEvent)
      /\ UNCHANGED << mEnabled, mHasPendingEvent, current, owed, queues, revents, wake, activator >>
  BY DEF Skip, IInv, TypeOK, Drivers, hasPendingEvents, shared
<1>2. 0 \in Nat /\ 0 <= poller.count
  BY <1>1 DEF IInv, TypeOK
<1>3. /\ poller'.pc = "scan" /\ poller'.i = poller.i + 1 /\ poller'.nbEvents = poller.nbEvents + 0
      /\ poller.i \in Nat /\ poller.nbEvents \in Nat
  BY <1>1, <1>2, NextDriverInv DEF IInv, TypeOK
<1>4. revents' \subseteq Drivers /\ mHasPendingEvent' \in BOOLEAN /\ owed' \in BOOLEAN
  BY <1>1 DEF IInv, TypeOK
<1>5. TypeOK' /\ StaysInBuffer' /\ Busy'
  BY <1>1, <1>2, <1>4, NextDriverTypes
<1>6. PendingSeen'
  BY <1>1, <1>3 DEF IInv, PendingSeen, BeforeProx, Drivers
<1>7. QED
  BY <1>5, <1>6 DEF IInv

\* The pending event is taken.
LEMMA ReadPendingInv == ASSUME IInv, ReadPending PROVE IInv'
<1>1. PICK nb \in {0, 1} : /\ poller' = NextDriver(nb) /\ revents' = StillReady(nb)
                           /\ owed' = (owed /\ ~ (nb = 1 /\ current))
  BY DEF ReadPending
<1>2. /\ poller.pc = "scan" /\ poller.i \in Drivers /\ poller.count > 0 /\ mHasPendingEvent' = FALSE
      /\ UNCHANGED << mEnabled, current, queues, wake, activator >>
  BY DEF ReadPending, hasPendingEvents
<1>3. nb \in Nat /\ nb <= poller.count
  BY <1>2 DEF IInv, TypeOK
<1>4. revents' \subseteq Drivers /\ owed' \in BOOLEAN
  BY <1>1 DEF IInv, TypeOK, StillReady
<1>5. TypeOK' /\ StaysInBuffer' /\ Busy'
  BY <1>1, <1>2, <1>3, <1>4, NextDriverTypes
<1>6. PendingSeen'
  BY <1>2 DEF PendingSeen
<1>7. QED
  BY <1>5, <1>6 DEF IInv

\* readEvents() begins where there is no pending event.
LEMMA StartReadInv == ASSUME IInv, StartRead PROVE IInv'
<1>1. /\ poller.pc = "scan" /\ poller.i \in Drivers /\ poller.count > 0
      /\ ~ (poller.i = Prox /\ mHasPendingEvent)
      /\ poller' = [poller EXCEPT !.pc = "fill"]
      /\ UNCHANGED << mEnabled, mHasPendingEvent, current, owed, queues, revents, wake, activator >>
  BY DEF StartRead, IInv, TypeOK, hasPendingEvents, shared
<1>2. TypeOK' /\ StaysInBuffer' /\ Busy'
  BY <1>1 DEF IInv, TypeOK, StaysInBuffer, Busy, queues
<1>3. /\ poller'.pc = "fill" /\ poller'.i = poller.i /\ poller'.nbEvents = poller.nbEvents
      /\ poller.i \in Nat /\ poller.count \in Nat
  BY <1>1 DEF IInv, TypeOK
<1>4. PendingSeen'
  BY <1>1, <1>3 DEF IInv, PendingSeen, BeforeProx, Drivers
<1>5. QED
  BY <1>2, <1>4 DEF IInv

\* What is read fits the ring.
LEMMA FillInv == ASSUME IInv, Fill PROVE IInv'
<1> DEFINE d == poller.i
           n == Fits(d)
<1>1. /\ poller.pc = "fill" /\ d \in Drivers /\ poller' = [poller EXCEPT !.pc = "consume"]
      /\ ring' = [ring EXCEPT ![d] = @ + n] /\ kernel' = [kernel EXCEPT ![d] = @ - n]
      /\ UNCHANGED << shared, phase, revents, wake, activator >>
  BY DEF Fill, IInv, Busy
<1>2. ring[d] \in 0 .. RingSize /\ kernel[d] \in 0 .. KernelEvents
  BY <1>1 DEF IInv, TypeOK
<1>3. ring[d] + n \in 0 .. RingSize /\ kernel[d] - n \in 0 .. KernelEvents
  BY <1>2 DEF Fits, Smaller
<1>4. ring' \in [Drivers -> 0 .. RingSize] /\ kernel' \in [Drivers -> 0 .. KernelEvents]
  BY <1>1, <1>3 DEF IInv, TypeOK
<1>5. TypeOK' /\ StaysInBuffer' /\ Busy' /\ PendingSeen'
  BY <1>1, <1>4 DEF IInv, TypeOK, StaysInBuffer, Busy, PendingSeen, BeforeProx, shared
<1>6. QED
  BY <1>5 DEF IInv

\* A place in a packet, and the next one.
LEMMA NextPlace ==
  ASSUME NEW p \in 0 .. PacketSize - 1 PROVE (p + 1) % PacketSize \in 0 .. PacketSize - 1
BY SMT

\* An event is taken from the ring while there is room in the buffer.
LEMMA ConsumeInv == ASSUME IInv, Consume PROVE IInv'
<1> DEFINE d == poller.i
<1>1. /\ poller.pc = "consume" /\ d \in Drivers /\ poller.got < poller.count /\ ring[d] > 0
      /\ ring' = [ring EXCEPT ![d] = @ - 1] /\ phase' = [phase EXCEPT ![d] = (@ + 1) % PacketSize]
      /\ poller' \in {poller, [poller EXCEPT !.got = @ + 1]} /\ owed' \in BOOLEAN
      /\ UNCHANGED << mEnabled, mHasPendingEvent, current, kernel, revents, wake, activator >>
  BY DEF Consume, Room, IInv, Busy, TypeOK
<1>2. ring' \in [Drivers -> 0 .. RingSize]
  BY <1>1 DEF IInv, TypeOK
<1>3. phase' \in [Drivers -> 0 .. PacketSize - 1]
  BY <1>1, NextPlace DEF IInv, TypeOK
<1>4. /\ poller' \in [pc : {"idle", "scan", "fill", "consume", "poll"}, i : 0 .. numSensorDrivers,
                      count : Nat, nbEvents : Nat, got : Nat, size : Nat]
      /\ poller'.got <= poller.count
      /\ poller'.pc = poller.pc /\ poller'.i = poller.i /\ poller'.count = poller.count
      /\ poller'.nbEvents = poller.nbEvents /\ poller'.size = poller.size
  BY <1>1 DEF IInv, TypeOK, StaysInBuffer
<1>5. TypeOK' /\ StaysInBuffer' /\ Busy' /\ PendingSeen'
  BY <1>1, <1>2, <1>3, <1>4 DEF IInv, TypeOK, StaysInBuffer, Busy, PendingSeen, BeforeProx
<1>6. QED
  BY <1>5 DEF IInv

\* readEvents() returns what it has got.
LEMMA EndReadInv == ASSUME IInv, EndRead PROVE IInv'
<1>1. /\ poller.pc = "consume" /\ poller.i \in Drivers /\ poller' = NextDriver(poller.got)
      /\ revents' = StillReady(poller.got) /\ UNCHANGED << shared, queues, wake, activator >>
  BY DEF EndRead, IInv, Busy
<1>2. poller.got \in Nat /\ poller.got <= poller.count
  BY DEF IInv, TypeOK, StaysInBuffer
<1>3. /\ poller'.pc = "scan" /\ poller'.i = poller.i + 1
      /\ poller'.nbEvents = poller.nbEvents + poller.got
      /\ poller.i \in Nat /\ poller.nbEvents \in Nat
  BY <1>1, <1>2, NextDriverInv DEF IInv, TypeOK
<1>4. revents' \subseteq Drivers /\ mHasPendingEvent' \in BOOLEAN /\ owed' \in BOOLEAN
  BY <1>1 DEF IInv, TypeOK, StillReady, shared
<1>5. TypeOK' /\ StaysInBuffer' /\ Busy'
  BY <1>1, <1>2, <1>4, NextDriverTypes DEF shared
<1>6. PendingSeen'
  BY <1>1, <1>2, <1>3 DEF IInv, PendingSeen, BeforeProx, shared, Drivers
<1>7. QED
  BY <1>5, <1>6 DEF IInv

\* The end of the scan: the proximity sensor has been passed, or the buffer is full.
LEMMA EndScanInv == ASSUME IInv, EndScan PROVE IInv'
<1>1. /\ poller.pc = "scan" /\ (poller.i = numSensorDrivers \/ poller.count = 0)
      /\ poller' = IF poller.count = 0 THEN PollerIdle ELSE [poller EXCEPT !.pc = "poll"]
      /\ UNCHANGED << shared, queues, revents, wake, activator >>
  BY DEF EndScan
<1>2. poller \in Pollers
  BY DEF IInv, TypeOK, Pollers
<1>3. CASE poller.count = 0
  <2>1. /\ poller' \in Pollers /\ poller'.pc = "idle" /\ StaysInBuffer'
    BY <1>1, <1>3 DEF PollerIdle, Pollers, StaysInBuffer
  <2>2. TypeOK' /\ Busy'
    BY <1>1, <2>1 DEF IInv, TypeOK, Busy, Pollers, shared, queues
  <2>3. PendingSeen'
    BY <2>1 DEF PendingSeen, BeforeProx
  <2>4. QED
    BY <2>1, <2>2, <2>3 DEF IInv
<1>4. CASE poller.count # 0
  <2>1. /\ poller' \in Pollers /\ poller'.pc = "poll" /\ poller'.nbEvents = poller.nbEvents
        /\ StaysInBuffer'
    BY <1>1, <1>2, <1>4 DEF IInv, Pollers, StaysInBuffer
  <2>2. TypeOK' /\ Busy'
    BY <1>1, <2>1 DEF IInv, TypeOK, Busy, Pollers, shared, queues
  <2>3. ~ BeforeProx
    <3>1. poller.i = numSensorDrivers /\ Prox < numSensorDrivers
      BY <1>1, <1>4 DEF Drivers
    <3>2. QED
      BY <1>1, <1>4, <3>1 DEF BeforeProx, Drivers
  <2>4. PendingSeen'
    BY <1>1, <2>1, <2>3 DEF IInv, PendingSeen, shared
  <2>5. QED
    BY <2>1, <2>2, <2>4 DEF IInv
<1>5. QED
  BY <1>3, <1>4

\* poll() takes a wake message only to scan again.
LEMMA PollInv == ASSUME IInv, Poll PROVE IInv'
<1>1. /\ poller.pc = "poll" /\ poller' \in {PollerIdle, [poller EXCEPT !.pc = "scan", !.i = 0]}
      /\ revents' \subseteq Drivers /\ wake' = IF wake > 0 THEN wake - 1 ELSE 0
      /\ UNCHANGED << shared, queues, activator >>
  BY DEF Poll
<1>2. wake' \in 0 .. PipeSize
  BY <1>1 DEF IInv, TypeOK
<1>3. /\ poller' \in Pollers /\ StaysInBuffer'
      /\ poller'.pc = "idle" \/ (poller'.pc = "scan" /\ poller'.i = 0)
  <2>1. CASE poller' = PollerIdle
    BY <2>1 DEF PollerIdle, Pollers, StaysInBuffer
  <2>2. CASE poller' = [poller EXCEPT !.pc = "scan", !.i = 0]
    <3>1. 0 \in 0 .. numSensorDrivers /\ poller \in Pollers
      BY DEF IInv, TypeOK, Pollers
    <3>2. QED
      BY <2>2, <3>1 DEF IInv, Pollers, StaysInBuffer
  <2>3. QED
    BY <1>1, <2>1, <2>2
<1>4. TypeOK'
  BY <1>1, <1>2, <1>3 DEF IInv, TypeOK, Pollers, shared, queues
<1>5. Busy'
  BY <1>1, <1>3 DEF IInv, Busy, shared
<1>6. PendingSeen'
  BY <1>3 DEF PendingSeen, BeforeProx, Drivers
<1>7. QED
  BY <1>3, <1>4, <1>5, <1>6 DEF IInv

\* What comes after the driver's part of enable(): a wake message, or nothing if it was
\* switched off.
LEMMA AfterEnableIs ==
  ASSUME NEW d \in Drivers, NEW en \in BOOLEAN
  PROVE  /\ AfterEnable(d, en) \in Activators
         /\ AfterEnable(d, en).pc \in {"idle", "wake"}
         /\ AfterEnable(d, en).pc = "idle" => ~ en
<1>1. 0 \in Drivers
  BY DEF Drivers
<1>2. CASE en
  BY <1>2 DEF AfterEnable, Activators
<1>3. CASE ~ en
  BY <1>1, <1>3 DEF AfterEnable, ActivatorIdle, Activators
<1>4. QED
  BY <1>2, <1>3

\* enable() of a driver.
LEMMA EnableInv == ASSUME IInv, NEW d \in Drivers, NEW en \in BOOLEAN, Enable(d, en) PROVE IInv'
<1>1. /\ activator.pc = "idle" /\ mEnabled' = (IF en THEN mEnabled \cup {d} ELSE mEnabled \ {d})
      /\ activator' = IF d = Prox /\ mEnabled' # mEnabled
                      THEN [pc |-> "flag", driver |-> d, en |-> en] ELSE AfterEnable(d, en)
      /\ UNCHANGED << mHasPendingEvent, current, queues, revents, wake, poller >>
      /\ owed' = (owed /\ Prox \in mEnabled')
  BY DEF Enable
<1>2. CASE d = Prox /\ mEnabled' # mEnabled
  <2>1. /\ activator' = [pc |-> "flag", driver |-> d, en |-> en]
        /\ activator'.pc = "flag" /\ activator'.driver = d /\ activator'.en = en
    BY <1>1, <1>2
  <2>2. activator' \in Activators
    BY <2>1 DEF Activators
  <2>3. Busy'
    <3>1. en = (Prox \in mEnabled')
      BY <1>1, <1>2
    <3>2. QED
      BY <1>1, <1>2, <2>1, <3>1 DEF IInv, Busy
  <2>4. TypeOK' /\ StaysInBuffer' /\ PendingSeen'
    BY <1>1, <2>1, <2>2 DEF IInv, TypeOK, StaysInBuffer, PendingSeen, Activators, queues
  <2>5. QED
    BY <2>3, <2>4 DEF IInv
<1>3. CASE ~ (d = Prox /\ mEnabled' # mEnabled)
  <2>1. /\ activator' \in Activators /\ activator'.pc \in {"idle", "wake"}
        /\ activator'.pc = "idle" => ~ en
    BY <1>1, <1>3, AfterEnableIs
  <2>2. TypeOK' /\ StaysInBuffer' /\ Busy'
    BY <1>1, <2>1 DEF IInv, TypeOK, StaysInBuffer, Busy, Activators, queues
  <2>3. ~ en => (Prox \in mEnabled' => Prox \in mEnabled)
    BY <1>1
  <2>4. PendingSeen'
    BY <1>1, <2>1, <2>3 DEF IInv, PendingSeen, BeforeProx
  <2>5. QED
    BY <2>2, <2>4 DEF IInv
<1>4. QED
  BY <1>2, <1>3

\* setInitialState() and the wake message.
LEMMA ActivatorInv == ASSUME IInv, ActivatorStep PROVE IInv'
<1>1. CASE SetFlag \/ SetDistance
  <2>1. /\ activator.pc \in {"flag", "distance"} /\ activator.driver = Prox
        /\ activator.en = (Prox \in mEnabled) /\ activator.en \in BOOLEAN
        /\ mHasPendingEvent' \in BOOLEAN /\ current' \in BOOLEAN /\ owed' \in BOOLEAN
        /\ UNCHANGED << mEnabled, queues, revents, wake, poller >>
    BY <1>1 DEF SetFlag, SetDistance, IInv, TypeOK, Busy
  <2>2. activator' \in {[activator EXCEPT !.pc = "distance"], AfterEnable(Prox, activator.en)}
    BY <1>1, <2>1 DEF SetFlag, SetDistance
  <2>3. /\ activator' \in Activators
        /\ activator'.pc = "distance" => activator'.driver = Prox /\ activator'.en = activator.en
        /\ activator'.pc = "idle" => Prox \notin mEnabled
        /\ activator'.pc # "flag"
    <3>1. CASE activator' = [activator EXCEPT !.pc = "distance"]
      BY <2>1, <3>1 DEF IInv, TypeOK, Activators
    <3>2. CASE activator' = AfterEnable(Prox, activator.en)
      <4>1. /\ activator' \in Activators /\ activator'.pc \in {"idle", "wake"}
            /\ activator'.pc = "idle" => ~ activator.en
        BY <2>1, <3>2, DriverCount, AfterEnableIs
      <4>2. QED
        BY <2>1, <4>1
    <3>3. QED
      BY <2>2, <3>1, <3>2
  <2>4. QED
    BY <2>1, <2>3 DEF IInv, TypeOK, StaysInBuffer, Busy, PendingSeen, queues, Activators
<1>2. CASE Wake
  <2>1. wake' > 0 /\ wake' \in 0 .. PipeSize
    BY <1>2 DEF Wake, Smaller, IInv, TypeOK
  <2>2. activator' \in Activators /\ activator'.pc = "idle"
    <3>1. 0 \in Drivers
      BY DEF Drivers
    <3>2. QED
      BY <1>2, <3>1 DEF Wake, ActivatorIdle, Activators
  <2>3. TypeOK' /\ StaysInBuffer' /\ Busy'
    BY <1>2, <2>1, <2>2 DEF Wake, IInv, TypeOK, StaysInBuffer, Busy, shared, queues, Activators
  <2>4. PendingSeen'
    BY <2>1 DEF PendingSeen
  <2>5. QED
    BY <2>3, <2>4 DEF IInv
<1>3. QED
  BY <1>1, <1>2 DEF ActivatorStep

\* A device reports.
LEMMA ReportInv == ASSUME IInv, NEW d \in Drivers, Report(d) PROVE IInv'
<1>1. kernel' \in [Drivers -> 0 .. KernelEvents]
  BY DEF Report, IInv, TypeOK
<1>2. QED
  BY <1>1 DEF Report, IInv, TypeOK, StaysInBuffer, Busy, PendingSeen, BeforeProx, shared

\* Every step keeps the invariant.
LEMMA StepInv == IInv /\ [Next]_vars => IInv'
<1> SUFFICES ASSUME IInv, [Next]_vars PROVE IInv'
  OBVIOUS
<1>1. CASE \E c \in Counts : pollEvents(c)
  BY <1>1, PollEventsInv
<1>2. CASE PollerStep
  BY <1>2, SkipInv, ReadPendingInv, StartReadInv, FillInv, ConsumeInv, EndReadInv, EndScanInv,
     PollInv
     DEF PollerStep
<1>3. CASE \E d \in Drivers, en \in BOOLEAN : Enable(d, en)
  BY <1>3, EnableInv
<1>4. CASE ActivatorStep
  BY <1>4, ActivatorInv
<1>5. CASE \E d \in Drivers : Report(d)
  BY <1>5, ReportInv
<1>6. CASE UNCHANGED vars
  BY <1>6 DEF vars, shared, queues, IInv, TypeOK, StaysInBuffer, Busy, PendingSeen, BeforeProx
<1>7. QED
  BY <1>1, <1>2, <1>3, <1>4, <1>5, <1>6 DEF Next

\* The drivers together store no more than the caller's buffer holds, and the poller
\* does not sleep in poll() over a pending event of a sensor that is on (pollEvents(),
\* readEvents(), setInitialState(), real_activate()).
THEOREM PollsAreSound == Spec => []PollSound
<1>1. IInv => PollSound
  <2>1. IInv => PendingEndsWait
    BY DEF IInv, PendingSeen, BeforeProx, PendingEndsWait, Waiting
  <2>2. QED
    BY <2>1 DEF IInv, PollSound
<1>2. QED
  BY <1>1, InitInv, StepInv, PTL DEF Spec

\* A poll has a buffer with room in it.
Sized == poller.pc # "idle" => poller.size > 0

\* pollEvents() ends a scan when the buffer is full, and poll() when there is something
\* to return.
LEMMA ReturnsFull ==
  ASSUME IInv, Sized, Next
  PROVE  /\ Sized'
         /\ poller.pc \in {"scan", "poll"} /\ poller'.pc = "idle" => poller.nbEvents > 0
<1>1. poller \in Pollers /\ poller.nbEvents \in Nat
  BY DEF IInv, TypeOK, Pollers
<1>2. ASSUME NEW c \in Counts, pollEvents(c)
      PROVE  poller.pc = "idle" /\ poller'.size > 0
  BY <1>2 DEF pollEvents, PollerIdle
<1>3. ASSUME NEW nb, poller' = NextDriver(nb)
      PROVE  poller'.pc = "scan" /\ poller'.size = poller.size
  BY <1>1, <1>3 DEF NextDriver, Pollers
<1>4. CASE Skip \/ ReadPending \/ EndRead
  <2>1. poller.pc # "idle" /\ \E nb : poller' = NextDriver(nb)
    BY <1>4 DEF Skip, ReadPending, EndRead
  <2>2. QED
    BY <1>3, <2>1 DEF Sized
<1>5. CASE StartRead \/ Fill \/ Consume
  <2>1. poller.pc # "idle" /\ poller'.pc # "idle" /\ poller'.size = poller.size
    BY <1>1, <1>5 DEF StartRead, Fill, Consume, Pollers
  <2>2. QED
    BY <2>1 DEF Sized
<1>6. CASE EndScan
  <2>1. CASE poller.count = 0
    <3>1. poller.nbEvents = poller.size /\ poller.pc = "scan" /\ poller' = PollerIdle
      BY <1>1, <1>6, <2>1 DEF EndScan, IInv, StaysInBuffer, Pollers
    <3>2. QED
      BY <3>1 DEF Sized, PollerIdle
  <2>2. CASE poller.count # 0
    BY <1>1, <1>6, <2>2 DEF EndScan, Sized, Pollers
  <2>3. QED
    BY <2>1, <2>2
<1>7. CASE Poll
  <2>1. PICK n : /\ MayReturn(n) /\ poller.pc = "poll"
                 /\ poller' = IF n = 0 THEN PollerIdle ELSE [poller EXCEPT !.pc = "scan", !.i = 0]
    BY <1>7 DEF Poll
  <2>2. CASE n = 0
    BY <1>1, <2>1, <2>2 DEF MayReturn, Sized, PollerIdle
  <2>3. CASE n # 0
    BY <1>1, <2>1, <2>3 DEF Sized, Pollers
  <2>4. QED
    BY <2>2, <2>3
<1>8. CASE (\E d \in Drivers, en \in BOOLEAN : Enable(d, en)) \/ ActivatorStep \/ (\E d \in Drivers : Report(d))
  <2>1. poller' = poller
    BY <1>8 DEF Enable, ActivatorStep, SetFlag, SetDistance, Wake, Report
  <2>2. QED
    BY <2>1 DEF Sized
<1>9. QED
  BY <1>2, <1>4, <1>5, <1>6, <1>7, <1>8 DEF Next, PollerStep, Sized

\* pollEvents() returns with at least one event: it waits when it has none, and with a
\* full buffer it has some, however the drivers share it.
THEOREM ReturnsWithEvents == Spec => NeverEmptyHanded
<1> DEFINE A == poller.pc \in {"scan", "poll"} /\ poller'.pc = "idle" => poller.nbEvents > 0
<1>1. Init => Sized
  BY DEF Init, Sized, PollerIdle
<1>2. IInv /\ Sized /\ [Next]_vars => Sized' /\ [A]_vars
  <2>1. CASE Next
    BY <2>1, ReturnsFull
  <2>2. CASE UNCHANGED vars
    BY <2>2 DEF vars, Sized
  <2>3. QED
    BY <2>1, <2>2
<1>3. [][A]_vars => NeverEmptyHanded
  BY PTL DEF NeverEmptyHanded
<1>4. QED
  BY <1>1, <1>2, <1>3, InitInv, StepInv, PTL DEF Spec
=============================================================================
