# Verification of the Samsung Aries device tree

The repository is the device-specific part of an Android port for the Samsung
Aries family (Galaxy S and relatives): hardware abstraction libraries, the
client and shims of the radio interface, small tools, an application with device
settings, and build files.  There is no test suite.  This directory holds TLA+
models of its concurrent and stateful parts, the TLC configurations that check
them and TLAPS proofs about them.

    tlc -config <run>.cfg <MC module>      tlapm <X>Proofs.tla

## 1. Inventory

| Part | State | Operations | Interacts with | What is hard, what makes it correct |
|---|---|---|---|---|
| `ril/libsecril-client` | token bits, request history, handler table, `b_del_handler`; socket, `b_connect`, pipe, record stream, reader thread | register, `Set*`, `GetMute`, `InvokeOemRequestHookRaw`, connect, disconnect, close, `RxReaderFunc` | called by libaudio, talks to RILD over a socket | two threads and no lock; responses in any order; failed writes; hang-up against disconnect. A response reaches the handler of its own request; nothing leaks; every call returns |
| `libaudio` | mode, mute, open counts of pcm and mixer, echo reference, one output and one input stream with standby state | `setMode`, `setMicMute`, `write`, `read`, `standby`, `setParameters`, open/close stream, add/remove effect | AudioFlinger's threads, tinyalsa, audio_utils, the RIL client | three mutexes taken and dropped in loops; failing opens; streams that change while a mutex is released. No deadlock, counts exact, mute and mode reach the hardware |
| `libsensors` | three "active" flags, `mEnabled` per driver, event rings, `revents`, wake pipe, pending event | `activate`, `setDelay`, `pollEvents` | framework's poll thread and its other threads, input devices | sources shared by two clients; partial failure; enable() against a running poll. Nothing left running, no overrun, no lost wake-up |
| `libcamera` HAL (`SecCameraHWInterface`) | preview, record and capture flags, four locks with conditions, three threads; `mParameters`; heaps and window | start/stop preview, window, autofocus, take and cancel picture, record, `setParameters`, release | CameraService, `SecCamera`, the display's window, the encoder | handshakes over conditions, error returns with locks held, sizes read long after they were used for a buffer, frames that come back late. What is stopped is stopped, calls return, callbacks come, frames fit |
| `libcamera` device (`SecCamera`) | V4L2 stream flags, descriptors, cached settings, location | initialise, start/stop preview and record, get/release frames, capture, one setter per setting | kernel driver of node 0 and node 2, the sensor | every ioctl can fail and most methods return at once; settings are remembered, sent later, and changed behind the cache; one object for both cameras. Flags agree with streams, the sensor with the cache |
| `ril/libsecril-shim` | the vendor library's callbacks, the environment of libril, the patched timeout | `RIL_Init`, `onRequestShim`, completion and unsolicited fix-ups | libril, vendor RIL | one completion per request; responses told apart by length; old layouts. Each request answered once, only present layouts reach libril |
| `liblight` | LED state, one mutex | set light | framework | the mutex is initialised on every open. Not modelled |

Not worth a model: `libsecril-compat` (MD5, one alias), `bdaddr_read`,
`mksgsbootimg`, `pvr`, `shims` (forwarding), `DeviceSettings` (one sysfs write
per preference), `updater.sh`, `bml_over_mtd.sh`, configuration, policy,
overlays, `include/telephony/ril.h` (vendored), and the two sensor drivers that
`Android.mk` does not build.  `PROJECT.json` lists each with its reason, and the
hazards of the code at their lines.

## 2. Modules

| Module | Models | MC module |
|---|---|---|
| `RilCalls` | abstract: a request is answered at most once, and, until the client's threads race, under the id it was sent with | |
| `SecRilRequests` | request path of the RIL client; refines `RilCalls` | `MCSecRilRequests` |
| `SecRilRequestsProofs` | TLAPS proofs about it | |
| `SecRilConnection` | connection and reader thread of the RIL client | `MCSecRilConnection` |
| `EventFifo` | abstract: a bounded queue of events | |
| `InputEventReader` | the circular reader of a sensor driver; refines `EventFifo` | `MCInputEventReader` |
| `SensorsActivate` | switching sensors on and off | `MCSensorsActivate` |
| `SensorsActivateProofs` | TLAPS proofs about it | |
| `SensorsPoll` | the poll loop against `enable()` | `MCSensorsPoll` |
| `SensorsPollProofs` | TLAPS proofs about it | |
| `SensorDrivers` | the five drivers: from input events to vectors; `setDelay` | `MCInputEventReader` |
| `SensorInputProofs` | TLAPS proofs about `InputEventReader` and `SensorDrivers` | |
| `AudioHardware` | the audio HAL | `MCAudioHardware` |
| `AudioHardwareProofs` | TLAPS proofs about it | |
| `RilShim` | the shim between libril and the vendor's RIL | `MCRilShim` |
| `RilProofs` | TLAPS proofs about `SecRilConnection` and `RilShim` | |
| `CameraHardwareSec` | the camera HAL's threads, locks and conditions | `MCCameraHardwareSec` |
| `CameraThreadsProofs` | TLAPS proofs about it | |
| `SecCamera` | the device: flags, streams, descriptors, mapping, failing ioctls | `MCCameraDevice` |
| `CameraRecording` | record frames between driver, HAL and encoder | `MCCameraDevice` |
| `CameraSettings` | settings in `mParameters`, in `SecCamera` and in the sensor | `MCCameraDevice` |
| `CameraGeometry` | sizes, formats, heaps, window and picture buffers | `MCCameraDevice` |
| `CameraExif` | what a picture says of itself: location, rotation, exposure | `MCCameraDevice` |
| `CameraDeviceProofs` | TLAPS proofs about `SecCamera`, `CameraRecording`, `CameraSettings`, `CameraGeometry` and `CameraExif` | |

Definitions named `X_Slip` are `X` with a plausible mistake.  No action uses
them; they show that the properties can fail.

### SecRilRequests

`token_pool` is the set of set bits, `history` and `req_handlers` are the arrays
of `ReqHistory` and `ReqRespHandler`, `caller` and `reader` are the two threads
with their locals, `rild` the requests RILD holds.  libaudio makes its calls under
`mLock`, so there is one caller; nothing keeps the reader out, and the steps of the
two interleave freely.  Each statement the other thread can observe is a step:
`AllocateTokenTest` is the comparison with a full pool, `AllocateTokenScan` loads the
pool again for each bit, `AllocateTokenLoad`/`Store` and the two `FreeToken` pairs are
the load and the store of `|=` and `&=`; `RecordReqHistory`, `WriteRequest`,
`WriteFails` are the rest of `SendOemRequestHookRaw`, `CallFailed` the error ends of
the calls; `GetMute` raises its flag and `GetMuteRegisters` stores its handler;
`Receive`, `Dispatch`, `TestDelete`, `ResetDelete` and `DeleteHandler` (the flag is
read, cleared and acted on), `ReaderFreeLoad`/`Store` and `ReaderClear` are
`processRxBuffer` and `processSolicited`.  A search of history or handlers is one
step; the module's header says why that is enough.

`outcome` is a history variable: the id a request was sent with and the id it was
served as.  `raced` is another.  The code has two races that break its promises, and
`raced` names those that have happened: `"update"`, a store to `token_pool` that
undid one of the other thread, and `"reuse"`, a token recorded by a call between the
reader's `FreeToken` and its `ClearReqHistory`.  Nothing excludes either; both are
steps of every run.  `RoutedRight`, `PoolsSound`, `HandlerFound` and `RilCalls` say what
holds up to the first of them, which shows that nothing else goes wrong;
`RetryCanSucceed`, `EveryRequestResolved`, `CallReturns` and the answered-at-most-once half of
`RilCalls` hold after them too.

### SecRilConnection

The client's fields, the open descriptors (`sockOpen`, `pipeOpen`), the caller and
one `task` per reader.  Connections are numbered; a descriptor number that the
kernel hands out again is not modelled, nor anything after `free()` of the
client.  `Select(k, data)`: with `data` RILD has sent something, which no fairness
forces.  A `select()` already waiting when a write closes the socket goes on
waiting.  Joining a thread twice or a thread that never was is undefined in C
and taken to return.

The loop of the reader does not end at `b_connect = 0`: `FreeStream` and `ErrorCallback`
are inside it (lines 977-986), and a `Connect_RILD` in between makes the reader free
the new connection's `p_rs`.  Two history variables name this: `overtaken`, the readers
that were in their loop when a new socket was connected, and `robbed`, the record
streams that another connection's reader freed.  `ConnectionSound` says that this is the
only way in which a reader in its loop can meet a connection that is not its own,
and that an overtaken reader has nothing but the free and the callback left.

### InputEventReader

Pointers are indexes into the array of `2 * numEvents` cells; events are numbered.
`fill(n)` is one `read()` that returns `n` whole events, with the copy-back past
the end of the ring; `next` is `readEvent()` followed by `next()`.

### SensorsActivate

The three flags, `mEnabled` of each driver, and `on`, what was last written to
its enable file.  `activate` is the bookkeeping at the start of the call;
`ActivateAccel`, `ActivateMagnet`, `ActivateSelf` are the `enable()` calls that
follow.  The `open()` of each can fail, and is reported; so can its `write()`, whose result
every driver ignores: `mEnabled` changes, 0 is returned and the device stays as it
was.  `wanted` (what the last call for a handle asked and returned), `faultless` (no
call has failed) and `unwritten` (the devices whose driver believes in a write that never
reached them) are history variables.  `CompassSensor` never initialises `mEnabled`: `Init`
picks any of 0, 1 and another value, a 1 being such a belief.  `Others` are the sensors
with no part in orientation, which their constructors switch on.

### SensorsPoll

`poller` is the thread in `pollEvents` with its locals, `activator` the thread in
`real_activate`.  Per driver: events queued in the kernel, events in the ring
and the place in the current packet; the ring is `InputEventReader`, here reduced
to how many events it holds.  The proximity driver has the pending event;
`setInitialState` is two steps because the flag is written before the distance.

### AudioHardware

A step waits for one mutex and does everything up to the next mutex it has to wait
for: the state it touches is protected by mutexes it holds.  `Waits` names the
mutex for each program point, `held` what each thread holds.  Operators named
after the `_l` methods transform the HAL record `hal`.  `mStandbyCnt` is only
compared with an earlier value, so it is modelled by `fresh`, the set of threads
for which it has not changed since their `prepareLock()`.  `refs` are the strong
pointers the threads hold: dropping the last one to a closed stream runs its
destructor, which calls `standby()`.  One output and one input object exist at a
time.  What can fail to open is in `Failures`: of a stream, and with `"call"` also
what `setMode` opens for a call, which no run lets fail because the code does not
cope with it (section 4).  `call` is a history field: what `setMode` has opened and
not closed, which the code does not keep.

### SensorDrivers

One driver in a behaviour.  Sample `n` has the value `n` on each axis, so that a
vector of two samples shows.  The device sends axis by axis (`Send`), the kernel
keeps `KernelRoom` events and replaces them by `SYN_DROPPED` when it has no room,
`FillReader` reads a few, `readEvents` takes one event and ends when the caller's
buffer is full.  A device file that is not there (`openInput` fails) leaves a driver
that reports nothing; the compass's `mEnabled` starts with 0 or 1.  `setDelay` is the
stepping of each driver.

### RilShim

`RIL_Init` is a sequence of steps that can fail; then `Dispatch` gives a request to
`onRequestShim`, and the vendor answers with any layout that its version has.
Structures are a form and a length: the fix-ups go by those.  Strings (interface
names, addresses, servers) are members of small sets.  The vendor's answers and
libril are external.

`Newer` are the requests a vendor library of Android 2.3 does not know.  The shim's list
(lines 95-127) leaves three of them out: 107 `STK_SEND_ENVELOPE_WITH_STATUS`, 136 and 137.
They are `"UNLISTED"` here, go to the vendor at line 131 as in the code, and the
vendor need not answer them.  `lib` has what `patchMem()` goes by: whether the symbol
is `found` and the top byte of the value on `disk` and in memory (`top`).  Both of its early
returns leave the value as it is; `Tops` has the expected byte and another one.

### CameraHardwareSec

`call` is the client's call and the point it waits at; CameraService makes one at a
time.  `preview`, `focus` and `picture` are the threads.  A section under a mutex
is one step, except the preview thread's, which stops the device between its test and
its wait.  `met` remembers rare events whose effect lasts (a lost signal, a
window call that failed), so that a property can say "except after".  Setting a
window on a running preview stops it and does not start it again, as the code
does.  Spurious wake-ups of conditions are not modelled.

### The modules of MCCameraDevice

They model parts of the HAL and of `SecCamera` that one call reaches but that share
nothing one changes and another reads; `part` chooses one, so that a behaviour
is one of one part.

- `SecCamera`: `dev` is the object with the state of both nodes.  An action is a
  method with everything it calls; the kinds of ioctl that fail are chosen per call
  (`MaxFaults`), named after the point where the code gives up.
- `CameraRecording`: `queued`, `pump`, `held`, `stale` say where each frame is.
  The thread holds `mRecordLock` while it waits for a frame.  `RecSlips` are the
  failures: of a start before STREAMON (`"start"`) and after it, which leaves node 2
  streaming (`"unstarted"`, SecCamera.cpp 954-961); of a stop before its flag
  (`"caf"`), at STREAMOFF and after it, which leaves `mRecordRunning` set (`"tail"`,
  1003-1005); of the thread's DQBUF, its addresses and QBUF.  `strayed` remembers those
  that last.  A node 2 that streams takes no new format, so that every start fails
  from then on; that is the kernel driver's doing, and external.
- `CameraSettings`: a step takes and gives `[c, f, ok]`, the camera, what fails and
  the result, so that `setParameters` reads like the code.  A client varies the
  settings of one cluster: those that touch each other.  `Reopen` opens either camera
  after either, since one `SecCamera` serves both.  The build with
  `HAVE_FLASH` is modelled; setters nobody calls are left out.
- `CameraGeometry`: sizes are real and bytes are counted.  The preview thread reads
  the size when it has a frame, and copies by it.  A picture size with a zero in it is
  skipped as in `setParameters()` (`Sized`).
- `CameraExif`: the back camera's sensor writes the header from what it was told, one
  control at a time; the front camera's is made by the HAL.  Coordinates are real
  units of 10^-7 degrees; a coordinate outside of the earth is not given.

## 3. Runs

A run's properties are conjunctions of named parts that its module defines and
comments on: `ConnectionSound`, `PollSound`, `StreamsSound`, `PoolsSound` and the
others named `...Sound`, `...Agree` or `...Safe` join a type invariant and the safety
invariants that concern the same state.

| Run | Shows | Bounds |
|---|---|---|
| `ril_requests` | the two threads in every order: up to the first race no response misrouted or rejected, no token or record lost, `AGAIN` only when full; always, `RilCalls` implemented | 2 tokens, 2 handler slots, 2 ids, 1 handler, 3 requests |
| `ril_requests_live` | the same with `Set*` calls: the handler of an id is found, every answered request gets an outcome, every call returns, a full pool still waits for some answer so a retry can succeed | 3 ids, 2 requests |
| `ril_connection` | one reader owns the connection to the end of its loop, unless a new one overtakes it; `Disconnect_RILD` returns; a hang-up is noticed | 3 sockets |
| `input_events` | the ring is a queue and stays in its array; each driver reports whole vectors, in order, at no longer period than asked | 4 events, 13 taken; 3 samples, kernel queue 6, reader 4 |
| `sensors_activate` | nothing left running but what ignored a write; sources not taken from each other | 4 sensors, any failing open and write |
| `sensors_poll` | no overrun, no lost wake-up, never 0 events, the pending event is taken | 2 drivers, ring 4, packets of 2, buffers 3 and 4 |
| `audio_streams` | lock order and no deadlock, streams consistent, mute and mode reach the capture, whatever of a stream fails to open | 3 threads active, no echo, no closing |
| `audio_close` | counts exact, no released echo reference in use, while streams close and open | 4 threads, echo, closing, every failing open of a stream, no muting |
| `ril_shim` | one answer per request, and one in the end; the vendor gets nothing newer than it but the three unlisted, libril what it expects; a known timeout fits, another is left alone | 2 tokens, 2 timeouts, lists of 3 calls |
| `camera_threads` | stopped is stopped, a picture has the sensor, calls return, callbacks come | client and 3 threads, failing device and window |
| `camera_device` | flags and streams agree, nothing leaks; frames are kept; sensor, cache and parameters agree; frames and pictures fit their buffers; a picture's location is the client's | see below |
| `ril_misrouted` | violation: a response served as another request's | 3 requests |

Why the bounds are enough: two tokens and three requests fill the pool, free a
token out of order and use it again, and reach both races and what follows them; the
`sent` bound only ends the run.  `ril_requests` has the two ids that behave differently
on an answer; a `Set*` id, which only unregisters its handler first, is in
`ril_requests_live`.  Light and proximity are switched alike, so one of them stands for
both.  Three sockets give a connection before and after each reader's end.  A ring of 4 and
13 events wraps three times at every offset.  Two drivers give one before and
one behind the place the scan stands at, one of them with a pending event; a
buffer of 3 is filled in the second pass.  With smaller buffers the driver that
is scanned first can fill every call and starve the second: `SensorService`
passes larger ones, and the run says so by its `Counts`.  `EchoUsed`, `StreamsClose` and
`MuteUsed` choose which calls the environment makes, so that each run's state space
stays small; muting takes the mutexes of `standby()`, which other calls of
`audio_close` take too.  Each audio thread belongs to one role of AudioFlinger, and
a role has one thread.

The drivers: three samples of three axes overflow a queue of six, cut packets at every
offset of a reader of four, and leave one packet before and after each loss.  The
delays are those at the steps of the drivers.  The shim: two tokens let one
request be answered by the shim while the vendor has the other; the code has no
state per request, so a third adds nothing; lists of 0 to 3 calls have every length
that the code tells apart.  The camera's device: two preview buffers, both
cameras, two kinds of ioctl that fail in one call (a failure that uncovers another);
two record frames, so that one can be with the encoder while the other is late;
clusters of the settings that touch each other and one failing ioctl; preview
sizes that both cameras, one and none support, changed at any time; one
coordinate pair, south and east, with `None` for each key.  The numbers of `Sexagesimal`
are proved for every coordinate.

Deadlock is checked except where the system really may stop: in `input_events`, once
the bounded events are read and the device is silent; in `ril_connection`, once the
client is freed or nobody calls any more; in `ril_shim`, when RIL_Init() has failed;
in `camera_threads`, where a mutex left locked stops client and thread for good; in
`camera_device`, where the preview thread waits for a frame that the encoder has;
and in `audio_close`, where the code has the deadlocks of the table below, so that
it shows its invariants up to and including the deadlocked states.

Fairness.  A runnable thread runs (weak fairness of the caller's steps, of the
reader, of each audio thread); in `SecRilRequests` RILD answers, which is an
assumption about the environment; in `SecRilConnection` nobody has to call, hang
up or send; in `SensorsPoll` the framework polls again after each return, which
its thread does in a loop.  In `RilShim` the vendor answers each request it has.
In `CameraHardwareSec` each thread and a call in progress go on; the device
delivers frames, answers autofocus and ends a capture, well or badly, and nobody has
to call.  In `CameraRecording` the preview thread goes on and the driver fills a
buffer it has; no DQBUF has to fail, and the encoder need not give frames back.

## 4. Where the code and its comments differ

`ril_misrouted` is a counterexample, quoted in `PROJECT.json`.  The modules also
state properties that comments or headers suggest and that the code does not keep,
each marked "Refuted"; they are not part of the runs, and putting one in place of the
properties of the configuration named here shows the counterexample.

| Property | Configuration | What happens |
|---|---|---|
| `TokensReturned` | `ril_requests` | an update of `token_pool` is lost; a token is taken for ever |
| `HandlerKept` | `ril_requests_live` | the flag of `GetMute` unregisters another request's handler |
| `ClosedNoticed` | `ril_connection` | after a failed write the client says connected for ever |
| `ReaderGoneWhenFreed` | `ril_connection` | `CloseClient_RILD` frees the client under a reader in its end-of-stream path |
| `StreamKept`, `OneInLoop` | `ril_connection` | after `b_connect = 0` a call connects again; the old reader, still in its loop, frees the new connection's record stream (secril-client.cpp line 978) |
| `AlwaysQuiet` | `sensors_activate` | the write of the '0' fails, every call returns 0, and the sensor goes on running (CompassSensor.cpp line 88) |
| `HandledByOrientation` | `sensors_activate` | a failed orientation activation leaves its flag set; a source's client gets 0 and no sensor |
| `WaitsOnlyWhenEmpty` | `sensors_poll` | `readEvents` blocks in `read()` with events collected |
| `LeftoverRead` | `sensors_poll` | a report stays in a ring while the poller sleeps |
| `InitialStateReported` | `sensors_poll` | the poll thread takes the pending event before the distance is stored |
| `ModeChangeHoldsOutput` | `audio_streams` | the output leaves standby while `setMode` waits for the input's mutex |
| `EchoReleasedOnClose` | `audio_close` | `closeOutputStream` clears `mOutput` first, so the input's standby finds no output |
| `DisconnectClosesSocket` | `ril_connection` | `Disconnect_RILD` clears `b_connect`; the reader leaves its loop before it reads the command, and the socket stays open (secril-client.h line 79) |
| `OrientationHasSources` | `sensors_activate` | a source cannot be switched on, the flag is up, and the next orientation client is told 0 (sensors.cpp line 242) |
| `LockOrder` | `audio_streams` with `EchoUsed` TRUE | the echo dance of `doStandby_l` takes the output's mutex that its caller holds (AudioHardware.cpp line 444) |
| `CountsExact` | `audio_close` with `"call"` added to `Failures` | `setMode` ignores a failing open, and on leaving the call closes what it has not opened: a stream loses the pcm or the mixer it uses (AudioHardware.cpp lines 506 and 526) |
| `VectorAlwaysWhole` | `input_events` | `SYN_DROPPED` is taken for the end of a packet |
| `OnlyWhatItKnows` | `ril_shim` | 107, 136 and 137 are not in the list of what "was introduced post 2.3" and reach the 2.3 vendor (secril-shim.c line 131) |
| `EveryTimeoutFits` | `ril_shim` | a library without the symbol or with another value is not patched, and a wait may overflow (secril-shim.c lines 23 and 36) |
| `DnsReported` | `ril_shim` | the servers of the properties are replaced by the fallback ones (secril-shim.c, `fixupSetupDataCallRequest`) |
| `ReleaseReturns` | `camera_threads` | the signal of `release()` comes between the preview thread's test and its wait |
| `ReturnsBeforeRelease` | `camera_threads` | an error return of `setPreviewWindow()` leaves `mPreviewLock` held, and the next call waits for good (SecCameraHWInterface.cpp line 383) |
| `TimesOutForPicture` | `camera_threads` | a flag set after the picture thread ended makes calls time out with no picture under way |
| `PictureRuns` | `camera_threads` | the next picture finds its thread still ending, and is refused |
| `WindowStays` | `camera_threads` | `setPreviewWindow(NULL)` takes the window from the thread that draws |
| `FocusReported` | `camera_threads` | the signal of `autoFocus()` is lost, or the device refuses |
| `SensorRestarts` | `camera_device` | the restart after no data leaves the preview stopped |
| `StopRecordingReturns` | `camera_device` | the preview thread waits for a frame with `mRecordLock`, and the encoder has them all |
| `AlwaysAgreed` | `camera_device` | a start that fails after STREAMON leaves node 2 streaming; a stop that fails at or after STREAMOFF leaves `mRecordRunning` set |
| `StartedIsRecording` | `camera_device` | after such a stop, `startRecording()` returns NO_ERROR and the device does not record |
| `SecCameraHasSettings`, `QualityReachesSensor`, `FpsFitsScene`, `FocusReachesSensor` | `camera_device` | settings go their own ways: see the comments in `CameraSettings` |
| `FrameAlwaysFits` | `camera_device` | "cannot change size and format!": it has, and the frame under way is copied by the new size |
| `RefusedSizeUnused` | `camera_device` | a refused preview size becomes the recording's |
| `FormatTaken` | `camera_device` | a new format without a new size is ignored with OK |
| `WindowFormat` | `camera_device` | `setParameters` gives the window V4L2's number of a format |
| `WholeLocation` | `camera_device` | longitude without latitude: the picture has the latitude of before; latitude alone: the back camera's has half a location |
| `ExposureDefined` | `camera_device` | 1000000 / `shutterSpeed` is 0 or undefined |

In `audio_streams` with `StreamsClose` TRUE, `LockOrder` fails too: `setMode`,
`write` or `read` drops the last reference to a closed stream under `mLock`.  With
`CompassInit` 1 and `Failures` empty, `OrientationHasSources` fails too: the compass
believes it is on.

## 5. Proofs

`SecRilRequestsProofs`, for every size of the pools, every set of ids and handlers,
any number of requests and every interleaving of the two threads; nothing is assumed but
the constants' own assumptions.  `IInv` is `Always /\ (raced = {} => Unraced)`:

- `Always` holds whatever has happened: the request of each record on the wire or in a
  thread's hands is pending and in one place (`OutcomeExact`), and a record with a token has
  an id (`RecordsNamed`).
- `Unraced` holds up to the first race, with both threads anywhere: the bits of the
  pool are the tokens on the wire and in the threads' hands, each in one of these
  places, and the bit a call has chosen stays clear until it sets it
  (`PoolExact`, `TokensApart`); the history has one record for each token that has been
  recorded and not cleared, with the id of its request, and no other (`HistoryExact`).

`OwnHandler` alone is not inductive: that the record found for a token is the
right one depends on tokens being unique and on stale records being gone before
a token is allocated again, which is what the other conjuncts say.  The steps fall in
four kinds: those that touch neither pool nor history nor requests (`Quiet`), the
caller's, the reader's, and those that race.  From `IInv` follow
`ResponsesReachTheirHandler`, `PoolsAreSound` (with `AgainMeansFull` and `NothingLeaks`),
`NoHandlerMissed` and `ImplementsPromise` (each step is a step of `RilCalls` or a stutter; a race is
a step of its own there).  That the two races do break `OwnHandler` and lose tokens
is shown by `ril_misrouted` and by `TokensReturned` in section 4.
`RetryMaySucceed` does not look at `raced`: loads and stores that overlap
lose updates of the pool, but a bit that is set with both threads outside was set for
a request that RILD still has, or there is a bit that is not set.

`SensorInputProofs`, of the ring for every `numEvents`: `RingConsistent` proves `IInv`,
which says that the head is the unread events after the current one (`HeadFollows`; the
head may rest at the end of the ring, one past the last cell) and that each
unread event is in its cell (`UnreadInPlace`, with the copy-back).  From it follow
`TypeCorrect` and `ReadsStayInside` (together `RingIsSound`) and `ImplementsFifo`.
Of the drivers, for every room in kernel and reader and any number of samples and
delays: `ReportsAreTrue` and `PacketsInOrder`.  `ReportsTrue` speaks of the vector
reported last, which depends on everything on the way to it.  `DriversInv` takes the
events in the reader and then those in the kernel as one line (`Event`), with the one
the device sends next behind it (`Coming`): each event is one of this device
(`EventsFit`), of two in a row the second follows the first unless there is a gap
(`EventsJoined`), and what `readEvents` has put in the pending vector is what comes
before the first of the line (`Ready`).

`RilProofs`, of the connection for any number of them: `ReaderOwnsTheConnection`.
`ConnectionSound` says nothing about the fields while no reader is in its loop, and
nothing about who may write them.  `IInv` adds that `Connect_RILD` runs without a
reader that it has not overtaken and on the socket it opened (`Connecting`), that a
connection whose reader has not started has not been joined or told anything (`Fresh`),
and that a reader in its loop has not been joined (`Owned`) and, while it goes by the
client's fields, is told to close only by a `Disconnect_RILD` that goes on to join it
(`Commanded`).  Nothing is said of a client that `CloseClient_RILD` has freed
(`ReaderGoneWhenFreed` in section 4).

`SensorsActivateProofs`, for every sequence of calls, of opens and writes that fail, and
any content of the compass's uninitialised flag: `ActivationIsSound`.  What it says of a
device it says unless the last write to it was lost (`unwritten`).  `IInv` says where a call in
progress can be (`CallShape`), that the flags are what was asked for (`FlagsFollow`),
what a driver knows of its device (`Believed`), and states quietness and
sharing during a call as well, from the step on that sees to it (`Quiet`, `Shared`).

`SensorsPollProofs`, for any number of drivers, every place of the proximity sensor
among them and every size of rings, packets and buffers: `PollsAreSound`.  That no
wake-up is lost needs `PendingSeen`: when `enable()` is over, a pending event has a
wake message, or the scan still comes to it before it can wait, or there are
events to return; `Busy` ties `enable()` to the flag it has written.  `ReturnsWithEvents`
proves `NeverEmptyHanded`: a call that ends with a full buffer (`StaysInBuffer`) was
given one that is not empty (`Sized`).

Of the shim, for any set of tokens, lists of any length and any clock:
`RequestsHandedOver` and `UnderstandEachOther`.  `ShimInv` says that `rilEnv` is set before
the vendor can speak, and the library by then patched if `patchMem()` knows it and as it came
if not (`LibShape`), and that what libril heard
last is whole and in the new layout (`Fine`); the lemmas `FixedAnswers` and
`FixedUnsolicited` show it of each fix-up, `CommandLine` that the vendor is given a
command line it understands.

`AudioHardwareProofs`, whatever fails to open, with and without echo reference, muting
and streams that close.  `HalInvariant` proves `IInv`, which is `CInv` and `HInv`:

- `CInv` is where the threads are.  The code drops and takes mutexes in the
  middle of its methods, so what a thread may rely on depends on where it will go on
  (`Rets`: only `setMode` comes back from a dance to something else; `Thens`: something
  is left to do only after a standby of the input), on the mutexes it has kept
  (`Holds`), and on nobody closing the stream it uses (`OutUsed`, `InUsed`).
- `HInv` is the state meanwhile.  `StreamsConsistent` speaks of streams whose mutex is
  free; `OutFine` and `InFine` speak of them all the time, with what `write()` has
  changed already where it lets go of its mutexes.  `OutGone` and `InGone`: a stream
  that was closed has given back what it held, or somebody still has a reference to
  it, or is about to put it in standby; without this its mixer would stay open for the
  next one.  `EchoFine`, `MuteFine` and `CallFine` say the same of the echo reference,
  the mute and the call, `CountsOf` of the counts.
- A thread that destroys the output with `mLock` held waits for itself for good
  (section 4, `Stuck`): the invariant goes through these states and excepts them
  where the properties do.

From it follow `StreamsAreSound`, `EchoIsAlive`, `MuteReaches` and, as an action property,
`ModeWaitsForInput`.  `CountsAreExact` assumes that nothing fails to open for a call and
`MutexesInOrder` that no effect needs an echo reference and no stream closes, because
without they are false (section 4); both are configurations of the device,
`audio_streams` and `audio_close` being instances.  `MutexesInOrder` rests on `Serene`: then
nobody dances and nothing is destroyed.  `FourThreads` is assumed: the roles of
AudioFlinger have a thread each.  `LockOrder` is why `audio_streams` has no deadlock, but
that every thread gets on is for TLC.

`CameraThreadsProofs`, for any sequence of calls, any interleaving with the three threads
and any failing call on device or window: `StoppedPreviewIsOut` and `PictureAlone`.
`PreviewSound` speaks of the moments between calls, `PictureHasSensor` of the capture.
`IInv` speaks of every moment: while the preview does not run, the device streams only
until the call that waits for the thread is done (`StreamsWhileRunning`), a call that had
to stop the preview goes on only then (`CallStops`), the thread leaves only for the call
that joins it (`Leaving`), and from the start of the picture thread to the end of its
capture nothing starts the preview, because the calls that could either wait for
`mCaptureInProgress` or are still in `takePicture()` (`Alone`).  `FlagLasts` says which
of the two events of `CaptureFlagTrue` left the flag set.

`CameraDeviceProofs` is about the five parts below the threads.

- `RecordFramesAreSafe`, for any number of buffers and any failing ioctl.
  A start or a stop can fail at any of its steps, after STREAMON and STREAMOFF as well;
  `RecordingAgrees` says in every state which disagreement each failure can leave, and
  that the device streams while it takes itself to be recording, without which a
  frame given back could meet a stopped node.  It assumes `FramesAreFrames` (a buffer is
  not the value for "none").
- `BuffersAreFit`, for any sets of sizes a client asks for, at any time.
  `BuffersFit` speaks of the copy; `GeoInv` follows the size from `mParameters` through
  `SecCamera` (`PreviewSupported`: a wide preview would need a larger postview) to the heap
  and the frame under way (`FrameFollows`) and to the window (`WindowFollows`), with the
  calls that wait for the thread meanwhile (`Waiting`).  It assumes `SizesArePairs`.
- `PicturesHaveTheirLocation` and `HeadersAreSound`, for every coordinate on earth,
  altitude, time and rotation.  `LocationTrue` compares the last picture with the
  client's location and says nothing of what the sensor holds in between: `ExifInv`
  follows it from the parameters (`KeyShape`, `GpsShape`, `GpsFollows`) through the
  device's record (`InfoFollows`) to the header (`HeaderFollows`), and `OwnInv` the
  rest of the header in the same way, through changes of the camera (`GpsOwn`,
  `InfoOwn`, `HeaderHas`).  They assume `PlacesOnEarth` and `KeysInRange`;
  `SexagesimalNames` is the arithmetic, that degrees, minutes and seconds name a
  coordinate to the second.
- `DeviceAlwaysAgrees`, for any number of buffers and of failing ioctls.  `DeviceAgrees`
  asks about a stream that should not be there only where the HAL is closed or stopped.
  `DeviceInv` has a predicate for each place the HAL can be: `Running` (a stream of
  node 0 has its flag or a failure to explain it), `AtRest` (no flag but for a failing
  STREAMOFF), `Shooting` (a capture that streams has its buffer queued, without which
  the picture thread would return before STREAMOFF), and `Stray2` for node 2 while
  nobody records.  Underneath, `Steady` ties each flag to its stream and each loss to
  its failure, and `Held` the descriptors to the device's own flag; the last is what an
  opening that failed half-way breaks.  Each method has a lemma that says what it makes
  of a device, built from lemmas about one ioctl (`IoctlIs`, `PlainIs`, `ThenIs`), since
  any step of a method can be its last.

- `SettingsAlwaysAgree` and `SettingsAlwaysEnd`, for any clusters (all settings at once
  among them) and any number of failing ioctls.  Of what `SettingsInv` adds to the two
  properties, the first is that the known exceptions do not spread (`Apart`: a focus or a
  frame rate that went its own way is sent or remembered again only as such an exception).
  A setter is summed up in `SetTo`, and `Touches` says which settings a step leaves alone.
  `setParameters()` is a chain of nine settings: `Stage` says of a point in it that the
  settings before it are done, unless something has failed, and that the ISO of
  recordings did not come from here (`Unmoved`); in the step of the focus the distances
  come first and fit only when the mode has followed (`Coherent` is `Good` without them).
  For a start, `SendIs` says what a sequence of CHECKed s_ctrls has sent when it ends well,
  and that it never touches the flash, whose lamp an aborted start must not light.
  Recordings set an ISO that no client can ask for; `IsoEnds` allows it where they run or
  have failed.  Assumed is `ClustersArePublic` (a client changes public settings).

Only model-checked: liveness and anything with ENABLED (out of the prover's reach).

## 6. What is left out of the modelled parts

Unsolicited responses and OEM parcel layouts of the RIL client; volume, routes,
input source, FM, noise reduction and frame arithmetic of the audio HAL; unit
conversion of the sensors; failures of `read()` and `poll()` in the sensor loop; the
colour conversion of preview frames, the search for markers in a JPEG, `dump()`,
autofocus areas, setters without a caller and the Exif tags that only copy a setting.

Hazards without a property: `liblight` initialises its mutex again on every open
(undefined behaviour that no model decides); `pthread_create` failing in the RIL client,
which clears all handlers; a negative errno from `readEvents()`.

## 7. Plan

1. Done: the RIL client and shim, the sensors with their drivers, the core of the audio
   HAL, the camera's threads, device, recording, settings, geometry and Exif data.
2. `AudioHardware`: input source, mute in the modem composed with the RIL client.
   Frame functions (`readFrames`, `getNextBuffer`, `getInputSampleRate`, buffer sizes)
   as operators against reference definitions.
3. Done: every invariant, action property and refinement that a run checks is also a
   theorem; what the runs check alone is liveness (section 5).
