----------------------------- MODULE SecCamera ------------------------------
(***************************************************************************)
(* The camera device: the methods of SecCamera (src/libcamera/             *)
(* SecCamera.cpp) over the two video nodes of the FIMC driver, node 0 for  *)
(* preview and capture, node 2 for recording, called in the order in which *)
(* SecCameraHWInterface.cpp calls them.                                    *)
(*                                                                         *)
(* The object is a singleton that outlives the HAL device, so its flags go *)
(* through any number of openings.  It believes its flags, never the       *)
(* driver; every ioctl can fail and most methods return at once when one   *)
(* does.  What is asked here is whether flags, streams, mappings and       *)
(* descriptors still agree afterwards.                                     *)
(***************************************************************************)
EXTENDS Integers, FiniteSets

CONSTANTS
  MaxBuffers,  \* MAX_BUFFERS, the preview buffers
  Ids,         \* the cameras that exist: {"back", "front"} or one of them
  MaxFaults    \* bound: how many kinds of ioctl fail in one call

ASSUME BufferCount == MaxBuffers \in Nat \ {0}
ASSUME CameraIds == Ids \subseteq {"back", "front"} /\ Ids # {}
ASSUME FaultBound == MaxFaults \in Nat

\* Where a call can fail, named after the point of the code it stands for.
OpenFaults  == {"open", "enuminput", "probe", "open2", "probe2"}
StartFaults == {"setup", "late", "tail"}       \* before STREAMON, after it, after the flag
FrameFaults == {"nodata", "dqbuf", "qbuf"}
RecFaults   == {"setup2", "late2", "caf", "streamoff2", "tail2"}
ShotFaults  == {"shot", "mapped", "shotlate", "jpeg", "encode"}
Faults == OpenFaults \cup StartFaults \cup FrameFaults \cup RecFaults \cup ShotFaults
            \cup {"streamoff"}

VARIABLES
  dev,     \* the members of SecCamera and the state of the two nodes
  hal,     \* "closed", "stopped", "running", "failed" or "shooting": where the HAL is
  recording  \* mRecordRunning of the HAL

vars == << dev, hal, recording >>

Fresh ==
  [ init |-> FALSE, id |-> "back", fd |-> FALSE, fd2 |-> FALSE, leaked |-> {},
    cameraStart |-> FALSE, recordStart |-> FALSE, capture |-> FALSE,
    stream |-> "off", queued |-> 0, stream2 |-> FALSE, failed |-> {}, busy |-> FALSE ]

-----------------------------------------------------------------------------
(* A method is a chain of steps on a result r = [d, ret, f]: the device,   *)
(* the value returned so far and the kinds that fail in this call.         *)

Begin(d, f) == [d |-> d, ret |-> 0, f |-> f]
Fail(r) == [r EXCEPT !.ret = -1]

\* One ioctl or a run of them, CHECKed: it fails or has its effect.
Ioctl(r, kind, Effect(_)) ==
  CASE r.ret < 0                 -> r
    [] r.ret >= 0 /\ kind \in r.f -> [r EXCEPT !.ret = -1, !.d.failed = @ \cup {kind}]
    [] OTHER                     -> [r EXCEPT !.d = Effect(r.d)]

Same(d) == d

\* Assignments, reached when nothing before them returned.
Then(r, Effect(_)) == IF r.ret < 0 THEN r ELSE [r EXCEPT !.d = Effect(r.d)]

\* A call whose result the code does not look at.
Ignoring(r) == [r EXCEPT !.ret = 0]

-----------------------------------------------------------------------------
(* The ioctls, on node 0 or on node 2, each failing when the kind at does.   *)

Streams(d, node) == IF node = 0 THEN d.stream # "off" ELSE d.stream2

\* What the driver refuses on a node that streams.
Idle(r, node) ==
  IF r.ret >= 0 /\ Streams(r.d, node) THEN [r EXCEPT !.ret = -1, !.d.busy = TRUE] ELSE r

fimc_v4l2_querycap(r, at)    == Ioctl(r, at, Same)
fimc_v4l2_enuminput(r, at)   == Ioctl(r, at, Same)
fimc_v4l2_s_input(r, at)     == Ioctl(r, at, Same)
fimc_v4l2_enum_fmt(r, at)    == Ioctl(r, at, Same)
fimc_v4l2_s_fmt(r, node, at) == Ioctl(Idle(r, node), at, Same)
fimc_v4l2_s_fmt_cap(r, at)   == Ioctl(Idle(r, 0), at, Same)
fimc_v4l2_s_ctrl(r, at)      == Ioctl(r, at, Same)
fimc_v4l2_s_ext_ctrl(r, at)  == Ioctl(r, at, Same)
fimc_v4l2_g_ctrl(r, at)      == Ioctl(r, at, Same)
fimc_v4l2_s_parm(r, at)      == Ioctl(r, at, Same)
fimc_poll(r, at)             == Ioctl(r, at, Same)

\* New buffers: those that were queued are gone.  The buffers of node 2 are counted in
\* CameraRecording.
fimc_v4l2_reqbufs(r, node, at) ==
  Ioctl(Idle(r, node), at, LAMBDA d : IF node = 0 THEN [d EXCEPT !.queued = 0] ELSE d)
fimc_v4l2_qbuf(r, node, at, n) ==
  Ioctl(r, at, LAMBDA d : IF node = 0 THEN [d EXCEPT !.queued = @ + n] ELSE d)
fimc_v4l2_dqbuf(r, at) ==
  IF r.d.queued = 0 THEN Fail(r) ELSE Ioctl(r, at, LAMBDA d : [d EXCEPT !.queued = @ - 1])

\* x is about to be overwritten: what it stands for is lost if it is still held.
Lose(d, x, held) == [d EXCEPT !.leaked = IF held THEN @ \cup {x} ELSE @]

fimc_v4l2_querybuf(r, at) ==
  Ioctl(r, at, LAMBDA d : [Lose(d, "map", d.capture) EXCEPT !.capture = TRUE])

Off0(d) == [d EXCEPT !.stream = "off", !.queued = 0]
Off2(d) == [d EXCEPT !.stream2 = FALSE]
fimc_v4l2_streamon(r, node, at, what) ==
  Ioctl(r, at, LAMBDA d : IF node = 0 THEN [d EXCEPT !.stream = what] ELSE [d EXCEPT !.stream2 = TRUE])
fimc_v4l2_streamoff(r, node, at) == Ioctl(r, at, LAMBDA d : IF node = 0 THEN Off0(d) ELSE Off2(d))

-----------------------------------------------------------------------------
\* Definitions named X_Slip are X with a plausible mistake; no action uses them.

Open0(d) == [Lose(d, "fd", d.fd) EXCEPT !.fd = TRUE]
Open2(d) == [Lose(d, "fd2", d.fd2) EXCEPT !.fd2 = TRUE]

\* A node is probed with its capabilities and its input; there is no way back.
Probe(r, probe, enuminput) ==
  fimc_v4l2_s_input(fimc_v4l2_enuminput(fimc_v4l2_querycap(r, probe), enuminput), probe)

initCamera(d, f, index) ==
  IF d.init THEN Begin(d, f)
  ELSE LET node0 == Probe(Ioctl(Begin(d, f), "open", Open0), "probe", "enuminput")
           node2 == Probe(Ioctl(node0, "open2", Open2), "probe2", "probe2")
       IN  Then(node2, LAMBDA x : [x EXCEPT !.id = index, !.init = TRUE])

\* The format and the buffers of a node.
Buffers(r, node, at) ==
  fimc_v4l2_reqbufs(fimc_v4l2_s_fmt(fimc_v4l2_enum_fmt(r, at), node, at), node, at)

\* Settings are sent before STREAMON and after it, "late"; then the flag is set, and
\* more is sent and the first frame waited for.
startPreview(d, f) ==
  IF d.cameraStart THEN Begin(d, f)
  ELSE IF ~ d.fd THEN Fail(Begin(d, f))
  ELSE LET made == fimc_v4l2_s_ctrl(Buffers(Begin(d, f), 0, "setup"), "setup")
           full == fimc_v4l2_s_ctrl(fimc_v4l2_qbuf(made, 0, "setup", MaxBuffers), "setup")
           on   == fimc_v4l2_s_ctrl(fimc_v4l2_streamon(full, 0, "setup", "preview"), "late")
           set  == Then(on, LAMBDA x : [x EXCEPT !.cameraStart = TRUE])
           sent == fimc_v4l2_s_ctrl(fimc_v4l2_s_parm(set, "tail"), "tail")
       IN  fimc_v4l2_s_ctrl(fimc_poll(sent, "tail"), "tail")

stopPreview(d, f) ==
  IF ~ d.cameraStart THEN Begin(d, f)
  ELSE IF ~ d.fd THEN Fail(Begin(d, f))
  ELSE Then(fimc_v4l2_streamoff(Begin(d, f), 0, "streamoff"),
            LAMBDA x : [x EXCEPT !.cameraStart = FALSE])

\* The buffer goes back at once: a QBUF that fails loses it.
Frame(r) == fimc_v4l2_qbuf(fimc_v4l2_dqbuf(r, "dqbuf"), 0, "qbuf", 1)

\* previewPoll(): a frame within a second.
previewPoll(d, f) == d.queued > 0 /\ "nodata" \notin f

\* A device that is not started, or delivers nothing for a second, is to be
\* reset: fimc_v4l2_enuminput() returns the name of the input or NULL, so the
\* test of its result goes on exactly when it failed.  A failed restart
\* returns 0, which is also the index of a frame.
getPreview(d, f) ==
  IF d.cameraStart /\ previewPoll(d, f) THEN Frame(Begin(d, f))
  ELSE LET asked == fimc_v4l2_querycap(Ignoring(stopPreview(d, f)), "probe")
           input == fimc_v4l2_enuminput(asked, "enuminput")
           again == startPreview(input.d, f)
       IN  IF asked.ret < 0 THEN asked
           ELSE IF input.ret = 0 THEN Fail(input)
           ELSE IF again.ret < 0 THEN Ignoring(again)
           ELSE Frame(again)

startRecord(d, f) ==
  IF d.recordStart THEN Begin(d, f)
  ELSE IF ~ d.fd2 THEN Fail(Begin(d, f))
  ELSE LET full == fimc_v4l2_qbuf(Buffers(Begin(d, f), 2, "setup2"), 2, "setup2", MaxBuffers)
           on   == fimc_poll(fimc_v4l2_streamon(full, 2, "setup2", "record"), "late2")
       IN  Then(fimc_v4l2_s_ctrl(on, "late2"), LAMBDA x : [x EXCEPT !.recordStart = TRUE])

stopRecord(d, f) ==
  IF ~ d.recordStart THEN Begin(d, f)
  ELSE IF ~ d.fd2 THEN Fail(Begin(d, f))
  ELSE LET caf == IF d.id = "back" THEN fimc_v4l2_s_ctrl(Begin(d, f), "caf") ELSE Begin(d, f)
           off == Then(caf, LAMBDA x : [x EXCEPT !.recordStart = FALSE])
       IN  fimc_v4l2_s_ctrl(fimc_v4l2_streamoff(off, 2, "streamoff2"), "tail2")

\* The last close() of a node stops what it still streams.
Close0(d) == IF "fd" \in d.leaked THEN [d EXCEPT !.fd = FALSE] ELSE [Off0(d) EXCEPT !.fd = FALSE]
Close2(d) == [d EXCEPT !.fd2 = FALSE, !.stream2 = @ /\ "fd2" \in d.leaked]

DeinitCamera(d, f) ==
  IF ~ d.init THEN d ELSE [Close2(Close0(stopRecord(d, f).d)) EXCEPT !.init = FALSE]

\* One buffer, mapped; a preview that still runs is stopped.
PrepareCapture(d, f) ==
  LET idle == fimc_v4l2_enum_fmt(Ignoring(stopPreview(d, f)), "shot")
      one  == fimc_v4l2_reqbufs(fimc_v4l2_s_fmt_cap(idle, "shot"), 0, "shot")
      full == fimc_v4l2_qbuf(fimc_v4l2_querybuf(one, "shot"), 0, "mapped", 1)
  IN  fimc_v4l2_streamon(full, 0, "mapped", "capture")

\* The back camera's sensor makes the JPEG itself and is told position, time and
\* orientation.
setSnapshotCmd(d, f) ==
  IF ~ d.fd THEN Begin(d, f)
  ELSE fimc_v4l2_s_ctrl(fimc_v4l2_s_ext_ctrl(PrepareCapture(d, f), "shotlate"), "shotlate")

endSnapshot(d, ret) == [d EXCEPT !.capture = FALSE]

\* The buffer, its sizes and offsets, and then the end of the capture.
getJpeg_Slip(d, f) == fimc_v4l2_g_ctrl(fimc_v4l2_dqbuf(fimc_poll(Begin(d, f), "jpeg"), "jpeg"), "jpeg")
getJpeg(d, f) ==
  LET taken == fimc_v4l2_dqbuf(fimc_poll(Begin(d, f), "jpeg"), "jpeg")
      sizes == fimc_v4l2_s_ctrl(fimc_v4l2_g_ctrl(taken, "jpeg"), "jpeg")
  IN  fimc_v4l2_streamoff(sizes, 0, "streamoff")

\* The front camera delivers a frame, which the HAL encodes.
getSnapshotAndJpeg(d, f) ==
  IF ~ d.fd THEN Fail(Begin(d, f))
  ELSE LET shot == PrepareCapture(d, f)
           off  == fimc_v4l2_streamoff(Ignoring(fimc_v4l2_dqbuf(shot, "jpeg")), 0, "streamoff")
       IN  IF shot.ret < 0 THEN shot ELSE Ioctl(Ignoring(off), "encode", Same)
-----------------------------------------------------------------------------
(* The calls of the HAL.                                                   *)

\* The kinds that may fail in a call, within the bound of the whole run.
Kinds(K) == {f \in SUBSET K : Cardinality((f \ {"nodata"}) \cup dev.failed) <= MaxFaults}

Init == dev = Fresh /\ hal = "closed" /\ recording = FALSE

\* The constructor logs a failed initCamera() and goes on.
Open ==
  /\ hal = "closed" /\ hal' = "stopped"
  /\ \E f \in Kinds(OpenFaults), index \in Ids : dev' = initCamera(dev, f, index).d
  /\ recording' = FALSE

\* A start that failed leaves the HAL running with its preview thread waiting.
StartPreview ==
  /\ hal = "stopped"
  /\ \E f \in Kinds(StartFaults) : LET r == startPreview(dev, f) IN
       /\ dev' = r.d
       /\ hal' = IF r.ret < 0 THEN "failed" ELSE "running"
  /\ UNCHANGED recording

\* One turn of the preview thread.
PreviewFrame ==
  /\ hal = "running"
  /\ \E f \in Kinds(FrameFaults \cup StartFaults \cup {"probe", "enuminput", "streamoff"}) :
       dev' = getPreview(dev, f).d
  /\ UNCHANGED << hal, recording >>

\* stopPreview() of the HAL, or takePicture() before it runs the picture thread.
StopPreview ==
  /\ hal \in {"running", "failed"} /\ hal' = "stopped"
  /\ \E f \in Kinds({"streamoff"}) : dev' = stopPreview(dev, f).d
  /\ UNCHANGED recording

StartRecording ==
  /\ hal = "running" /\ ~ recording
  /\ \E f \in Kinds({"setup2", "late2"}) : LET r == startRecord(dev, f) IN
       dev' = r.d /\ recording' = (r.ret >= 0)
  /\ UNCHANGED hal

StopRecording ==
  /\ hal \in {"running", "failed", "stopped"} /\ recording
  /\ \E f \in Kinds({"caf", "streamoff2", "tail2"}) : LET r == stopRecord(dev, f) IN
       dev' = r.d /\ recording' = (r.ret < 0)
  /\ UNCHANGED hal

\* pictureThread() of the back camera up to the shutter sound.
Shutter ==
  /\ hal = "stopped" /\ dev.id = "back" /\ hal' = "shooting"
  /\ \E f \in Kinds({"streamoff", "shot", "mapped", "shotlate"}) : dev' = setSnapshotCmd(dev, f).d
  /\ UNCHANGED recording

\* The rest of it, or all of it for the front camera.
Capture ==
  /\ hal = "shooting" \/ (hal = "stopped" /\ dev.id = "front")
  /\ hal' = "stopped"
  /\ \E f \in Kinds({"streamoff"} \cup ShotFaults) :
       LET r == IF hal = "shooting" THEN getJpeg(dev, f) ELSE getSnapshotAndJpeg(dev, f)
       IN  dev' = endSnapshot(r.d, r.ret)
  /\ UNCHANGED recording

\* release(): the preview thread stops the preview on its way out.
Release ==
  /\ hal \in {"stopped", "running", "failed"} /\ hal' = "closed"
  /\ \E f \in Kinds({"streamoff", "caf", "streamoff2", "tail2"}) :
       dev' = DeinitCamera(stopPreview(dev, f).d, f)
  /\ UNCHANGED recording

Next ==
  \/ Open \/ StartPreview \/ PreviewFrame \/ StopPreview \/ StartRecording
  \/ StopRecording \/ Shutter \/ Capture \/ Release

Spec == Init /\ [][Next]_vars
-----------------------------------------------------------------------------
TypeOK ==
  /\ dev \in [ init : BOOLEAN, id : {"back", "front"}, fd : BOOLEAN, fd2 : BOOLEAN,
               leaked : SUBSET {"fd", "fd2", "map"}, cameraStart : BOOLEAN, recordStart : BOOLEAN,
               capture : BOOLEAN, stream : {"off", "preview", "capture"},
               queued : 0..MaxBuffers, stream2 : BOOLEAN, failed : SUBSET Faults,
               busy : BOOLEAN ]
  /\ hal \in {"closed", "stopped", "running", "failed", "shooting"}
  /\ recording \in BOOLEAN

\* The flags are never ahead of the driver: m_flag_camera_start set means node 0
\* streams the preview, and m_flag_record_start that node 2 streams, through any
\* number of openings.  They can be wrong only after a failing STREAMOFF, or a
\* failing end of continuous autofocus: close() then ends the stream and leaves
\* the flag, and the next startPreview() or startRecord() does nothing.
FlagsMeanStreaming ==
  /\ dev.cameraStart /\ "streamoff" \notin dev.failed => dev.stream = "preview"
  /\ dev.recordStart /\ "caf" \notin dev.failed => dev.stream2

\* What leaves a stream behind: a step between STREAMON and the flag, STREAMOFF,
\* or, in a capture, anything between the two.
Stranding0 == {"late", "streamoff", "shotlate", "jpeg"}
Stranding2 == {"late2", "streamoff2"}

\* What leaves initCamera() half-way, with nodes open that DeinitCamera() takes
\* to be closed.
HalfOpen == {"probe", "enuminput", "open2", "probe2"}

\* When the HAL is stopped nothing streams on node 0, when it is not recording
\* nothing streams on node 2, and after release() neither does, unless one of
\* the steps above failed.
StoppedIsOff ==
  /\ hal \in {"closed", "stopped"} /\ dev.stream # "off" =>
       dev.failed \cap Stranding0 # {}
  /\ (hal = "closed" \/ ~ recording) /\ dev.stream2 =>
       dev.failed \cap (Stranding2 \cup HalfOpen) # {}

\* The driver is never asked to change a node that streams, through any sequence
\* of previews, recordings, pictures and openings, unless one of the steps that
\* leave a stream behind has failed.
NeverBusy == dev.busy => dev.failed \cap (Stranding0 \cup Stranding2) # {}

\* The JPEG buffer is mapped only between the shutter and the end of the picture
\* thread, whatever fails on the way, so that no mapping is lost; and no
\* descriptor is lost or left open by release() unless an opening failed half-way.
NothingLeaks ==
  /\ dev.capture => hal = "shooting"
  /\ "map" \notin dev.leaked
  /\ dev.leaked # {} \/ (hal = "closed" /\ (dev.fd \/ dev.fd2)) =>
       dev.failed \cap HalfOpen # {}

\* The flags, the HAL above and the driver agree on what streams, and nothing is lost,
\* whichever ioctl fails.
DeviceAgrees == TypeOK /\ FlagsMeanStreaming /\ StoppedIsOff /\ NeverBusy /\ NothingLeaks

\* Refuted.  A sensor that stops delivering is restarted, as the comment in
\* getPreview() says ("it restarts the sensor"): as long as no ioctl has ever
\* failed, a running preview streams.
SensorRestarts == hal = "running" /\ dev.failed = {} => dev.cameraStart /\ dev.stream = "preview"
=============================================================================
