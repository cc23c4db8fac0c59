-------------------------- MODULE CameraRecording ---------------------------
(***************************************************************************)
(* Video frames between the driver, the HAL and the encoder: startRecording,*)
(* stopRecording, releaseRecordingFrame and the recording half of          *)
(* previewThread() (src/libcamera/SecCameraHWInterface.cpp) over           *)
(* startRecord, stopRecord, getRecordFrame and releaseRecordFrame          *)
(* (src/libcamera/SecCamera.cpp).                                          *)
(*                                                                         *)
(* The preview thread takes frames from node 2 with mRecordLock held and   *)
(* hands them to the encoder, which gives them back through CameraService  *)
(* between two calls of the client, without that lock.  The client stops   *)
(* taking care of frames when it disables CAMERA_MSG_VIDEO_FRAME.          *)
(***************************************************************************)
EXTENDS Integers, FiniteSets

CONSTANTS
  Frames,     \* the record buffers (MAX_BUFFERS of them)
  RecSlips    \* what can fail: {"start", "unstarted", "caf", "streamoff", "tail", "addr", "dqbuf", "qbuf"}

VARIABLES
  rec,      \* mRecordRunning, the flag m_flag_record_start, stream: node 2 streams
  queued,   \* the buffers the driver has
  pump,     \* [pc, frame]: the preview thread, "off", or with the lock "wait" or "got"
  held,     \* the frames the encoder has from this recording
  stale,    \* and from recordings before
  enabled,  \* CAMERA_MSG_VIDEO_FRAME
  asked,    \* the client waits for mRecordLock in "start" or "stop", or does not: "none"
  upset,    \* the driver got a buffer it was not expecting: its own, or when not streaming
  strayed   \* what happened before: a "late" release, frames "lost", a start that failed
            \* with node 2 streaming ("unstarted"), a stop that failed at STREAMOFF
            \* ("streamoff") or after it ("tail")

recVars == << rec, queued, pump, held, stale, enabled, asked, upset, strayed >>

NoFrame == "none"
ASSUME FramesAreFrames == NoFrame \notin Frames
Off == [pc |-> "off", frame |-> NoFrame]
Stopped == [running |-> FALSE, flag |-> FALSE, stream |-> FALSE]

InitRecording ==
  /\ rec = Stopped /\ queued = {} /\ pump = Off /\ held = {} /\ stale = {}
  /\ enabled = FALSE /\ asked = "none" /\ upset = FALSE /\ strayed = {}

LockFree == pump.pc = "off"
Stray(kind) == strayed' = strayed \cup {kind}

-----------------------------------------------------------------------------
\* Definitions named X_Slip are X with a plausible mistake; no action uses them.

\* fimc_v4l2_qbuf() on node 2.
Qbuf(i) == queued' = queued \cup {i} /\ upset' = (upset \/ i \in queued \/ ~ rec.stream)

\* releaseRecordFrame(): ignored when recording is over, else a QBUF, which can fail.
releaseRecordFrame_Slip(i) == Qbuf(i)
releaseRecordFrame(i) ==
  IF rec.flag THEN Qbuf(i) ELSE UNCHANGED << queued, upset >>
LoseFrame(kind) == kind \in RecSlips /\ UNCHANGED << queued, upset >> /\ Stray("lost")

\* The client calls, and waits for mRecordLock; before stopRecording() CameraService
\* disables the message.
AskRecording ==
  /\ asked = "none" /\ asked' \in {"start", "stop"}
  /\ enabled' = (asked' = "start")
  /\ UNCHANGED << rec, queued, pump, held, stale, upset, strayed >>

\* startRecord() queues every buffer, whoever has it.  It fails without a trace or with
\* some of them queued; after STREAMON (the poll, continuous autofocus) it leaves node 2
\* streaming, which takes no new format from then on.
Requeued(q, state) ==
  /\ rec' = state /\ queued' = q /\ stale' = stale \cup held /\ held' = {}
startRecording ==
  /\ asked = "start" /\ LockFree /\ asked' = "none"
  /\ \/ (rec.running \/ rec.stream) /\ UNCHANGED << rec, queued, held, stale, strayed >>
     \/ /\ ~ rec.running /\ ~ rec.stream
        /\ \/ /\ Requeued(Frames, [running |-> TRUE, flag |-> TRUE, stream |-> TRUE])
              /\ strayed' = strayed \ {"lost"}
           \/ "start" \in RecSlips /\ UNCHANGED << rec, queued, held, stale, strayed >>
           \/ /\ "start" \in RecSlips /\ UNCHANGED strayed
              /\ \E q \in SUBSET Frames : Requeued(q, Stopped)
           \/ /\ "unstarted" \in RecSlips /\ Stray("unstarted")
              /\ Requeued(Frames, [Stopped EXCEPT !.stream = TRUE])
  /\ UNCHANGED << pump, enabled, upset >>

\* stopRecord() gives up before its flag when continuous autofocus does not stop.  It
\* clears the flag before STREAMOFF and the frame rate: when one of them fails the HAL
\* goes on taking itself to be recording, until it is stopped again.
stopRecording ==
  /\ asked = "stop" /\ LockFree /\ asked' = "none"
  /\ \/ rec.flag /\ rec' = Stopped /\ queued' = {} /\ UNCHANGED strayed
     \/ rec.flag /\ "caf" \in RecSlips /\ UNCHANGED << rec, queued, strayed >>
     \/ /\ rec.flag /\ "streamoff" \in RecSlips /\ Stray("streamoff")
        /\ rec' = [rec EXCEPT !.flag = FALSE] /\ UNCHANGED queued
     \/ /\ rec.flag /\ "tail" \in RecSlips /\ Stray("tail")
        /\ rec' = [Stopped EXCEPT !.running = TRUE] /\ queued' = {}
     \/ /\ ~ rec.flag /\ rec' = [rec EXCEPT !.running = FALSE] /\ strayed' = strayed \ {"tail"}
        /\ UNCHANGED queued
  /\ UNCHANGED << pump, held, stale, enabled, upset >>

\* The encoder gives a frame back, while no other call is in progress: one of this
\* recording, or one it still has from before.
ReleaseHeld ==
  /\ asked = "none"
  /\ \E i \in held :
       /\ held' = held \ {i}
       /\ \/ releaseRecordFrame(i) /\ UNCHANGED strayed
          \/ rec.flag /\ LoseFrame("qbuf")
  /\ UNCHANGED << rec, pump, stale, enabled, asked >>

ReleaseStale ==
  /\ asked = "none"
  /\ \E i \in stale :
       /\ stale' = stale \ {i} /\ releaseRecordFrame(i)
       /\ IF rec.flag THEN Stray("late") ELSE UNCHANGED strayed
  /\ UNCHANGED << rec, pump, held, enabled, asked >>

-----------------------------------------------------------------------------
(* The preview thread.                                                     *)

\* getRecordFrame() with mRecordLock held: it waits in DQBUF for a frame.
PumpLock ==
  /\ pump = Off /\ rec.running /\ rec.flag
  /\ pump' = [pump EXCEPT !.pc = "wait"]
  /\ UNCHANGED << rec, queued, held, stale, enabled, asked, upset, strayed >>

PumpFrame ==
  /\ pump.pc = "wait"
  /\ \E i \in queued : queued' = queued \ {i} /\ pump' = [pc |-> "got", frame |-> i]
  /\ UNCHANGED << rec, held, stale, enabled, asked, upset, strayed >>

\* The DQBUF fails, which nothing makes it do.
PumpFails ==
  /\ pump.pc = "wait" /\ "dqbuf" \in RecSlips /\ pump' = Off
  /\ UNCHANGED << rec, queued, held, stale, enabled, asked, upset, strayed >>

\* To the encoder, or back to the driver; without its addresses, to nobody.
PumpHandOn ==
  /\ pump.pc = "got" /\ pump' = Off
  /\ \/ LoseFrame("addr") /\ UNCHANGED held
     \/ enabled /\ held' = held \cup {pump.frame} /\ UNCHANGED << queued, upset, strayed >>
     \/ ~ enabled /\ releaseRecordFrame(pump.frame) /\ UNCHANGED << held, strayed >>
     \/ ~ enabled /\ LoseFrame("qbuf") /\ UNCHANGED held
  /\ UNCHANGED << rec, stale, enabled, asked >>

Pump_Slip == PumpLock \/ PumpFrame
Pump == PumpLock \/ PumpFrame \/ PumpHandOn
Answer == startRecording \/ stopRecording
Encoder == ReleaseHeld \/ ReleaseStale
NextRecording == AskRecording \/ Answer \/ Encoder \/ Pump \/ PumpFails

\* The mutex is granted in the end, for the thread is without it while it fetches the
\* next preview frame.  The encoder returns what it gets while the message is enabled.
RecordingFairness ==
  /\ WF_recVars(Pump) /\ SF_recVars(Answer) /\ WF_recVars(enabled /\ ReleaseHeld)
SpecRecording == InitRecording /\ [][NextRecording]_recVars /\ RecordingFairness

-----------------------------------------------------------------------------
\* A buffer of this recording is in one place: with the driver, in the thread, or
\* with the encoder, until a frame of an earlier one is given back.
RecordingTypeOK ==
  /\ rec \in [running : BOOLEAN, flag : BOOLEAN, stream : BOOLEAN]
  /\ {enabled, upset} \subseteq BOOLEAN /\ asked \in {"none", "start", "stop"}
  /\ queued \cup held \cup stale \subseteq Frames
  /\ strayed \subseteq {"late", "lost", "unstarted", "streamoff", "tail"}
  /\ pump.pc \in {"off", "wait", "got"} /\ (pump.pc = "got" <=> pump.frame \in Frames)
  /\ "late" \notin strayed => held \cap queued = {} /\ pump.frame \notin queued \cup held

\* The driver gets only buffers it expects, across stopping, restarting and frames
\* that come back late: it "could crash if we called qbuf and it wasn't expecting
\* it" (comment in releaseRecordFrame()).  What can break it is a frame of an earlier
\* recording given back during a later one, which the flag cannot tell.
QbufExpected == upset => "late" \in strayed

\* A device that takes itself to be recording has its HAL think so and node 2 stream, and
\* each way to disagree has one kind of cause: node 2 streams outside a recording only
\* after a start that failed with it on or a failed STREAMOFF, and the HAL takes itself
\* to be recording alone only after a stop that failed once the flag was cleared.
RecordingAgrees ==
  /\ rec.flag => rec.running /\ rec.stream
  /\ rec.stream => rec.flag \/ strayed \cap {"unstarted", "streamoff"} # {}
  /\ rec.running => rec.flag \/ strayed \cap {"streamoff", "tail"} # {}

\* A buffer that is neither with the driver nor in the thread nor with the encoder
\* does not come back before the next recording: it takes a failing ioctl to lose one.
FramesKept ==
  rec.flag /\ strayed = {} => Frames \subseteq queued \cup held \cup {pump.frame}

\* Record frames are safe: each in one place, none queued unexpectedly or lost, and the
\* HAL and the device disagree on the recording only after the failures that cause it.
FramesSafe == RecordingTypeOK /\ QbufExpected /\ RecordingAgrees /\ FramesKept

\* startRecording() and stopRecording() return: the preview thread gives up
\* mRecordLock, unless it waits for a frame while the driver has no buffer.
RecordingCallReturns ==
  asked # "none" ~> asked = "none" \/ (pump.pc = "wait" /\ queued = {})

\* Refuted.  "camera HAL should not rely on its client to call
\* releaseRecordingFrame()" (comment of HAL_camera_device_disable_msg_type()) once
\* the message is disabled: stopRecording() returns whatever the encoder keeps.
StopRecordingReturns == asked = "stop" ~> asked = "none"

\* Refuted.  Once a call has returned, the HAL, the device and node 2 agree on whether
\* there is a recording: a failing call leaves things as they were.
AlwaysAgreed == asked = "none" => rec.running = rec.flag /\ rec.flag = rec.stream

\* Refuted.  startRecording() that finds mRecordRunning set has nothing to do: the
\* device records.  After a stop that failed at the frame rate it returns NO_ERROR and
\* does not.
StartedIsRecording == rec.running => rec.flag
=============================================================================
