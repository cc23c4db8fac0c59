------------------------- MODULE CameraHardwareSec --------------------------
(***************************************************************************)
(* The threads of the camera HAL (src/libcamera/SecCameraHWInterface.cpp): *)
(* the client, whose calls CameraService makes one at a time, and the      *)
(* preview, autofocus and picture threads, which it starts, signals, waits *)
(* for and joins through mPreviewLock, mFocusLock, mCaptureLock and their  *)
(* conditions.                                                             *)
(*                                                                         *)
(* A section under a mutex is one step when nothing outside the mutex can  *)
(* see its middle.  The one that is not is the preview thread's: it stops  *)
(* the device between its test of mPreviewRunning and its wait, while      *)
(* release() sets that flag and signals without the mutex.  libutils'      *)
(* Thread (run, requestExitAndWait, the skipped first loop of a thread     *)
(* asked to exit) is external and modelled from its contract.              *)
(***************************************************************************)
EXTENDS Naturals

CONSTANT Slips  \* what the run lets go wrong outside the HAL: {"device", "window"} or less

ASSUME SlipKinds == Slips \subseteq {"device", "window"}

VARIABLES
  mPreviewRunning, mPreviewStartDeferred, mCaptureInProgress,
  window,    \* mPreviewWindow is not NULL
  started,   \* the device streams the preview (m_flag_camera_start)
  exiting,   \* mExitPreviewThread and mExitAutoFocusThread, set by release()
  leaked,    \* mPreviewLock was left locked by a return
  call,      \* [op, pc]: the client's call in progress, and where it is
  preview,   \* the preview thread: "top", "stopping", "parked", "frame", "show", "out"
  focus,     \* the autofocus thread: "top", "parked", "woken", "focusing", "out"
  picture,   \* the picture thread: "none", "created", "shooting", "ending"
  exitPending,  \* requestExit() of the picture thread
  due,       \* the callbacks the client has been promised: "focus", "image"
  met        \* the rare events met so far whose effect lasts

hal  == << mPreviewRunning, mPreviewStartDeferred, window, leaked >>
capt == << mCaptureInProgress, picture, exitPending >>
rest == << exiting, focus >>
vars == << hal, capt, rest, started, call, preview, due, met >>

\* Definitions named X_Slip are X with a plausible mistake; no action uses them.

Idle == [op |-> "none", pc |-> "idle"]
At(pc) == call.pc = pc
Goto(pc) == call' = [call EXCEPT !.pc = pc]
Return == call' = Idle
Meet(kind) == met' = met \cup {kind}
Forget(kinds) == met' = met \ kinds

\* mPreviewLock: the preview thread holds it while it stops the device.
LockFree == ~ leaked /\ preview # "stopping"

Init ==
  /\ mPreviewRunning = FALSE /\ mPreviewStartDeferred = FALSE /\ mCaptureInProgress = FALSE
  /\ window = FALSE /\ started = FALSE /\ exiting = FALSE /\ leaked = FALSE
  /\ call = Idle
  /\ preview = "top" /\ focus = "top" /\ picture = "none" /\ exitPending = FALSE
  /\ due = {} /\ met = {}

-----------------------------------------------------------------------------
(* The client.                                                             *)

Begin(op) == At("idle") /\ preview # "out" /\ call' = [op |-> op, pc |-> op]

Call ==
  /\ \E op \in {"start", "stop", "window", "unset", "focus", "picture", "cancel", "params",
                "release"} : Begin(op)
  /\ UNCHANGED << hal, capt, rest, started, preview, due, met >>

\* waitCaptureCompletion(): its five seconds can pass while a capture is in progress.
TimeOut ==
  /\ call.pc \in {"start", "params", "run"} /\ mCaptureInProgress
  /\ Return
  /\ UNCHANGED << hal, capt, rest, started, preview, due, met >>

\* setParameters(): its settings are the subject of CameraSettings.
SetParameters ==
  /\ At("params") /\ ~ mCaptureInProgress /\ Return
  /\ UNCHANGED << hal, capt, rest, started, preview, due, met >>

\* startPreviewInternal(): the device starts, or the call fails.
StartInternal(ok) == ok \in (IF "device" \in Slips THEN BOOLEAN ELSE {TRUE})
                       /\ started' = (started \/ ok)

\* mPreviewCondition.signal() with mPreviewLock held.
WakePreview == preview' = IF preview = "parked" THEN "top" ELSE preview

\* startPreview() once no capture is in progress.  A failed start leaves the HAL
\* "running" and signals nobody.
StartPreview ==
  /\ At("start") /\ ~ mCaptureInProgress /\ LockFree /\ Return
  /\ mPreviewRunning' = TRUE
  /\ \/ /\ mPreviewRunning /\ UNCHANGED << mPreviewStartDeferred, started, preview, met >>
     \/ /\ ~ mPreviewRunning /\ ~ window
        /\ mPreviewStartDeferred' = TRUE
        /\ met' = IF preview # "parked" THEN met \cup {"late"} ELSE met
        /\ UNCHANGED << started, preview >>
     \/ /\ ~ mPreviewRunning /\ window
        /\ mPreviewStartDeferred' = FALSE
        /\ \E ok \in BOOLEAN :
             /\ StartInternal(ok)
             /\ IF ok THEN WakePreview ELSE UNCHANGED preview
        /\ UNCHANGED met
  /\ UNCHANGED << window, leaked, capt, rest, due >>

\* stopPreviewInternal(), called by stopPreview(), takePicture() and
\* setPreviewWindow(), which go on at next.  The wait for the preview thread is
\* the pc "stopping"; a deferred preview is not waited for.
StopInternal_Slip(next) ==
  /\ mPreviewRunning' = FALSE /\ Goto(next)
  /\ IF mPreviewRunning THEN WakePreview ELSE UNCHANGED preview
StopInternal(next) ==
  /\ mPreviewRunning' = FALSE
  /\ IF mPreviewRunning /\ ~ mPreviewStartDeferred
       THEN Goto("stopping") /\ WakePreview
       ELSE Goto(next) /\ UNCHANGED preview

After(op) == CASE op = "stop" -> "return" [] op = "picture" -> "run" [] op = "window" -> "buffers"

Stop ==
  /\ call.pc \in {"stop", "picture"} /\ LockFree
  /\ StopInternal(After(call.op))
  /\ UNCHANGED << mPreviewStartDeferred, window, leaked, capt, rest, started, due, met >>

StopReturns ==
  /\ At("return") /\ Return
  /\ UNCHANGED << hal, capt, rest, started, preview, due, met >>

\* setPreviewWindow(): the window is stored before mPreviewLock is taken, and NULL
\* without taking it.
StoreWindow ==
  /\ call.pc \in {"window", "unset"}
  /\ window' = At("window")
  /\ IF At("window") THEN Goto("change") ELSE Return
  /\ UNCHANGED << mPreviewRunning, mPreviewStartDeferred, leaked, capt, rest, started,
                  preview, due, met >>

ChangeWindow ==
  /\ At("change") /\ LockFree
  /\ IF mPreviewStartDeferred THEN Goto("buffers") /\ UNCHANGED << mPreviewRunning, preview >>
                              ELSE StopInternal("buffers")
  /\ UNCHANGED << mPreviewStartDeferred, window, leaked, capt, rest, started, due, met >>

\* The calls on the window: when one fails the method returns with the mutex locked.
\* Otherwise a preview that waited for a window starts.
PrepareWindow ==
  /\ At("buffers") /\ Return
  /\ \/ /\ "window" \in Slips /\ leaked' = TRUE /\ Meet("window")
        /\ UNCHANGED << mPreviewStartDeferred, started, preview >>
     \/ /\ ~ (mPreviewRunning /\ mPreviewStartDeferred)
        /\ UNCHANGED << mPreviewStartDeferred, leaked, started, preview, met >>
     \/ /\ mPreviewRunning /\ mPreviewStartDeferred
        /\ \E ok \in BOOLEAN :
             /\ StartInternal(ok) /\ mPreviewStartDeferred' = ~ ok
             /\ IF ok THEN WakePreview ELSE UNCHANGED preview
        /\ UNCHANGED << leaked, met >>
  /\ UNCHANGED << mPreviewRunning, window, capt, rest, due >>

\* autoFocus(): a signal without the mutex, lost when the thread does not wait.
AutoFocus ==
  /\ At("focus") /\ Return
  /\ due' = due \cup {"focus"}
  /\ focus' = IF focus = "parked" THEN "woken" ELSE focus
  /\ IF focus \in {"parked", "woken"} THEN Forget({"unheard", "focusFailed"}) ELSE Meet("unheard")
  /\ UNCHANGED << hal, capt, exiting, started, preview >>

\* takePicture() after its stopPreview(): Thread::run() refuses while the thread of
\* the picture before is still ending, although its capture is complete.
RunPicture ==
  /\ At("run") /\ ~ mCaptureInProgress
  /\ IF picture = "none"
       THEN /\ picture' = "created" /\ exitPending' = FALSE /\ due' = due \cup {"image"}
            /\ Goto("flag") /\ Forget({"pictureFailed"})
       ELSE Return /\ UNCHANGED << picture, exitPending, due, met >>
  /\ UNCHANGED << hal, mCaptureInProgress, rest, started, preview >>

\* The flag is set after the thread was started: it may have ended by now.
SetCaptureFlag ==
  /\ At("flag") /\ Return
  /\ mCaptureInProgress' = TRUE
  /\ IF picture \in {"none", "ending"} THEN Meet("overtaken") ELSE UNCHANGED met
  /\ UNCHANGED << hal, picture, exitPending, rest, started, preview, due >>

\* requestExitAndWait() of the picture thread, by cancelPicture() and release(): a
\* thread that has not begun skips its only turn.
AskExit ==
  /\ At("cancel")
  /\ exitPending' = (picture # "none") /\ Goto("join")
  /\ due' = due \ {"image"}
  /\ IF picture = "created" THEN Meet("skipped") ELSE UNCHANGED met
  /\ UNCHANGED << hal, mCaptureInProgress, picture, rest, started, preview >>

Joined ==
  /\ At("join") /\ picture = "none" /\ Return
  /\ exitPending' = FALSE
  /\ UNCHANGED << hal, mCaptureInProgress, picture, rest, started, preview, due, met >>

\* release(): flag and signal without mPreviewLock, heard by a thread that waits.
ReleasePreview ==
  /\ At("release") /\ Goto("joinPreview")
  /\ exiting' = TRUE /\ mPreviewRunning' = TRUE /\ WakePreview
  /\ IF preview = "stopping" THEN Meet("unheardExit") ELSE UNCHANGED met
  /\ UNCHANGED << mPreviewStartDeferred, window, leaked, capt, focus, started, due >>

\* Then the autofocus thread, under its mutex, and then the picture thread.
ReleaseFocus ==
  /\ At("joinPreview") /\ preview = "out"
  /\ focus' = (IF focus = "parked" THEN "woken" ELSE focus) /\ Goto("joinFocus")
  /\ due' = due \ {"focus"}
  /\ UNCHANGED << hal, capt, exiting, started, preview, met >>

ReleasePicture ==
  /\ At("joinFocus") /\ focus = "out" /\ Goto("cancel")
  /\ UNCHANGED << hal, capt, rest, started, preview, due, met >>

\* HAL_camera_device_close() and open(): a new object, new threads.
Reopen ==
  /\ At("idle") /\ preview = "out"
  /\ mPreviewRunning' = FALSE /\ mPreviewStartDeferred' = FALSE /\ mCaptureInProgress' = FALSE
  /\ window' = FALSE /\ started' = FALSE /\ exiting' = FALSE /\ leaked' = FALSE
  /\ preview' = "top" /\ focus' = "top" /\ picture' = "none" /\ exitPending' = FALSE
  /\ due' = {} /\ met' = {} /\ UNCHANGED call

-----------------------------------------------------------------------------
(* The preview thread, previewThreadWrapper().                             *)

\* With the mutex: stop the device, leave, or take a frame.
PreviewTop ==
  /\ preview = "top" /\ ~ leaked /\ ~ At("buffers")
  /\ IF ~ mPreviewRunning THEN preview' = "stopping" /\ UNCHANGED started
     ELSE IF exiting THEN preview' = "out" /\ started' = FALSE
     ELSE preview' = "frame" /\ UNCHANGED started
  /\ UNCHANGED << hal, capt, rest, call, due, met >>

\* The device is stopped, whoever waits for that is woken, the thread waits.
PreviewPark_Slip ==
  /\ preview = "stopping" /\ started' = FALSE /\ preview' = "parked"
  /\ UNCHANGED << hal, capt, rest, call, due, met >>
PreviewPark ==
  /\ preview = "stopping" /\ started' = FALSE /\ preview' = "parked"
  /\ IF At("stopping") THEN Goto(After(call.op)) ELSE UNCHANGED call
  /\ Forget({"late"})
  /\ UNCHANGED << hal, capt, rest, due >>

\* previewThread(): a frame, if the device delivers one, and the window it is for.
PreviewFrame ==
  /\ preview = "frame"
  /\ preview' \in (IF started /\ window THEN {"show", "top"} ELSE {"top"})
  /\ UNCHANGED << hal, capt, rest, started, call, due, met >>

\* The window is read again for every call on it.
PreviewShow ==
  /\ preview = "show" /\ preview' = "top"
  /\ UNCHANGED << hal, capt, rest, started, call, due, met >>

-----------------------------------------------------------------------------
(* The autofocus thread.                                                   *)

FocusTop ==
  /\ focus = "top" /\ focus' = IF At("joinFocus") THEN "out" ELSE "parked"
  /\ UNCHANGED << hal, capt, exiting, started, call, preview, due, met >>

FocusWoken_Slip ==
  /\ focus = "woken" /\ focus' = "top"
  /\ UNCHANGED << hal, capt, exiting, started, call, preview, due, met >>
FocusWoken ==
  /\ focus = "woken" /\ focus' = IF At("joinFocus") THEN "out" ELSE "focusing"
  /\ UNCHANGED << hal, capt, exiting, started, call, preview, due, met >>

\* The result is reported, unless the device could not be told to focus.
FocusDone ==
  /\ focus = "focusing" /\ focus' = "top"
  /\ \/ due' = due \ {"focus"} /\ Forget({"unheard", "focusFailed"})
     \/ "device" \in Slips /\ Meet("focusFailed") /\ UNCHANGED due
  /\ UNCHANGED << hal, capt, exiting, started, call, preview >>

-----------------------------------------------------------------------------
(* The picture thread.                                                     *)

PictureBegin ==
  /\ picture = "created" /\ picture' = IF exitPending THEN "ending" ELSE "shooting"
  /\ UNCHANGED << hal, mCaptureInProgress, exitPending, rest, started, call, preview, due, met >>

\* pictureThread(): the image, unless the capture fails, and the end of the capture.
PictureShot_Slip ==
  /\ picture = "shooting" /\ picture' = "ending"
  /\ due' = due \ {"image"} /\ UNCHANGED << met, mCaptureInProgress >>
  /\ UNCHANGED << hal, exitPending, rest, started, call, preview >>
PictureShot ==
  /\ picture = "shooting" /\ picture' = "ending"
  /\ \/ due' = due \ {"image"} /\ UNCHANGED met
     \/ "device" \in Slips /\ Meet("pictureFailed") /\ UNCHANGED due
  /\ mCaptureInProgress' = FALSE
  /\ UNCHANGED << hal, exitPending, rest, started, call, preview >>

PictureEnd ==
  /\ picture = "ending" /\ picture' = "none"
  /\ UNCHANGED << hal, mCaptureInProgress, exitPending, rest, started, call, preview, due, met >>

Client ==
  \/ TimeOut \/ SetParameters \/ StartPreview \/ Stop \/ StopReturns \/ StoreWindow
  \/ ChangeWindow \/ PrepareWindow \/ AutoFocus \/ RunPicture \/ SetCaptureFlag \/ AskExit
  \/ Joined \/ ReleasePreview \/ ReleaseFocus \/ ReleasePicture
Preview == PreviewTop \/ PreviewPark \/ PreviewFrame \/ PreviewShow
Focus   == FocusTop \/ FocusWoken \/ FocusDone
Picture == PictureBegin \/ PictureShot \/ PictureEnd

Next == Call \/ Reopen \/ Client \/ Preview \/ Focus \/ Picture

\* Threads run and calls go on; nobody has to make a call.
Fairness == WF_vars(Client) /\ WF_vars(Preview) /\ WF_vars(Focus) /\ WF_vars(Picture)

Spec == Init /\ [][Next]_vars /\ Fairness
-----------------------------------------------------------------------------
Kinds == {"late", "window", "unheard", "overtaken", "skipped", "unheardExit", "focusFailed",
          "pictureFailed"}

\* Where each call can be.
Pcs == [ op \in {"none", "start", "stop", "window", "unset", "focus", "picture", "cancel", "params",
                "release"} |->
  CASE op = "none"    -> {"idle"}
    [] op = "stop"    -> {"stop", "stopping", "return"}
    [] op = "window"  -> {"window", "change", "stopping", "buffers"}
    [] op = "picture" -> {"picture", "stopping", "run", "flag"}
    [] op = "cancel"  -> {"cancel", "join"}
    [] op = "release" -> {"release", "joinPreview", "joinFocus", "cancel", "join"}
    [] OTHER          -> {op} ]

TypeOK ==
  /\ \A b \in {mPreviewRunning, mPreviewStartDeferred, mCaptureInProgress, window, started,
               exiting, leaked, exitPending} : b \in BOOLEAN
  /\ call.op \in DOMAIN Pcs /\ call.pc \in Pcs[call.op]
  /\ preview \in {"top", "stopping", "parked", "frame", "show", "out"}
  /\ focus \in {"top", "parked", "woken", "focusing", "out"}
  /\ picture \in {"none", "created", "shooting", "ending"}
  /\ due \subseteq {"focus", "image"} /\ met \subseteq Kinds

\* When stopPreview() or any other call has returned and the preview is not running,
\* the preview thread is out of the device and the window, and the device is stopped;
\* except after a deferred start that came before the thread first waited: it then
\* asks a device that never started for frames, and stopPreview() does not wait for it.
StoppedIsStopped ==
  At("idle") /\ ~ mPreviewRunning /\ preview # "out" =>
    (preview \notin {"frame", "show"} \/ "late" \in met) /\ (~ started \/ preview = "top")

\* The preview thread is where the HAL takes it to be: stopped when it is stopped.
PreviewSound == TypeOK /\ StoppedIsStopped

\* The picture thread has the sensor to itself: while it captures no preview streams
\* and the preview thread takes no frame, whatever was called in whatever order.
PictureHasSensor ==
  picture = "shooting" =>
    /\ ~ started
    /\ preview \in {"frame", "show"} => "late" \in met

\* Between calls mCaptureInProgress tells whether a picture is being taken: it is
\* what keeps setParameters() away from the sensor.  It is wrong only after a
\* picture thread that ended before takePicture() set the flag, or that was told
\* to exit before it began; then it stays set, and calls time out.
CaptureFlagTrue ==
  At("idle") /\ met \cap {"overtaken", "skipped"} = {} =>
    (mCaptureInProgress <=> picture \in {"created", "shooting"})

\* A picture is safe: the sensor is its own, and the flag that keeps others off is true.
PictureSafe == PictureHasSensor /\ CaptureFlagTrue

\* A call ends, however it has to wait for the threads, unless a call on the window
\* failed and left mPreviewLock locked, or release() signalled the preview thread
\* between its test and its wait.
CallReturns ==
  call.op # "none" ~> call.op = "none" \/ met \cap {"window", "unheardExit"} # {}

\* An autofocus is answered by one callback, unless the signal went to a thread
\* that was not waiting, or the device refused; release() ends the wait.
FocusAnswered == "focus" \in due ~> "focus" \notin due \/ met \cap {"unheard", "focusFailed"} # {}

\* A picture that was accepted is delivered, unless the capture fails or is cancelled.
ImageDelivered ==
  "image" \in due ~> "image" \notin due \/ "pictureFailed" \in met

\* A preview that was started delivers: the signal that starts it is not lost.
StartReaches ==
  At("idle") /\ mPreviewRunning /\ started ~>
    preview = "frame" \/ ~ (mPreviewRunning /\ started) \/ exiting \/ leaked

\* What was asked for comes: the focus is answered, the image delivered, frames shown.
CallbacksCome == FocusAnswered /\ ImageDelivered /\ StartReaches

\* Refuted.  "signal it so it wakes up and can exit" (comment in release()).
ReleaseReturns == call.op = "release" /\ "window" \notin met ~> call.op = "none"

\* Refuted.  Every call but release() returns: an error return of setPreviewWindow()
\* leaves mPreviewLock held.
ReturnsBeforeRelease == call.op # "none" ~> call.op = "none" \/ "unheardExit" \in met

\* Refuted.  "picture thread is running ... so return error" (comment in setParameters()):
\* the call is refused only while a picture is being taken.
TimesOutForPicture == [][TimeOut => picture # "none"]_vars

\* Refuted.  Once no capture is in progress a picture can be taken.
PictureRuns == [][RunPicture => picture' = "created"]_vars

\* Refuted.  A window is not taken away from the preview thread that draws on it.
WindowStays == preview = "show" => window

\* Refuted.  The autofocus callback comes (comment of HAL_camera_device_auto_focus()).
FocusReported == "focus" \in due ~> "focus" \notin due
=============================================================================
