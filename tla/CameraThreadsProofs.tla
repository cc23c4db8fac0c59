------------------------ MODULE CameraThreadsProofs -------------------------
(***************************************************************************)
(* Proofs about CameraHardwareSec: what is stopped is stopped, and a       *)
(* picture has the sensor to itself, through every interleaving of the     *)
(* client's calls with the three threads.                                  *)
(*                                                                         *)
(* PreviewSound and PictureSafe speak of the moments between calls.  The   *)
(* inductive invariant speaks of every moment: it says which call or       *)
(* which thread is under way to make them true.                            *)
(***************************************************************************)
EXTENDS CameraHardwareSec, TLAPS

Ops == {"none", "start", "stop", "window", "unset", "focus", "picture", "cancel", "params",
        "release"}

\* The types, each field of its own.
Typed ==
  /\ mPreviewRunning \in BOOLEAN /\ mPreviewStartDeferred \in BOOLEAN
  /\ mCaptureInProgress \in BOOLEAN /\ window \in BOOLEAN /\ started \in BOOLEAN
  /\ exiting \in BOOLEAN /\ leaked \in BOOLEAN /\ exitPending \in BOOLEAN
  /\ call = [op |-> call.op, pc |-> call.pc] /\ call.op \in Ops /\ call.pc \in Pcs[call.op]
  /\ preview \in {"top", "stopping", "parked", "frame", "show", "out"}
  /\ focus \in {"top", "parked", "woken", "focusing", "out"}
  /\ picture \in {"none", "created", "shooting", "ending"}
  /\ due \subseteq {"focus", "image"} /\ met \subseteq Kinds

\* The preview thread has no frame of the device; or it has never waited since a start
\* that was deferred.
NoFrame == preview \in {"frame", "show"} => "late" \in met

\* The thread leaves only for release(), which waits for it.
Leaving ==
  /\ exiting /\ preview # "out" => At("joinPreview")
  /\ preview = "out" => exiting /\ ~ started /\ call.op \in {"none", "release"}
  /\ preview = "stopping" => ~ mPreviewRunning \/ exiting

\* The device streams only while the preview is running and not deferred, and then until
\* the call that stops it has waited for the thread.
StreamsWhileRunning ==
  /\ ~ mPreviewRunning /\ preview # "out" /\ ~ At("stopping") => ~ started /\ NoFrame
  /\ mPreviewRunning /\ mPreviewStartDeferred /\ ~ exiting =>
       ~ started /\ (preview = "parked" \/ "late" \in met)

\* A call that has to stop the preview has stopped it.
CallStops == call.pc \in {"stopping", "return", "run", "flag"} => ~ mPreviewRunning

\* From its start to the end of its capture the picture thread is alone with the device:
\* nothing starts the preview, which takePicture() has stopped, before the capture ends.
Shooting == picture \in {"created", "shooting"}
Alone ==
  Shooting => /\ ~ started /\ NoFrame /\ (~ mPreviewRunning \/ exiting)
              /\ ~ At("stopping") /\ (At("flag") \/ mCaptureInProgress)

\* The flag is left set by one of the two events that CaptureFlagTrue names alone.
FlagLasts ==
  /\ mCaptureInProgress /\ met \cap {"overtaken", "skipped"} = {} => Shooting
  /\ exitPending /\ picture = "created" => "skipped" \in met

\* The inductive invariant.
IInv == Typed /\ Leaving /\ StreamsWhileRunning /\ CallStops /\ Alone /\ FlagLasts

-----------------------------------------------------------------------------
(* Where a call is.                                                        *)

Calls == [op : Ops, pc : {"idle", "start", "stop", "stopping", "return", "window", "change", "buffers",
                          "unset", "focus", "picture", "run", "flag", "cancel", "join", "params",
                          "release", "joinPreview", "joinFocus"}]

LEMMA PcsAre ==
  /\ Pcs["none"] = {"idle"} /\ Pcs["start"] = {"start"} /\ Pcs["unset"] = {"unset"}
  /\ Pcs["focus"] = {"focus"} /\ Pcs["params"] = {"params"}
  /\ Pcs["stop"] = {"stop", "stopping", "return"}
  /\ Pcs["window"] = {"window", "change", "stopping", "buffers"}
  /\ Pcs["picture"] = {"picture", "stopping", "run", "flag"}
  /\ Pcs["cancel"] = {"cancel", "join"}
  /\ Pcs["release"] = {"release", "joinPreview", "joinFocus", "cancel", "join"}
BY DEF Pcs

\* The op tells where a call can be, and the place of which op it is.
LEMMA PlaceOf ==
  ASSUME Typed
  PROVE  /\ call \in Calls
         /\ call.pc = "idle" <=> call.op = "none"
         /\ call.pc = "stopping" => call.op \in {"stop", "window", "picture"}
         /\ call.pc = "stop" => call.op = "stop"
         /\ call.pc \in {"window", "change", "buffers"} => call.op = "window"
         /\ call.pc = "unset" => call.op = "unset"
         /\ call.pc \in {"picture", "run", "flag"} => call.op = "picture"
         /\ call.pc \in {"cancel", "join"} => call.op \in {"cancel", "release"}
         /\ call.pc \in {"release", "joinPreview", "joinFocus"} => call.op = "release"
         /\ call.pc = "start" => call.op = "start"
<1>1. call.op \in Ops /\ call.pc \in Pcs[call.op] /\ call = [op |-> call.op, pc |-> call.pc]
  BY DEF Typed
<1>2. QED
  BY <1>1, PcsAre DEF Calls, Ops

\* A step of the call, and what its variable is after it.
LEMMA GoesTo ==
  ASSUME Typed, NEW p \in Pcs[call.op], Goto(p)
  PROVE  /\ call' = [op |-> call'.op, pc |-> call'.pc] /\ call'.op = call.op /\ call'.pc = p
         /\ call'.op \in Ops /\ call'.pc \in Pcs[call'.op]
BY DEF Typed, Goto

LEMMA Returns ==
  ASSUME Return
  PROVE  /\ call' = [op |-> call'.op, pc |-> call'.pc] /\ call'.op = "none" /\ call'.pc = "idle"
         /\ call'.op \in Ops /\ call'.pc \in Pcs[call'.op]
BY PcsAre DEF Return, Idle, Ops

LEMMA InitInv == Init => IInv
<1> SUFFICES ASSUME Init PROVE IInv
  OBVIOUS
<1>1. /\ call = [op |-> call.op, pc |-> call.pc] /\ call.op = "none" /\ call.pc = "idle"
      /\ call.op \in Ops /\ call.pc \in Pcs[call.op]
  BY PcsAre DEF Init, Idle, Ops
<1>2. Typed
  BY <1>1 DEF Init, Typed
<1>3. QED
  BY <1>1, <1>2 DEF Init, IInv, Leaving, StreamsWhileRunning, CallStops, Alone, FlagLasts, NoFrame, Shooting, At

-----------------------------------------------------------------------------
(* The client's steps.                                                     *)

LEMMA CallInv == ASSUME IInv, Call PROVE IInv'
<1>1. PICK op \in Ops \ {"none"} : Begin(op) /\ UNCHANGED << hal, capt, rest, started, preview, due, met >>
  BY DEF Call, Ops
<1>2. op \in Pcs[op]
  BY <1>1, PcsAre DEF Ops
<1>3. Typed /\ Typed'
  BY <1>1, <1>2 DEF IInv, Typed, Begin, hal, capt, rest
<1>4. call'.pc = op /\ call.pc = "idle" /\ preview # "out" /\ call'.pc \notin {"stopping", "return", "run", "flag", "joinPreview"}
  BY <1>1 DEF Begin, At, Ops
<1>5. QED
  BY <1>1, <1>3, <1>4 DEF IInv, Leaving, StreamsWhileRunning, CallStops, Alone, FlagLasts, NoFrame, Shooting, At, hal, capt, rest

LEMMA TimeOutInv == ASSUME IInv, TimeOut PROVE IInv'
<1>1. Typed /\ Typed'
  BY Returns DEF IInv, Typed, TimeOut, Kinds, At, Goto, Return, Idle, Meet, Forget, hal, capt, rest, LockFree, WakePreview, StartInternal
<1>2. QED
  BY <1>1, PlaceOf, Returns DEF IInv, Leaving, StreamsWhileRunning, CallStops, Alone, FlagLasts, NoFrame, Shooting, TimeOut, At, Goto, Return, Idle, Meet, Forget, hal, capt, rest, LockFree, WakePreview, StartInternal

LEMMA SetParametersInv == ASSUME IInv, SetParameters PROVE IInv'
<1>1. Typed /\ Typed'
  BY Returns DEF IInv, Typed, SetParameters, Kinds, At, Goto, Return, Idle, Meet, Forget, hal, capt, rest, LockFree, WakePreview, StartInternal
<1>2. QED
  BY <1>1, PlaceOf, Returns DEF IInv, Leaving, StreamsWhileRunning, CallStops, Alone, FlagLasts, NoFrame, Shooting, SetParameters, At, Goto, Return, Idle, Meet, Forget, hal, capt, rest, LockFree, WakePreview, StartInternal

LEMMA StopReturnsInv == ASSUME IInv, StopReturns PROVE IInv'
<1>1. Typed /\ Typed'
  BY Returns DEF IInv, Typed, StopReturns, Kinds, At, Goto, Return, Idle, Meet, Forget, hal, capt, rest, LockFree, WakePreview, StartInternal
<1>2. QED
  BY <1>1, PlaceOf, Returns DEF IInv, Leaving, StreamsWhileRunning, CallStops, Alone, FlagLasts, NoFrame, Shooting, StopReturns, At, Goto, Return, Idle, Meet, Forget, hal, capt, rest, LockFree, WakePreview, StartInternal

LEMMA AutoFocusInv == ASSUME IInv, AutoFocus PROVE IInv'
<1>1. Typed /\ Typed'
  BY Returns DEF IInv, Typed, AutoFocus, Kinds, At, Goto, Return, Idle, Meet, Forget, hal, capt, rest, LockFree, WakePreview, StartInternal
<1>2. QED
  BY <1>1, PlaceOf, Returns DEF IInv, Leaving, StreamsWhileRunning, CallStops, Alone, FlagLasts, NoFrame, Shooting, AutoFocus, At, Goto, Return, Idle, Meet, Forget, hal, capt, rest, LockFree, WakePreview, StartInternal

LEMMA StartPreviewInv == ASSUME IInv, StartPreview PROVE IInv'
<1>1. /\ call.pc = "start" /\ ~ mCaptureInProgress /\ preview # "stopping" /\ Return
      /\ mPreviewRunning' = TRUE
      /\ UNCHANGED << window, leaked, mCaptureInProgress, picture, exitPending, exiting, focus, due >>
  BY DEF StartPreview, At, LockFree, capt, rest
<1>2. Typed /\ preview # "out" /\ call.op = "start" /\ ~ exiting /\ ~ Shooting
  BY <1>1, PlaceOf DEF IInv, Leaving, Alone, At
<1>3. \/ /\ mPreviewRunning /\ UNCHANGED << mPreviewStartDeferred, started, preview, met >>
      \/ /\ ~ mPreviewRunning
         /\ mPreviewStartDeferred' = TRUE /\ met' = IF preview # "parked" THEN met \cup {"late"} ELSE met
         /\ UNCHANGED << started, preview >>
      \/ /\ ~ mPreviewRunning /\ mPreviewStartDeferred' = FALSE /\ started' \in BOOLEAN
         /\ preview' \in {preview, IF preview = "parked" THEN "top" ELSE preview} /\ met' = met
  <2>1. CASE mPreviewRunning /\ UNCHANGED << mPreviewStartDeferred, started, preview, met >>
    BY <2>1
  <2>2. CASE /\ ~ mPreviewRunning /\ mPreviewStartDeferred' = TRUE
             /\ met' = IF preview # "parked" THEN met \cup {"late"} ELSE met
             /\ UNCHANGED << started, preview >>
    BY <2>2
  <2>3. ASSUME ~ mPreviewRunning, mPreviewStartDeferred' = FALSE, UNCHANGED met, NEW ok \in BOOLEAN,
               StartInternal(ok), IF ok THEN WakePreview ELSE UNCHANGED preview
        PROVE  /\ ~ mPreviewRunning /\ mPreviewStartDeferred' = FALSE /\ started' \in BOOLEAN
               /\ preview' \in {preview, IF preview = "parked" THEN "top" ELSE preview} /\ met' = met
    <3>1. started' \in BOOLEAN
      BY <2>3 DEF StartInternal
    <3>2. QED
      BY <2>3, <3>1 DEF WakePreview
  <2>4. QED
    BY <2>1, <2>2, <2>3 DEF StartPreview
<1>4. Typed'
  <2>1. /\ mPreviewStartDeferred' \in BOOLEAN /\ started' \in BOOLEAN /\ met' \subseteq Kinds
        /\ preview' \in {"top", "stopping", "parked", "frame", "show", "out"}
    BY <1>2, <1>3 DEF Typed, Kinds
  <2>2. QED
    BY <1>1, <1>2, <2>1, Returns DEF Typed
<1>5. call'.pc = "idle" /\ call'.op = "none"
  BY <1>1, Returns
<1>6. preview' # "stopping" /\ preview' # "out"
  BY <1>1, <1>2, <1>3
<1>7. Leaving' /\ CallStops' /\ Alone' /\ FlagLasts'
  BY <1>1, <1>2, <1>3, <1>5, <1>6 DEF IInv, Leaving, CallStops, Alone, FlagLasts, Shooting, At
<1>8. StreamsWhileRunning'
  BY <1>1, <1>2, <1>3, <1>5, <1>6 DEF IInv, StreamsWhileRunning, NoFrame, At
<1>9. QED
  BY <1>4, <1>7, <1>8 DEF IInv

LEMMA PrepareWindowInv == ASSUME IInv, PrepareWindow PROVE IInv'
<1>1. /\ call.pc = "buffers" /\ Return
      /\ UNCHANGED << mPreviewRunning, window, mCaptureInProgress, picture, exitPending, exiting, focus, due >>
  BY DEF PrepareWindow, At, capt, rest
<1>2. Typed /\ preview # "out" /\ call.op = "window" /\ ~ exiting
  BY <1>1, PlaceOf DEF IInv, Leaving, At
<1>3. \/ /\ leaked' = TRUE /\ met' = met \cup {"window"}
         /\ UNCHANGED << mPreviewStartDeferred, started, preview >>
      \/ UNCHANGED << mPreviewStartDeferred, leaked, started, preview, met >>
      \/ /\ mPreviewRunning /\ mPreviewStartDeferred /\ UNCHANGED << leaked, met >>
         /\ \/ mPreviewStartDeferred' = FALSE /\ started' = TRUE
                 /\ preview' = IF preview = "parked" THEN "top" ELSE preview
            \/ mPreviewStartDeferred' = TRUE /\ UNCHANGED << started, preview >>
  <2>1. CASE /\ leaked' = TRUE /\ Meet("window") /\ UNCHANGED << mPreviewStartDeferred, started, preview >>
    BY <2>1 DEF Meet
  <2>2. CASE UNCHANGED << mPreviewStartDeferred, leaked, started, preview, met >>
    BY <2>2
  <2>3. ASSUME mPreviewRunning, mPreviewStartDeferred, UNCHANGED << leaked, met >>, NEW ok \in BOOLEAN,
               StartInternal(ok), mPreviewStartDeferred' = ~ ok,
               IF ok THEN WakePreview ELSE UNCHANGED preview
        PROVE  /\ mPreviewRunning /\ mPreviewStartDeferred /\ UNCHANGED << leaked, met >>
               /\ \/ mPreviewStartDeferred' = FALSE /\ started' = TRUE
                       /\ preview' = IF preview = "parked" THEN "top" ELSE preview
                  \/ mPreviewStartDeferred' = TRUE /\ UNCHANGED << started, preview >>
    <3>1. started \in BOOLEAN
      BY <1>2 DEF Typed
    <3>2. CASE ok
      BY <2>3, <3>1, <3>2 DEF StartInternal, WakePreview
    <3>3. CASE ~ ok
      BY <2>3, <3>1, <3>3 DEF StartInternal
    <3>4. QED
      BY <3>2, <3>3
  <2>4. QED
    BY <2>1, <2>2, <2>3 DEF PrepareWindow
<1>4. Typed'
  <2>1. /\ mPreviewStartDeferred' \in BOOLEAN /\ started' \in BOOLEAN /\ leaked' \in BOOLEAN
    BY <1>2, <1>3 DEF Typed
  <2>2. met' \subseteq Kinds /\ preview' \in {"top", "stopping", "parked", "frame", "show", "out"}
    BY <1>2, <1>3 DEF Typed, Kinds
  <2>3. QED
    BY <1>1, <1>2, <2>1, <2>2, Returns DEF Typed
<1>5. call'.pc = "idle" /\ call'.op = "none"
  BY <1>1, Returns
<1>6. preview' # "out" /\ (preview' = "stopping" => preview = "stopping")
  BY <1>2, <1>3
<1>7. Shooting => ~ mPreviewRunning
  BY <1>2 DEF IInv, Alone
<1>8. Leaving' /\ CallStops' /\ FlagLasts'
  BY <1>1, <1>2, <1>3, <1>5, <1>6 DEF IInv, Leaving, CallStops, FlagLasts, Shooting, At
<1>9. Alone'
  BY <1>1, <1>2, <1>3, <1>5, <1>7 DEF IInv, Alone, NoFrame, Shooting, At
<1>10. StreamsWhileRunning'
  BY <1>1, <1>2, <1>3, <1>5 DEF IInv, StreamsWhileRunning, NoFrame, At
<1>11. QED
  BY <1>4, <1>8, <1>9, <1>10 DEF IInv

LEMMA SetCaptureFlagInv == ASSUME IInv, SetCaptureFlag PROVE IInv'
<1>1. /\ call.pc = "flag" /\ Return /\ mCaptureInProgress' = TRUE
      /\ met' = IF picture \in {"none", "ending"} THEN met \cup {"overtaken"} ELSE met
      /\ UNCHANGED << mPreviewRunning, mPreviewStartDeferred, window, leaked, picture, exitPending,
                      exiting, focus, started, preview, due >>
  BY DEF SetCaptureFlag, At, hal, rest, Meet
<1>2. Typed /\ preview # "out" /\ call.op = "picture" /\ ~ mPreviewRunning
  BY <1>1, PlaceOf DEF IInv, Leaving, CallStops, At
<1>3. call'.pc = "idle" /\ call'.op = "none"
  BY <1>1, Returns
<1>4. Typed'
  <2>1. met' \subseteq Kinds
    BY <1>1, <1>2 DEF Typed, Kinds
  <2>2. QED
    BY <1>1, <1>2, <2>1, Returns DEF Typed
<1>5. FlagLasts'
  BY <1>1, <1>2 DEF IInv, FlagLasts, Typed, Shooting
<1>6. Leaving' /\ CallStops' /\ Alone' /\ StreamsWhileRunning'
  BY <1>1, <1>2, <1>3 DEF IInv, Leaving, CallStops, Alone, StreamsWhileRunning, NoFrame, Shooting, At
<1>7. QED
  BY <1>4, <1>5, <1>6 DEF IInv

LEMMA JoinedInv == ASSUME IInv, Joined PROVE IInv'
<1>1. /\ call.pc = "join" /\ Return /\ exitPending' = FALSE
      /\ UNCHANGED << mPreviewRunning, mPreviewStartDeferred, window, leaked, mCaptureInProgress, picture,
                      exiting, focus, started, preview, due, met >>
  BY DEF Joined, At, hal, rest
<1>2. Typed /\ exitPending' \in BOOLEAN
  BY <1>1 DEF IInv
<1>3. call'.pc = "idle" /\ call'.op = "none"
  BY <1>1, Returns
<1>4. Typed'
  BY <1>1, <1>2, Returns DEF Typed
<1>5. call.op \in {"cancel", "release"}
  BY <1>1, <1>2, PlaceOf
<1>6. QED
  BY <1>1, <1>3, <1>4, <1>5 DEF IInv, Leaving, StreamsWhileRunning, CallStops, Alone, FlagLasts, NoFrame, Shooting, At

\* The wake-up leaves the thread where it is, or takes it from its wait to its loop.
LEMMA Wakes ==
  ASSUME Typed, WakePreview
  PROVE  /\ preview' \in {"top", "stopping", "parked", "frame", "show", "out"}
         /\ preview' = preview \/ (preview = "parked" /\ preview' = "top")
<1>1. preview \in {"top", "stopping", "parked", "frame", "show", "out"}
  BY DEF Typed
<1>2. QED
  BY <1>1 DEF WakePreview

\* stopPreviewInternal(): the call waits for the thread, unless the preview did not run
\* or was deferred, and then the device does not stream.
LEMMA StopInternalDoes ==
  ASSUME Typed, NEW next \in Pcs[call.op], "stopping" \in Pcs[call.op], StopInternal(next)
  PROVE  /\ mPreviewRunning' = FALSE
         /\ call' = [op |-> call'.op, pc |-> call'.pc] /\ call'.op = call.op
         /\ call'.op \in Ops /\ call'.pc \in Pcs[call'.op]
         /\ preview' \in {"top", "stopping", "parked", "frame", "show", "out"}
         /\ \/ mPreviewRunning /\ ~ mPreviewStartDeferred /\ call'.pc = "stopping"
               /\ (preview' = preview \/ (preview = "parked" /\ preview' = "top"))
            \/ ~ (mPreviewRunning /\ ~ mPreviewStartDeferred) /\ call'.pc = next /\ preview' = preview
<1>1. CASE mPreviewRunning /\ ~ mPreviewStartDeferred
  <2>1. mPreviewRunning' = FALSE /\ Goto("stopping") /\ WakePreview
    BY <1>1 DEF StopInternal
  <2>2. QED
    BY <1>1, <2>1, Wakes, GoesTo
<1>2. CASE ~ (mPreviewRunning /\ ~ mPreviewStartDeferred)
  <2>1. mPreviewRunning' = FALSE /\ Goto(next) /\ preview' = preview
    BY <1>2 DEF StopInternal
  <2>2. preview' \in {"top", "stopping", "parked", "frame", "show", "out"}
    BY <2>1 DEF Typed
  <2>3. QED
    BY <1>2, <2>1, <2>2, GoesTo
<1>3. QED
  BY <1>1, <1>2

\* What a step that stops the preview as StopInternalDoes says preserves.
LEMMA StoppingInv ==
  ASSUME IInv, NEW next \in {"return", "run", "buffers"}, Typed',
         call.pc \in {"stop", "picture", "change"}, call'.op = call.op, mPreviewRunning' = FALSE,
         preview # "stopping",
         \/ mPreviewRunning /\ ~ mPreviewStartDeferred /\ call'.pc = "stopping"
            /\ (preview' = preview \/ (preview = "parked" /\ preview' = "top"))
         \/ ~ (mPreviewRunning /\ ~ mPreviewStartDeferred) /\ call'.pc = next /\ preview' = preview,
         UNCHANGED << mPreviewStartDeferred, mCaptureInProgress, picture, exitPending, exiting, started, met >>
  PROVE  IInv'
<1>1. Typed /\ preview # "out" /\ call.op \in {"stop", "picture", "window"} /\ ~ exiting
  BY PlaceOf DEF IInv, Leaving, At
<1>2. preview' # "out" /\ preview' # "stopping" /\ call'.pc \notin {"joinPreview", "flag"}
  BY <1>1
<1>3. Leaving' /\ CallStops'
  BY <1>1, <1>2 DEF IInv, Leaving, CallStops
<1>4. Shooting => ~ mPreviewRunning
  BY <1>1 DEF IInv, Alone
<1>5. Alone' /\ FlagLasts'
  BY <1>1, <1>2, <1>4 DEF IInv, Alone, FlagLasts, NoFrame, Shooting, At
<1>6. StreamsWhileRunning'
  <2>1. CASE mPreviewRunning /\ ~ mPreviewStartDeferred
    BY <1>1, <2>1 DEF StreamsWhileRunning, At
  <2>2. CASE ~ mPreviewRunning
    BY <1>1, <2>2 DEF IInv, StreamsWhileRunning, NoFrame, At
  <2>3. CASE mPreviewRunning /\ mPreviewStartDeferred
    BY <1>1, <2>3 DEF IInv, StreamsWhileRunning, NoFrame, At
  <2>4. QED
    BY <2>1, <2>2, <2>3
<1>7. QED
  BY <1>3, <1>5, <1>6 DEF IInv

LEMMA StopInv == ASSUME IInv, Stop PROVE IInv'
<1>1. /\ call.pc \in {"stop", "picture"} /\ preview # "stopping" /\ StopInternal(After(call.op))
      /\ UNCHANGED << mPreviewStartDeferred, window, leaked, mCaptureInProgress, picture, exitPending,
                      exiting, focus, started, due, met >>
  BY DEF Stop, LockFree, capt, rest
<1>2. Typed
  BY DEF IInv
<1>3. /\ After(call.op) \in Pcs[call.op] /\ After(call.op) \in {"return", "run", "buffers"}
      /\ "stopping" \in Pcs[call.op]
  <2>1. call.op \in {"stop", "picture"}
    BY <1>1, <1>2, PlaceOf
  <2>2. QED
    BY <2>1, PcsAre DEF After
<1>4. mPreviewRunning' \in BOOLEAN
  BY <1>1 DEF StopInternal
<1>5. Typed'
  <2>1. /\ call' = [op |-> call'.op, pc |-> call'.pc] /\ call'.op \in Ops /\ call'.pc \in Pcs[call'.op]
        /\ preview' \in {"top", "stopping", "parked", "frame", "show", "out"}
    BY <1>1, <1>2, <1>3, StopInternalDoes
  <2>2. QED
    BY <1>1, <1>2, <1>4, <2>1 DEF Typed
<1>6. QED
  BY <1>1, <1>2, <1>3, <1>5, StopInternalDoes, StoppingInv

LEMMA ChangeWindowInv == ASSUME IInv, ChangeWindow PROVE IInv'
<1>1. /\ call.pc = "change" /\ preview # "stopping"
      /\ UNCHANGED << mPreviewStartDeferred, window, leaked, mCaptureInProgress, picture, exitPending,
                      exiting, focus, started, due, met >>
  BY DEF ChangeWindow, LockFree, capt, rest, At
<1>2. Typed
  BY DEF IInv
<1>3. "buffers" \in Pcs[call.op] /\ "stopping" \in Pcs[call.op] /\ call.op = "window"
  BY <1>1, <1>2, PlaceOf, PcsAre
<1>4. CASE mPreviewStartDeferred
  <2>1. Goto("buffers") /\ UNCHANGED << mPreviewRunning, preview >>
    BY <1>4 DEF ChangeWindow
  <2>2. Typed' /\ call'.pc = "buffers" /\ call'.op = call.op
    BY <1>1, <1>2, <1>3, <2>1, GoesTo DEF Typed
  <2>3. QED
    BY <1>1, <1>3, <2>1, <2>2 DEF IInv, Leaving, StreamsWhileRunning, CallStops, Alone, FlagLasts, NoFrame, Shooting, At
<1>5. CASE ~ mPreviewStartDeferred
  <2>1. StopInternal("buffers")
    BY <1>5 DEF ChangeWindow
  <2>2. mPreviewRunning' \in BOOLEAN
    BY <2>1 DEF StopInternal
  <2>3. Typed'
    <3>1. /\ call' = [op |-> call'.op, pc |-> call'.pc] /\ call'.op \in Ops /\ call'.pc \in Pcs[call'.op]
          /\ preview' \in {"top", "stopping", "parked", "frame", "show", "out"}
      BY <1>2, <1>3, <2>1, StopInternalDoes
    <3>2. QED
      BY <1>1, <1>2, <2>2, <3>1 DEF Typed
  <2>4. QED
    BY <1>1, <1>2, <1>3, <2>1, <2>3, StopInternalDoes, StoppingInv
<1>6. QED
  BY <1>4, <1>5

LEMMA StoreWindowInv == ASSUME IInv, StoreWindow PROVE IInv'
<1>1. /\ call.pc \in {"window", "unset"} /\ ((Goto("change") /\ call.pc = "window") \/ Return)
      /\ window' \in BOOLEAN
      /\ UNCHANGED << mPreviewRunning, mPreviewStartDeferred, leaked, mCaptureInProgress, picture,
                      exitPending, exiting, focus, started, preview, due, met >>
  BY DEF StoreWindow, capt, rest, At
<1>2. Typed
  BY DEF IInv
<1>3. call.pc = "window" => "change" \in Pcs[call.op]
  BY <1>2, PlaceOf, PcsAre
<1>4. /\ call' = [op |-> call'.op, pc |-> call'.pc] /\ call'.op \in Ops /\ call'.pc \in Pcs[call'.op]
      /\ call'.pc \in {"change", "idle"}
  BY <1>1, <1>2, <1>3, GoesTo, Returns
<1>5. Typed'
  BY <1>1, <1>2, <1>4 DEF Typed
<1>6. preview # "out"
  BY <1>1, <1>2, PlaceOf DEF IInv, Leaving
<1>7. QED
  BY <1>1, <1>4, <1>5, <1>6 DEF IInv, Leaving, StreamsWhileRunning, CallStops, Alone, FlagLasts, NoFrame, Shooting, At

LEMMA RunPictureInv == ASSUME IInv, RunPicture PROVE IInv'
<1>1. /\ call.pc = "run" /\ ~ mCaptureInProgress
      /\ \/ /\ picture = "none" /\ picture' = "created" /\ exitPending' = FALSE
            /\ due' = due \cup {"image"} /\ Goto("flag") /\ met' = met \ {"pictureFailed"}
         \/ Return /\ UNCHANGED << picture, exitPending, due, met >>
      /\ UNCHANGED << mPreviewRunning, mPreviewStartDeferred, window, leaked, mCaptureInProgress, exiting,
                      focus, started, preview >>
  BY DEF RunPicture, At, Forget, hal, rest
<1>2. Typed /\ preview # "out" /\ call.op = "picture" /\ ~ mPreviewRunning /\ ~ exiting
  BY <1>1, PlaceOf DEF IInv, Leaving, CallStops, At
<1>3. "flag" \in Pcs[call.op]
  BY <1>2, PcsAre
<1>4. /\ call' = [op |-> call'.op, pc |-> call'.pc] /\ call'.op \in Ops /\ call'.pc \in Pcs[call'.op]
      /\ (picture' = "created" /\ call'.pc = "flag") \/ (picture' = picture /\ call'.pc = "idle")
  BY <1>1, <1>2, <1>3, GoesTo, Returns
<1>5. Typed'
  <2>1. exitPending' \in BOOLEAN
    BY <1>1, <1>2 DEF Typed
  <2>2. due' \subseteq {"focus", "image"} /\ met' \subseteq Kinds
    BY <1>1, <1>2 DEF Typed
  <2>3. picture' \in {"none", "created", "shooting", "ending"}
    BY <1>2, <1>4 DEF Typed
  <2>4. QED
    BY <1>1, <1>2, <1>4, <2>1, <2>2, <2>3 DEF Typed
<1>6. ~ started /\ NoFrame
  BY <1>1, <1>2 DEF IInv, StreamsWhileRunning, At
<1>7. NoFrame' /\ ("late" \in met' <=> "late" \in met)
  BY <1>1, <1>6 DEF NoFrame
<1>8. Leaving' /\ CallStops' /\ Alone'
  BY <1>1, <1>2, <1>4, <1>6, <1>7 DEF IInv, Leaving, CallStops, Alone, Shooting, At
<1>9. FlagLasts'
  <2>1. CASE UNCHANGED << picture, exitPending, met >>
    BY <1>1, <2>1 DEF IInv, FlagLasts, Shooting
  <2>2. CASE exitPending' = FALSE
    BY <1>1, <2>2 DEF FlagLasts
  <2>3. QED
    BY <1>1, <2>1, <2>2
<1>10. StreamsWhileRunning'
  BY <1>1, <1>2, <1>6, <1>7 DEF StreamsWhileRunning
<1>11. QED
  BY <1>5, <1>8, <1>9, <1>10 DEF IInv

LEMMA AskExitInv == ASSUME IInv, AskExit PROVE IInv'
<1>1. /\ call.pc = "cancel" /\ Goto("join") /\ exitPending' = (picture # "none") /\ due' = due \ {"image"}
      /\ met' = IF picture = "created" THEN met \cup {"skipped"} ELSE met
      /\ UNCHANGED << mPreviewRunning, mPreviewStartDeferred, window, leaked, mCaptureInProgress, picture,
                      exiting, focus, started, preview >>
  BY DEF AskExit, At, Meet, hal, rest
<1>2. Typed /\ "join" \in Pcs[call.op] /\ call.op \in {"cancel", "release"}
  BY <1>1, PlaceOf, PcsAre DEF IInv
<1>3. /\ call' = [op |-> call'.op, pc |-> call'.pc] /\ call'.op \in Ops /\ call'.pc \in Pcs[call'.op]
      /\ call'.op = call.op /\ call'.pc = "join"
  BY <1>1, <1>2, GoesTo
<1>4. Typed'
  <2>1. exitPending' \in BOOLEAN
    BY <1>1
  <2>2. due' \subseteq {"focus", "image"} /\ met' \subseteq Kinds
    BY <1>1, <1>2 DEF Typed, Kinds
  <2>3. QED
    BY <1>1, <1>2, <1>3, <2>1, <2>2 DEF Typed
<1>5. "late" \in met' <=> "late" \in met
  BY <1>1
<1>6. FlagLasts'
  <2>1. met \subseteq met' /\ (picture' = "created" => "skipped" \in met')
    BY <1>1
  <2>2. QED
    BY <1>1, <2>1 DEF IInv, FlagLasts, Shooting
<1>7. QED
  BY <1>1, <1>2, <1>3, <1>4, <1>5, <1>6 DEF IInv, Leaving, StreamsWhileRunning, CallStops, Alone, NoFrame, Shooting, At

LEMMA ReleasePreviewInv == ASSUME IInv, ReleasePreview PROVE IInv'
<1>1. /\ call.pc = "release" /\ Goto("joinPreview") /\ exiting' = TRUE /\ mPreviewRunning' = TRUE /\ WakePreview
      /\ met' = IF preview = "stopping" THEN met \cup {"unheardExit"} ELSE met
      /\ UNCHANGED << mPreviewStartDeferred, window, leaked, mCaptureInProgress, picture, exitPending,
                      focus, started, due >>
  BY DEF ReleasePreview, At, Meet, capt
<1>2. Typed /\ "joinPreview" \in Pcs[call.op] /\ call.op = "release"
  BY <1>1, PlaceOf, PcsAre DEF IInv
<1>3. /\ call' = [op |-> call'.op, pc |-> call'.pc] /\ call'.op \in Ops /\ call'.pc \in Pcs[call'.op]
      /\ call'.op = call.op /\ call'.pc = "joinPreview"
  BY <1>1, <1>2, GoesTo
<1>4. /\ preview' \in {"top", "stopping", "parked", "frame", "show", "out"}
      /\ preview' = preview \/ (preview = "parked" /\ preview' = "top")
  BY <1>1, <1>2, Wakes
<1>5. Typed'
  <2>1. exiting' \in BOOLEAN /\ mPreviewRunning' \in BOOLEAN
    BY <1>1
  <2>2. met' \subseteq Kinds
    BY <1>1, <1>2 DEF Typed, Kinds
  <2>3. QED
    BY <1>1, <1>2, <1>3, <1>4, <2>1, <2>2 DEF Typed
<1>6. /\ "late" \in met' <=> "late" \in met
      /\ "skipped" \in met' <=> "skipped" \in met
      /\ "overtaken" \in met' <=> "overtaken" \in met
  BY <1>1
<1>7. Leaving' /\ CallStops' /\ StreamsWhileRunning'
  BY <1>1, <1>2, <1>3, <1>4 DEF IInv, Leaving, CallStops, StreamsWhileRunning, At
<1>8. Alone'
  BY <1>1, <1>3, <1>4, <1>6 DEF IInv, Alone, NoFrame, Shooting, At
<1>9. FlagLasts'
  BY <1>1, <1>6 DEF IInv, FlagLasts, Shooting
<1>10. QED
  BY <1>5, <1>7, <1>8, <1>9 DEF IInv

LEMMA ReleaseFocusInv == ASSUME IInv, ReleaseFocus PROVE IInv'
<1>1. /\ call.pc = "joinPreview" /\ preview = "out" /\ Goto("joinFocus") /\ due' = due \ {"focus"}
      /\ focus' = IF focus = "parked" THEN "woken" ELSE focus
      /\ UNCHANGED << mPreviewRunning, mPreviewStartDeferred, window, leaked, mCaptureInProgress, picture,
                      exitPending, exiting, started, preview, met >>
  BY DEF ReleaseFocus, At, hal, capt
<1>2. Typed /\ "joinFocus" \in Pcs[call.op] /\ call.op = "release"
  BY <1>1, PlaceOf, PcsAre DEF IInv
<1>3. /\ call' = [op |-> call'.op, pc |-> call'.pc] /\ call'.op \in Ops /\ call'.pc \in Pcs[call'.op]
      /\ call'.op = call.op /\ call'.pc = "joinFocus"
  BY <1>1, <1>2, GoesTo
<1>4. Typed'
  <2>1. due' \subseteq {"focus", "image"} /\ focus' \in {"top", "parked", "woken", "focusing", "out"}
    BY <1>1, <1>2 DEF Typed
  <2>2. QED
    BY <1>1, <1>2, <1>3, <2>1 DEF Typed
<1>5. QED
  BY <1>1, <1>2, <1>3, <1>4 DEF IInv, Leaving, StreamsWhileRunning, CallStops, Alone, FlagLasts, NoFrame, Shooting, At

LEMMA ReleasePictureInv == ASSUME IInv, ReleasePicture PROVE IInv'
<1>1. /\ call.pc = "joinFocus" /\ Goto("cancel")
      /\ UNCHANGED << mPreviewRunning, mPreviewStartDeferred, window, leaked, mCaptureInProgress, picture,
                      exitPending, exiting, focus, started, preview, due, met >>
  BY DEF ReleasePicture, At, hal, capt, rest
<1>2. Typed /\ "cancel" \in Pcs[call.op] /\ call.op = "release"
  BY <1>1, PlaceOf, PcsAre DEF IInv
<1>3. /\ call' = [op |-> call'.op, pc |-> call'.pc] /\ call'.op \in Ops /\ call'.pc \in Pcs[call'.op]
      /\ call'.op = call.op /\ call'.pc = "cancel"
  BY <1>1, <1>2, GoesTo
<1>4. Typed'
  BY <1>1, <1>2, <1>3 DEF Typed
<1>5. QED
  BY <1>1, <1>2, <1>3, <1>4 DEF IInv, Leaving, StreamsWhileRunning, CallStops, Alone, FlagLasts, NoFrame, Shooting, At

LEMMA ReopenInv == ASSUME IInv, Reopen PROVE IInv'
<1>1. /\ call.pc = "idle" /\ call' = call /\ ~ mCaptureInProgress' /\ ~ started' /\ ~ exiting'
      /\ preview' = "top" /\ picture' = "none" /\ ~ exitPending'
  BY DEF Reopen, At
<1>2. Typed'
  <2>1. /\ mPreviewRunning' = FALSE /\ mPreviewStartDeferred' = FALSE /\ mCaptureInProgress' = FALSE
        /\ window' = FALSE /\ started' = FALSE /\ exiting' = FALSE /\ leaked' = FALSE
        /\ exitPending' = FALSE /\ focus' = "top" /\ due' = {} /\ met' = {}
    BY DEF Reopen
  <2>2. /\ call' = [op |-> call'.op, pc |-> call'.pc] /\ call'.op \in Ops /\ call'.pc \in Pcs[call'.op]
    BY <1>1 DEF IInv, Typed
  <2>3. QED
    BY <1>1, <2>1, <2>2 DEF Typed
<1>3. ~ mPreviewStartDeferred'
  BY DEF Reopen
<1>4. QED
  BY <1>1, <1>2, <1>3 DEF IInv, Leaving, StreamsWhileRunning, CallStops, Alone, FlagLasts, NoFrame, Shooting, At

-----------------------------------------------------------------------------
(* The threads' steps.                                                     *)

LEMMA PreviewTopInv == ASSUME IInv, PreviewTop PROVE IInv'
<1>1. /\ preview = "top"
      /\ \/ ~ mPreviewRunning /\ preview' = "stopping" /\ started' = started
         \/ mPreviewRunning /\ exiting /\ preview' = "out" /\ started' = FALSE
         \/ mPreviewRunning /\ ~ exiting /\ preview' = "frame" /\ started' = started
      /\ UNCHANGED << mPreviewRunning, mPreviewStartDeferred, window, leaked, mCaptureInProgress, picture,
                      exitPending, exiting, focus, call, due, met >>
  BY DEF PreviewTop, hal, capt, rest
<1>2. Typed
  BY DEF IInv
<1>3. Typed'
  <2>1. started' \in BOOLEAN
    BY <1>1, <1>2 DEF Typed
  <2>2. preview' \in {"top", "stopping", "parked", "frame", "show", "out"}
    BY <1>1
  <2>3. QED
    BY <1>1, <1>2, <2>1, <2>2 DEF Typed
<1>4. exiting => call.pc = "joinPreview" /\ call.op = "release"
  BY <1>1, <1>2, PlaceOf DEF IInv, Leaving, At
<1>5. Leaving' /\ CallStops'
  BY <1>1, <1>4 DEF IInv, Leaving, CallStops, At
<1>6. StreamsWhileRunning'
  BY <1>1 DEF IInv, StreamsWhileRunning, NoFrame, At
<1>7. Alone' /\ FlagLasts'
  BY <1>1 DEF IInv, Alone, FlagLasts, NoFrame, Shooting, At
<1>8. QED
  BY <1>3, <1>5, <1>6, <1>7 DEF IInv

LEMMA PreviewParkInv == ASSUME IInv, PreviewPark PROVE IInv'
<1>1. /\ preview = "stopping" /\ started' = FALSE /\ preview' = "parked" /\ met' = met \ {"late"}
      /\ \/ call.pc = "stopping" /\ Goto(After(call.op))
         \/ call.pc # "stopping" /\ call' = call
      /\ UNCHANGED << mPreviewRunning, mPreviewStartDeferred, window, leaked, mCaptureInProgress, picture,
                      exitPending, exiting, focus, due >>
  BY DEF PreviewPark, At, Forget, hal, capt, rest
<1>2. Typed
  BY DEF IInv
<1>3. /\ call' = [op |-> call'.op, pc |-> call'.pc] /\ call'.op \in Ops /\ call'.pc \in Pcs[call'.op]
      /\ call'.op = call.op
      /\ \/ call.pc = "stopping" /\ call'.pc \in {"return", "run", "buffers"}
         \/ call.pc # "stopping" /\ call' = call
  <2>1. CASE call.pc = "stopping"
    <3>1. call.op \in {"stop", "window", "picture"}
      BY <1>2, <2>1, PlaceOf
    <3>2. After(call.op) \in Pcs[call.op] /\ After(call.op) \in {"return", "run", "buffers"}
      BY <3>1, PcsAre DEF After
    <3>3. QED
      BY <1>1, <1>2, <2>1, <3>2, GoesTo
  <2>2. CASE call.pc # "stopping"
    BY <1>1, <1>2, <2>2 DEF Typed
  <2>3. QED
    BY <2>1, <2>2
<1>4. Typed'
  <2>1. started' \in BOOLEAN /\ met' \subseteq Kinds
    BY <1>1, <1>2 DEF Typed
  <2>2. QED
    BY <1>1, <1>2, <1>3, <2>1 DEF Typed
<1>5. call.pc = "stopping" => ~ mPreviewRunning
  BY DEF IInv, CallStops
<1>6. call'.pc = "joinPreview" <=> call.pc = "joinPreview"
  BY <1>3
<1>7. Leaving' /\ CallStops'
  BY <1>1, <1>3, <1>5, <1>6 DEF IInv, Leaving, CallStops, At
<1>8. StreamsWhileRunning'
  BY <1>1 DEF StreamsWhileRunning, NoFrame
<1>9. call.pc = "flag" => call'.pc = "flag"
  BY <1>3
<1>10. Alone'
  BY <1>1, <1>3, <1>9 DEF IInv, Alone, NoFrame, Shooting, At
<1>11. FlagLasts'
  BY <1>1 DEF IInv, FlagLasts, Shooting
<1>12. QED
  BY <1>4, <1>7, <1>8, <1>10, <1>11 DEF IInv

LEMMA PreviewFrameInv == ASSUME IInv, PreviewFrame PROVE IInv'
<1>1. /\ preview = "frame" /\ preview' \in {"show", "top"}
      /\ UNCHANGED << mPreviewRunning, mPreviewStartDeferred, window, leaked, mCaptureInProgress, picture,
                      exitPending, exiting, focus, started, call, due, met >>
  BY DEF PreviewFrame, hal, capt, rest
<1>2. Typed'
  BY <1>1 DEF IInv, Typed
<1>3. QED
  BY <1>1, <1>2 DEF IInv, Leaving, StreamsWhileRunning, CallStops, Alone, FlagLasts, NoFrame, Shooting, At

LEMMA PreviewShowInv == ASSUME IInv, PreviewShow PROVE IInv'
<1>1. /\ preview = "show" /\ preview' = "top"
      /\ UNCHANGED << mPreviewRunning, mPreviewStartDeferred, window, leaked, mCaptureInProgress, picture,
                      exitPending, exiting, focus, started, call, due, met >>
  BY DEF PreviewShow, hal, capt, rest
<1>2. Typed'
  BY <1>1 DEF IInv, Typed
<1>3. QED
  BY <1>1, <1>2 DEF IInv, Leaving, StreamsWhileRunning, CallStops, Alone, FlagLasts, NoFrame, Shooting, At

\* The autofocus thread touches nothing of the preview or the picture.
LEMMA FocusInv == ASSUME IInv, Focus PROVE IInv'
<1>1. /\ focus' \in {"top", "parked", "woken", "focusing", "out"}
      /\ due' \in {due, due \ {"focus"}}
      /\ met' \in {met, met \ {"unheard", "focusFailed"}, met \cup {"focusFailed"}}
      /\ UNCHANGED << mPreviewRunning, mPreviewStartDeferred, window, leaked, mCaptureInProgress, picture,
                      exitPending, exiting, started, call, preview >>
  BY DEF Focus, FocusTop, FocusWoken, FocusDone, Meet, Forget, hal, capt
<1>2. /\ due' \subseteq {"focus", "image"} /\ met' \subseteq Kinds
      /\ \A kind \in {"late", "overtaken", "skipped"} : kind \in met' <=> kind \in met
  BY <1>1 DEF IInv, Typed, Kinds
<1>3. Typed'
  BY <1>1, <1>2 DEF IInv, Typed
<1>4. "late" \in met' <=> "late" \in met
  BY <1>2
<1>5. ("overtaken" \in met' <=> "overtaken" \in met) /\ ("skipped" \in met' <=> "skipped" \in met)
  BY <1>2
<1>6. met' \cap {"overtaken", "skipped"} = {} <=> met \cap {"overtaken", "skipped"} = {}
  BY <1>5
<1>7. FlagLasts'
  BY <1>1, <1>5, <1>6 DEF IInv, FlagLasts, Shooting
<1>8. QED
  BY <1>1, <1>3, <1>4, <1>7 DEF IInv, Leaving, StreamsWhileRunning, CallStops, Alone, NoFrame, Shooting, At

LEMMA PictureBeginInv == ASSUME IInv, PictureBegin PROVE IInv'
<1>1. /\ picture = "created"
      /\ (exitPending /\ picture' = "ending") \/ (~ exitPending /\ picture' = "shooting")
      /\ UNCHANGED << mPreviewRunning, mPreviewStartDeferred, window, leaked, mCaptureInProgress,
                      exitPending, exiting, focus, started, call, preview, due, met >>
  BY DEF PictureBegin, hal, rest
<1>2. Typed'
  BY <1>1 DEF IInv, Typed
<1>3. FlagLasts'
  BY <1>1 DEF IInv, FlagLasts, Shooting
<1>4. QED
  BY <1>1, <1>2, <1>3 DEF IInv, Leaving, StreamsWhileRunning, CallStops, Alone, NoFrame, Shooting, At

LEMMA PictureShotInv == ASSUME IInv, PictureShot PROVE IInv'
<1>1. /\ picture = "shooting" /\ picture' = "ending" /\ mCaptureInProgress' = FALSE
      /\ due' \in {due, due \ {"image"}} /\ met' \in {met, met \cup {"pictureFailed"}}
      /\ UNCHANGED << mPreviewRunning, mPreviewStartDeferred, window, leaked, exitPending, exiting,
                      focus, started, call, preview >>
  BY DEF PictureShot, Meet, hal, rest
<1>2. /\ due' \subseteq {"focus", "image"} /\ met' \subseteq Kinds
      /\ "late" \in met' <=> "late" \in met
  BY <1>1 DEF IInv, Typed, Kinds
<1>3. mCaptureInProgress' \in BOOLEAN
  BY <1>1
<1>4. Typed'
  BY <1>1, <1>2, <1>3 DEF IInv, Typed
<1>5. QED
  BY <1>1, <1>2, <1>4 DEF IInv, Leaving, StreamsWhileRunning, CallStops, Alone, FlagLasts, NoFrame, Shooting, At

LEMMA PictureEndInv == ASSUME IInv, PictureEnd PROVE IInv'
<1>1. /\ picture = "ending" /\ picture' = "none"
      /\ UNCHANGED << mPreviewRunning, mPreviewStartDeferred, window, leaked, mCaptureInProgress,
                      exitPending, exiting, focus, started, call, preview, due, met >>
  BY DEF PictureEnd, hal, rest
<1>2. Typed'
  BY <1>1 DEF IInv, Typed
<1>3. QED
  BY <1>1, <1>2 DEF IInv, Leaving, StreamsWhileRunning, CallStops, Alone, FlagLasts, NoFrame, Shooting, At

LEMMA StepInv == IInv /\ [Next]_vars => IInv'
<1> SUFFICES ASSUME IInv, [Next]_vars PROVE IInv'
  OBVIOUS
<1>1. CASE Call
  BY <1>1, CallInv
<1>2. CASE Reopen
  BY <1>2, ReopenInv
<1>3. CASE Client
  BY <1>3, TimeOutInv, SetParametersInv, StartPreviewInv, StopInv, StopReturnsInv, StoreWindowInv,
     ChangeWindowInv, PrepareWindowInv, AutoFocusInv, RunPictureInv, SetCaptureFlagInv, AskExitInv,
     JoinedInv, ReleasePreviewInv, ReleaseFocusInv, ReleasePictureInv
     DEF Client
<1>4. CASE Preview
  BY <1>4, PreviewTopInv, PreviewParkInv, PreviewFrameInv, PreviewShowInv DEF Preview
<1>5. CASE Focus
  BY <1>5, FocusInv
<1>6. CASE Picture
  BY <1>6, PictureBeginInv, PictureShotInv, PictureEndInv DEF Picture
<1>7. CASE UNCHANGED vars
  BY <1>7 DEF IInv, vars, hal, capt, rest, Typed, Leaving, StreamsWhileRunning, CallStops, Alone, FlagLasts, NoFrame, Shooting, At
<1>8. QED
  BY <1>1, <1>2, <1>3, <1>4, <1>5, <1>6, <1>7 DEF Next

-----------------------------------------------------------------------------
(* What it gives.                                                          *)

LEMMA TypesHold == IInv => TypeOK
<1> SUFFICES ASSUME IInv PROVE TypeOK
  OBVIOUS
<1>1. Typed
  BY DEF IInv
<1>2. DOMAIN Pcs = Ops
  BY DEF Pcs, Ops
<1>3. \A b \in {mPreviewRunning, mPreviewStartDeferred, mCaptureInProgress, window, started,
                exiting, leaked, exitPending} : b \in BOOLEAN
  BY <1>1 DEF Typed
<1>4. QED
  BY <1>1, <1>2, <1>3 DEF TypeOK, Typed

LEMMA StoppedHolds == IInv => StoppedIsStopped
<1> SUFFICES ASSUME IInv, call.pc = "idle", ~ mPreviewRunning, preview # "out"
             PROVE  (preview \notin {"frame", "show"} \/ "late" \in met) /\ (~ started \/ preview = "top")
  BY DEF StoppedIsStopped, At
<1>1. QED
  BY DEF IInv, StreamsWhileRunning, NoFrame, At

LEMMA PictureHolds == IInv => PictureSafe
<1> SUFFICES ASSUME IInv PROVE PictureSafe
  OBVIOUS
<1>1. PictureHasSensor
  BY DEF IInv, Alone, NoFrame, Shooting, PictureHasSensor
<1>2. CaptureFlagTrue
  BY DEF IInv, Alone, FlagLasts, Shooting, CaptureFlagTrue, At
<1>3. QED
  BY <1>1, <1>2 DEF PictureSafe

LEMMA InvHolds == Spec => []IInv
BY InitInv, StepInv, PTL DEF Spec

\* For any sequence of calls and any interleaving of the threads: between calls a preview
\* that is stopped is out of the device and the window, and the device does not stream
\* (stopPreviewInternal(), previewThreadWrapper()).
THEOREM StoppedPreviewIsOut == Spec => []PreviewSound
<1>1. IInv => PreviewSound
  BY TypesHold, StoppedHolds DEF PreviewSound
<1>2. QED
  BY <1>1, InvHolds, PTL

\* The same for the picture thread: the sensor is its own from its start to the end of its
\* capture, and between calls mCaptureInProgress says so, unless the thread overtook
\* takePicture() or was told to exit before it began (takePicture(), pictureThread()).
THEOREM PictureAlone == Spec => []PictureSafe
BY PictureHolds, InvHolds, PTL

=============================================================================
