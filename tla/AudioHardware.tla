---------------------------- MODULE AudioHardware ----------------------------
(***************************************************************************)
(* The audio HAL (src/libaudio/AudioHardware.cpp): the output and the      *)
(* input stream, the reference counts of the playback pcm and the mixer,   *)
(* the call mode, the echo reference, and the three mutexes that protect   *)
(* them, which the code says are taken in the order out -> in -> hw.       *)
(*                                                                         *)
(* A step waits for one mutex and then does everything up to the next      *)
(* mutex it has to wait for; what it touches is protected by the mutexes   *)
(* it holds, so nothing can come between.  A mutex is not recursive.       *)
(*                                                                         *)
(* mStandbyCnt is only ever compared with an earlier value: `fresh' holds  *)
(* the threads for which it has not changed since their prepareLock().     *)
(* The calls into the RIL client (with mActivatedCP), mInputSource, volume *)
(* and the frames leave no trace in this state.  FM radio is not built.    *)
(* One output and one input object exist at a time.                        *)
(***************************************************************************)
EXTENDS Naturals

CONSTANTS
  Player, Recorder,  \* AudioFlinger's playback and record threads
  Control,           \* the thread that calls setMode and setMicMute
  Manager,           \* the thread that opens and closes streams and adds effects
  Failures,          \* what can fail to open: "pcm", "mixer", "capture", "echo" of a
                     \* stream, "call" for the pcm and the mixer of a call
  EchoUsed,          \* effects that need an echo reference are added
  StreamsClose,      \* streams are closed and opened again
  MuteUsed           \* the microphone is muted and unmuted

Threads == {Player, Recorder, Control, Manager}
Modes == {"normal", "ringtone", "in_call"}

ASSUME FourThreads ==
  /\ Player # Recorder /\ Player # Control /\ Player # Manager
  /\ Recorder # Control /\ Recorder # Manager /\ Control # Manager
ASSUME FailureKinds == Failures \subseteq {"pcm", "mixer", "capture", "echo", "call"}
ASSUME Switches == {EchoUsed, StreamsClose, MuteUsed} \subseteq BOOLEAN

VARIABLES
  hal,     \* the state of AudioHardware and of its two streams; `call' is a history
           \* field: what setMode() itself has opened and not closed
  thread,  \* Threads -> [at, ret, then, mode]
  held     \* Threads -> the mutexes it holds

vars == << hal, thread, held >>

\* The mutex a thread waits for at each point of the program.
Waits == [ w_out |-> "out", w_hw |-> "hw", w_in |-> "in", w_hw2 |-> "hw",
           r_in |-> "in", r_hw |-> "hw", r_out |-> "out", r_in2 |-> "in", r_hw2 |-> "hw",
           so_out |-> "out", so_hw |-> "hw", si_in |-> "in", si_hw |-> "hw",
           d_out |-> "out", d_in |-> "in", d_hw |-> "hw",
           ro_out |-> "out", ro_hw |-> "hw", ri_in |-> "in", ri_hw |-> "hw",
           m_hw |-> "hw", m_out |-> "out", m_hw2 |-> "hw", m_in |-> "in", m_hw3 |-> "hw",
           mute_hw |-> "hw", co_hw |-> "hw", ci_hw |-> "hw" ]

Free(l) == \A u \in Threads : l \notin held[u]

\* Thread t is at p and gets the mutex it waits for.
Got(t, p) == thread[t].at = p /\ Free(Waits[p])

\* Thread t goes on to p with the HAL in state s and the mutexes h.
Move(t, p, s, h) ==
  /\ thread' = [thread EXCEPT ![t].at = p]
  /\ hal' = s
  /\ held' = [held EXCEPT ![t] = h]

Opens(what) == IF what \in Failures THEN BOOLEAN ELSE {TRUE}

-----------------------------------------------------------------------------
(* What the methods called with the mutexes held do to the state.            *)
(* Definitions named X_Slip are X with a plausible mistake; no action uses   *)
(* them.                                                                     *)

\* ok: whether pcm_open() of the first opener succeeds.
openPcmOut_l(s, ok) == IF s.mPcmOpenCnt > 0 \/ ok THEN [s EXCEPT !.mPcmOpenCnt = @ + 1] ELSE s
closePcmOut_l(s) == IF s.mPcmOpenCnt > 0 THEN [s EXCEPT !.mPcmOpenCnt = @ - 1] ELSE s
openMixer_l(s, ok) == IF s.mMixerOpenCnt > 0 \/ ok THEN [s EXCEPT !.mMixerOpenCnt = @ + 1] ELSE s
closeMixer_l(s) == IF s.mMixerOpenCnt > 0 THEN [s EXCEPT !.mMixerOpenCnt = @ - 1] ELSE s

\* AudioStreamOutALSA::open_l.
OpenOut(s, pcm, mixer) ==
  LET s1 == openPcmOut_l(s, pcm)
      s2 == openMixer_l(s1, mixer)
  IN IF s1.mPcmOpenCnt = 0 THEN [s1 EXCEPT !.out.mPcm = FALSE]
     ELSE [s2 EXCEPT !.out.mPcm = TRUE, !.out.mMixer = s2.mMixerOpenCnt > 0]

\* AudioStreamOutALSA::close_l.
CloseOut_Slip(s) == LET s1 == IF s.out.mPcm THEN closePcmOut_l(s) ELSE s
                    IN [s1 EXCEPT !.out.mPcm = FALSE]
CloseOut(s) ==
  LET s1 == IF s.out.mMixer THEN closeMixer_l(s) ELSE s
      s2 == IF s.out.mPcm THEN closePcmOut_l(s1) ELSE s1
  IN [s2 EXCEPT !.out.mMixer = FALSE, !.out.mPcm = FALSE]

\* AudioStreamOutALSA::doStandby_l.
StandbyOut_Slip(s) == CloseOut([s EXCEPT !.out.fresh = {}, !.out.mStandby = TRUE])
StandbyOut(s) ==
  CloseOut([s EXCEPT !.out.fresh = {}, !.out.mStandby = TRUE,
                     !.out.wakeLock = @ /\ s.out.mStandby])

\* AudioStreamInALSA::open_l; the route is left alone in a call.
OpenIn_Slip(s, pcm, mixer) ==
  IF ~ pcm THEN [s EXCEPT !.in.mPcm = FALSE]
  ELSE LET s1 == openMixer_l(s, mixer)
       IN [s1 EXCEPT !.in.mPcm = TRUE, !.in.mMixer = s1.mMixerOpenCnt > 0]
OpenIn(s, pcm, mixer) ==
  IF ~ pcm THEN [s EXCEPT !.in.mPcm = FALSE]
  ELSE LET s1 == openMixer_l(s, mixer)
           got == s1.mMixerOpenCnt > 0
       IN [s1 EXCEPT !.in.mPcm = TRUE, !.in.mMixer = got,
                     !.muted = IF got /\ s.mMode # "in_call" THEN s.mMicMute ELSE @]

\* AudioStreamInALSA::close_l.
CloseIn(s) == [ (IF s.in.mMixer THEN closeMixer_l(s) ELSE s)
                EXCEPT !.in.mMixer = FALSE, !.in.mPcm = FALSE ]

\* AudioStreamInALSA::doStandby_l: it has to let go of the mutexes to give the
\* echo reference back, if it has one and there is an output.
NeedsDance(s) == ~ s.in.mStandby /\ s.in.mEchoReference /\ s.mOutput
CountIn(s) == [s EXCEPT !.in.fresh = {}]
StandbyIn(s) == CloseIn([s EXCEPT !.in.mStandby = TRUE, !.in.mEchoReference = FALSE])

\* given: whether the reference given back is the one the HAL holds.
releaseEchoReference_Slip(s, given) == [s EXCEPT !.mEchoReference = @ /\ ~ given]
releaseEchoReference(s, given) ==
  [s EXCEPT !.mEchoReference = @ /\ ~ given,
            !.out.mEchoReference = @ /\ ~ (given /\ s.mEchoReference /\ s.mOutput)]

\* ok: whether create_echo_reference() succeeds.
getEchoReference(s, ok) ==
  LET s1 == releaseEchoReference(s, TRUE)
  IN [s1 EXCEPT !.mEchoReference = ok, !.out.mEchoReference = @ \/ ok, !.in.mEchoReference = ok]

ActiveInput(s) == s.mInput /\ ~ s.in.mStandby

\* prepareLock() of a stream the thread takes a reference to.
PrepareOut(t, s) == [s EXCEPT !.out.refs = @ \cup {t}, !.out.fresh = @ \cup {t}]
PrepareIn(t, s) == [s EXCEPT !.in.refs = @ \cup {t}, !.in.fresh = @ \cup {t}]
DropOut(t, s) == [s EXCEPT !.out.refs = @ \ {t}, !.out.fresh = @ \ {t}]
DropIn(t, s) == [s EXCEPT !.in.refs = @ \ {t}, !.in.fresh = @ \ {t}]

\* Dropping t's reference destroys the stream, whose destructor calls standby().
LastOut(t, s) == t \in s.out.refs /\ ~ s.mOutput /\ s.out.refs = {t}
LastIn(t, s) == t \in s.in.refs /\ ~ s.mInput /\ s.in.refs = {t}

-----------------------------------------------------------------------------
(* Standby.  A thread comes here from a call of standby(), from an error in   *)
(* write() or read(), or from the destructor of a stream.                     *)

\* standby() of the input has returned: drop a reference held across it, and go on.
FinishIn(t, s) ==
  IF LastIn(t, s) THEN Move(t, "si_in", DropIn(t, s), {})
  ELSE /\ thread' = [thread EXCEPT ![t].at = thread[t].then, ![t].then = "idle"]
       /\ hal' = DropIn(t, s)
       /\ held' = [held EXCEPT ![t] = {}]

standbyOut(t) == Got(t, "so_out") /\ Move(t, "so_hw", hal, held[t] \cup {"out"})
standbyOutHw(t) == Got(t, "so_hw") /\ Move(t, "idle", StandbyOut(hal), {})

standbyIn(t) == Got(t, "si_in") /\ Move(t, "si_hw", hal, held[t] \cup {"in"})

\* doStandby_l() of the input, with h held besides in and hw; `ret' is where it
\* was called from.
DoStandbyIn(t, s, h, ret) ==
  /\ NeedsDance(s)
  /\ thread' = [thread EXCEPT ![t].at = "d_out", ![t].ret = ret]
  /\ hal' = PrepareOut(t, CountIn(s))
  /\ held' = [held EXCEPT ![t] = h]

standbyInHw(t) ==
  /\ Got(t, "si_hw")
  /\ \/ DoStandbyIn(t, hal, {}, "standby")
     \/ ~ NeedsDance(hal) /\ FinishIn(t, StandbyIn(CountIn(hal)))

\* The mutexes in the order out -> in -> hw again.
retakeOut(t) == Got(t, "d_out") /\ Move(t, "d_in", hal, held[t] \cup {"out"})
retakeIn(t) == Got(t, "d_in") /\ Move(t, "d_hw", hal, held[t] \cup {"in"})

-----------------------------------------------------------------------------
(* setMode: take the mutex of every stream that is active, then switch. *)

OutHeld(t, s) == IF t \in s.out.refs THEN {"out"} ELSE {}

\* The end of setMode: every mutex is released before the references go.
EndSetMode(t, s) ==
  LET s1 == DropOut(t, DropIn(t, s))
      after == IF LastOut(t, s) THEN "so_out" ELSE "idle"
  IN /\ thread' = [thread EXCEPT ![t].at = IF LastIn(t, s) THEN "si_in" ELSE after,
                                 ![t].then = IF LastIn(t, s) THEN after ELSE "idle",
                                 ![t].mode = "normal", ![t].ret = "standby"]
     /\ hal' = s1
     /\ held' = [held EXCEPT ![t] = {}]

\* Into the call: the HAL itself opens the pcm and the mixer, whatever comes of it.
EnterCall(s, pcm, mixer) ==
  LET s1 == openPcmOut_l(s, pcm)
      s2 == openMixer_l(s1, mixer)
  IN [s2 EXCEPT !.mInCallAudioMode = TRUE, !.call = [pcm   |-> s1.mPcmOpenCnt > s.mPcmOpenCnt,
                                                     mixer |-> s2.mMixerOpenCnt > s1.mMixerOpenCnt]]
EndEnter(t, s) == \E pcm, mixer \in Opens("call") : EndSetMode(t, EnterCall(s, pcm, mixer))
\* Out of the call both are closed, had they been opened or not.
NoCall == [pcm |-> FALSE, mixer |-> FALSE]
LeaveCall(s) == [closePcmOut_l(closeMixer_l(s)) EXCEPT !.call = NoCall]
LeftCall(s) == [s EXCEPT !.mInCallAudioMode = FALSE]

\* With the mutexes of the active streams: the mode, and the audio path with it.
\* spOut is t's reference to the output, spIn its reference to the input.
Switch(t, s) ==
  LET m == thread[t].mode
      s1 == [s EXCEPT !.mMode = m]
      enter == m = "in_call" /\ ~ s.mInCallAudioMode
      leave == m = "normal" /\ s.mInCallAudioMode
      s2 == IF leave THEN LeaveCall(s1) ELSE s1
      s3 == IF t \in s.out.refs THEN StandbyOut(s2) ELSE s2
      s4 == IF t \in s.in.refs THEN StandbyIn(CountIn(s3)) ELSE s3
      dance == t \in s.in.refs /\ NeedsDance(s3)
  IN \/ /\ s.mMode = m \/ ~ (enter \/ leave)
        /\ EndSetMode(t, s1)
     \/ /\ s.mMode # m /\ (enter \/ leave) /\ dance
        /\ DoStandbyIn(t, s3, OutHeld(t, s), IF enter THEN "enter" ELSE "leave")
     \/ /\ s.mMode # m /\ enter /\ ~ dance
        /\ EndEnter(t, s4)
     \/ /\ s.mMode # m /\ leave /\ ~ dance
        /\ EndSetMode(t, LeftCall(s4))

\* The second loop, with the output's mutex if it is active.
ScanIn_Slip(t, s) == Switch(t, s)
ScanIn(t, s) ==
  \/ ActiveInput(s) /\ Move(t, "m_in", PrepareIn(t, s), OutHeld(t, s))
  \/ ~ ActiveInput(s) /\ LastIn(t, s) /\ Move(t, "si_in", DropIn(t, s), OutHeld(t, s) \cup {"hw"})
  \/ ~ ActiveInput(s) /\ ~ LastIn(t, s) /\ Switch(t, DropIn(t, s))

\* The first loop.
ScanOut(t, s) ==
  \/ /\ s.mOutput /\ ~ s.out.mStandby
     /\ Move(t, "m_out", PrepareOut(t, s), {})
  \/ LastOut(t, s) /\ Move(t, "so_out", DropOut(t, s), {"hw"})
  \/ /\ ~ (s.mOutput /\ ~ s.out.mStandby) /\ ~ LastOut(t, s)
     /\ ScanIn(t, DropOut(t, s))

setMode(t, m) ==
  /\ thread[t].at = "idle"
  /\ thread' = [thread EXCEPT ![t].at = "m_hw", ![t].mode = m]
  /\ UNCHANGED << hal, held >>

setModeHw(t) == Got(t, "m_hw") /\ ScanOut(t, hal)
setModeOut(t) == Got(t, "m_out") /\ Move(t, "m_hw2", hal, {"out"})
setModeCheckOut(t) ==
  /\ Got(t, "m_hw2")
  /\ \/ hal.mOutput /\ t \in hal.out.fresh /\ ScanIn(t, hal)
     \/ ~ (hal.mOutput /\ t \in hal.out.fresh) /\ ScanOut(t, hal)
setModeIn(t) == Got(t, "m_in") /\ Move(t, "m_hw3", hal, held[t] \cup {"in"})
setModeCheckIn(t) ==
  /\ Got(t, "m_hw3")
  /\ \/ ActiveInput(hal) /\ t \in hal.in.fresh /\ Switch(t, hal)
     \/ ~ (ActiveInput(hal) /\ t \in hal.in.fresh) /\ ScanIn(t, hal)

\* The end of the dance: give the echo reference back, unlock the output, and
\* go on with doStandby_l and with what called it.
danced(t) ==
  /\ Got(t, "d_hw")
  /\ LET s == releaseEchoReference(hal, hal.in.mEchoReference)
         s1 == StandbyIn(DropOut(t, s))
     IN \/ LastOut(t, s) /\ Move(t, "so_out", DropOut(t, s), {"in", "hw"})
        \/ /\ ~ LastOut(t, s)
           /\ \/ thread[t].ret = "standby" /\ FinishIn(t, s1)
              \/ thread[t].ret = "enter" /\ EndEnter(t, s1)
              \/ thread[t].ret = "leave" /\ EndSetMode(t, LeftCall(s1))

setMicMute(t) ==
  /\ MuteUsed
  /\ thread[t].at = "idle"
  /\ Move(t, "mute_hw", hal, {})

setMicMuteHw(t) ==
  /\ Got(t, "mute_hw")
  /\ LET s == [hal EXCEPT !.mMicMute = ~ @]
     IN IF s.mMode # "in_call" /\ ActiveInput(s)
        THEN Move(t, "si_in", [s EXCEPT !.in.refs = @ \cup {t}], {})
        ELSE Move(t, "idle", s, {})

-----------------------------------------------------------------------------
(* The playback thread. *)

\* AudioFlinger does not use a stream it is closing.
OutUsable == hal.mOutput /\ \A u \in Threads : thread[u].at # "co_hw"
InUsable == hal.mInput /\ \A u \in Threads : thread[u].at # "ci_hw"

write == thread[Player].at = "idle" /\ OutUsable /\ Move(Player, "w_out", hal, {})

writeOut ==
  /\ Got(Player, "w_out")
  /\ Move(Player, IF hal.out.mStandby THEN "w_hw" ELSE "w_use", hal, {"out"})

\* The output is opened, and its opening decides whether it leaves standby; on
\* the way out of the block hw and the input's mutex are released.
LeaveOutStandby(s) ==
  \/ s.out.mPcm /\ Move(Player, "w_use", [s EXCEPT !.out.mStandby = FALSE], {"out"})
  \/ ~ s.out.mPcm /\ Move(Player, "so_out", [s EXCEPT !.out.wakeLock = FALSE], {})

OpenOutput(s) == \E pcm \in Opens("pcm"), mixer \in Opens("mixer") : LeaveOutStandby(OpenOut(s, pcm, mixer))

writeHw ==
  /\ Got(Player, "w_hw")
  /\ LET s == [hal EXCEPT !.out.wakeLock = TRUE]
     IN \/ ActiveInput(s) /\ Move(Player, "w_in", PrepareIn(Player, s), {"out"})
        \/ ~ ActiveInput(s) /\ OpenOutput(s)

writeIn == Got(Player, "w_in") /\ Move(Player, "w_hw2", hal, {"out", "in"})

\* The active input is closed around the opening of the output.
Reopen(s, pcm, mixer, cap, mixer2) == OpenIn(OpenOut(CloseIn(s), pcm, mixer), cap, mixer2)

writeCheckIn ==
  /\ Got(Player, "w_hw2")
  /\ LET same == ActiveInput(hal) /\ Player \in hal.in.fresh
     IN \/ /\ same
           /\ \E pcm \in Opens("pcm"), mixer, mixer2 \in Opens("mixer"), cap \in Opens("capture") :
                LET s == Reopen(hal, pcm, mixer, cap, mixer2)
                IN \/ s.in.mPcm /\ LeaveOutStandby(DropIn(Player, s))
                   \/ ~ s.in.mPcm /\ DoStandbyIn(Player, s, {"out"}, "write")
                   \/ /\ ~ s.in.mPcm /\ ~ NeedsDance(s)
                      /\ LeaveOutStandby(DropIn(Player, StandbyIn(CountIn(s))))
        \/ /\ ~ same /\ ActiveInput(hal)
           /\ Move(Player, "w_in", PrepareIn(Player, hal), {"out"})
        \/ /\ ~ same /\ ~ ActiveInput(hal)
           /\ IF LastIn(Player, hal) THEN Move(Player, "si_in", DropIn(Player, hal), {"out", "hw"})
              ELSE OpenOutput(DropIn(Player, hal))

\* pcm_write() with the output's mutex held; an error leads to standby().
writeFrames ==
  /\ thread[Player].at = "w_use"
  /\ \E p \in {"idle", "so_out"} : Move(Player, p, hal, {})

standbyOutput == thread[Player].at = "idle" /\ OutUsable /\ Move(Player, "so_out", hal, {})

\* AudioStreamOutALSA::setParameters with another device.
routeOutput == thread[Player].at = "idle" /\ OutUsable /\ Move(Player, "ro_out", hal, {})
routeOutputOut == Got(Player, "ro_out") /\ Move(Player, "ro_hw", hal, {"out"})
routeOutputHw ==
  /\ Got(Player, "ro_hw")
  /\ Move(Player, "idle", IF hal.mMode = "in_call" THEN hal ELSE StandbyOut(hal), {})

-----------------------------------------------------------------------------
(* The record thread. *)

read == thread[Recorder].at = "idle" /\ InUsable /\ Move(Recorder, "r_in", hal, {})

readIn ==
  /\ Got(Recorder, "r_in")
  /\ Move(Recorder, IF hal.in.mStandby THEN "r_hw" ELSE "r_use", hal, {"in"})

\* The input is opened, and leaves standby or the call fails.
OpenInput(s) ==
  \E cap \in Opens("capture"), mixer \in Opens("mixer") :
    LET s1 == OpenIn(s, cap, mixer)
    IN \/ s1.in.mPcm /\ Move(Recorder, "r_use", [s1 EXCEPT !.in.mStandby = FALSE], {"in"})
       \/ ~ s1.in.mPcm /\ Move(Recorder, "si_in", s1, {})

\* While there is an output its mutex is taken first, after letting go of both.
KeptForOut_Slip == {"in"}
KeptForOut == {}

readHw ==
  /\ Got(Recorder, "r_hw")
  /\ \/ hal.mOutput /\ Move(Recorder, "r_out", PrepareOut(Recorder, hal), KeptForOut)
     \/ ~ hal.mOutput /\ OpenInput(hal)

readOut == Got(Recorder, "r_out") /\ Move(Recorder, "r_in2", hal, held[Recorder] \cup {"out"})
readIn2 == Got(Recorder, "r_in2") /\ Move(Recorder, "r_hw2", hal, {"out", "in"})

\* An active output is closed and opened again before the input is opened, and
\* the echo reference is made if an effect wants one.
readCheckOut ==
  /\ Got(Recorder, "r_hw2")
  /\ \/ /\ hal.mOutput
        /\ \E pcm \in Opens("pcm"), mixer \in Opens("mixer"), echo \in Opens("echo") :
             LET s == OpenOut(CloseOut(hal), pcm, mixer)
                 s1 == IF hal.out.mStandby THEN hal
                       ELSE IF s.out.mPcm THEN s ELSE StandbyOut(s)
                 s2 == IF s1.in.mNeedEchoReference /\ ~ s1.in.mEchoReference
                       THEN getEchoReference(s1, echo) ELSE s1
             IN OpenInput(DropOut(Recorder, s2))
     \/ /\ ~ hal.mOutput
        /\ IF LastOut(Recorder, hal) THEN Move(Recorder, "so_out", DropOut(Recorder, hal), {"in", "hw"})
           ELSE OpenInput(DropOut(Recorder, hal))

\* pcm_read() with the input's mutex held; an error leads to standby().
readFrames ==
  /\ thread[Recorder].at = "r_use"
  /\ \E p \in {"idle", "si_in"} : Move(Recorder, p, hal, {})

standbyInput == thread[Recorder].at = "idle" /\ InUsable /\ Move(Recorder, "si_in", hal, {})

\* AudioStreamInALSA::setParameters with another device.
routeInput == thread[Recorder].at = "idle" /\ InUsable /\ Move(Recorder, "ri_in", hal, {})
routeInputIn == Got(Recorder, "ri_in") /\ Move(Recorder, "ri_hw", hal, {"in"})
routeInputHw ==
  /\ Got(Recorder, "ri_hw")
  /\ \/ hal.mMode = "in_call" /\ Move(Recorder, "idle", hal, {})
     \/ hal.mMode # "in_call" /\ DoStandbyIn(Recorder, hal, {}, "standby")
     \/ /\ hal.mMode # "in_call" /\ ~ NeedsDance(hal)
        /\ Move(Recorder, "idle", StandbyIn(CountIn(hal)), {})

-----------------------------------------------------------------------------
(* The thread that opens and closes streams and adds effects. *)

NoOut == [mStandby |-> TRUE, mPcm |-> FALSE, mMixer |-> FALSE, mEchoReference |-> FALSE,
          wakeLock |-> FALSE, fresh |-> {}, refs |-> {}]
NoIn == [mStandby |-> TRUE, mPcm |-> FALSE, mMixer |-> FALSE, mEchoReference |-> FALSE,
         mNeedEchoReference |-> FALSE, fresh |-> {}, refs |-> {}]

ManagerIdle == thread[Manager].at = "idle"

closeOutputStream ==
  /\ StreamsClose /\ ManagerIdle
  /\ hal.mOutput /\ thread[Player].at = "idle"
  /\ Move(Manager, "co_hw", hal, {})

\* With an echo reference out, the active input goes to standby first.
closeOutputHw ==
  /\ Got(Manager, "co_hw")
  /\ LET s == [hal EXCEPT !.mOutput = FALSE]
         last == hal.out.refs = {}
         after == IF last THEN "so_out" ELSE "idle"
     IN IF s.mEchoReference /\ ActiveInput(s)
        THEN /\ thread' = [thread EXCEPT ![Manager].at = "si_in", ![Manager].then = "drop"]
             /\ hal' = [s EXCEPT !.out.refs = @ \cup {Manager}, !.in.refs = @ \cup {Manager}]
             /\ UNCHANGED held
        ELSE Move(Manager, after, s, {})

\* spOut.clear() at the end of closeOutputStream.
dropOutput ==
  /\ thread[Manager].at = "drop"
  /\ Move(Manager, IF LastOut(Manager, hal) THEN "so_out" ELSE "idle", DropOut(Manager, hal), {})

closeInputStream ==
  /\ StreamsClose /\ ManagerIdle
  /\ hal.mInput /\ thread[Recorder].at = "idle"
  /\ Move(Manager, "ci_hw", hal, {})

closeInputHw ==
  /\ Got(Manager, "ci_hw")
  /\ Move(Manager, IF hal.in.refs = {} THEN "si_in" ELSE "idle", [hal EXCEPT !.mInput = FALSE], {})

\* Streams are opened again once the old object is gone.
openOutputStream ==
  /\ StreamsClose /\ ManagerIdle /\ Free("hw")
  /\ ~ hal.mOutput /\ hal.out.refs = {}
  /\ \A u \in Threads : thread[u].at \notin {"so_out", "so_hw"} /\ thread[u].then # "so_out"
  /\ Move(Manager, "idle", [hal EXCEPT !.mOutput = TRUE, !.out = NoOut], {})

openInputStream ==
  /\ StreamsClose /\ ManagerIdle /\ Free("hw")
  /\ ~ hal.mInput /\ hal.in.refs = {}
  /\ \A u \in Threads : thread[u].at \notin {"si_in", "si_hw", "d_out", "d_in", "d_hw"}
  /\ Move(Manager, "idle", [hal EXCEPT !.mInput = TRUE, !.in = NoIn], {})

\* addAudioEffect and removeAudioEffect of an effect that cancels echo: the flag is
\* set without a mutex, and standby() makes the next read() act on it.
changeEffect ==
  /\ EchoUsed /\ ManagerIdle /\ hal.mInput
  /\ Move(Manager, "si_in", [hal EXCEPT !.in.mNeedEchoReference = ~ @], {})

-----------------------------------------------------------------------------
Init ==
  /\ hal = [mMode |-> "normal", mMicMute |-> FALSE, muted |-> FALSE, mInCallAudioMode |-> FALSE,
            mPcmOpenCnt |-> 0, mMixerOpenCnt |-> 0, mEchoReference |-> FALSE, call |-> NoCall,
            mOutput |-> TRUE, mInput |-> TRUE, out |-> NoOut, in |-> NoIn]
  /\ thread = [t \in Threads |-> [at |-> "idle", ret |-> "standby", then |-> "idle", mode |-> "normal"]]
  /\ held = [t \in Threads |-> {}]

Standby(t) == \/ standbyOut(t) \/ standbyOutHw(t) \/ standbyIn(t) \/ standbyInHw(t)
              \/ retakeOut(t) \/ retakeIn(t) \/ danced(t)

ControlStep == \/ setModeHw(Control) \/ setModeOut(Control) \/ setModeCheckOut(Control)
               \/ setModeIn(Control) \/ setModeCheckIn(Control) \/ setMicMuteHw(Control)

PlayerStep == \/ writeOut \/ writeHw \/ writeIn \/ writeCheckIn \/ writeFrames
              \/ routeOutputOut \/ routeOutputHw

RecorderStep == \/ readIn \/ readHw \/ readOut \/ readIn2 \/ readCheckOut \/ readFrames
                \/ routeInputIn \/ routeInputHw

ManagerStep == closeOutputHw \/ dropOutput \/ closeInputHw

Call == \/ \E m \in Modes : setMode(Control, m)
        \/ setMicMute(Control)
        \/ write \/ standbyOutput \/ routeOutput
        \/ read \/ standbyInput \/ routeInput
        \/ closeOutputStream \/ closeInputStream \/ openOutputStream \/ openInputStream
        \/ changeEffect

Next == \/ Call \/ PlayerStep \/ RecorderStep \/ ControlStep \/ ManagerStep
        \/ \E t \in Threads : Standby(t)

Spec == Init /\ [][Next]_vars

\* A thread whose mutex is free goes on.
FairSpec == /\ Spec
            /\ WF_vars(PlayerStep) /\ WF_vars(RecorderStep) /\ WF_vars(ControlStep) /\ WF_vars(ManagerStep)
            /\ \A t \in Threads : WF_vars(Standby(t))

-----------------------------------------------------------------------------
Points == DOMAIN Waits \cup {"idle", "w_use", "r_use", "drop"}
OutRecords == [mStandby : BOOLEAN, mPcm : BOOLEAN, mMixer : BOOLEAN, mEchoReference : BOOLEAN,
               wakeLock : BOOLEAN, fresh : SUBSET Threads, refs : SUBSET Threads]
InRecords == [mStandby : BOOLEAN, mPcm : BOOLEAN, mMixer : BOOLEAN, mEchoReference : BOOLEAN,
              mNeedEchoReference : BOOLEAN, fresh : SUBSET Threads, refs : SUBSET Threads]

TypeOK ==
  /\ hal \in [mMode : Modes, mMicMute : BOOLEAN, muted : BOOLEAN, mInCallAudioMode : BOOLEAN,
              mPcmOpenCnt : 0 .. 2, mMixerOpenCnt : 0 .. 3, mEchoReference : BOOLEAN,
              call : [pcm : BOOLEAN, mixer : BOOLEAN], mOutput : BOOLEAN, mInput : BOOLEAN, out : OutRecords, in : InRecords]
  /\ thread \in [Threads -> [at : Points, ret : {"standby", "enter", "leave", "write"},
                             then : {"idle", "so_out", "drop"}, mode : Modes]]
  /\ held \in [Threads -> SUBSET {"out", "in", "hw"}]

Rank == [out |-> 1, in |-> 2, hw |-> 3]

\* "Mutex acquisition order is always out -> in -> hw" (AudioHardware.cpp:444): a
\* thread waits for a mutex only while those it holds come before it in that
\* order; so no thread waits for itself and no threads wait for each other.
LockOrder ==
  \A t \in Threads : thread[t].at \in DOMAIN Waits =>
    \A l \in held[t] : Rank[l] < Rank[Waits[thread[t].at]]

\* A stream in standby holds no pcm, no mixer and no wake lock, an active one has
\* its pcm open and keeps the device awake, whoever put it there.  (An input that
\* write() failed to open again is on its way to standby, echo reference first.)
StreamsConsistent ==
  /\ Free("out") =>
       /\ hal.out.mStandby => ~ hal.out.mPcm /\ ~ hal.out.mMixer /\ ~ hal.out.wakeLock
       /\ ~ hal.out.mStandby => hal.out.mPcm /\ hal.out.wakeLock
  /\ Free("in") =>
       /\ hal.in.mStandby => ~ hal.in.mPcm /\ ~ hal.in.mMixer
       /\ ~ hal.in.mStandby => hal.in.mPcm \/ thread[Player].ret = "write"

\* The streams are sound: of their types, and in standby exactly when they hold nothing.
StreamsSound == TypeOK /\ StreamsConsistent

One(b) == IF b THEN 1 ELSE 0

\* The reference counts are exact: the playback pcm and the mixer are open for as
\* long as a stream or the call uses them, and closed when nobody does.  Refuted with
\* "call" in Failures: setMode() closes for a call what it could not open for it
\* (AudioHardware.cpp, lines 506 and 526), and takes it from a stream.
CountsExact ==
  Free("hw") =>
    /\ hal.mPcmOpenCnt = One(hal.out.mPcm) + One(hal.call.pcm)
    /\ hal.mMixerOpenCnt = One(hal.out.mMixer) + One(hal.in.mMixer) + One(hal.call.mixer)

\* Muting reaches a capture that is running: between calls, and with no setMicMute
\* under way, the capture path of an active input is what mMicMute says.
MuteReachesCapture ==
  /\ thread[Control].at = "idle" /\ Free("hw") /\ Free("in")
  /\ hal.mMode # "in_call" /\ ~ hal.mInCallAudioMode
  /\ ActiveInput(hal) /\ hal.in.mMixer
  => hal.muted = hal.mMicMute

\* A stream that feeds or reads the echo reference has one that is not released.
EchoAlive ==
  Free("hw") /\ (hal.in.mEchoReference \/ (hal.mOutput /\ hal.out.mEchoReference)) => hal.mEchoReference

\* The mode changes only with the mutex of the active input held, so that the
\* recorder never reads across the change of path.
ModeChangeHoldsInput ==
  [][ hal'.mMode # hal.mMode /\ ActiveInput(hal) => "in" \in held[Control] ]_vars

\* Refuted.  "make sure that another thread did not change output state while the mutex is
\* released" (AudioHardware.cpp:454): the mode changes only with the mutex of the
\* active output held.
ModeChangeHoldsOutput ==
  [][ hal'.mMode # hal.mMode /\ hal.mOutput /\ ~ hal.out.mStandby => "out" \in held[Control] ]_vars

\* Refuted.  "this will safely release the echo reference by calling releaseEchoReference()
\* after placing the active input in standby" (AudioHardware.cpp:372).
EchoReleasedOnClose ==
  thread[Manager].at = "drop" => ~ hal.mEchoReference
=============================================================================
