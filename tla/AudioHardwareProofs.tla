------------------------ MODULE AudioHardwareProofs ------------------------
(***************************************************************************)
(* Proofs about the audio HAL.                                             *)
(*                                                                         *)
(* IInv is the inductive invariant: CInv says where the threads can be and *)
(* which mutexes they hold there, HInv what the streams, the reference     *)
(* counts, the echo reference, the mute and the call are meanwhile, with   *)
(* the exceptions for the threads that are at work.  The module goes from  *)
(* the operations on the state (which fields each leaves alone), by a      *)
(* lemma for what every step has to see to (Changed), to one lemma for     *)
(* each operation of each thread.                                          *)
(***************************************************************************)
EXTENDS AudioHardware, TLAPS

\* The types of the HAL's state, whatever its reference counts are.
CallRecords == [pcm : BOOLEAN, mixer : BOOLEAN]
HalType(s) ==
  s \in [mMode : Modes, mMicMute : BOOLEAN, muted : BOOLEAN, mInCallAudioMode : BOOLEAN,
         mPcmOpenCnt : Nat, mMixerOpenCnt : Nat, mEchoReference : BOOLEAN,
         call : CallRecords, mOutput : BOOLEAN, mInput : BOOLEAN,
         out : OutRecords, in : InRecords]

\* The reference counts are never higher than what holds a reference, and exact when
\* nothing fails to open for a call.
CountsOf(s) ==
  /\ s.mPcmOpenCnt <= One(s.out.mPcm) + One(s.call.pcm)
  /\ s.mMixerOpenCnt <= One(s.out.mMixer) + One(s.in.mMixer) + One(s.call.mixer)
  /\ "call" \notin Failures =>
       /\ s.mPcmOpenCnt = One(s.out.mPcm) + One(s.call.pcm)
       /\ s.mMixerOpenCnt = One(s.out.mMixer) + One(s.in.mMixer) + One(s.call.mixer)

\* A stream that holds neither a pcm nor the mixer.
OutShut(s) == ~ s.out.mPcm /\ ~ s.out.mMixer
InShut(s) == ~ s.in.mPcm /\ ~ s.in.mMixer

\* From s to r nothing changes but the counts and the output's own state, or the
\* input's own state.
SameCall(s, r) ==
  /\ r.mMode = s.mMode /\ r.mMicMute = s.mMicMute /\ r.mInCallAudioMode = s.mInCallAudioMode
  /\ r.call = s.call /\ r.mOutput = s.mOutput /\ r.mInput = s.mInput
  /\ r.mEchoReference = s.mEchoReference
OutOnly(s, r) == HalType(r) /\ SameCall(s, r) /\ r.in = s.in /\ r.muted = s.muted
InOnly(s, r) == HalType(r) /\ SameCall(s, r) /\ r.out = s.out

\* The output changes in what it holds alone, and so does the input.
OutSame(s, r) ==
  /\ r.out.mStandby = s.out.mStandby /\ r.out.wakeLock = s.out.wakeLock
  /\ r.out.fresh = s.out.fresh /\ r.out.refs = s.out.refs
  /\ r.out.mEchoReference = s.out.mEchoReference
InSame(s, r) ==
  /\ r.in.mStandby = s.in.mStandby /\ r.in.mEchoReference = s.in.mEchoReference
  /\ r.in.mNeedEchoReference = s.in.mNeedEchoReference
  /\ r.in.fresh = s.in.fresh /\ r.in.refs = s.in.refs

CountsOnly(s, r) == HalType(r) /\ SameCall(s, r) /\ r.out = s.out /\ r.in = s.in /\ r.muted = s.muted

\* Reference counts.
LEMMA OpenPcm ==
  ASSUME NEW s, HalType(s), NEW ok \in BOOLEAN, NEW r, r = openPcmOut_l(s, ok)
  PROVE  /\ CountsOnly(s, r) /\ r.mMixerOpenCnt = s.mMixerOpenCnt
         /\ r.mPcmOpenCnt = IF s.mPcmOpenCnt > 0 \/ ok THEN s.mPcmOpenCnt + 1 ELSE 0
BY DEF HalType, openPcmOut_l, CountsOnly, SameCall
LEMMA OpenMixer ==
  ASSUME NEW s, HalType(s), NEW ok \in BOOLEAN, NEW r, r = openMixer_l(s, ok)
  PROVE  /\ CountsOnly(s, r) /\ r.mPcmOpenCnt = s.mPcmOpenCnt
         /\ r.mMixerOpenCnt = IF s.mMixerOpenCnt > 0 \/ ok THEN s.mMixerOpenCnt + 1 ELSE 0
BY DEF HalType, openMixer_l, CountsOnly, SameCall
LEMMA ClosePcm ==
  ASSUME NEW s, HalType(s), NEW r, r = closePcmOut_l(s)
  PROVE  /\ CountsOnly(s, r) /\ r.mMixerOpenCnt = s.mMixerOpenCnt
         /\ r.mPcmOpenCnt = IF s.mPcmOpenCnt > 0 THEN s.mPcmOpenCnt - 1 ELSE 0
BY DEF HalType, closePcmOut_l, CountsOnly, SameCall
LEMMA CloseMixer ==
  ASSUME NEW s, HalType(s), NEW r, r = closeMixer_l(s)
  PROVE  /\ CountsOnly(s, r) /\ r.mPcmOpenCnt = s.mPcmOpenCnt
         /\ r.mMixerOpenCnt = IF s.mMixerOpenCnt > 0 THEN s.mMixerOpenCnt - 1 ELSE 0
BY DEF HalType, closeMixer_l, CountsOnly, SameCall

\* What a stream holds.
OutWith(s, p, m) == [s EXCEPT !.out.mPcm = p, !.out.mMixer = m]

LEMMA SetOut ==
  ASSUME NEW s, HalType(s), NEW p \in BOOLEAN, NEW m \in BOOLEAN, NEW r, r = OutWith(s, p, m)
  PROVE  /\ OutOnly(s, r) /\ OutSame(s, r) /\ r.out.mPcm = p /\ r.out.mMixer = m
         /\ r.mPcmOpenCnt = s.mPcmOpenCnt /\ r.mMixerOpenCnt = s.mMixerOpenCnt
<1>1. HalType(r)
  BY DEF HalType, OutRecords, OutWith
<1>2. SameCall(s, r) /\ r.in = s.in /\ r.muted = s.muted
      /\ r.mPcmOpenCnt = s.mPcmOpenCnt /\ r.mMixerOpenCnt = s.mMixerOpenCnt
  BY DEF HalType, SameCall, OutWith
<1>3. OutSame(s, r) /\ r.out.mPcm = p /\ r.out.mMixer = m
  BY DEF HalType, OutRecords, OutSame, OutWith
<1>4. QED
  BY <1>1, <1>2, <1>3 DEF OutOnly

LEMMA CloseOutOp ==
  ASSUME NEW s, HalType(s)
  PROVE  /\ OutOnly(s, CloseOut(s)) /\ OutSame(s, CloseOut(s)) /\ OutShut(CloseOut(s))
         /\ CountsOf(s) => CountsOf(CloseOut(s))
<1> DEFINE s1 == IF s.out.mMixer THEN closeMixer_l(s) ELSE s
           s2 == IF s.out.mPcm THEN closePcmOut_l(s1) ELSE s1
           r == CloseOut(s)
<1>1. /\ CountsOnly(s, s1) /\ s1.mPcmOpenCnt = s.mPcmOpenCnt
      /\ s1.mMixerOpenCnt = IF s.out.mMixer /\ s.mMixerOpenCnt > 0
                            THEN s.mMixerOpenCnt - 1 ELSE s.mMixerOpenCnt
  <2>1. s.mMixerOpenCnt \in Nat
    BY DEF HalType
  <2>2. QED
    BY <2>1, CloseMixer DEF CountsOnly, SameCall
<1> HIDE DEF s1
<1>2. /\ CountsOnly(s1, s2) /\ s2.mMixerOpenCnt = s1.mMixerOpenCnt
      /\ s2.mPcmOpenCnt = IF s.out.mPcm /\ s1.mPcmOpenCnt > 0
                          THEN s1.mPcmOpenCnt - 1 ELSE s1.mPcmOpenCnt
  <2>1. s1.mPcmOpenCnt \in Nat /\ HalType(s1)
    BY <1>1 DEF HalType, CountsOnly
  <2>2. QED
    BY <2>1, ClosePcm DEF CountsOnly, SameCall
<1>3. r = [s2 EXCEPT !.out.mMixer = FALSE, !.out.mPcm = FALSE]
  BY DEF CloseOut, s1
<1> HIDE DEF s2, r
<1>4. /\ OutOnly(s2, r) /\ OutSame(s2, r) /\ ~ r.out.mPcm /\ ~ r.out.mMixer
      /\ r.mPcmOpenCnt = s2.mPcmOpenCnt /\ r.mMixerOpenCnt = s2.mMixerOpenCnt
  <2>1. HalType(s2)
    BY <1>2 DEF CountsOnly
  <2>2. r = OutWith(s2, FALSE, FALSE)
    BY <1>3, <2>1 DEF HalType, OutRecords, OutWith
  <2>3. /\ OutOnly(s2, r) /\ OutSame(s2, r) /\ r.out.mPcm = FALSE /\ r.out.mMixer = FALSE
        /\ r.mPcmOpenCnt = s2.mPcmOpenCnt /\ r.mMixerOpenCnt = s2.mMixerOpenCnt
    <3>1. FALSE \in BOOLEAN
      OBVIOUS
    <3>2. QED
      BY <2>1, <2>2, <3>1, SetOut, Zenon
  <2>4. QED
    BY <2>3
<1>5. OutOnly(s, r) /\ OutSame(s, r) /\ OutShut(r)
  BY <1>1, <1>2, <1>4 DEF CountsOnly, OutOnly, OutSame, OutShut, SameCall
<1>6. CountsOf(s) => CountsOf(r)
  <2>1. s.mPcmOpenCnt \in Nat /\ s.mMixerOpenCnt \in Nat
    BY DEF HalType
  <2>2. r.in = s.in /\ r.call = s.call /\ ~ r.out.mPcm /\ ~ r.out.mMixer
    BY <1>4, <1>5 DEF OutOnly, SameCall
  <2>3. QED
    BY <1>1, <1>2, <1>4, <2>1, <2>2 DEF CountsOf, One
<1>7. QED
  BY <1>5, <1>6 DEF r

LEMMA OpenOutOp ==
  ASSUME NEW s, HalType(s), OutShut(s), NEW pcm \in BOOLEAN, NEW mixer \in BOOLEAN
  PROVE  /\ OutOnly(s, OpenOut(s, pcm, mixer)) /\ OutSame(s, OpenOut(s, pcm, mixer))
         /\ OpenOut(s, pcm, mixer).out.mPcm \/ OutShut(OpenOut(s, pcm, mixer))
         /\ CountsOf(s) => CountsOf(OpenOut(s, pcm, mixer))
<1> DEFINE s1 == openPcmOut_l(s, pcm)
           s2 == openMixer_l(s1, mixer)
           r == OpenOut(s, pcm, mixer)
<1>1. /\ CountsOnly(s, s1) /\ s1.mMixerOpenCnt = s.mMixerOpenCnt
      /\ s1.mPcmOpenCnt = IF s.mPcmOpenCnt > 0 \/ pcm THEN s.mPcmOpenCnt + 1 ELSE 0
  BY OpenPcm
<1>2. /\ CountsOnly(s1, s2) /\ s2.mPcmOpenCnt = s1.mPcmOpenCnt
      /\ s2.mMixerOpenCnt = IF s1.mMixerOpenCnt > 0 \/ mixer THEN s1.mMixerOpenCnt + 1 ELSE 0
  <2>1. HalType(s1)
    BY <1>1 DEF CountsOnly
  <2> HIDE DEF s1
  <2>2. QED
    BY <2>1, OpenMixer
<1>3. r = IF s1.mPcmOpenCnt = 0 THEN [s1 EXCEPT !.out.mPcm = FALSE]
          ELSE [s2 EXCEPT !.out.mPcm = TRUE, !.out.mMixer = s2.mMixerOpenCnt > 0]
  BY DEF OpenOut
<1> HIDE DEF s1, s2, r
<1>4. /\ HalType(s1) /\ HalType(s2)
      /\ s.mPcmOpenCnt \in Nat /\ s.mMixerOpenCnt \in Nat
      /\ s1.out = s.out /\ s2.out = s.out /\ s2.mMixerOpenCnt \in Nat
  BY <1>1, <1>2 DEF CountsOnly, HalType
<1>5. CASE s1.mPcmOpenCnt = 0
  <2>1. r = OutWith(s1, FALSE, FALSE)
    BY <1>3, <1>4, <1>5 DEF HalType, OutRecords, OutShut, OutWith
  <2>2. /\ OutOnly(s1, r) /\ OutSame(s1, r) /\ r.out.mPcm = FALSE /\ r.out.mMixer = FALSE
        /\ r.mPcmOpenCnt = s1.mPcmOpenCnt /\ r.mMixerOpenCnt = s1.mMixerOpenCnt
    <3>1. FALSE \in BOOLEAN
      OBVIOUS
    <3>2. QED
      BY <1>4, <2>1, <3>1, SetOut, Zenon
  <2>3. OutOnly(s, r) /\ OutSame(s, r) /\ OutShut(r)
    BY <1>1, <2>2 DEF CountsOnly, OutOnly, OutSame, OutShut, SameCall
  <2>4. CountsOf(s) => CountsOf(r)
    <3>1. r.in = s.in /\ r.call = s.call
      BY <2>3 DEF OutOnly, SameCall
    <3>2. QED
      BY <1>1, <1>4, <1>5, <2>2, <3>1 DEF CountsOf, One, OutShut
  <2>5. QED
    BY <2>3, <2>4 DEF r
<1>6. CASE s1.mPcmOpenCnt # 0
  <2> DEFINE got == s2.mMixerOpenCnt > 0
  <2>1. r = OutWith(s2, TRUE, got)
    BY <1>3, <1>6 DEF OutWith
  <2>2. /\ OutOnly(s2, r) /\ OutSame(s2, r) /\ r.out.mPcm = TRUE /\ r.out.mMixer = got
        /\ r.mPcmOpenCnt = s2.mPcmOpenCnt /\ r.mMixerOpenCnt = s2.mMixerOpenCnt
    <3>1. \A p, m \in BOOLEAN : r = OutWith(s2, p, m) =>
            /\ OutOnly(s2, r) /\ OutSame(s2, r) /\ r.out.mPcm = p /\ r.out.mMixer = m
            /\ r.mPcmOpenCnt = s2.mPcmOpenCnt /\ r.mMixerOpenCnt = s2.mMixerOpenCnt
      BY <1>4, SetOut
    <3> HIDE DEF got
    <3>2. TRUE \in BOOLEAN /\ got \in BOOLEAN
      BY DEF got
    <3>3. QED
      BY <2>1, <3>1, <3>2
  <2>3. OutOnly(s, r) /\ OutSame(s, r) /\ r.out.mPcm
    BY <1>1, <1>2, <2>2 DEF CountsOnly, OutOnly, OutSame, SameCall
  <2>4. CountsOf(s) => CountsOf(r)
    <3>1. r.in = s.in /\ r.call = s.call
      BY <2>3 DEF OutOnly, SameCall
    <3>2. r.mMixerOpenCnt = s.mMixerOpenCnt + One(r.out.mMixer)
      <4>1. CASE got
        <5>1. s2.mMixerOpenCnt = s1.mMixerOpenCnt + 1
          BY <1>1, <1>2, <1>4, <4>1
        <5>2. r.out.mMixer
          BY <2>2, <4>1
        <5>3. One(r.out.mMixer) = 1
          BY <5>2 DEF One
        <5>4. r.mMixerOpenCnt = s2.mMixerOpenCnt
          BY <2>2
        <5>5. QED
          BY <1>1, <5>1, <5>3, <5>4
      <4>2. CASE ~ got
        BY <1>1, <1>2, <1>4, <2>2, <4>2 DEF One
      <4>3. QED
        BY <4>1, <4>2
    <3>3. r.mPcmOpenCnt = s.mPcmOpenCnt + 1
      BY <1>1, <1>2, <1>4, <1>6, <2>2
    <3>4. One(r.out.mPcm) = 1 /\ One(s.out.mPcm) = 0 /\ One(s.out.mMixer) = 0
      BY <2>2 DEF One, OutShut
    <3>5. /\ One(r.out.mMixer) \in Nat /\ One(s.in.mMixer) \in Nat /\ One(s.call.mixer) \in Nat
          /\ One(s.call.pcm) \in Nat
      BY DEF One
    <3>6. QED
      BY <1>4, <3>1, <3>2, <3>3, <3>4, <3>5 DEF CountsOf
  <2>5. QED
    BY <2>3, <2>4 DEF r
<1>7. QED
  BY <1>5, <1>6

\* Standby of the output.
LEMMA StandbyOutOp ==
  ASSUME NEW s, HalType(s), NEW r, r = StandbyOut(s)
  PROVE  /\ OutOnly(s, r) /\ OutShut(r) /\ r.out.mStandby /\ r.out.refs = s.out.refs
         /\ r.out.fresh = {} /\ r.out.mEchoReference = s.out.mEchoReference
         /\ r.out.wakeLock = (s.out.wakeLock /\ s.out.mStandby)
         /\ CountsOf(s) => CountsOf(r)
<1> DEFINE s1 == [s EXCEPT !.out.fresh = {}, !.out.mStandby = TRUE,
                           !.out.wakeLock = @ /\ s.out.mStandby]
<1>1. HalType(s1)
  BY DEF HalType, OutRecords
<1>2. SameCall(s, s1) /\ s1.in = s.in /\ s1.muted = s.muted
      /\ s1.mPcmOpenCnt = s.mPcmOpenCnt /\ s1.mMixerOpenCnt = s.mMixerOpenCnt
  BY DEF HalType, SameCall
<1>3. /\ s1.out.mStandby /\ s1.out.refs = s.out.refs /\ s1.out.fresh = {}
      /\ s1.out.mEchoReference = s.out.mEchoReference
      /\ s1.out.wakeLock = (s.out.wakeLock /\ s.out.mStandby)
      /\ s1.out.mPcm = s.out.mPcm /\ s1.out.mMixer = s.out.mMixer
  BY DEF HalType, OutRecords
<1>4. CountsOf(s) => CountsOf(s1)
  BY <1>2, <1>3 DEF CountsOf, SameCall
<1>5. r = CloseOut(s1)
  BY DEF StandbyOut
<1> HIDE DEF s1
<1>6. /\ OutOnly(s1, r) /\ OutSame(s1, r) /\ OutShut(r)
      /\ CountsOf(s1) => CountsOf(r)
  BY <1>1, <1>5, CloseOutOp
<1>7. OutOnly(s, r) /\ OutShut(r)
  BY <1>2, <1>6 DEF OutOnly, SameCall
<1>8. /\ r.out.mStandby /\ r.out.refs = s.out.refs
      /\ r.out.fresh = {} /\ r.out.mEchoReference = s.out.mEchoReference
      /\ r.out.wakeLock = (s.out.wakeLock /\ s.out.mStandby)
  BY <1>3, <1>6 DEF OutSame
<1>9. QED
  BY <1>4, <1>6, <1>7, <1>8, Zenon

\* What the input holds.
InWith(s, p, m, mute) == [s EXCEPT !.in.mPcm = p, !.in.mMixer = m, !.muted = mute]

LEMMA SetIn ==
  ASSUME NEW s, HalType(s), NEW p \in BOOLEAN, NEW m \in BOOLEAN, NEW mute \in BOOLEAN,
         NEW r, r = InWith(s, p, m, mute)
  PROVE  /\ InOnly(s, r) /\ InSame(s, r) /\ r.in.mPcm = p /\ r.in.mMixer = m /\ r.muted = mute
         /\ r.mPcmOpenCnt = s.mPcmOpenCnt /\ r.mMixerOpenCnt = s.mMixerOpenCnt
<1>1. HalType(r)
  BY DEF HalType, InRecords, InWith
<1>2. SameCall(s, r) /\ r.out = s.out
      /\ r.mPcmOpenCnt = s.mPcmOpenCnt /\ r.mMixerOpenCnt = s.mMixerOpenCnt
  BY DEF HalType, SameCall, InWith
<1>3. InSame(s, r) /\ r.in.mPcm = p /\ r.in.mMixer = m /\ r.muted = mute
  BY DEF HalType, InRecords, InSame, InWith
<1>4. QED
  BY <1>1, <1>2, <1>3 DEF InOnly

InHolds(s, p, m) == [s EXCEPT !.in.mMixer = m, !.in.mPcm = p]

LEMMA SetInHolds ==
  ASSUME NEW s, HalType(s), NEW p \in BOOLEAN, NEW m \in BOOLEAN, NEW r, r = InHolds(s, p, m)
  PROVE  /\ InOnly(s, r) /\ InSame(s, r) /\ r.in.mPcm = p /\ r.in.mMixer = m
         /\ r.mPcmOpenCnt = s.mPcmOpenCnt /\ r.mMixerOpenCnt = s.mMixerOpenCnt
<1>1. HalType(r)
  BY DEF HalType, InRecords, InHolds
<1>2. SameCall(s, r) /\ r.out = s.out
      /\ r.mPcmOpenCnt = s.mPcmOpenCnt /\ r.mMixerOpenCnt = s.mMixerOpenCnt
  BY DEF HalType, SameCall, InHolds
<1>3. InSame(s, r) /\ r.in.mPcm = p /\ r.in.mMixer = m
  BY DEF HalType, InRecords, InSame, InHolds
<1>4. QED
  BY <1>1, <1>2, <1>3 DEF InOnly

LEMMA CloseInOp ==
  ASSUME NEW s, HalType(s), NEW r, r = CloseIn(s)
  PROVE  /\ InOnly(s, r) /\ InSame(s, r) /\ InShut(r)
         /\ CountsOf(s) => CountsOf(r)
<1> DEFINE s1 == IF s.in.mMixer THEN closeMixer_l(s) ELSE s
<1>1. /\ CountsOnly(s, s1) /\ s1.mPcmOpenCnt = s.mPcmOpenCnt
      /\ s1.mMixerOpenCnt = IF s.in.mMixer /\ s.mMixerOpenCnt > 0
                            THEN s.mMixerOpenCnt - 1 ELSE s.mMixerOpenCnt
  <2>1. s.mMixerOpenCnt \in Nat
    BY DEF HalType
  <2>2. QED
    BY <2>1, CloseMixer DEF CountsOnly, SameCall
<1>2. r = [s1 EXCEPT !.in.mMixer = FALSE, !.in.mPcm = FALSE]
  BY DEF CloseIn
<1> HIDE DEF s1
<1>3. /\ HalType(s1) /\ s1.muted \in BOOLEAN
      /\ s.mPcmOpenCnt \in Nat /\ s.mMixerOpenCnt \in Nat
  BY <1>1 DEF CountsOnly, HalType
<1>5. /\ InOnly(s1, r) /\ InSame(s1, r) /\ r.in.mPcm = FALSE /\ r.in.mMixer = FALSE
      /\ r.mPcmOpenCnt = s1.mPcmOpenCnt /\ r.mMixerOpenCnt = s1.mMixerOpenCnt
  <2>1. r = InHolds(s1, FALSE, FALSE)
    BY <1>2 DEF InHolds
  <2>2. FALSE \in BOOLEAN
    OBVIOUS
  <2>3. QED
    BY <1>3, <2>1, <2>2, SetInHolds, Zenon
<1>6. InOnly(s, r) /\ InSame(s, r) /\ InShut(r)
  BY <1>1, <1>5 DEF CountsOnly, InOnly, InSame, InShut, SameCall
<1>7. CountsOf(s) => CountsOf(r)
  <2>1. r.out = s.out /\ r.call = s.call
    BY <1>6 DEF InOnly, SameCall
  <2>2. QED
    BY <1>1, <1>3, <1>5, <2>1 DEF CountsOf, One
<1>8. QED
  BY <1>6, <1>7

\* Opening the input, which sets what is captured unless there is a call.
LEMMA OpenInOp ==
  ASSUME NEW s, HalType(s), InShut(s), NEW pcm \in BOOLEAN, NEW mixer \in BOOLEAN,
         NEW r, r = OpenIn(s, pcm, mixer)
  PROVE  /\ InOnly(s, r) /\ InSame(s, r)
         /\ r.in.mPcm \/ InShut(r)
         /\ s.mMode # "in_call" /\ r.in.mMixer => r.muted = s.mMicMute
         /\ CountsOf(s) => CountsOf(r)
<1>0. s.muted \in BOOLEAN /\ s.mMicMute \in BOOLEAN
  BY DEF HalType
<1>1. CASE ~ pcm
  <2>1. r = InWith(s, FALSE, FALSE, s.muted)
    BY <1>1 DEF OpenIn, InWith, HalType, InRecords, InShut
  <2>2. \A p, m \in BOOLEAN : r = InWith(s, p, m, s.muted) =>
          /\ InOnly(s, r) /\ InSame(s, r) /\ r.in.mPcm = p /\ r.in.mMixer = m
          /\ r.mPcmOpenCnt = s.mPcmOpenCnt /\ r.mMixerOpenCnt = s.mMixerOpenCnt
    BY <1>0, SetIn
  <2>3. FALSE \in BOOLEAN
    OBVIOUS
  <2>4. /\ InOnly(s, r) /\ InSame(s, r) /\ ~ r.in.mPcm /\ ~ r.in.mMixer
        /\ r.mPcmOpenCnt = s.mPcmOpenCnt /\ r.mMixerOpenCnt = s.mMixerOpenCnt
    BY <2>1, <2>2, <2>3
  <2>5. CountsOf(s) => CountsOf(r)
    BY <2>4 DEF InOnly, SameCall, CountsOf, One, InShut
  <2>6. QED
    BY <2>4, <2>5 DEF InShut
<1>2. CASE pcm
  <2> DEFINE s1 == openMixer_l(s, mixer)
             got == s1.mMixerOpenCnt > 0
             mute == IF got /\ s.mMode # "in_call" THEN s.mMicMute ELSE s1.muted
  <2>1. /\ CountsOnly(s, s1) /\ s1.mPcmOpenCnt = s.mPcmOpenCnt
        /\ s1.mMixerOpenCnt = IF s.mMixerOpenCnt > 0 \/ mixer THEN s.mMixerOpenCnt + 1 ELSE 0
    BY OpenMixer
  <2>2. r = [s1 EXCEPT !.in.mPcm = TRUE, !.in.mMixer = got,
                 !.muted = IF got /\ s.mMode # "in_call" THEN s.mMicMute ELSE @]
    BY <1>2 DEF OpenIn
  <2> HIDE DEF s1
  <2>3. /\ HalType(s1) /\ s1.muted \in BOOLEAN
        /\ s.mPcmOpenCnt \in Nat /\ s.mMixerOpenCnt \in Nat /\ s1.mMixerOpenCnt \in Nat
    BY <2>1 DEF CountsOnly, HalType
  <2>4. r = InWith(s1, TRUE, got, mute)
    BY <2>2, <2>3 DEF InWith, HalType
  <2>5. got \in BOOLEAN /\ mute \in BOOLEAN /\ TRUE \in BOOLEAN
    BY <1>0, <2>3
  <2>6. \A p, m, mu \in BOOLEAN : r = InWith(s1, p, m, mu) =>
          /\ InOnly(s1, r) /\ InSame(s1, r) /\ r.in.mPcm = p /\ r.in.mMixer = m /\ r.muted = mu
          /\ r.mPcmOpenCnt = s1.mPcmOpenCnt /\ r.mMixerOpenCnt = s1.mMixerOpenCnt
    <3> HIDE DEF got, mute
    <3> SUFFICES ASSUME NEW p \in BOOLEAN, NEW m \in BOOLEAN, NEW mu \in BOOLEAN,
                        r = InWith(s1, p, m, mu)
                 PROVE  /\ InOnly(s1, r) /\ InSame(s1, r) /\ r.in.mPcm = p /\ r.in.mMixer = m
                        /\ r.muted = mu
                        /\ r.mPcmOpenCnt = s1.mPcmOpenCnt /\ r.mMixerOpenCnt = s1.mMixerOpenCnt
      OBVIOUS
    <3>1. HalType(s1)
      BY <2>3
    <3>2. QED
      BY <3>1, SetIn
  <2> HIDE DEF got, mute
  <2>7. /\ InOnly(s1, r) /\ InSame(s1, r) /\ r.in.mPcm /\ r.in.mMixer = got /\ r.muted = mute
        /\ r.mPcmOpenCnt = s1.mPcmOpenCnt /\ r.mMixerOpenCnt = s1.mMixerOpenCnt
    BY <2>4, <2>5, <2>6
  <2>8. InOnly(s, r) /\ InSame(s, r)
    BY <2>1, <2>7 DEF CountsOnly, InOnly, InSame, SameCall
  <2>9. s.mMode # "in_call" /\ r.in.mMixer => r.muted = s.mMicMute
    BY <2>7 DEF mute
  <2>10. CountsOf(s) => CountsOf(r)
    <3>1. r.out = s.out /\ r.call = s.call
      BY <2>8 DEF InOnly, SameCall
    <3>2. r.mMixerOpenCnt = s.mMixerOpenCnt + One(r.in.mMixer)
      <4>1. CASE got
        <5>1. s1.mMixerOpenCnt = s.mMixerOpenCnt + 1
          BY <2>1, <2>3, <4>1 DEF got
        <5>2. One(r.in.mMixer) = 1
          BY <2>7, <4>1 DEF One
        <5>3. r.mMixerOpenCnt = s1.mMixerOpenCnt
          BY <2>7
        <5>4. QED
          BY <5>1, <5>2, <5>3
      <4>2. CASE ~ got
        <5>1. s1.mMixerOpenCnt = 0 /\ s.mMixerOpenCnt = 0
          BY <2>1, <2>3, <4>2 DEF got
        <5>2. One(r.in.mMixer) = 0
          BY <2>7, <4>2 DEF One
        <5>3. r.mMixerOpenCnt = s1.mMixerOpenCnt
          BY <2>7
        <5>4. QED
          BY <5>1, <5>2, <5>3
      <4>3. QED
        BY <4>1, <4>2
    <3>3. r.mPcmOpenCnt = s.mPcmOpenCnt
      BY <2>1, <2>7
    <3>4. One(s.in.mMixer) = 0
      BY DEF One, InShut
    <3>5. /\ One(r.in.mMixer) \in Nat /\ One(s.out.mMixer) \in Nat /\ One(s.call.mixer) \in Nat
      BY DEF One
    <3>6. QED
      BY <2>3, <3>1, <3>2, <3>3, <3>4, <3>5 DEF CountsOf
  <2>11. QED
    BY <2>7, <2>8, <2>9, <2>10, Zenon
<1>3. QED
  BY <1>1, <1>2

\* Standby of the input.
LEMMA StandbyInOp ==
  ASSUME NEW s, HalType(s), NEW r, r = StandbyIn(s)
  PROVE  /\ InOnly(s, r) /\ InShut(r) /\ r.in.mStandby /\ r.in.refs = s.in.refs
         /\ r.in.fresh = s.in.fresh /\ ~ r.in.mEchoReference
         /\ CountsOf(s) => CountsOf(r)
<1> DEFINE s1 == [s EXCEPT !.in.mStandby = TRUE, !.in.mEchoReference = FALSE]
<1>1. HalType(s1)
  BY DEF HalType, InRecords
<1>2. /\ SameCall(s, s1) /\ s1.out = s.out
      /\ s1.mPcmOpenCnt = s.mPcmOpenCnt /\ s1.mMixerOpenCnt = s.mMixerOpenCnt
  BY DEF HalType, SameCall
<1>3. /\ s1.in.mStandby /\ s1.in.refs = s.in.refs /\ s1.in.fresh = s.in.fresh
      /\ ~ s1.in.mEchoReference /\ s1.in.mPcm = s.in.mPcm /\ s1.in.mMixer = s.in.mMixer
  BY DEF HalType, InRecords
<1>4. CountsOf(s) => CountsOf(s1)
  BY <1>2, <1>3 DEF CountsOf, SameCall
<1>5. r = CloseIn(s1)
  BY DEF StandbyIn
<1> HIDE DEF s1
<1>6. /\ InOnly(s1, r) /\ InSame(s1, r) /\ InShut(r)
      /\ CountsOf(s1) => CountsOf(r)
  BY <1>1, <1>5, CloseInOp
<1>7. InOnly(s, r) /\ InShut(r)
  BY <1>2, <1>6 DEF InOnly, SameCall
<1>8. /\ r.in.mStandby /\ r.in.refs = s.in.refs
      /\ r.in.fresh = s.in.fresh /\ ~ r.in.mEchoReference
  BY <1>3, <1>6 DEF InSame
<1>9. QED
  BY <1>4, <1>6, <1>7, <1>8, Zenon

\* References, and the count of standbys.
RefsOnly(s, r) ==
  /\ HalType(r) /\ SameCall(s, r) /\ r.muted = s.muted
  /\ r.mPcmOpenCnt = s.mPcmOpenCnt /\ r.mMixerOpenCnt = s.mMixerOpenCnt
  /\ r.out.mStandby = s.out.mStandby /\ r.out.mPcm = s.out.mPcm /\ r.out.mMixer = s.out.mMixer
  /\ r.out.mEchoReference = s.out.mEchoReference /\ r.out.wakeLock = s.out.wakeLock
  /\ r.in.mStandby = s.in.mStandby /\ r.in.mPcm = s.in.mPcm /\ r.in.mMixer = s.in.mMixer
  /\ r.in.mEchoReference = s.in.mEchoReference
  /\ r.in.mNeedEchoReference = s.in.mNeedEchoReference

LEMMA PrepareOutOp ==
  ASSUME NEW s, HalType(s), NEW t \in Threads, NEW r, r = PrepareOut(t, s)
  PROVE  /\ RefsOnly(s, r) /\ r.in = s.in
         /\ r.out.refs = s.out.refs \cup {t} /\ r.out.fresh = s.out.fresh \cup {t}
<1>1. HalType(r)
  BY DEF HalType, OutRecords, PrepareOut
<1>2. /\ SameCall(s, r) /\ r.in = s.in /\ r.muted = s.muted
      /\ r.mPcmOpenCnt = s.mPcmOpenCnt /\ r.mMixerOpenCnt = s.mMixerOpenCnt
  BY DEF HalType, SameCall, PrepareOut
<1>3. /\ r.out.mStandby = s.out.mStandby /\ r.out.mPcm = s.out.mPcm /\ r.out.mMixer = s.out.mMixer
      /\ r.out.mEchoReference = s.out.mEchoReference /\ r.out.wakeLock = s.out.wakeLock
      /\ r.out.refs = s.out.refs \cup {t} /\ r.out.fresh = s.out.fresh \cup {t}
  BY DEF HalType, OutRecords, PrepareOut
<1>4. QED
  BY <1>1, <1>2, <1>3 DEF RefsOnly

LEMMA DropOutOp ==
  ASSUME NEW s, HalType(s), NEW t \in Threads, NEW r, r = DropOut(t, s)
  PROVE  /\ RefsOnly(s, r) /\ r.in = s.in
         /\ r.out.refs = s.out.refs \ {t} /\ r.out.fresh = s.out.fresh \ {t}
<1>1. HalType(r)
  BY DEF HalType, OutRecords, DropOut
<1>2. /\ SameCall(s, r) /\ r.in = s.in /\ r.muted = s.muted
      /\ r.mPcmOpenCnt = s.mPcmOpenCnt /\ r.mMixerOpenCnt = s.mMixerOpenCnt
  BY DEF HalType, SameCall, DropOut
<1>3. /\ r.out.mStandby = s.out.mStandby /\ r.out.mPcm = s.out.mPcm /\ r.out.mMixer = s.out.mMixer
      /\ r.out.mEchoReference = s.out.mEchoReference /\ r.out.wakeLock = s.out.wakeLock
      /\ r.out.refs = s.out.refs \ {t} /\ r.out.fresh = s.out.fresh \ {t}
  BY DEF HalType, OutRecords, DropOut
<1>4. QED
  BY <1>1, <1>2, <1>3 DEF RefsOnly

LEMMA PrepareInOp ==
  ASSUME NEW s, HalType(s), NEW t \in Threads, NEW r, r = PrepareIn(t, s)
  PROVE  /\ RefsOnly(s, r) /\ r.out = s.out
         /\ r.in.refs = s.in.refs \cup {t} /\ r.in.fresh = s.in.fresh \cup {t}
<1>1. HalType(r)
  BY DEF HalType, InRecords, PrepareIn
<1>2. /\ SameCall(s, r) /\ r.out = s.out /\ r.muted = s.muted
      /\ r.mPcmOpenCnt = s.mPcmOpenCnt /\ r.mMixerOpenCnt = s.mMixerOpenCnt
  BY DEF HalType, SameCall, PrepareIn
<1>3. /\ r.in.mStandby = s.in.mStandby /\ r.in.mPcm = s.in.mPcm /\ r.in.mMixer = s.in.mMixer
      /\ r.in.mEchoReference = s.in.mEchoReference
      /\ r.in.mNeedEchoReference = s.in.mNeedEchoReference
      /\ r.in.refs = s.in.refs \cup {t} /\ r.in.fresh = s.in.fresh \cup {t}
  BY DEF HalType, InRecords, PrepareIn
<1>4. QED
  BY <1>1, <1>2, <1>3 DEF RefsOnly

LEMMA DropInOp ==
  ASSUME NEW s, HalType(s), NEW t \in Threads, NEW r, r = DropIn(t, s)
  PROVE  /\ RefsOnly(s, r) /\ r.out = s.out
         /\ r.in.refs = s.in.refs \ {t} /\ r.in.fresh = s.in.fresh \ {t}
<1>1. HalType(r)
  BY DEF HalType, InRecords, DropIn
<1>2. /\ SameCall(s, r) /\ r.out = s.out /\ r.muted = s.muted
      /\ r.mPcmOpenCnt = s.mPcmOpenCnt /\ r.mMixerOpenCnt = s.mMixerOpenCnt
  BY DEF HalType, SameCall, DropIn
<1>3. /\ r.in.mStandby = s.in.mStandby /\ r.in.mPcm = s.in.mPcm /\ r.in.mMixer = s.in.mMixer
      /\ r.in.mEchoReference = s.in.mEchoReference
      /\ r.in.mNeedEchoReference = s.in.mNeedEchoReference
      /\ r.in.refs = s.in.refs \ {t} /\ r.in.fresh = s.in.fresh \ {t}
  BY DEF HalType, InRecords, DropIn
<1>4. QED
  BY <1>1, <1>2, <1>3 DEF RefsOnly

LEMMA CountInOp ==
  ASSUME NEW s, HalType(s), NEW r, r = CountIn(s)
  PROVE  RefsOnly(s, r) /\ r.out = s.out /\ r.in.refs = s.in.refs /\ r.in.fresh = {}
<1>1. HalType(r)
  BY DEF HalType, InRecords, CountIn
<1>2. /\ SameCall(s, r) /\ r.out = s.out /\ r.muted = s.muted
      /\ r.mPcmOpenCnt = s.mPcmOpenCnt /\ r.mMixerOpenCnt = s.mMixerOpenCnt
  BY DEF HalType, SameCall, CountIn
<1>3. /\ r.in.mStandby = s.in.mStandby /\ r.in.mPcm = s.in.mPcm /\ r.in.mMixer = s.in.mMixer
      /\ r.in.mEchoReference = s.in.mEchoReference
      /\ r.in.mNeedEchoReference = s.in.mNeedEchoReference
      /\ r.in.refs = s.in.refs /\ r.in.fresh = {}
  BY DEF HalType, InRecords, CountIn
<1>4. QED
  BY <1>1, <1>2, <1>3 DEF RefsOnly

\* The echo reference.
EchoOnly(s, r) ==
  /\ HalType(r) /\ r.muted = s.muted
  /\ r.mMode = s.mMode /\ r.mMicMute = s.mMicMute /\ r.mInCallAudioMode = s.mInCallAudioMode
  /\ r.call = s.call /\ r.mOutput = s.mOutput /\ r.mInput = s.mInput
  /\ r.mPcmOpenCnt = s.mPcmOpenCnt /\ r.mMixerOpenCnt = s.mMixerOpenCnt
  /\ r.out.mStandby = s.out.mStandby /\ r.out.mPcm = s.out.mPcm /\ r.out.mMixer = s.out.mMixer
  /\ r.out.wakeLock = s.out.wakeLock /\ r.out.fresh = s.out.fresh /\ r.out.refs = s.out.refs
  /\ r.in.mStandby = s.in.mStandby /\ r.in.mPcm = s.in.mPcm /\ r.in.mMixer = s.in.mMixer
  /\ r.in.mNeedEchoReference = s.in.mNeedEchoReference
  /\ r.in.fresh = s.in.fresh /\ r.in.refs = s.in.refs

LEMMA ReleaseEchoOp ==
  ASSUME NEW s, HalType(s), NEW given \in BOOLEAN, NEW r, r = releaseEchoReference(s, given)
  PROVE  /\ EchoOnly(s, r) /\ r.in = s.in
         /\ r.mEchoReference = (s.mEchoReference /\ ~ given)
         /\ r.out.mEchoReference =
              (s.out.mEchoReference /\ ~ (given /\ s.mEchoReference /\ s.mOutput))
<1>1. HalType(r)
  BY DEF HalType, OutRecords, releaseEchoReference
<1>2. /\ r.muted = s.muted /\ r.in = s.in
      /\ r.mMode = s.mMode /\ r.mMicMute = s.mMicMute /\ r.mInCallAudioMode = s.mInCallAudioMode
      /\ r.call = s.call /\ r.mOutput = s.mOutput /\ r.mInput = s.mInput
      /\ r.mPcmOpenCnt = s.mPcmOpenCnt /\ r.mMixerOpenCnt = s.mMixerOpenCnt
      /\ r.mEchoReference = (s.mEchoReference /\ ~ given)
  BY DEF HalType, releaseEchoReference
<1>3. /\ r.out.mStandby = s.out.mStandby /\ r.out.mPcm = s.out.mPcm /\ r.out.mMixer = s.out.mMixer
      /\ r.out.wakeLock = s.out.wakeLock /\ r.out.fresh = s.out.fresh /\ r.out.refs = s.out.refs
      /\ r.out.mEchoReference =
           (s.out.mEchoReference /\ ~ (given /\ s.mEchoReference /\ s.mOutput))
  BY DEF HalType, OutRecords, releaseEchoReference
<1>4. QED
  BY <1>1, <1>2, <1>3 DEF EchoOnly

LEMMA GetEchoOp ==
  ASSUME NEW s, HalType(s), NEW ok \in BOOLEAN, NEW r, r = getEchoReference(s, ok)
  PROVE  /\ EchoOnly(s, r) /\ r.mEchoReference = ok /\ r.in.mEchoReference = ok
         /\ r.out.mEchoReference = ((s.out.mEchoReference /\ ~ (s.mEchoReference /\ s.mOutput)) \/ ok)
<1> DEFINE s1 == releaseEchoReference(s, TRUE)
<1>1. /\ EchoOnly(s, s1) /\ s1.in = s.in
      /\ s1.out.mEchoReference = (s.out.mEchoReference /\ ~ (s.mEchoReference /\ s.mOutput))
  <2>1. \A given \in BOOLEAN : s1 = releaseEchoReference(s, given) =>
          /\ EchoOnly(s, s1) /\ s1.in = s.in
          /\ s1.out.mEchoReference =
               (s.out.mEchoReference /\ ~ (given /\ s.mEchoReference /\ s.mOutput))
    BY ReleaseEchoOp
  <2>2. TRUE \in BOOLEAN
    OBVIOUS
  <2>3. QED
    BY <2>1, <2>2
<1>2. r = [s1 EXCEPT !.mEchoReference = ok, !.out.mEchoReference = @ \/ ok,
                     !.in.mEchoReference = ok]
  BY DEF getEchoReference
<1> HIDE DEF s1
<1>3. HalType(s1)
  BY <1>1 DEF EchoOnly
<1>4. HalType(r)
  <2> DEFINE o == [s1.out EXCEPT !.mEchoReference = @ \/ ok]
             i == [s1.in EXCEPT !.mEchoReference = ok]
  <2>1. s1.out \in OutRecords /\ s1.in \in InRecords
    BY <1>3 DEF HalType
  <2>2. o \in OutRecords
    BY <2>1 DEF OutRecords
  <2>3. i \in InRecords
    BY <2>1 DEF InRecords
  <2>4. r = [s1 EXCEPT !.mEchoReference = ok, !.out = o, !.in = i]
    BY <1>2, <1>3 DEF HalType
  <2> HIDE DEF o, i
  <2>5. QED
    BY <1>3, <2>2, <2>3, <2>4 DEF HalType
<1>5. /\ r.muted = s1.muted
      /\ r.mMode = s1.mMode /\ r.mMicMute = s1.mMicMute
      /\ r.mInCallAudioMode = s1.mInCallAudioMode
      /\ r.call = s1.call /\ r.mOutput = s1.mOutput /\ r.mInput = s1.mInput
      /\ r.mPcmOpenCnt = s1.mPcmOpenCnt /\ r.mMixerOpenCnt = s1.mMixerOpenCnt
      /\ r.mEchoReference = ok
  BY <1>2, <1>3 DEF HalType
<1>6. /\ r.out.mStandby = s1.out.mStandby /\ r.out.mPcm = s1.out.mPcm
      /\ r.out.mMixer = s1.out.mMixer /\ r.out.wakeLock = s1.out.wakeLock
      /\ r.out.fresh = s1.out.fresh /\ r.out.refs = s1.out.refs
      /\ r.out.mEchoReference = (s1.out.mEchoReference \/ ok)
  BY <1>2, <1>3 DEF HalType, OutRecords
<1>7. /\ r.in.mStandby = s1.in.mStandby /\ r.in.mPcm = s1.in.mPcm /\ r.in.mMixer = s1.in.mMixer
      /\ r.in.mNeedEchoReference = s1.in.mNeedEchoReference
      /\ r.in.fresh = s1.in.fresh /\ r.in.refs = s1.in.refs /\ r.in.mEchoReference = ok
  BY <1>2, <1>3 DEF HalType, InRecords
<1>8. QED
  BY <1>1, <1>4, <1>5, <1>6, <1>7 DEF EchoOnly

\* The call.
CallOnly(s, r) ==
  /\ HalType(r) /\ r.out = s.out /\ r.in = s.in /\ r.muted = s.muted
  /\ r.mMode = s.mMode /\ r.mMicMute = s.mMicMute /\ r.mOutput = s.mOutput /\ r.mInput = s.mInput
  /\ r.mEchoReference = s.mEchoReference

LEMMA EnterCallOp ==
  ASSUME NEW s, HalType(s), s.call = NoCall, NEW pcm \in Opens("call"), NEW mixer \in Opens("call"),
         NEW r, r = EnterCall(s, pcm, mixer)
  PROVE  /\ CallOnly(s, r) /\ r.mInCallAudioMode
         /\ "call" \notin Failures => r.call.pcm /\ r.call.mixer
         /\ CountsOf(s) => CountsOf(r)
<1> DEFINE s1 == openPcmOut_l(s, pcm)
           s2 == openMixer_l(s1, mixer)
<1>0. pcm \in BOOLEAN /\ mixer \in BOOLEAN /\ ("call" \notin Failures => pcm /\ mixer)
  BY DEF Opens
<1>1. /\ CountsOnly(s, s1) /\ s1.mMixerOpenCnt = s.mMixerOpenCnt
      /\ s1.mPcmOpenCnt = IF s.mPcmOpenCnt > 0 \/ pcm THEN s.mPcmOpenCnt + 1 ELSE 0
  BY <1>0, OpenPcm
<1>2. /\ CountsOnly(s1, s2) /\ s2.mPcmOpenCnt = s1.mPcmOpenCnt
      /\ s2.mMixerOpenCnt = IF s1.mMixerOpenCnt > 0 \/ mixer THEN s1.mMixerOpenCnt + 1 ELSE 0
  <2>1. HalType(s1)
    BY <1>1 DEF CountsOnly
  <2> HIDE DEF s1
  <2>2. QED
    BY <1>0, <2>1, OpenMixer
<1> DEFINE p == s1.mPcmOpenCnt > s.mPcmOpenCnt
           m == s2.mMixerOpenCnt > s1.mMixerOpenCnt
<1>3. r = [s2 EXCEPT !.mInCallAudioMode = TRUE, !.call = [pcm |-> p, mixer |-> m]]
  BY DEF EnterCall
<1> HIDE DEF s1, s2
<1>4. HalType(s2)
  BY <1>2 DEF CountsOnly
<1>5. /\ s.mPcmOpenCnt \in Nat /\ s.mMixerOpenCnt \in Nat
      /\ s1.mPcmOpenCnt = s.mPcmOpenCnt + One(p) /\ s2.mMixerOpenCnt = s.mMixerOpenCnt + One(m)
      /\ "call" \notin Failures => p /\ m
  <2>1. s.mPcmOpenCnt \in Nat /\ s.mMixerOpenCnt \in Nat
    BY DEF HalType
  <2>2. s1.mPcmOpenCnt = s.mPcmOpenCnt + One(p)
    BY <1>1, <2>1 DEF One
  <2>3. s2.mMixerOpenCnt = s.mMixerOpenCnt + One(m)
    BY <1>1, <1>2, <2>1 DEF One
  <2>4. "call" \notin Failures => p /\ m
    BY <1>0, <1>1, <1>2, <2>1
  <2>5. QED
    BY <2>1, <2>2, <2>3, <2>4
<1>6. p \in BOOLEAN /\ m \in BOOLEAN
  OBVIOUS
<1> HIDE DEF p, m
<1>7. HalType(r)
  <2> DEFINE c == [pcm |-> p, mixer |-> m]
  <2>1. c \in CallRecords
    BY <1>6 DEF CallRecords
  <2>2. r = [s2 EXCEPT !.mInCallAudioMode = TRUE, !.call = c]
    BY <1>3
  <2> HIDE DEF c
  <2>3. QED
    BY <1>4, <2>1, <2>2 DEF HalType
<1>8. /\ r.out = s2.out /\ r.in = s2.in /\ r.muted = s2.muted /\ r.mMode = s2.mMode
      /\ r.mMicMute = s2.mMicMute /\ r.mOutput = s2.mOutput /\ r.mInput = s2.mInput
      /\ r.mEchoReference = s2.mEchoReference /\ r.mInCallAudioMode
      /\ r.call = [pcm |-> p, mixer |-> m]
      /\ r.mPcmOpenCnt = s2.mPcmOpenCnt /\ r.mMixerOpenCnt = s2.mMixerOpenCnt
  BY <1>3, <1>4 DEF HalType
<1>9. r.call.pcm = p /\ r.call.mixer = m /\ ~ s.call.pcm /\ ~ s.call.mixer
  BY <1>8 DEF NoCall
<1>10. CallOnly(s, r)
  BY <1>1, <1>2, <1>7, <1>8 DEF CallOnly, CountsOnly, SameCall
<1>11. CountsOf(s) => CountsOf(r)
  <2>1. /\ One(s.call.pcm) = 0 /\ One(s.call.mixer) = 0
        /\ One(r.call.pcm) = One(p) /\ One(r.call.mixer) = One(m)
    BY <1>9 DEF One
  <2>2. /\ One(p) \in Nat /\ One(m) \in Nat /\ One(s.in.mMixer) \in Nat
        /\ One(s.out.mMixer) \in Nat /\ One(s.out.mPcm) \in Nat
    BY DEF One
  <2>3. /\ r.mPcmOpenCnt = s.mPcmOpenCnt + One(p) /\ r.mMixerOpenCnt = s.mMixerOpenCnt + One(m)
        /\ r.out = s.out /\ r.in = s.in
    BY <1>2, <1>5, <1>8, <1>10 DEF CallOnly
  <2>4. QED
    BY <1>5, <2>1, <2>2, <2>3 DEF CountsOf
<1>12. QED
  BY <1>5, <1>8, <1>9, <1>10, <1>11

\* Both are closed, had they been opened or not.
LEMMA LeaveCallOp ==
  ASSUME NEW s, HalType(s), NEW r, r = LeaveCall(s)
  PROVE  /\ CallOnly(s, r) /\ r.mInCallAudioMode = s.mInCallAudioMode /\ r.call = NoCall
         /\ CountsOf(s) /\ ("call" \notin Failures => s.call.pcm /\ s.call.mixer) => CountsOf(r)
<1> DEFINE s1 == closeMixer_l(s)
           s2 == closePcmOut_l(s1)
<1>1. /\ CountsOnly(s, s1) /\ s1.mPcmOpenCnt = s.mPcmOpenCnt
      /\ s1.mMixerOpenCnt = IF s.mMixerOpenCnt > 0 THEN s.mMixerOpenCnt - 1 ELSE 0
  BY CloseMixer
<1>2. /\ CountsOnly(s1, s2) /\ s2.mMixerOpenCnt = s1.mMixerOpenCnt
      /\ s2.mPcmOpenCnt = IF s1.mPcmOpenCnt > 0 THEN s1.mPcmOpenCnt - 1 ELSE 0
  <2>1. HalType(s1)
    BY <1>1 DEF CountsOnly
  <2> HIDE DEF s1
  <2>2. QED
    BY <2>1, ClosePcm
<1>3. r = [s2 EXCEPT !.call = NoCall]
  BY DEF LeaveCall
<1> HIDE DEF s1, s2
<1>4. HalType(s2)
  BY <1>2 DEF CountsOnly
<1>5. HalType(r)
  <2>1. NoCall \in CallRecords
    BY DEF NoCall, CallRecords
  <2>2. QED
    BY <1>3, <1>4, <2>1 DEF HalType
<1>6. /\ r.out = s2.out /\ r.in = s2.in /\ r.muted = s2.muted /\ r.mMode = s2.mMode
      /\ r.mMicMute = s2.mMicMute /\ r.mOutput = s2.mOutput /\ r.mInput = s2.mInput
      /\ r.mEchoReference = s2.mEchoReference /\ r.mInCallAudioMode = s2.mInCallAudioMode
      /\ r.call = NoCall
      /\ r.mPcmOpenCnt = s2.mPcmOpenCnt /\ r.mMixerOpenCnt = s2.mMixerOpenCnt
  BY <1>3, <1>4 DEF HalType
<1>7. CallOnly(s, r) /\ r.mInCallAudioMode = s.mInCallAudioMode
  BY <1>1, <1>2, <1>5, <1>6 DEF CallOnly, CountsOnly, SameCall
<1>8. ASSUME CountsOf(s), "call" \notin Failures => s.call.pcm /\ s.call.mixer
      PROVE  CountsOf(r)
  <2>1. One(r.call.pcm) = 0 /\ One(r.call.mixer) = 0
    BY <1>6 DEF NoCall, One
  <2>2. /\ One(s.call.pcm) \in 0 .. 1 /\ One(s.call.mixer) \in 0 .. 1 /\ One(s.in.mMixer) \in 0 .. 1
        /\ One(s.out.mMixer) \in 0 .. 1 /\ One(s.out.mPcm) \in 0 .. 1
    BY DEF One
  <2>3. /\ s.mPcmOpenCnt \in Nat /\ s.mMixerOpenCnt \in Nat
        /\ r.mPcmOpenCnt = IF s.mPcmOpenCnt > 0 THEN s.mPcmOpenCnt - 1 ELSE 0
        /\ r.mMixerOpenCnt = IF s.mMixerOpenCnt > 0 THEN s.mMixerOpenCnt - 1 ELSE 0
        /\ r.out = s.out /\ r.in = s.in
    BY <1>1, <1>2, <1>6, <1>7 DEF CallOnly, HalType
  <2>4. "call" \notin Failures => One(s.call.pcm) = 1 /\ One(s.call.mixer) = 1
    BY <1>8 DEF One
  <2>5. QED
    BY <1>8, <2>1, <2>2, <2>3, <2>4 DEF CountsOf
<1>9. QED
  BY <1>6, <1>7, <1>8

-----------------------------------------------------------------------------
(* Where the threads are.                                                  *)

Mutexes == {"out", "in", "hw"}
Dance == {"d_out", "d_in", "d_hw"}
ToStandbyIn == {"si_in", "si_hw"} \cup Dance
OutPoints == {"w_out", "w_hw", "w_in", "w_hw2", "w_use", "ro_out", "ro_hw"}
InPoints == {"r_in", "r_hw", "r_out", "r_in2", "r_hw2", "r_use", "ri_in", "ri_hw"}

\* A thread that destroys an output while it holds hw waits for itself.
StuckAt(p, h) == p \in {"so_out", "so_hw"} /\ "hw" \in h
Stuck(t) == StuckAt(thread[t].at, held[t])
Blocked == \E t \in Threads : Stuck(t)

Returns == {"standby", "enter", "leave", "write"}
Sequels == {"idle", "so_out", "drop"}
ThreadRecords == [at : Points, ret : Returns, then : Sequels, mode : Modes]
ThreadType == thread \in [Threads -> ThreadRecords]
HeldType == held \in [Threads -> SUBSET Mutexes]

\* Where a dance goes back to: setMode() alone has other things to do after it, and
\* write() never ends the one it begins.
Rets ==
  /\ thread[Player].ret = "write" => thread[Player].at = "d_out" /\ "out" \in held[Player]
  /\ thread[Player].ret \in {"standby", "write"}
  /\ thread[Recorder].ret = "standby" /\ thread[Manager].ret = "standby"
  /\ thread[Control].ret \in {"standby", "enter", "leave"}
  /\ thread[Control].ret # "standby" =>
       thread[Control].then = "idle" /\ (thread[Control].at \in Dance \/ Stuck(Control))

\* What is left to do after a standby of the input is there during one alone.
Thens == \A t \in Threads : thread[t].then # "idle" => thread[t].at \in ToStandbyIn \/ Stuck(t)

Holds ==
  /\ thread[Player].at \in {"w_hw", "w_in", "w_hw2"} => "out" \in held[Player]
  /\ thread[Control].at = "m_hw3" => "in" \in held[Control]

\* Nobody closes a stream that is used.
OutUsed == thread[Player].at \in OutPoints => hal.mOutput /\ thread[Manager].at # "co_hw"
InUsed == thread[Recorder].at \in InPoints => hal.mInput /\ thread[Manager].at # "ci_hw"

CInv == ThreadType /\ HeldType /\ HalType(hal) /\ Rets /\ Thens /\ Holds /\ OutUsed /\ InUsed

\* Thread t goes on to p with the mutexes h, and nobody else does.
Moved(t, p, ret, then, h) ==
  /\ thread'[t].at = p /\ thread'[t].ret = ret /\ thread'[t].then = then /\ held'[t] = h
  /\ \A u \in Threads \ {t} : thread'[u] = thread[u] /\ held'[u] = held[u]
  /\ ThreadType' /\ HeldType'

SameStreams(s, r) == r.mOutput = s.mOutput /\ r.mInput = s.mInput

LEMMA SetThread ==
  ASSUME ThreadType, HeldType, NEW t \in Threads, NEW e \in ThreadRecords, NEW h \in SUBSET Mutexes,
         thread' = [thread EXCEPT ![t] = e], held' = [held EXCEPT ![t] = h]
  PROVE  Moved(t, e.at, e.ret, e.then, h)
BY DEF ThreadType, HeldType, Moved

LEMMA MoveIs ==
  ASSUME ThreadType, HeldType, NEW t \in Threads, NEW p \in Points, NEW h \in SUBSET Mutexes,
         NEW s, Move(t, p, s, h)
  PROVE  Moved(t, p, thread[t].ret, thread[t].then, h) /\ hal' = s
<1>1. ThreadType'
  BY DEF ThreadType, ThreadRecords, Move
<1>2. HeldType'
  BY DEF HeldType, Move
<1>3. /\ thread'[t].at = p /\ thread'[t].ret = thread[t].ret /\ thread'[t].then = thread[t].then
      /\ held'[t] = h /\ \A u \in Threads \ {t} : thread'[u] = thread[u] /\ held'[u] = held[u]
  BY DEF ThreadType, ThreadRecords, HeldType, Move
<1>4. QED
  BY <1>1, <1>2, <1>3 DEF Moved, Move

\* A thread at p waits for a mutex that it does not hold.
LEMMA GotIs ==
  ASSUME NEW t \in Threads, NEW p \in DOMAIN Waits, Got(t, p)
  PROVE  thread[t].at = p /\ Waits[p] \notin held[t]
BY DEF Got, Free

\* What every step of a thread has to see to.
Allowed(t, p, ret, then, h) ==
  /\ t = Player => ret \in {"standby", "write"} /\ (ret = "write" => p = "d_out" /\ "out" \in h)
  /\ t \in {Recorder, Manager} => ret = "standby"
  /\ t = Control => /\ ret \in {"standby", "enter", "leave"}
                    /\ ret # "standby" => then = "idle" /\ (p \in Dance \/ StuckAt(p, h))
  /\ then # "idle" => p \in ToStandbyIn \/ StuckAt(p, h)
  /\ t = Player /\ p \in {"w_hw", "w_in", "w_hw2"} => "out" \in h
  /\ t = Control /\ p = "m_hw3" => "in" \in h
  /\ t = Player /\ p \in OutPoints => hal'.mOutput /\ thread[Manager].at # "co_hw"
  /\ t = Recorder /\ p \in InPoints => hal'.mInput /\ thread[Manager].at # "ci_hw"
  /\ t = Manager /\ p = "co_hw" => thread[Player].at \notin OutPoints
  /\ t = Manager /\ p = "ci_hw" => thread[Recorder].at \notin InPoints

\* Nobody loses the stream it uses.
UsedKept ==
  /\ hal.mOutput /\ ~ hal'.mOutput => thread'[Player].at \notin OutPoints
  /\ hal.mInput /\ ~ hal'.mInput => thread'[Recorder].at \notin InPoints

LEMMA MovedControl ==
  ASSUME CInv, NEW t \in Threads, NEW p, NEW ret, NEW then, NEW h, Moved(t, p, ret, then, h),
         Allowed(t, p, ret, then, h), HalType(hal'), UsedKept
  PROVE  CInv'
<1> USE FourThreads
<1>1. Rets'
  BY DEF CInv, Rets, Moved, Allowed, Stuck, Threads
<1>2. Thens'
  BY DEF CInv, Thens, Moved, Allowed, Stuck, Threads
<1>3. Holds'
  BY DEF CInv, Holds, Moved, Allowed, Threads
<1>4. OutUsed'
  BY DEF CInv, OutUsed, Moved, Allowed, Threads, UsedKept
<1>5. InUsed'
  BY DEF CInv, InUsed, Moved, Allowed, Threads, UsedKept
<1>6. QED
  BY <1>1, <1>2, <1>3, <1>4, <1>5 DEF CInv, Moved

-----------------------------------------------------------------------------
(* The state of the HAL with the threads where they are.                   *)

\* write() is opening the output, or waits for itself on the way.
InBlockAt(p, ret, h) ==
  /\ "out" \in h
  /\ p \in {"w_in", "w_hw2"} \/ ret = "write" \/ (p \in {"si_in", "si_hw"} /\ "hw" \in h)
InBlock == InBlockAt(thread[Player].at, thread[Player].ret, held[Player])

OutFine ==
  /\ hal.out.mStandby => OutShut(hal) \/ thread[Player].ret = "write"
  /\ hal.out.mStandby /\ hal.out.wakeLock => InBlock
  /\ ~ hal.out.mStandby => hal.out.mPcm /\ hal.out.wakeLock
  /\ thread[Player].at \in {"w_hw", "w_in", "w_hw2"} => hal.out.mStandby
  /\ thread[Player].at \in {"w_in", "w_hw2"} => hal.out.wakeLock

InFine ==
  /\ hal.in.mStandby => InShut(hal)
  /\ ~ hal.in.mStandby => hal.in.mPcm \/ thread[Player].ret = "write"
  /\ thread[Recorder].at \in {"r_hw", "r_out", "r_in2", "r_hw2"} => hal.in.mStandby

\* A stream that was closed is shut, or somebody still has it, or is about to shut it.
WillStandbyOut(p, then) == p \in {"so_out", "so_hw"} \/ then = "so_out"
OutGone == ~ hal.mOutput =>
  \/ hal.out.refs # {} \/ OutShut(hal)
  \/ \E t \in Threads : WillStandbyOut(thread[t].at, thread[t].then)
InGone == ~ hal.mInput =>
  \/ hal.in.refs # {} \/ InShut(hal) \/ Blocked
  \/ \E t \in Threads : thread[t].at \in ToStandbyIn

EchoOk(s) == s.in.mEchoReference \/ (s.mOutput /\ s.out.mEchoReference) => s.mEchoReference
EchoFine == Blocked \/ EchoOk(hal)

MuteOk(s) ==
  s.mMode # "in_call" /\ ~ s.mInCallAudioMode /\ ActiveInput(s) /\ s.in.mMixer => s.muted = s.mMicMute
MuteFine == MuteOk(hal) \/ thread[Control].at \in ToStandbyIn \/ Stuck(Control)

\* The call, with setMode() on its way to ret.
CallOk(s, ret) ==
  /\ s.mMode = "in_call" => s.mInCallAudioMode \/ ret = "enter"
  /\ ret = "enter" => ~ s.mInCallAudioMode
  /\ ret = "leave" => s.mMode = "normal"
  /\ ~ s.mInCallAudioMode \/ ret = "leave" => s.call = NoCall
  /\ "call" \notin Failures /\ s.mInCallAudioMode /\ ret # "leave" => s.call.pcm /\ s.call.mixer
CallFine == CallOk(hal, thread[Control].ret)

FreshOf(s) == s.out.fresh \subseteq s.out.refs /\ s.in.fresh \subseteq s.in.refs

HInv == /\ OutFine /\ InFine /\ OutGone /\ InGone /\ EchoFine /\ MuteFine /\ CallFine
        /\ CountsOf(hal) /\ FreshOf(hal)

\* The inductive invariant.
IInv == CInv /\ HInv

\* What a step may take for granted of the thread that makes it, and what it keeps.
Steps(t, p, h) == (t = Player => thread[Player].ret = "standby") /\ (Stuck(t) => StuckAt(p, h))

OutHold(s, r) ==
  /\ r.out.mStandby = s.out.mStandby /\ r.out.wakeLock = s.out.wakeLock
  /\ r.out.mPcm = s.out.mPcm /\ r.out.mMixer = s.out.mMixer
InHold(s, r) ==
  r.in.mStandby = s.in.mStandby /\ r.in.mPcm = s.in.mPcm /\ r.in.mMixer = s.in.mMixer

LEMMA KeepOut ==
  ASSUME IInv, NEW t \in Threads, NEW p, NEW ret, NEW then, NEW h, Moved(t, p, ret, then, h),
         Steps(t, p, h), OutHold(hal, hal'),
         t = Player =>
           /\ hal.out.mStandby /\ hal.out.wakeLock => InBlockAt(p, ret, h)
           /\ p \in {"w_hw", "w_in", "w_hw2"} => hal.out.mStandby
           /\ p \in {"w_in", "w_hw2"} => hal.out.wakeLock
  PROVE  OutFine'
<1> USE FourThreads
<1>1. CASE t = Player
  BY <1>1 DEF IInv, HInv, OutFine, Moved, Steps, OutHold, InBlock, OutShut, Threads
<1>2. CASE t # Player
  BY <1>2 DEF IInv, HInv, OutFine, Moved, Steps, OutHold, InBlock, OutShut, Threads
<1>3. QED
  BY <1>1, <1>2

LEMMA KeepIn ==
  ASSUME IInv, NEW t \in Threads, NEW p, NEW ret, NEW then, NEW h, Moved(t, p, ret, then, h),
         Steps(t, p, h), InHold(hal, hal'),
         t = Recorder /\ p \in {"r_hw", "r_out", "r_in2", "r_hw2"} => hal.in.mStandby
  PROVE  InFine'
BY FourThreads DEF IInv, HInv, InFine, Moved, Steps, InHold, InShut, Threads

LEMMA KeepOutGone ==
  ASSUME IInv, NEW t \in Threads, NEW p, NEW ret, NEW then, NEW h, Moved(t, p, ret, then, h),
         SameStreams(hal, hal'),
         ~ hal.mOutput /\ OutShut(hal) => OutShut(hal'),
         ~ hal.mOutput /\ hal.out.refs # {} =>
           hal'.out.refs # {} \/ OutShut(hal') \/ WillStandbyOut(p, then),
         WillStandbyOut(thread[t].at, thread[t].then) => WillStandbyOut(p, then) \/ OutShut(hal')
  PROVE  OutGone'
<1> SUFFICES ASSUME ~ hal'.mOutput, hal'.out.refs = {}, ~ OutShut(hal')
             PROVE  \E u \in Threads : WillStandbyOut(thread'[u].at, thread'[u].then)
  BY DEF OutGone, OutShut, WillStandbyOut
<1>1. CASE WillStandbyOut(p, then)
  BY <1>1 DEF Moved
<1>2. CASE ~ WillStandbyOut(p, then)
  <2>1. PICK u \in Threads : WillStandbyOut(thread[u].at, thread[u].then)
    BY <1>2 DEF IInv, HInv, OutGone, SameStreams
  <2>2. u # t
    BY <1>2, <2>1
  <2>3. QED
    BY <2>1, <2>2 DEF Moved
<1>3. QED
  BY <1>1, <1>2

LEMMA KeepInGone ==
  ASSUME IInv, NEW t \in Threads, NEW p, NEW ret, NEW then, NEW h, Moved(t, p, ret, then, h),
         Steps(t, p, h), SameStreams(hal, hal'),
         ~ hal.mInput /\ InShut(hal) => InShut(hal'),
         ~ hal.mInput /\ hal.in.refs # {} =>
           hal'.in.refs # {} \/ InShut(hal') \/ p \in ToStandbyIn \/ StuckAt(p, h),
         thread[t].at \in ToStandbyIn => p \in ToStandbyIn \/ StuckAt(p, h) \/ InShut(hal')
  PROVE  InGone'
<1> SUFFICES ASSUME ~ hal'.mInput, hal'.in.refs = {}, ~ InShut(hal')
             PROVE  \E u \in Threads : thread'[u].at \in ToStandbyIn \/ StuckAt(thread'[u].at, held'[u])
  BY DEF InGone, InShut, Blocked, Stuck
<1>1. CASE p \in ToStandbyIn \/ StuckAt(p, h)
  BY <1>1 DEF Moved
<1>2. CASE ~ (p \in ToStandbyIn \/ StuckAt(p, h))
  <2>1. PICK u \in Threads : thread[u].at \in ToStandbyIn \/ Stuck(u)
    BY <1>2 DEF IInv, HInv, InGone, SameStreams, Blocked
  <2>2. u # t
    BY <1>2, <2>1 DEF Steps
  <2>3. QED
    BY <2>1, <2>2 DEF Moved, Stuck
<1>3. QED
  BY <1>1, <1>2

LEMMA KeepBlocked ==
  ASSUME NEW t \in Threads, NEW p, NEW ret, NEW then, NEW h, Moved(t, p, ret, then, h),
         Steps(t, p, h), Blocked
  PROVE  Blocked'
BY DEF Moved, Steps, Blocked, Stuck

LEMMA KeepEcho ==
  ASSUME IInv, NEW t \in Threads, NEW p, NEW ret, NEW then, NEW h, Moved(t, p, ret, then, h),
         Steps(t, p, h), EchoOk(hal) => EchoOk(hal') \/ StuckAt(p, h)
  PROVE  EchoFine'
<1>1. CASE Blocked
  BY <1>1, KeepBlocked DEF EchoFine
<1>2. CASE EchoOk(hal')
  BY <1>2 DEF EchoFine, EchoOk
<1>3. CASE StuckAt(p, h)
  BY <1>3 DEF EchoFine, Blocked, Stuck, Moved
<1>4. QED
  BY <1>1, <1>2, <1>3 DEF IInv, HInv, EchoFine

LEMMA KeepMute ==
  ASSUME IInv, NEW t \in Threads, NEW p, NEW ret, NEW then, NEW h, Moved(t, p, ret, then, h),
         Steps(t, p, h), MuteOk(hal) => MuteOk(hal') \/ (t = Control /\ p \in ToStandbyIn),
         t = Control /\ thread[Control].at \in ToStandbyIn =>
           p \in ToStandbyIn \/ StuckAt(p, h) \/ MuteOk(hal')
  PROVE  MuteFine'
<1>1. MuteOk(hal') => MuteFine'
  BY DEF MuteFine, MuteOk, ActiveInput
<1>2. CASE t = Control
  BY <1>1, <1>2 DEF IInv, HInv, MuteFine, Moved, Steps, Stuck
<1>3. CASE t # Control
  BY <1>1, <1>3 DEF IInv, HInv, MuteFine, Moved, Steps, Stuck, Threads
<1>4. QED
  BY <1>2, <1>3

-----------------------------------------------------------------------------
(* A step that changes the HAL.                                            *)

\* The streams that are closed stay shut, or somebody sees to it.
GoneOk(t, p, then, h) ==
  /\ ~ hal.mOutput /\ OutShut(hal) => OutShut(hal')
  /\ ~ hal.mOutput /\ hal.out.refs # {} =>
       hal'.out.refs # {} \/ OutShut(hal') \/ WillStandbyOut(p, then)
  /\ WillStandbyOut(thread[t].at, thread[t].then) => WillStandbyOut(p, then) \/ OutShut(hal')
  /\ ~ hal.mInput /\ InShut(hal) => InShut(hal')
  /\ ~ hal.mInput /\ hal.in.refs # {} =>
       hal'.in.refs # {} \/ InShut(hal') \/ p \in ToStandbyIn \/ StuckAt(p, h)
  /\ thread[t].at \in ToStandbyIn => p \in ToStandbyIn \/ StuckAt(p, h) \/ InShut(hal')

EchoKept(p, h) == EchoOk(hal) => EchoOk(hal') \/ StuckAt(p, h)

MuteKept(t, p, h) ==
  /\ MuteOk(hal) => MuteOk(hal') \/ (t = Control /\ p \in ToStandbyIn)
  /\ t = Control /\ thread[Control].at \in ToStandbyIn =>
       p \in ToStandbyIn \/ StuckAt(p, h) \/ MuteOk(hal')

CallKept(t, ret) == CallOk(hal', IF t = Control THEN ret ELSE thread[Control].ret)

Sound(t, p, then, h) ==
  /\ Steps(t, p, h) /\ HalType(hal') /\ SameStreams(hal, hal')
  /\ GoneOk(t, p, then, h) /\ CountsOf(hal') /\ FreshOf(hal')

LEMMA Changed ==
  ASSUME IInv, NEW t \in Threads, NEW p, NEW ret, NEW then, NEW h, Moved(t, p, ret, then, h),
         Allowed(t, p, ret, then, h), Steps(t, p, h), HalType(hal'), UsedKept,
         OutFine', InFine', OutGone', InGone', CountsOf(hal'), FreshOf(hal'),
         EchoKept(p, h), MuteKept(t, p, h), CallKept(t, ret)
  PROVE  IInv'
<1>0. CInv
  BY DEF IInv
<1>1. CInv'
  BY <1>0, MovedControl, Zenon
<1>2. EchoFine'
  BY KeepEcho, Zenon DEF EchoKept
<1>3. MuteFine'
  BY KeepMute, Zenon DEF MuteKept
<1>4. CallFine'
  <2>1. thread'[Control].ret = IF t = Control THEN ret ELSE thread[Control].ret
    BY FourThreads DEF Moved, Threads
  <2>2. QED
    BY <2>1 DEF CallFine, CallKept, CallOk
<1>5. CountsOf(hal)' /\ FreshOf(hal)'
  BY DEF CountsOf, FreshOf
<1>6. QED
  BY <1>1, <1>2, <1>3, <1>4, <1>5 DEF IInv, HInv

LEMMA Effect ==
  ASSUME IInv, NEW t \in Threads, NEW p, NEW ret, NEW then, NEW h, Moved(t, p, ret, then, h),
         Allowed(t, p, ret, then, h), Sound(t, p, then, h), OutFine', InFine',
         EchoKept(p, h), MuteKept(t, p, h), CallKept(t, ret)
  PROVE  IInv'
<1>0. /\ Steps(t, p, h) /\ HalType(hal') /\ SameStreams(hal, hal') /\ UsedKept
      /\ CountsOf(hal') /\ FreshOf(hal')
  BY DEF Sound, SameStreams, UsedKept
<1>1. OutGone'
  BY <1>0, KeepOutGone, Zenon DEF Sound, GoneOk
<1>2. InGone'
  BY <1>0, KeepInGone, Zenon DEF Sound, GoneOk
<1>3. QED
  BY <1>0, <1>1, <1>2, Changed, Zenon

\* After a standby of the output, and of the input.
LEMMA ShutOut ==
  ASSUME IInv, NEW t \in Threads, NEW p, NEW ret, NEW then, NEW h, Moved(t, p, ret, then, h),
         Steps(t, p, h), hal'.out.mStandby, OutShut(hal'),
         hal'.out.wakeLock = (hal.out.wakeLock /\ hal.out.mStandby),
         t = Player => /\ hal.out.mStandby /\ hal.out.wakeLock => InBlockAt(p, ret, h)
                       /\ p \notin {"w_hw", "w_in", "w_hw2"}
  PROVE  OutFine'
<1> USE FourThreads
<1>1. CASE t = Player
  BY <1>1 DEF OutFine, Moved, InBlock, InBlockAt, OutShut
<1>2. CASE t # Player
  BY <1>2 DEF IInv, HInv, OutFine, Moved, InBlock, InBlockAt, OutShut, Threads
<1>3. QED
  BY <1>1, <1>2

LEMMA ShutIn ==
  ASSUME hal'.in.mStandby, InShut(hal')
  PROVE  InFine'
BY DEF InFine, InShut

\* Player that is not in its block of write() keeps the device awake only for an
\* active output.
LEMMA Asleep ==
  ASSUME IInv, thread[Player].ret # "write", thread[Player].at \notin {"w_in", "w_hw2"},
         thread[Player].at \in {"si_in", "si_hw"} => "hw" \notin held[Player]
  PROVE  ~ (hal.out.mStandby /\ hal.out.wakeLock)
BY DEF IInv, HInv, OutFine, InBlock, InBlockAt

-----------------------------------------------------------------------------
(* The ends of a standby and of setMode().                                 *)

\* From the HAL as it is to s nothing is lost.
Follows(s) ==
  /\ HalType(s) /\ SameStreams(hal, s) /\ CountsOf(s) /\ FreshOf(s)
  /\ EchoOk(hal) => EchoOk(s)
  /\ ~ hal.mOutput => (hal.out.refs # {} => s.out.refs # {}) /\ (OutShut(hal) => OutShut(s))
  /\ ~ hal.mInput => (hal.in.refs # {} => s.in.refs # {}) /\ (InShut(hal) => InShut(s))

OutKept(s) ==
  \/ OutHold(hal, s)
  \/ s.out.mStandby /\ OutShut(s) /\ s.out.wakeLock = (hal.out.wakeLock /\ hal.out.mStandby)
InKept(s) == InHold(hal, s) \/ (s.in.mStandby /\ InShut(s))

SameMode(s, r) ==
  r.mMode = s.mMode /\ r.mInCallAudioMode = s.mInCallAudioMode /\ r.call = s.call

\* Up to references, r is s.
Near(s, r) ==
  /\ RefsOnly(s, r)
  /\ OutHold(s, r) /\ InHold(s, r) /\ SameStreams(s, r) /\ SameMode(s, r)
  /\ OutShut(s) <=> OutShut(r)
  /\ InShut(s) <=> InShut(r)
  /\ EchoOk(s) <=> EchoOk(r)
  /\ MuteOk(s) <=> MuteOk(r)
  /\ CountsOf(s) <=> CountsOf(r)

LEMMA RefsAreNear ==
  ASSUME NEW s, NEW r, RefsOnly(s, r)
  PROVE  Near(s, r) /\ \A ret : CallOk(s, ret) <=> CallOk(r, ret)
<1>1. OutHold(s, r) /\ InHold(s, r) /\ SameStreams(s, r) /\ SameMode(s, r)
  BY DEF RefsOnly, SameCall, OutHold, InHold, SameStreams, SameMode
<1>2. (OutShut(s) <=> OutShut(r)) /\ (InShut(s) <=> InShut(r))
  BY DEF RefsOnly, OutShut, InShut
<1>3. EchoOk(s) <=> EchoOk(r)
  BY DEF RefsOnly, SameCall, EchoOk
<1>4. MuteOk(s) <=> MuteOk(r)
  BY DEF RefsOnly, SameCall, MuteOk, ActiveInput
<1>5. CountsOf(s) <=> CountsOf(r)
  BY DEF RefsOnly, SameCall, CountsOf
<1>6. \A ret : CallOk(s, ret) <=> CallOk(r, ret)
  BY DEF RefsOnly, SameCall, CallOk
<1>7. QED
  BY <1>1, <1>2, <1>3, <1>4, <1>5, <1>6 DEF Near

\* A step that leaves the HAL alone, but for references to its streams.
WaitsOk(t, p, ret, then, h) ==
  /\ Steps(t, p, h)
  /\ t = Player =>
       /\ hal.out.mStandby /\ hal.out.wakeLock => InBlockAt(p, ret, h)
       /\ p \in {"w_hw", "w_in", "w_hw2"} => hal.out.mStandby
       /\ p \in {"w_in", "w_hw2"} => hal.out.wakeLock
  /\ t = Recorder /\ p \in {"r_hw", "r_out", "r_in2", "r_hw2"} => hal.in.mStandby
  /\ WillStandbyOut(thread[t].at, thread[t].then) => WillStandbyOut(p, then)
  /\ thread[t].at \in ToStandbyIn => p \in ToStandbyIn \/ StuckAt(p, h)
  /\ t = Control => ret = thread[Control].ret

\* r is the HAL with other references.
Referred(r, p, then) ==
  /\ RefsOnly(hal, r) /\ FreshOf(r)
  /\ ~ hal.mOutput /\ hal.out.refs # {} => r.out.refs # {} \/ WillStandbyOut(p, then)
  /\ ~ hal.mInput /\ hal.in.refs # {} => r.in.refs # {} \/ p \in ToStandbyIn

LEMMA Waited ==
  ASSUME IInv, NEW t \in Threads, NEW p, NEW ret, NEW then, NEW h, Moved(t, p, ret, then, h),
         Allowed(t, p, ret, then, h), WaitsOk(t, p, ret, then, h), Referred(hal', p, then)
  PROVE  IInv'
<1>1. Near(hal, hal') /\ CallOk(hal', thread[Control].ret) /\ HalType(hal') /\ FreshOf(hal')
  <2>1. CallOk(hal, thread[Control].ret)
    BY DEF IInv, HInv, CallFine
  <2>2. QED
    BY <2>1, RefsAreNear DEF Referred, RefsOnly
<1>2. Steps(t, p, h)
  BY DEF WaitsOk
<1>3. Sound(t, p, then, h)
  <2>1. SameStreams(hal, hal') /\ CountsOf(hal')
    BY <1>1 DEF Near, IInv, HInv
  <2>2. GoneOk(t, p, then, h)
    BY <1>1 DEF GoneOk, Near, WaitsOk, Referred
  <2>3. QED
    BY <1>1, <1>2, <2>1, <2>2 DEF Sound
<1>4. OutFine'
  <2>1. OutHold(hal, hal')
    BY <1>1 DEF Near
  <2>2. QED
    BY <1>2, <2>1, KeepOut, Zenon DEF WaitsOk
<1>5. InFine'
  <2>1. InHold(hal, hal')
    BY <1>1 DEF Near
  <2>2. QED
    BY <1>2, <2>1, KeepIn, Zenon DEF WaitsOk
<1>6. EchoKept(p, h) /\ MuteKept(t, p, h)
  BY <1>1 DEF EchoKept, MuteKept, Near, WaitsOk
<1>7. CallKept(t, ret)
  BY <1>1 DEF CallKept, WaitsOk
<1>8. QED
  BY <1>3, <1>4, <1>5, <1>6, <1>7, Effect, Zenon

LEMMA SameHal ==
  ASSUME IInv
  PROVE  Follows(hal) /\ RefsOnly(hal, hal) /\ \A p, then : Referred(hal, p, then)
<1>1. RefsOnly(hal, hal)
  BY DEF IInv, CInv, RefsOnly, SameCall
<1>2. Follows(hal)
  BY DEF IInv, CInv, HInv, Follows, SameStreams
<1>3. \A p, then : Referred(hal, p, then)
  BY <1>1 DEF IInv, HInv, Referred
<1>4. QED
  BY <1>1, <1>2, <1>3

\* A thread that is neither in a standby of the input nor stuck has nothing left to do.
LEMMA AtRest ==
  ASSUME IInv, NEW t \in Threads, thread[t].at \notin ToStandbyIn, ~ Stuck(t)
  PROVE  thread[t].ret = "standby" /\ thread[t].then = "idle"
<1>1. thread[t].then = "idle"
  BY DEF IInv, CInv, Thens
<1>2. thread[t].ret = "standby"
  BY FourThreads DEF IInv, CInv, Rets, Threads, ToStandbyIn, Dance
<1>3. QED
  BY <1>1, <1>2

LEMMA ThreadTypes ==
  ASSUME IInv, NEW t \in Threads
  PROVE  /\ thread[t].at \in Points /\ thread[t].ret \in Returns /\ thread[t].then \in Sequels
         /\ thread[t].mode \in Modes /\ held[t] \in SUBSET Mutexes
BY DEF IInv, CInv, ThreadType, ThreadRecords, HeldType

\* A thread at rest goes on, with references to the streams taken or dropped.
LEMMA RestMoves ==
  ASSUME IInv, NEW t \in Threads, thread[t].at \notin ToStandbyIn \cup {"so_out", "so_hw"},
         NEW p \in Points, NEW h \in SUBSET Mutexes, NEW r, Move(t, p, r, h), Referred(r, p, "idle"),
         t = Player => /\ p \in OutPoints => hal.mOutput /\ thread[Manager].at # "co_hw"
                       /\ p \in {"w_hw", "w_in", "w_hw2"} => "out" \in h /\ hal.out.mStandby
                       /\ p \in {"w_in", "w_hw2"} => hal.out.wakeLock
                       /\ thread[Player].at \in {"w_in", "w_hw2"} => InBlockAt(p, "standby", h),
         t = Control /\ p = "m_hw3" => "in" \in h,
         t = Recorder => /\ p \in InPoints => hal.mInput /\ thread[Manager].at # "ci_hw"
                         /\ p \in {"r_hw", "r_out", "r_in2", "r_hw2"} => hal.in.mStandby,
         t = Manager => /\ p = "co_hw" => thread[Player].at \notin OutPoints
                        /\ p = "ci_hw" => thread[Recorder].at \notin InPoints
  PROVE  IInv'
<1> DEFINE ret == thread[t].ret
           then == thread[t].then
<1>1. Moved(t, p, ret, then, h) /\ hal' = r
  BY MoveIs DEF IInv, CInv
<1>2. ~ Stuck(t)
  BY DEF Stuck, StuckAt
<1>3. ret = "standby" /\ then = "idle"
  BY <1>2, AtRest
<1> HIDE DEF ret, then
<1>4. Allowed(t, p, ret, then, h)
  <2>1. SameStreams(hal, hal')
    BY <1>1 DEF Referred, RefsOnly, SameCall, SameStreams
  <2>2. QED
    BY <1>3, <2>1, FourThreads DEF Allowed, SameStreams
<1>5. WaitsOk(t, p, ret, then, h)
  <2>1. Steps(t, p, h)
    BY <1>2, <1>3 DEF Steps, ret
  <2>2. t = Player /\ hal.out.mStandby /\ hal.out.wakeLock => InBlockAt(p, ret, h)
    <3> SUFFICES ASSUME t = Player, hal.out.mStandby, hal.out.wakeLock PROVE InBlockAt(p, ret, h)
      OBVIOUS
    <3>1. thread[Player].at \in {"w_in", "w_hw2"}
      BY <1>3 DEF IInv, HInv, OutFine, InBlock, InBlockAt, ret, ToStandbyIn
    <3>2. QED
      BY <1>3, <3>1
  <2>3. ~ WillStandbyOut(thread[t].at, then)
    BY <1>3 DEF WillStandbyOut
  <2>4. t = Control => ret = thread[Control].ret
    BY DEF ret
  <2>5. QED
    BY <2>1, <2>2, <2>3, <2>4 DEF WaitsOk, then
<1>6. Referred(hal', p, then)
  BY <1>1, <1>3
<1>7. QED
  BY <1>1, <1>4, <1>5, <1>6, Waited, Zenon

\* A thread on its way through a standby goes on to wait, with the mutexes it holds.
LEMMA StandbyMoves ==
  ASSUME IInv, NEW t \in Threads, NEW p \in Points, NEW h \in SUBSET Mutexes, held[t] \subseteq h,
         Move(t, p, hal, h),
         \/ Got(t, "so_out") /\ p = "so_hw"
         \/ Got(t, "si_in") /\ p = "si_hw"
         \/ Got(t, "d_out") /\ p = "d_in"
         \/ Got(t, "d_in") /\ p = "d_hw"
  PROVE  IInv'
<1> DEFINE ret == thread[t].ret
           then == thread[t].then
<1>1. Moved(t, p, ret, then, h) /\ hal' = hal
  BY MoveIs DEF IInv, CInv
<1>2. /\ thread[t].at \in {"so_out", "si_in", "d_out", "d_in"}
      /\ thread[t].at = "so_out" => p = "so_hw"
      /\ thread[t].at = "si_in" => p = "si_hw"
      /\ thread[t].at = "d_out" => p = "d_in"
      /\ thread[t].at = "d_in" => p = "d_hw"
  BY DEF Got
<1>3. t = Player => ret = "standby"
  <2>1. thread[t].at = "d_out" => "out" \notin held[t]
    <3>1. Waits["d_out"] = "out" /\ "d_out" \in DOMAIN Waits
      BY DEF Waits
    <3>2. thread[t].at = "d_out" => Got(t, "d_out")
      BY DEF Got
    <3>3. QED
      BY <3>1, <3>2, GotIs
  <2>2. QED
    BY <2>1 DEF IInv, CInv, Rets
<1>4. Allowed(t, p, ret, then, h)
  <2>1. t = Control => /\ ret \in {"standby", "enter", "leave"}
                       /\ ret # "standby" => then = "idle" /\ (p \in Dance \/ StuckAt(p, h))
    BY <1>2 DEF IInv, CInv, Rets, Stuck, StuckAt, Dance
  <2>2. then # "idle" => p \in ToStandbyIn \/ StuckAt(p, h)
    BY <1>2 DEF IInv, CInv, Thens, Stuck, StuckAt, Dance, ToStandbyIn
  <2>3. t \in {Recorder, Manager} => ret = "standby"
    BY DEF IInv, CInv, Rets
  <2> HIDE DEF ret, then
  <2>4. p \in {"so_hw", "si_hw", "d_in", "d_hw"}
    BY <1>2
  <2>5. QED
    BY <1>3, <2>1, <2>2, <2>3, <2>4 DEF Allowed, OutPoints, InPoints
<1>5. WaitsOk(t, p, ret, then, h)
  <2>1. Steps(t, p, h)
    BY <1>2, <1>3 DEF Steps, Stuck, StuckAt
  <2>2. t = Player /\ hal.out.mStandby /\ hal.out.wakeLock => InBlockAt(p, ret, h)
    BY <1>2, <1>3 DEF IInv, HInv, OutFine, InBlock, InBlockAt
  <2>3. WillStandbyOut(thread[t].at, then) => WillStandbyOut(p, then)
    BY <1>2 DEF WillStandbyOut
  <2>4. thread[t].at \in ToStandbyIn => p \in ToStandbyIn
    BY <1>2 DEF ToStandbyIn, Dance
  <2>5. p \in {"so_hw", "si_hw", "d_in", "d_hw"} /\ (t = Control => ret = thread[Control].ret)
    BY <1>2
  <2>6. QED
    BY <2>1, <2>2, <2>3, <2>4, <2>5 DEF WaitsOk
<1> HIDE DEF ret, then
<1>6. Referred(hal', p, then)
  BY <1>1, SameHal
<1>7. QED
  BY <1>1, <1>4, <1>5, <1>6, Waited, Zenon

LEMMA FollowsDropOut ==
  ASSUME NEW s, Follows(s), NEW t \in Threads, ~ LastOut(t, s), IInv
  PROVE  Follows(DropOut(t, s))
<1> DEFINE r == DropOut(t, s)
<1>1. /\ RefsOnly(s, r) /\ r.in = s.in
      /\ r.out.refs = s.out.refs \ {t} /\ r.out.fresh = s.out.fresh \ {t}
  BY DropOutOp DEF Follows
<1> HIDE DEF r
<1>2. Near(s, r) /\ HalType(r)
  BY <1>1, RefsAreNear DEF RefsOnly
<1>3. FreshOf(r)
  BY <1>1 DEF Follows, FreshOf
<1>4. ~ s.mOutput /\ s.out.refs # {} => r.out.refs # {}
  BY <1>1 DEF LastOut
<1>5. QED
  BY <1>1, <1>2, <1>3, <1>4 DEF Follows, Near, SameStreams, r

LEMMA FollowsDropIn ==
  ASSUME NEW s, Follows(s), NEW t \in Threads, ~ LastIn(t, s), IInv
  PROVE  Follows(DropIn(t, s))
<1> DEFINE r == DropIn(t, s)
<1>1. /\ RefsOnly(s, r) /\ r.out = s.out
      /\ r.in.refs = s.in.refs \ {t} /\ r.in.fresh = s.in.fresh \ {t}
  BY DropInOp DEF Follows
<1> HIDE DEF r
<1>2. Near(s, r) /\ HalType(r)
  BY <1>1, RefsAreNear DEF RefsOnly
<1>3. FreshOf(r)
  BY <1>1 DEF Follows, FreshOf
<1>4. ~ s.mInput /\ s.in.refs # {} => r.in.refs # {}
  BY <1>1 DEF LastIn
<1>5. QED
  BY <1>1, <1>2, <1>3, <1>4 DEF Follows, Near, SameStreams, r

\* standby() of the input returns.
LEMMA Finished ==
  ASSUME IInv, NEW t \in Threads, thread[t].at \in {"si_hw", "d_hw"}, "hw" \notin held[t],
         thread[t].ret = "standby", NEW s, Follows(s), OutHold(hal, s), SameMode(hal, s),
         s.in.mStandby, InShut(s), FinishIn(t, s)
  PROVE  IInv'
<1> DEFINE p == IF LastIn(t, s) THEN "si_in" ELSE thread[t].then
           then == IF LastIn(t, s) THEN thread[t].then ELSE "idle"
           ret == thread[t].ret
           h == {}
<1>0. /\ thread[t].at \in Points /\ thread[t].ret \in Returns /\ thread[t].then \in Sequels
      /\ thread[t].mode \in Modes /\ CInv /\ HInv
  BY ThreadTypes DEF IInv
<1>1. Moved(t, p, ret, then, h) /\ hal' = DropIn(t, s)
  <2>1. CASE LastIn(t, s)
    <3>1. "si_in" \in Points
      BY DEF Points, Waits
    <3>2. Move(t, "si_in", DropIn(t, s), {})
      BY <2>1 DEF FinishIn
    <3>3. QED
      BY <1>0, <2>1, <3>1, <3>2, MoveIs DEF CInv
  <2>2. CASE ~ LastIn(t, s)
    <3> DEFINE e == [thread[t] EXCEPT !.at = thread[t].then, !.then = "idle"]
    <3>1. e \in ThreadRecords
      <4>1. thread[t].then \in Points /\ "idle" \in Sequels
        BY <1>0 DEF Sequels, Points, Waits
      <4>2. QED
        BY <1>0, <4>1 DEF CInv, ThreadType, ThreadRecords
    <3>2. /\ thread' = [thread EXCEPT ![t] = e] /\ held' = [held EXCEPT ![t] = {}]
          /\ hal' = DropIn(t, s)
      BY <1>0, <2>2 DEF FinishIn, CInv, ThreadType
    <3>3. e.at = thread[t].then /\ e.ret = thread[t].ret /\ e.then = "idle"
      BY <1>0 DEF CInv, ThreadType, ThreadRecords
    <3> HIDE DEF e
    <3>4. Moved(t, e.at, e.ret, e.then, {})
      BY <1>0, <3>1, <3>2, SetThread DEF CInv
    <3>5. QED
      BY <2>2, <3>2, <3>3, <3>4
  <2>3. QED
    BY <2>1, <2>2
<1>2. /\ RefsOnly(s, hal') /\ hal'.out = s.out
      /\ hal'.in.refs = s.in.refs \ {t} /\ hal'.in.fresh = s.in.fresh \ {t}
  BY <1>1, DropInOp DEF Follows
<1>3. Near(s, hal') /\ HalType(hal') /\ FreshOf(hal')
  <2>1. Near(s, hal') /\ HalType(hal')
    BY <1>2, RefsAreNear DEF RefsOnly
  <2>2. QED
    BY <1>2, <2>1 DEF Follows, FreshOf
<1>4. /\ p \in {"si_in", "idle", "so_out", "drop"} /\ ret = "standby"
      /\ then # "idle" => p = "si_in"
      /\ thread[t].then = "so_out" => WillStandbyOut(p, then)
      /\ then \in Sequels
  BY <1>0 DEF Sequels, WillStandbyOut
<1> HIDE DEF p, ret, then
<1>5. Allowed(t, p, ret, then, h)
  BY <1>4, FourThreads DEF Allowed, OutPoints, InPoints, ToStandbyIn
<1>6. Sound(t, p, then, h)
  <2>1. Steps(t, p, h)
    BY <1>4 DEF Steps, Stuck, StuckAt, ret
  <2>2. SameStreams(hal, hal') /\ CountsOf(hal')
    BY <1>3 DEF Follows, Near, SameStreams
  <2>3. InShut(hal') /\ (~ hal.mOutput /\ OutShut(hal) => OutShut(hal'))
    BY <1>3 DEF Follows, Near
  <2>4. WillStandbyOut(thread[t].at, thread[t].then) => WillStandbyOut(p, then)
    BY <1>4 DEF WillStandbyOut
  <2>5. ~ hal.mOutput /\ hal.out.refs # {} => hal'.out.refs # {}
    BY <1>2 DEF Follows
  <2>6. GoneOk(t, p, then, h)
    BY <2>3, <2>4, <2>5 DEF GoneOk
  <2>7. QED
    BY <1>3, <2>1, <2>2, <2>6 DEF Sound
<1>7. OutFine'
  <2>1. OutHold(hal, hal')
    BY <1>3 DEF Near, OutHold
  <2>2. t = Player => ~ (hal.out.mStandby /\ hal.out.wakeLock)
    <3>1. t = Player => /\ thread[Player].ret # "write" /\ thread[Player].at \notin {"w_in", "w_hw2"}
                        /\ thread[Player].at \in {"si_in", "si_hw"} => "hw" \notin held[Player]
      BY <1>4 DEF ret
    <3>2. QED
      BY <3>1, Asleep
  <2>3. t = Player =>
           /\ hal.out.mStandby /\ hal.out.wakeLock => InBlockAt(p, ret, h)
           /\ p \in {"w_hw", "w_in", "w_hw2"} => hal.out.mStandby
           /\ p \in {"w_in", "w_hw2"} => hal.out.wakeLock
    BY <1>4, <2>2
  <2>4. Steps(t, p, h)
    BY <1>6 DEF Sound
  <2>5. QED
    BY <1>1, <2>1, <2>3, <2>4, KeepOut, Zenon
<1>8. InFine'
  BY <1>3, ShutIn DEF Near, InHold
<1>9. EchoKept(p, h)
  BY <1>3 DEF EchoKept, Follows, Near
<1>10. MuteKept(t, p, h)
  <2>1. MuteOk(hal')
    BY <1>3 DEF Near, InHold, MuteOk, ActiveInput
  <2>2. QED
    BY <2>1 DEF MuteKept
<1>11. CallKept(t, ret)
  <2>1. SameMode(hal, hal')
    BY <1>3 DEF Near, SameMode
  <2>2. CallOk(hal', thread[Control].ret)
    BY <1>0, <2>1 DEF HInv, CallFine, CallOk, SameMode
  <2>3. QED
    BY <2>2 DEF CallKept, ret
<1>12. QED
  BY <1>1, <1>5, <1>6, <1>7, <1>8, <1>9, <1>10, <1>11, Effect, Zenon

\* The end of setMode(): the mutexes are released, then the references go.
LEMMA SetModeEnds ==
  ASSUME IInv, NEW t \in Threads, t = Control,
         thread[t].at \in {"m_hw", "m_hw2", "m_hw3", "d_hw"}, thread[t].then = "idle",
         NEW s, Follows(s), OutKept(s), InKept(s), MuteOk(s), CallOk(s, "standby"),
         thread[t].at = "d_hw" => InShut(s), EndSetMode(t, s)
  PROVE  IInv'
<1> USE FourThreads
<1> DEFINE after == IF LastOut(t, s) THEN "so_out" ELSE "idle"
           p == IF LastIn(t, s) THEN "si_in" ELSE after
           then == IF LastIn(t, s) THEN after ELSE "idle"
           ret == "standby"
           h == {}
           s1 == DropIn(t, s)
<1>0. CInv /\ HInv
  BY DEF IInv
<1>1. Moved(t, p, ret, then, h) /\ hal' = DropOut(t, s1)
  <2> DEFINE e == [thread[t] EXCEPT !.at = p, !.then = then, !.mode = "normal", !.ret = ret]
  <2>1. e \in ThreadRecords
    <3>1. p \in Points /\ then \in Sequels /\ ret \in Returns /\ "normal" \in Modes
      BY DEF Points, Waits, Sequels, Returns, Modes
    <3> HIDE DEF p, then, ret
    <3>2. QED
      BY <1>0, <3>1 DEF CInv, ThreadType, ThreadRecords
  <2>2. /\ thread' = [thread EXCEPT ![t] = e] /\ held' = [held EXCEPT ![t] = {}]
        /\ hal' = DropOut(t, s1)
    BY <1>0 DEF EndSetMode, CInv, ThreadType
  <2>3. e.at = p /\ e.ret = ret /\ e.then = then
    BY <1>0 DEF CInv, ThreadType, ThreadRecords
  <2> HIDE DEF e, p, then, ret, s1
  <2>4. Moved(t, e.at, e.ret, e.then, {})
    BY <1>0, <2>1, <2>2, SetThread DEF CInv
  <2>5. QED
    BY <2>2, <2>3, <2>4
<1>2. /\ RefsOnly(s, s1) /\ s1.out = s.out
      /\ s1.in.refs = s.in.refs \ {t} /\ s1.in.fresh = s.in.fresh \ {t}
  BY DropInOp DEF Follows
<1> HIDE DEF s1
<1>3. /\ RefsOnly(s1, hal') /\ hal'.in = s1.in
      /\ hal'.out.refs = s1.out.refs \ {t} /\ hal'.out.fresh = s1.out.fresh \ {t}
  <2>1. HalType(s1)
    BY <1>2 DEF RefsOnly
  <2>2. QED
    BY <1>1, <2>1, DropOutOp
<1>4. RefsOnly(s, hal')
  BY <1>2, <1>3 DEF RefsOnly, SameCall
<1>5. /\ hal'.out.refs = s.out.refs \ {t} /\ hal'.out.fresh = s.out.fresh \ {t}
      /\ hal'.in.refs = s.in.refs \ {t} /\ hal'.in.fresh = s.in.fresh \ {t}
  BY <1>2, <1>3
<1>6. Near(s, hal') /\ HalType(hal') /\ FreshOf(hal')
  <2>1. FreshOf(hal')
    BY <1>5 DEF Follows, FreshOf
  <2>2. QED
    BY <1>4, <2>1, RefsAreNear DEF RefsOnly
<1>7. /\ p \in {"si_in", "so_out", "idle"} /\ then \in {"so_out", "idle"} /\ ret = "standby"
      /\ then # "idle" => p = "si_in"
      /\ LastOut(t, s) => WillStandbyOut(p, then)
      /\ LastIn(t, s) => p = "si_in"
  BY DEF WillStandbyOut
<1> HIDE DEF p, then, ret, h, after
<1>8. Allowed(t, p, ret, then, h)
  BY <1>7 DEF Allowed, ToStandbyIn
<1>9. Sound(t, p, then, h)
  <2>1. Steps(t, p, h)
    BY DEF Steps, Stuck, StuckAt
  <2>2. SameStreams(hal, hal') /\ CountsOf(hal')
    BY <1>6 DEF Follows, Near, SameStreams
  <2>3. /\ ~ hal.mOutput /\ OutShut(hal) => OutShut(hal')
        /\ ~ hal.mInput /\ InShut(hal) => InShut(hal')
    BY <1>6 DEF Follows, Near
  <2>4. ~ hal.mOutput /\ hal.out.refs # {} => hal'.out.refs # {} \/ WillStandbyOut(p, then)
    <3>1. ~ hal.mOutput /\ hal.out.refs # {} => ~ s.mOutput /\ s.out.refs # {}
      BY DEF Follows, SameStreams
    <3>2. QED
      BY <1>5, <1>7, <3>1 DEF LastOut
  <2>5. ~ hal.mInput /\ hal.in.refs # {} => hal'.in.refs # {} \/ p \in ToStandbyIn
    <3>1. ~ hal.mInput /\ hal.in.refs # {} => ~ s.mInput /\ s.in.refs # {}
      BY DEF Follows, SameStreams
    <3>2. QED
      BY <1>5, <1>7, <3>1 DEF LastIn, ToStandbyIn
  <2>6. ~ WillStandbyOut(thread[t].at, thread[t].then)
    BY DEF WillStandbyOut
  <2>7. thread[t].at \in ToStandbyIn => InShut(hal')
    BY <1>6 DEF Near, ToStandbyIn, Dance
  <2>8. GoneOk(t, p, then, h)
    BY <2>3, <2>4, <2>5, <2>6, <2>7 DEF GoneOk
  <2>9. QED
    BY <1>6, <2>1, <2>2, <2>8 DEF Sound
<1>10. OutFine'
  <2>1. Steps(t, p, h) /\ t # Player
    BY <1>9 DEF Sound
  <2>2. CASE OutHold(hal, s)
    <3>1. OutHold(hal, hal')
      BY <1>6, <2>2 DEF Near, OutHold
    <3>2. QED
      BY <1>1, <2>1, <3>1, KeepOut, Zenon
  <2>3. CASE ~ OutHold(hal, s)
    <3>1. s.out.mStandby /\ OutShut(s) /\ s.out.wakeLock = (hal.out.wakeLock /\ hal.out.mStandby)
      BY <2>3 DEF OutKept
    <3>2. hal'.out.mStandby /\ OutShut(hal') /\ hal'.out.wakeLock = (hal.out.wakeLock /\ hal.out.mStandby)
      BY <1>6, <3>1 DEF Near, OutHold
    <3>3. QED
      BY <1>1, <2>1, <3>2, ShutOut, Zenon
  <2>4. QED
    BY <2>2, <2>3
<1>11. InFine'
  <2>1. Steps(t, p, h) /\ t # Recorder
    BY <1>9 DEF Sound
  <2>2. CASE InHold(hal, s)
    <3>1. InHold(hal, hal')
      BY <1>6, <2>2 DEF Near, InHold
    <3>2. QED
      BY <1>1, <2>1, <3>1, KeepIn, Zenon
  <2>3. CASE ~ InHold(hal, s)
    <3>1. hal'.in.mStandby /\ InShut(hal')
      BY <1>6, <2>3 DEF Near, InHold, InKept
    <3>2. QED
      BY <3>1, ShutIn
  <2>4. QED
    BY <2>2, <2>3
<1>12. EchoKept(p, h)
  BY <1>6 DEF EchoKept, Follows, Near
<1>13. MuteKept(t, p, h)
  BY <1>6 DEF MuteKept, Near
<1>14. CallKept(t, ret)
  <2>1. CallOk(hal', "standby")
    BY <1>4, RefsAreNear
  <2>2. QED
    BY <1>7, <2>1 DEF CallKept
<1>15. QED
  BY <1>1, <1>8, <1>9, <1>10, <1>11, <1>12, <1>13, <1>14, Effect, Zenon

\* A standby of the input that has to give the echo reference back first.
LEMMA DanceBegins ==
  ASSUME CInv, NEW t \in Threads, NEW s, HalType(s), NEW h \in SUBSET Mutexes, NEW ret \in Returns,
         DoStandbyIn(t, s, h, ret)
  PROVE  /\ Moved(t, "d_out", ret, thread[t].then, h)
         /\ RefsOnly(s, hal') /\ Near(s, hal')
         /\ hal'.out.refs = s.out.refs \cup {t} /\ hal'.out.fresh = s.out.fresh \cup {t}
         /\ hal'.in.refs = s.in.refs /\ hal'.in.fresh = {}
         /\ FreshOf(s) => FreshOf(hal')
<1> DEFINE s1 == CountIn(s)
           e == [thread[t] EXCEPT !.at = "d_out", !.ret = ret]
<1>1. RefsOnly(s, s1) /\ s1.out = s.out /\ s1.in.refs = s.in.refs /\ s1.in.fresh = {}
  BY CountInOp
<1>2. hal' = PrepareOut(t, s1)
  BY DEF DoStandbyIn
<1> HIDE DEF s1
<1>3. /\ RefsOnly(s1, hal') /\ hal'.in = s1.in
      /\ hal'.out.refs = s1.out.refs \cup {t} /\ hal'.out.fresh = s1.out.fresh \cup {t}
  <2>1. HalType(s1)
    BY <1>1 DEF RefsOnly
  <2>2. QED
    BY <1>2, <2>1, PrepareOutOp
<1>4. RefsOnly(s, hal')
  BY <1>1, <1>3 DEF RefsOnly, SameCall
<1>5. Near(s, hal')
  BY <1>4, RefsAreNear
<1>6. Moved(t, "d_out", ret, thread[t].then, h)
  <2>1. e \in ThreadRecords
    <3>1. "d_out" \in Points
      BY DEF Points, Waits
    <3>2. QED
      BY <3>1 DEF CInv, ThreadType, ThreadRecords
  <2>2. thread' = [thread EXCEPT ![t] = e] /\ held' = [held EXCEPT ![t] = h]
    BY DEF DoStandbyIn, CInv, ThreadType
  <2>3. e.at = "d_out" /\ e.ret = ret /\ e.then = thread[t].then
    BY DEF CInv, ThreadType, ThreadRecords
  <2> HIDE DEF e
  <2>4. Moved(t, e.at, e.ret, e.then, h)
    BY <2>1, <2>2, SetThread DEF CInv
  <2>5. QED
    BY <2>3, <2>4
<1>7. FreshOf(s) => FreshOf(hal')
  BY <1>1, <1>3 DEF FreshOf
<1>8. QED
  BY <1>1, <1>3, <1>4, <1>5, <1>6, <1>7

LEMMA Dances ==
  ASSUME IInv, NEW t \in Threads, thread[t].at \notin {"so_out", "so_hw"},
         NEW h \in SUBSET Mutexes, NEW ret \in {"standby", "enter", "leave"},
         NEW s, Follows(s), OutKept(s), InHold(hal, s),
         CallOk(s, IF t = Control THEN ret ELSE thread[Control].ret),
         t # Control => ret = "standby" /\ (MuteOk(hal) => MuteOk(s)),
         t = Control /\ ret # "standby" => thread[t].then = "idle",
         t = Player => thread[t].at = "si_hw" /\ "hw" \notin held[t],
         DoStandbyIn(t, s, h, ret)
  PROVE  IInv'
<1> DEFINE p == "d_out"
           then == thread[t].then
<1>0. CInv /\ HInv /\ ret \in Returns
  BY DEF IInv, Returns
<1>1. /\ Moved(t, p, ret, then, h)
      /\ RefsOnly(s, hal') /\ Near(s, hal')
      /\ hal'.out.refs = s.out.refs \cup {t} /\ hal'.out.fresh = s.out.fresh \cup {t}
      /\ hal'.in.refs = s.in.refs /\ hal'.in.fresh = {}
      /\ FreshOf(s) => FreshOf(hal')
  BY <1>0, DanceBegins DEF Follows
<1>2. HalType(hal') /\ FreshOf(hal') /\ CountsOf(hal')
  BY <1>1 DEF Follows, Near, RefsOnly
<1>3. p \in Dance /\ p \in ToStandbyIn /\ p \notin OutPoints \cup InPoints
      /\ p \notin {"w_hw", "w_in", "w_hw2", "m_hw3", "co_hw", "ci_hw"}
  BY DEF Dance, ToStandbyIn, OutPoints, InPoints
<1>4. t = Player => ret = "standby" /\ thread[Player].ret = "standby"
  <2>1. t = Player => t # Control /\ thread[Player].ret # "write"
    BY <1>0, FourThreads DEF CInv, Rets
  <2>2. QED
    BY <1>0, <2>1 DEF CInv, Rets
<1>5. Allowed(t, p, ret, then, h)
  <2>1. t \in {Recorder, Manager} => ret = "standby"
    BY FourThreads
  <2> HIDE DEF p
  <2>2. QED
    BY <1>3, <1>4, <2>1 DEF Allowed, then
<1>6. Sound(t, p, then, h)
  <2>1. Steps(t, p, h)
    BY <1>4 DEF Steps, Stuck, StuckAt
  <2>2. SameStreams(hal, hal')
    BY <1>1 DEF Follows, Near, SameStreams
  <2>3. /\ ~ hal.mOutput /\ OutShut(hal) => OutShut(hal')
        /\ ~ hal.mInput /\ InShut(hal) => InShut(hal')
    BY <1>1 DEF Follows, Near
  <2>4. hal'.out.refs # {}
    BY <1>1
  <2>5. WillStandbyOut(thread[t].at, thread[t].then) => WillStandbyOut(p, then)
    BY DEF WillStandbyOut
  <2>6. GoneOk(t, p, then, h)
    BY <1>3, <2>3, <2>4, <2>5 DEF GoneOk
  <2>7. QED
    BY <1>2, <2>1, <2>2, <2>6 DEF Sound
<1>7. OutFine'
  <2>1. Steps(t, p, h) /\ p \notin {"w_hw", "w_in", "w_hw2"}
    BY <1>3, <1>6 DEF Sound
  <2>2. t = Player => ~ (hal.out.mStandby /\ hal.out.wakeLock)
    BY <1>4, Asleep
  <2> HIDE DEF p, then
  <2>3. CASE OutHold(hal, s)
    <3>1. OutHold(hal, hal')
      BY <1>1, <2>3 DEF Near, OutHold
    <3>2. QED
      BY <1>1, <2>1, <2>2, <3>1, KeepOut, Zenon
  <2>4. CASE ~ OutHold(hal, s)
    <3>1. s.out.mStandby /\ OutShut(s) /\ s.out.wakeLock = (hal.out.wakeLock /\ hal.out.mStandby)
      BY <2>4 DEF OutKept
    <3>2. hal'.out.mStandby /\ OutShut(hal') /\ hal'.out.wakeLock = (hal.out.wakeLock /\ hal.out.mStandby)
      BY <1>1, <3>1 DEF Near, OutHold
    <3>3. QED
      BY <1>1, <2>1, <2>2, <3>2, ShutOut, Zenon
  <2>5. QED
    BY <2>3, <2>4
<1>8. InFine'
  <2>1. Steps(t, p, h) /\ p \notin {"r_hw", "r_out", "r_in2", "r_hw2"}
    BY <1>6 DEF Sound
  <2>2. InHold(hal, hal')
    BY <1>1 DEF Near, InHold
  <2> HIDE DEF p, then
  <2>3. QED
    BY <1>1, <2>1, <2>2, KeepIn, Zenon
<1>9. EchoKept(p, h)
  BY <1>1 DEF EchoKept, Follows, Near
<1>10. MuteKept(t, p, h)
  BY <1>1, <1>3 DEF MuteKept, Near
<1>11. CallKept(t, ret)
  <2>1. CallOk(hal', IF t = Control THEN ret ELSE thread[Control].ret)
    BY <1>1, RefsAreNear
  <2>2. QED
    BY <2>1 DEF CallKept
<1> HIDE DEF p, then
<1>12. QED
  BY <1>1, <1>5, <1>6, <1>7, <1>8, <1>9, <1>10, <1>11, Effect, Zenon

-----------------------------------------------------------------------------
(* setMode().                                                              *)

\* The call is entered, with the streams that were active in standby.
LEMMA EnterEnds ==
  ASSUME IInv, NEW t \in Threads, t = Control,
         thread[t].at \in {"m_hw", "m_hw2", "m_hw3", "d_hw"}, thread[t].then = "idle",
         NEW s, Follows(s), OutKept(s), InKept(s), s.call = NoCall,
         thread[t].at = "d_hw" => InShut(s), EndEnter(t, s)
  PROVE  IInv'
<1>1. PICK pcm, mixer \in Opens("call") : EndSetMode(t, EnterCall(s, pcm, mixer))
  BY DEF EndEnter
<1> DEFINE r == EnterCall(s, pcm, mixer)
<1>2. /\ CallOnly(s, r) /\ r.mInCallAudioMode
      /\ "call" \notin Failures => r.call.pcm /\ r.call.mixer
      /\ CountsOf(s) => CountsOf(r)
  BY EnterCallOp DEF Follows
<1>3. EndSetMode(t, r)
  BY <1>1
<1> HIDE DEF r
<1>4. Follows(r)
  BY <1>2 DEF Follows, CallOnly, SameStreams, FreshOf, EchoOk, OutShut, InShut
<1>5. OutKept(r) /\ InKept(r) /\ (thread[t].at = "d_hw" => InShut(r))
  BY <1>2 DEF OutKept, InKept, OutHold, InHold, CallOnly, OutShut, InShut
<1>6. MuteOk(r) /\ CallOk(r, "standby")
  BY <1>2 DEF MuteOk, CallOk
<1>7. QED
  BY <1>3, <1>4, <1>5, <1>6, SetModeEnds

\* The call is left.
LEMMA LeaveEnds ==
  ASSUME IInv, NEW t \in Threads, t = Control,
         thread[t].at \in {"m_hw", "m_hw2", "m_hw3", "d_hw"}, thread[t].then = "idle",
         NEW s, Follows(s), OutKept(s), InKept(s), ~ ActiveInput(s),
         s.call = NoCall, s.mMode = "normal",
         thread[t].at = "d_hw" => InShut(s), EndSetMode(t, LeftCall(s))
  PROVE  IInv'
<1> DEFINE r == LeftCall(s)
<1>1. /\ HalType(r) /\ r.out = s.out /\ r.in = s.in /\ r.muted = s.muted /\ r.call = s.call
      /\ r.mMode = s.mMode /\ r.mMicMute = s.mMicMute /\ r.mOutput = s.mOutput
      /\ r.mInput = s.mInput /\ r.mEchoReference = s.mEchoReference /\ ~ r.mInCallAudioMode
      /\ r.mPcmOpenCnt = s.mPcmOpenCnt /\ r.mMixerOpenCnt = s.mMixerOpenCnt
  BY DEF LeftCall, Follows, HalType
<1> HIDE DEF r
<1>2. Follows(r)
  BY <1>1 DEF Follows, SameStreams, FreshOf, EchoOk, OutShut, InShut, CountsOf
<1>3. OutKept(r) /\ InKept(r) /\ (thread[t].at = "d_hw" => InShut(r))
  BY <1>1 DEF OutKept, InKept, OutHold, InHold, OutShut, InShut
<1>4. MuteOk(r) /\ CallOk(r, "standby")
  BY <1>1 DEF MuteOk, CallOk, ActiveInput
<1>5. QED
  BY <1>2, <1>3, <1>4, SetModeEnds DEF r

LEMMA FollowsStandbyOut ==
  ASSUME NEW s, Follows(s), NEW r, r = StandbyOut(s)
  PROVE  /\ Follows(r) /\ OutOnly(s, r) /\ OutShut(r) /\ r.out.mStandby
         /\ r.out.refs = s.out.refs /\ r.out.wakeLock = (s.out.wakeLock /\ s.out.mStandby)
<1>1. /\ OutOnly(s, r) /\ OutShut(r) /\ r.out.mStandby /\ r.out.refs = s.out.refs
      /\ r.out.fresh = {} /\ r.out.mEchoReference = s.out.mEchoReference
      /\ r.out.wakeLock = (s.out.wakeLock /\ s.out.mStandby)
      /\ CountsOf(s) => CountsOf(r)
  BY StandbyOutOp DEF Follows
<1>2. Follows(r)
  BY <1>1 DEF Follows, OutOnly, SameCall, SameStreams, FreshOf, EchoOk, InShut
<1>3. QED
  BY <1>1, <1>2

LEMMA FollowsStandbyIn ==
  ASSUME NEW s, Follows(s), NEW r, r = StandbyIn(CountIn(s))
  PROVE  Follows(r) /\ InOnly(s, r) /\ InShut(r) /\ r.in.mStandby /\ r.in.refs = s.in.refs
<1> DEFINE c == CountIn(s)
<1>1. RefsOnly(s, c) /\ c.out = s.out /\ c.in.refs = s.in.refs /\ c.in.fresh = {}
  BY CountInOp DEF Follows
<1> HIDE DEF c
<1>2. HalType(c) /\ SameCall(s, c) /\ (CountsOf(s) <=> CountsOf(c))
  <2>1. Near(s, c)
    BY <1>1, RefsAreNear
  <2>2. QED
    BY <1>1, <2>1 DEF RefsOnly, Near
<1>3. r = StandbyIn(c)
  BY DEF c
<1>4. /\ InOnly(c, r) /\ InShut(r) /\ r.in.mStandby /\ r.in.refs = c.in.refs
      /\ r.in.fresh = c.in.fresh /\ ~ r.in.mEchoReference
      /\ CountsOf(c) => CountsOf(r)
  BY <1>2, <1>3, StandbyInOp
<1>5. InOnly(s, r) /\ r.in.refs = s.in.refs
  BY <1>1, <1>2, <1>4 DEF InOnly, SameCall
<1>6. Follows(r)
  BY <1>1, <1>2, <1>4, <1>5 DEF Follows, InOnly, SameCall, SameStreams, FreshOf, EchoOk, OutShut
<1>7. QED
  BY <1>4, <1>5, <1>6

\* The mode is switched, with the mutexes of the active streams held.
LEMMA Switched ==
  ASSUME IInv, NEW t \in Threads, t = Control, thread[t].at \in {"m_hw", "m_hw2", "m_hw3"},
         NEW s, Follows(s), RefsOnly(hal, s), ActiveInput(s) => t \in s.in.refs, Switch(t, s)
  PROVE  IInv'
<1> DEFINE m == thread[t].mode
           s1 == [s EXCEPT !.mMode = m]
           enter == m = "in_call" /\ ~ s.mInCallAudioMode
           leave == m = "normal" /\ s.mInCallAudioMode
           s2 == IF leave THEN LeaveCall(s1) ELSE s1
           s3 == IF t \in s.out.refs THEN StandbyOut(s2) ELSE s2
           s4 == IF t \in s.in.refs THEN StandbyIn(CountIn(s3)) ELSE s3
           dance == t \in s.in.refs /\ NeedsDance(s3)
<1>0. CInv /\ HInv /\ m \in Modes
  BY ThreadTypes DEF IInv
<1>1. thread[t].ret = "standby" /\ thread[t].then = "idle" /\ ~ Stuck(t) /\ thread[t].at \notin ToStandbyIn
  <2>1. ~ Stuck(t) /\ thread[t].at \notin ToStandbyIn
    BY DEF Stuck, StuckAt, ToStandbyIn, Dance
  <2>2. QED
    BY <2>1, AtRest
<1>2. Near(hal, s) /\ MuteOk(s) /\ CallOk(s, "standby")
  <2>1. MuteOk(hal) /\ CallOk(hal, "standby")
    BY <1>0, <1>1 DEF HInv, MuteFine, CallFine
  <2>2. QED
    BY <2>1, RefsAreNear DEF Near
<1>3. /\ HalType(s1) /\ s1.mMode = m /\ s1.out = s.out /\ s1.in = s.in /\ s1.muted = s.muted
      /\ s1.mMicMute = s.mMicMute /\ s1.mInCallAudioMode = s.mInCallAudioMode /\ s1.call = s.call
      /\ s1.mOutput = s.mOutput /\ s1.mInput = s.mInput /\ s1.mEchoReference = s.mEchoReference
      /\ s1.mPcmOpenCnt = s.mPcmOpenCnt /\ s1.mMixerOpenCnt = s.mMixerOpenCnt
  <2> HIDE DEF m
  <2>1. QED
    BY <1>0 DEF Follows, HalType
<1>4. \/ /\ s.mMode = m \/ ~ (enter \/ leave)
         /\ EndSetMode(t, s1)
      \/ /\ s.mMode # m /\ (enter \/ leave) /\ dance
         /\ DoStandbyIn(t, s3, OutHeld(t, s), IF enter THEN "enter" ELSE "leave")
      \/ /\ s.mMode # m /\ enter /\ ~ dance
         /\ EndEnter(t, s4)
      \/ /\ s.mMode # m /\ leave /\ ~ dance
         /\ EndSetMode(t, LeftCall(s4))
  BY DEF Switch
<1> HIDE DEF s1
<1>5. Follows(s1) /\ OutHold(hal, s1) /\ InHold(hal, s1)
  BY <1>2, <1>3 DEF Follows, SameStreams, CountsOf, FreshOf, EchoOk, OutShut, InShut,
                    Near, OutHold, InHold
<1>6. s.mMode \in Modes /\ s.mInCallAudioMode \in BOOLEAN
  BY DEF Follows, HalType
<1>7. CASE (s.mMode = m \/ ~ (enter \/ leave)) /\ EndSetMode(t, s1)
  <2>1. MuteOk(s1)
    BY <1>2, <1>3, <1>7 DEF MuteOk, CallOk, ActiveInput
  <2>2. CallOk(s1, "standby")
    BY <1>2, <1>3, <1>7 DEF CallOk
  <2>3. OutKept(s1) /\ InKept(s1)
    BY <1>5 DEF OutKept, InKept
  <2> HIDE DEF m, enter, leave
  <2>4. QED
    BY <1>1, <1>5, <1>7, <2>1, <2>2, <2>3, SetModeEnds
<1>8. CASE enter \/ leave
  <2>0. ~ (enter /\ leave)
    OBVIOUS
  <2>1. /\ Follows(s2) /\ OutHold(hal, s2) /\ InHold(hal, s2) /\ s2.call = NoCall
        /\ s2.mMode = m /\ s2.mInCallAudioMode = s.mInCallAudioMode /\ s2.in = s.in
        /\ s2.mInput = s.mInput /\ s2.mOutput = s.mOutput
    <3>1. CASE leave
      <4>1. /\ CallOnly(s1, s2) /\ s2.mInCallAudioMode = s1.mInCallAudioMode /\ s2.call = NoCall
            /\ CountsOf(s1) /\ ("call" \notin Failures => s1.call.pcm /\ s1.call.mixer) => CountsOf(s2)
        <5>1. s2 = LeaveCall(s1)
          BY <3>1
        <5> HIDE DEF s2, leave
        <5>2. QED
          BY <1>3, <5>1, LeaveCallOp
      <4>2. "call" \notin Failures => s1.call.pcm /\ s1.call.mixer
        BY <1>2, <1>3, <3>1 DEF CallOk
      <4> HIDE DEF s2, leave, enter
      <4>3. CountsOf(s2)
        BY <1>5, <4>1, <4>2 DEF Follows
      <4>4. Follows(s2)
        BY <1>5, <4>1, <4>3 DEF Follows, CallOnly, SameStreams, FreshOf, EchoOk, OutShut, InShut
      <4>5. QED
        BY <1>3, <1>5, <4>1, <4>4 DEF CallOnly, OutHold, InHold
    <3>2. CASE enter
      <4>1. s2 = s1
        BY <3>2
      <4>2. s1.call = NoCall
        BY <1>2, <1>3, <3>2 DEF CallOk
      <4>3. QED
        BY <1>3, <1>5, <4>1, <4>2
    <3>3. QED
      BY <1>8, <3>1, <3>2
  <2> HIDE DEF s2
  <2>2. /\ Follows(s3) /\ OutKept(s3) /\ InHold(hal, s3) /\ s3.call = NoCall
        /\ s3.mMode = m /\ s3.mInCallAudioMode = s.mInCallAudioMode /\ s3.in = s.in
        /\ s3.mInput = s.mInput
    <3>1. CASE t \in s.out.refs
      <4>1. s3 = StandbyOut(s2)
        BY <3>1
      <4> HIDE DEF s3, m
      <4>2. /\ Follows(s3) /\ OutOnly(s2, s3) /\ OutShut(s3) /\ s3.out.mStandby
            /\ s3.out.refs = s2.out.refs /\ s3.out.wakeLock = (s2.out.wakeLock /\ s2.out.mStandby)
        BY <2>1, <4>1, FollowsStandbyOut
      <4>3. QED
        BY <2>1, <4>2 DEF OutOnly, SameCall, OutKept, OutHold, InHold
    <3>2. CASE t \notin s.out.refs
      BY <2>1, <3>2 DEF OutKept
    <3>3. QED
      BY <3>1, <3>2
  <2> HIDE DEF s3
  <2>3. /\ Follows(s4) /\ OutKept(s4) /\ InKept(s4) /\ s4.call = NoCall /\ s4.mMode = m
        /\ ~ ActiveInput(s4)
    <3>1. CASE t \in s.in.refs
      <4>1. s4 = StandbyIn(CountIn(s3))
        BY <3>1
      <4> HIDE DEF s4, m
      <4>2. Follows(s4) /\ InOnly(s3, s4) /\ InShut(s4) /\ s4.in.mStandby
        BY <2>2, <4>1, FollowsStandbyIn
      <4>3. QED
        BY <2>2, <4>2 DEF InOnly, SameCall, OutKept, OutHold, InKept, OutShut, ActiveInput
    <3>2. CASE t \notin s.in.refs
      BY <2>2, <3>2 DEF InKept, ActiveInput
    <3>3. QED
      BY <3>1, <3>2
  <2> HIDE DEF s4
  <2>4. ASSUME DoStandbyIn(t, s3, OutHeld(t, s), IF enter THEN "enter" ELSE "leave")
        PROVE  IInv'
    <3> DEFINE ret == IF enter THEN "enter" ELSE "leave"
    <3>1. ret \in {"standby", "enter", "leave"} /\ OutHeld(t, s) \in SUBSET Mutexes
      BY DEF OutHeld, Mutexes
    <3>2. CallOk(s3, ret)
      BY <1>8, <2>0, <2>2 DEF CallOk
    <3>3. t # Player
      BY FourThreads
    <3> HIDE DEF ret
    <3>4. DoStandbyIn(t, s3, OutHeld(t, s), ret)
      BY <2>4 DEF ret
    <3> HIDE DEF m, enter, leave, dance
    <3>5. QED
      BY <1>1, <2>2, <3>1, <3>2, <3>3, <3>4, Dances
  <2>5. ASSUME EndEnter(t, s4)
        PROVE  IInv'
    BY <1>1, <2>3, <2>5, EnterEnds
  <2>6. ASSUME leave, EndSetMode(t, LeftCall(s4))
        PROVE  IInv'
    <3>1. s4.mMode = "normal"
      BY <2>3, <2>6
    <3> HIDE DEF m, enter, leave, dance
    <3>2. QED
      BY <1>1, <2>3, <2>6, <3>1, LeaveEnds
  <2> HIDE DEF m, enter, leave, dance
  <2>7. QED
    BY <1>4, <1>7, <2>4, <2>5, <2>6
<1>9. QED
  <2> HIDE DEF m, enter, leave, dance, s2, s3, s4
  <2>1. QED
    BY <1>4, <1>7, <1>8

-----------------------------------------------------------------------------
(* References that a thread takes and drops on its way.                    *)

\* s is the HAL with other references, none of which is the last of a closed stream.
Refers(s) == Follows(s) /\ RefsOnly(hal, s)

LEMMA RefsChain ==
  ASSUME NEW s, NEW q, NEW r, RefsOnly(s, q), RefsOnly(q, r)
  PROVE  RefsOnly(s, r)
BY DEF RefsOnly, SameCall

LEMMA RefersIs ==
  ASSUME NEW s, Refers(s)
  PROVE  \A p, then : Referred(s, p, then)
<1>1. SameStreams(hal, s) /\ FreshOf(s) /\ RefsOnly(hal, s)
  BY DEF Refers, Follows
<1>2. QED
  BY <1>1 DEF Refers, Follows, Referred

LEMMA TakesOut ==
  ASSUME IInv, NEW s, Refers(s), NEW t \in Threads, NEW r, r = PrepareOut(t, s)
  PROVE  Refers(r) /\ r.out.refs = s.out.refs \cup {t}
<1>1. /\ RefsOnly(s, r) /\ r.in = s.in
      /\ r.out.refs = s.out.refs \cup {t} /\ r.out.fresh = s.out.fresh \cup {t}
  BY PrepareOutOp DEF Refers, Follows
<1>2. Near(s, r) /\ HalType(r) /\ FreshOf(r)
  BY <1>1, RefsAreNear DEF Refers, Follows, FreshOf, RefsOnly
<1>3. Follows(r)
  BY <1>1, <1>2 DEF Refers, Follows, Near, SameStreams
<1>4. QED
  BY <1>1, <1>3, RefsChain DEF Refers

LEMMA TakesIn ==
  ASSUME IInv, NEW s, Refers(s), NEW t \in Threads, NEW r, r = PrepareIn(t, s)
  PROVE  Refers(r) /\ r.in.refs = s.in.refs \cup {t}
<1>1. /\ RefsOnly(s, r) /\ r.out = s.out
      /\ r.in.refs = s.in.refs \cup {t} /\ r.in.fresh = s.in.fresh \cup {t}
  BY PrepareInOp DEF Refers, Follows
<1>2. Near(s, r) /\ HalType(r) /\ FreshOf(r)
  BY <1>1, RefsAreNear DEF Refers, Follows, FreshOf, RefsOnly
<1>3. Follows(r)
  BY <1>1, <1>2 DEF Refers, Follows, Near, SameStreams
<1>4. QED
  BY <1>1, <1>3, RefsChain DEF Refers

LEMMA DropsOut ==
  ASSUME IInv, NEW s, Refers(s), NEW t \in Threads, NEW r, r = DropOut(t, s)
  PROVE  /\ RefsOnly(s, r) /\ (~ LastOut(t, s) => Refers(r))
         /\ \A p, then : WillStandbyOut(p, then) => Referred(r, p, then)
<1>1. /\ RefsOnly(s, r) /\ r.in = s.in
      /\ r.out.refs = s.out.refs \ {t} /\ r.out.fresh = s.out.fresh \ {t}
  BY DropOutOp DEF Refers, Follows
<1>2. RefsOnly(hal, r)
  BY <1>1, RefsChain DEF Refers
<1>3. ~ LastOut(t, s) => Follows(r)
  BY FollowsDropOut DEF Refers
<1>4. FreshOf(r) /\ (~ hal.mInput /\ hal.in.refs # {} => r.in.refs # {})
  BY <1>1 DEF Refers, Follows, FreshOf
<1>5. \A p, then : WillStandbyOut(p, then) => Referred(r, p, then)
  BY <1>2, <1>4 DEF Referred
<1>6. QED
  BY <1>1, <1>2, <1>3, <1>5 DEF Refers

LEMMA DropsIn ==
  ASSUME IInv, NEW s, Refers(s), NEW t \in Threads, NEW r, r = DropIn(t, s)
  PROVE  /\ RefsOnly(s, r) /\ (~ LastIn(t, s) => Refers(r))
         /\ \A p \in ToStandbyIn : \A then : Referred(r, p, then)
<1>1. /\ RefsOnly(s, r) /\ r.out = s.out
      /\ r.in.refs = s.in.refs \ {t} /\ r.in.fresh = s.in.fresh \ {t}
  BY DropInOp DEF Refers, Follows
<1>2. RefsOnly(hal, r)
  BY <1>1, RefsChain DEF Refers
<1>3. ~ LastIn(t, s) => Follows(r)
  BY FollowsDropIn DEF Refers
<1>4. FreshOf(r) /\ (~ hal.mOutput /\ hal.out.refs # {} => r.out.refs # {})
  BY <1>1 DEF Refers, Follows, FreshOf
<1>5. \A p \in ToStandbyIn : \A then : Referred(r, p, then)
  BY <1>2, <1>4 DEF Referred
<1>6. QED
  BY <1>1, <1>2, <1>3, <1>5 DEF Refers

-----------------------------------------------------------------------------
(* setMode() looks for the active streams.                                 *)

LEMMA ScansIn ==
  ASSUME IInv, NEW t \in Threads, t = Control, thread[t].at \in {"m_hw", "m_hw2", "m_hw3"},
         NEW s, Refers(s), ScanIn(t, s)
  PROVE  IInv'
<1> USE FourThreads
<1>0. thread[t].at \notin ToStandbyIn \cup {"so_out", "so_hw"} /\ OutHeld(t, s) \in SUBSET Mutexes
      /\ OutHeld(t, s) \cup {"hw"} \in SUBSET Mutexes /\ "m_in" \in Points /\ "si_in" \in Points
      /\ "si_in" \in ToStandbyIn
  BY DEF ToStandbyIn, Dance, OutHeld, Mutexes, Points, Waits
<1>1. CASE ActiveInput(s) /\ Move(t, "m_in", PrepareIn(t, s), OutHeld(t, s))
  <2>1. Referred(PrepareIn(t, s), "m_in", "idle")
    BY TakesIn, RefersIs
  <2>2. QED
    BY <1>0, <1>1, <2>1, RestMoves
<1>2. CASE Move(t, "si_in", DropIn(t, s), OutHeld(t, s) \cup {"hw"})
  <2>1. Referred(DropIn(t, s), "si_in", "idle")
    BY <1>0, DropsIn
  <2>2. QED
    BY <1>0, <1>2, <2>1, RestMoves
<1>3. CASE ~ ActiveInput(s) /\ ~ LastIn(t, s) /\ Switch(t, DropIn(t, s))
  <2> DEFINE r == DropIn(t, s)
  <2>1. Refers(r) /\ RefsOnly(s, r)
    BY <1>3, DropsIn
  <2> HIDE DEF r
  <2>2. ~ ActiveInput(r)
    BY <1>3, <2>1 DEF RefsOnly, SameCall, ActiveInput
  <2>3. Switch(t, r)
    BY <1>3 DEF r
  <2>4. QED
    BY <2>1, <2>2, <2>3, Switched DEF Refers
<1>4. QED
  BY <1>1, <1>2, <1>3 DEF ScanIn

LEMMA ScansOut ==
  ASSUME IInv, NEW t \in Threads, t = Control, thread[t].at \in {"m_hw", "m_hw2", "m_hw3"},
         NEW s, Refers(s), ScanOut(t, s)
  PROVE  IInv'
<1> USE FourThreads
<1>0. thread[t].at \notin ToStandbyIn \cup {"so_out", "so_hw"} /\ {} \in SUBSET Mutexes
      /\ {"hw"} \in SUBSET Mutexes /\ "m_out" \in Points /\ "so_out" \in Points
  BY DEF ToStandbyIn, Dance, Mutexes, Points, Waits
<1>1. CASE Move(t, "m_out", PrepareOut(t, s), {})
  <2>1. Referred(PrepareOut(t, s), "m_out", "idle")
    BY TakesOut, RefersIs
  <2>2. QED
    BY <1>0, <1>1, <2>1, RestMoves
<1>2. CASE Move(t, "so_out", DropOut(t, s), {"hw"})
  <2>1. Referred(DropOut(t, s), "so_out", "idle")
    BY DropsOut DEF WillStandbyOut
  <2>2. QED
    BY <1>0, <1>2, <2>1, RestMoves
<1>3. CASE ~ LastOut(t, s) /\ ScanIn(t, DropOut(t, s))
  <2>1. Refers(DropOut(t, s))
    BY <1>3, DropsOut
  <2>2. QED
    BY <1>3, <2>1, ScansIn
<1>4. QED
  BY <1>1, <1>2, <1>3 DEF ScanOut

LEMMA ControlKeeps ==
  ASSUME IInv, ControlStep
  PROVE  IInv'
<1> USE FourThreads
<1> DEFINE t == Control
<1>0. t \in Threads /\ Refers(hal)
  BY SameHal DEF Threads, Refers
<1>1. CASE setModeHw(t)
  BY <1>0, <1>1, ScansOut DEF setModeHw, Got
<1>2. CASE setModeOut(t)
  <2>1. /\ thread[t].at = "m_out" /\ Move(t, "m_hw2", hal, {"out"})
        /\ thread[t].at \notin ToStandbyIn \cup {"so_out", "so_hw"} /\ {"out"} \in SUBSET Mutexes
        /\ "m_hw2" \in Points
    BY <1>2 DEF setModeOut, Got, ToStandbyIn, Dance, Mutexes, Points, Waits
  <2>2. QED
    BY <1>0, <2>1, SameHal, RestMoves
<1>3. CASE setModeCheckOut(t)
  BY <1>0, <1>3, ScansIn, ScansOut DEF setModeCheckOut, Got
<1>4. CASE setModeIn(t)
  <2>1. /\ thread[t].at = "m_in" /\ Move(t, "m_hw3", hal, held[t] \cup {"in"})
        /\ thread[t].at \notin ToStandbyIn \cup {"so_out", "so_hw"}
        /\ "m_hw3" \in Points
    BY <1>4 DEF setModeIn, Got, ToStandbyIn, Dance, Points, Waits
  <2>2. held[t] \cup {"in"} \in SUBSET Mutexes
    BY <1>0, ThreadTypes DEF Mutexes
  <2>3. QED
    BY <1>0, <2>1, <2>2, SameHal, RestMoves
<1>5. CASE setModeCheckIn(t)
  <2>1. ActiveInput(hal) /\ t \in hal.in.fresh => t \in hal.in.refs
    BY DEF IInv, HInv, FreshOf
  <2>2. CASE ActiveInput(hal) /\ t \in hal.in.fresh /\ Switch(t, hal)
    BY <1>0, <1>5, <2>1, <2>2, Switched DEF setModeCheckIn, Got, Refers
  <2>3. CASE ScanIn(t, hal)
    BY <1>0, <1>5, <2>3, ScansIn DEF setModeCheckIn, Got
  <2>4. QED
    BY <1>5, <2>2, <2>3 DEF setModeCheckIn
<1>6. CASE setMicMuteHw(t)
  <2> DEFINE s == [hal EXCEPT !.mMicMute = ~ @]
             u == [s EXCEPT !.in.refs = @ \cup {t}]
             ret == thread[t].ret
             then == thread[t].then
  <2>0. HalType(hal) /\ thread[t].at = "mute_hw" /\ CInv /\ HInv
    BY <1>6 DEF IInv, CInv, setMicMuteHw, Got
  <2>1. ret = "standby" /\ then = "idle" /\ thread[t].at \notin ToStandbyIn /\ ~ Stuck(t)
    <3>1. thread[t].at \notin ToStandbyIn /\ ~ Stuck(t)
      BY <2>0 DEF ToStandbyIn, Dance, Stuck, StuckAt
    <3>2. QED
      BY <1>0, <3>1, AtRest
  <2>2. /\ HalType(s) /\ s.out = hal.out /\ s.in = hal.in /\ SameMode(hal, s) /\ SameStreams(hal, s)
        /\ s.mPcmOpenCnt = hal.mPcmOpenCnt /\ s.mMixerOpenCnt = hal.mMixerOpenCnt
        /\ s.mEchoReference = hal.mEchoReference
    BY <2>0 DEF HalType, SameMode, SameStreams
  <2>3. \/ /\ s.mMode # "in_call" /\ ActiveInput(s) /\ Move(t, "si_in", u, {})
        \/ /\ ~ (s.mMode # "in_call" /\ ActiveInput(s)) /\ Move(t, "idle", s, {})
    BY <1>6 DEF setMicMuteHw
  <2> HIDE DEF s
  <2>4. /\ HalType(u) /\ u.out = s.out /\ SameMode(s, u) /\ SameStreams(s, u)
        /\ u.mPcmOpenCnt = s.mPcmOpenCnt /\ u.mMixerOpenCnt = s.mMixerOpenCnt
        /\ u.mEchoReference = s.mEchoReference
        /\ u.in.mStandby = s.in.mStandby /\ u.in.mPcm = s.in.mPcm /\ u.in.mMixer = s.in.mMixer
        /\ u.in.mEchoReference = s.in.mEchoReference /\ u.in.refs = s.in.refs \cup {t}
        /\ u.in.fresh = s.in.fresh
    <3>1. HalType(u)
      BY <1>0, <2>2 DEF HalType, InRecords
    <3>2. /\ u.out = s.out /\ SameMode(s, u) /\ SameStreams(s, u)
          /\ u.mPcmOpenCnt = s.mPcmOpenCnt /\ u.mMixerOpenCnt = s.mMixerOpenCnt
          /\ u.mEchoReference = s.mEchoReference
      BY <2>2 DEF HalType, SameMode, SameStreams
    <3>3. /\ u.in.mStandby = s.in.mStandby /\ u.in.mPcm = s.in.mPcm /\ u.in.mMixer = s.in.mMixer
          /\ u.in.mEchoReference = s.in.mEchoReference /\ u.in.refs = s.in.refs \cup {t}
          /\ u.in.fresh = s.in.fresh /\ u.in.mNeedEchoReference = s.in.mNeedEchoReference
      BY <2>2 DEF HalType, InRecords
    <3>4. QED
      BY <3>1, <3>2, <3>3
  <2> HIDE DEF u
  <2>5. PICK p \in {"si_in", "idle"}, r \in {u, s} :
           /\ Move(t, p, r, {})
           /\ s.mMode # "in_call" /\ ActiveInput(s) => p = "si_in"
    BY <2>3
  <2>6. /\ HalType(r) /\ r.out = hal.out /\ SameMode(hal, r) /\ SameStreams(hal, r)
        /\ r.mPcmOpenCnt = hal.mPcmOpenCnt /\ r.mMixerOpenCnt = hal.mMixerOpenCnt
        /\ r.mEchoReference = hal.mEchoReference
        /\ r.in.mStandby = hal.in.mStandby /\ r.in.mPcm = hal.in.mPcm /\ r.in.mMixer = hal.in.mMixer
        /\ r.in.mEchoReference = hal.in.mEchoReference /\ hal.in.refs \subseteq r.in.refs
        /\ r.in.fresh = hal.in.fresh
    BY <2>2, <2>4 DEF SameMode, SameStreams
  <2>7. Moved(t, p, ret, then, {}) /\ hal' = r
    <3>1. p \in Points /\ {} \in SUBSET Mutexes
      BY DEF Points, Waits
    <3>2. QED
      BY <1>0, <2>0, <2>5, <3>1, MoveIs DEF CInv
  <2> HIDE DEF ret, then
  <2>8. Steps(t, p, {}) /\ Allowed(t, p, ret, then, {}) /\ OutHold(hal, hal') /\ InHold(hal, hal')
    BY <2>1, <2>6, <2>7 DEF Steps, Allowed, OutHold, InHold
  <2>9. Sound(t, p, then, {})
    <3>1. /\ CountsOf(hal') /\ FreshOf(hal')
          /\ (OutShut(hal) => OutShut(hal')) /\ (InShut(hal) => InShut(hal'))
      BY <2>0, <2>6, <2>7 DEF HInv, CountsOf, FreshOf, OutShut, InShut, SameMode
    <3>2. GoneOk(t, p, then, {})
      <4>1. hal'.out.refs = hal.out.refs /\ (hal.in.refs # {} => hal'.in.refs # {})
        BY <2>6, <2>7
      <4>2. ~ WillStandbyOut(thread[t].at, thread[t].then) /\ thread[t].at \notin ToStandbyIn
        BY <2>0, <2>1 DEF WillStandbyOut, then
      <4>3. QED
        BY <3>1, <4>1, <4>2 DEF GoneOk
    <3>3. QED
      BY <2>6, <2>7, <2>8, <3>1, <3>2 DEF Sound
  <2>10. OutFine' /\ InFine'
    BY <1>0, <2>7, <2>8, KeepOut, KeepIn
  <2>11. EchoKept(p, {}) /\ MuteKept(t, p, {})
    <3>1. EchoKept(p, {})
      BY <2>6, <2>7 DEF EchoKept, EchoOk, SameStreams
    <3>2. p # "si_in" => MuteOk(hal')
      <4>1. p # "si_in" => ~ (s.mMode # "in_call" /\ ActiveInput(s))
        BY <2>5
      <4>2. QED
        BY <2>2, <2>6, <2>7, <4>1 DEF MuteOk, ActiveInput, SameMode, SameStreams
    <3>3. QED
      BY <3>1, <3>2 DEF MuteKept, ToStandbyIn
  <2>12. CallKept(t, ret)
    <3>1. ret = thread[Control].ret
      BY DEF ret
    <3>2. QED
      BY <2>0, <2>6, <2>7, <3>1 DEF HInv, CallFine, CallKept, CallOk, SameMode
  <2>13. QED
    BY <1>0, <2>7, <2>8, <2>9, <2>10, <2>11, <2>12, Effect, Zenon
<1>7. QED
  BY <1>1, <1>2, <1>3, <1>4, <1>5, <1>6 DEF ControlStep

-----------------------------------------------------------------------------
(* Standby.                                                                *)

LEMMA OutputStands ==
  ASSUME IInv, NEW t \in Threads, thread[t].at \in {"so_hw", "ro_hw"}, "hw" \notin held[t],
         Move(t, "idle", StandbyOut(hal), {})
  PROVE  IInv'
<1> DEFINE p == "idle"
           ret == thread[t].ret
           then == thread[t].then
           h == {}
<1>0. CInv /\ HInv /\ HalType(hal) /\ p \in Points /\ h \in SUBSET Mutexes
  BY DEF IInv, CInv, Points
<1>1. Moved(t, p, ret, then, h) /\ hal' = StandbyOut(hal)
  BY <1>0, MoveIs DEF CInv
<1>2. ret = "standby" /\ then = "idle" /\ ~ Stuck(t) /\ thread[t].at \notin ToStandbyIn
  <2>1. thread[t].at \notin ToStandbyIn /\ ~ Stuck(t)
    BY DEF ToStandbyIn, Dance, Stuck, StuckAt
  <2>2. QED
    BY <2>1, AtRest
<1>3. /\ Follows(hal') /\ OutOnly(hal, hal') /\ OutShut(hal') /\ hal'.out.mStandby
      /\ hal'.out.refs = hal.out.refs
      /\ hal'.out.wakeLock = (hal.out.wakeLock /\ hal.out.mStandby)
  BY <1>1, SameHal, FollowsStandbyOut
<1> HIDE DEF ret, then, h
<1>4. Allowed(t, p, ret, then, h)
  BY <1>2, FourThreads DEF Allowed, OutPoints, InPoints
<1>5. Sound(t, p, then, h)
  <2>1. Steps(t, p, h)
    BY <1>2 DEF Steps, ret
  <2>2. GoneOk(t, p, then, h)
    BY <1>2, <1>3 DEF GoneOk, OutOnly, InShut
  <2>3. QED
    BY <1>3, <2>1, <2>2 DEF Sound, Follows
<1>6. OutFine'
  <2>1. t = Player => ~ (hal.out.mStandby /\ hal.out.wakeLock)
    BY <1>2, Asleep DEF ret
  <2>2. Steps(t, p, h) /\ p \notin {"w_hw", "w_in", "w_hw2"}
    BY <1>5 DEF Sound
  <2> HIDE DEF p
  <2>3. QED
    BY <1>1, <1>3, <2>1, <2>2, ShutOut, Zenon
<1>7. InFine'
  <2>1. InHold(hal, hal') /\ Steps(t, p, h) /\ p \notin {"r_hw", "r_out", "r_in2", "r_hw2"}
    BY <1>3, <1>5 DEF InHold, OutOnly, Sound
  <2> HIDE DEF p
  <2>2. QED
    BY <1>1, <2>1, KeepIn, Zenon
<1>8. EchoKept(p, h) /\ MuteKept(t, p, h)
  <2>1. MuteOk(hal) => MuteOk(hal')
    BY <1>3 DEF OutOnly, SameCall, MuteOk, ActiveInput
  <2>2. QED
    BY <1>2, <1>3, <2>1 DEF EchoKept, MuteKept, Follows
<1>9. CallKept(t, ret)
  BY <1>0, <1>3 DEF CallKept, CallOk, HInv, CallFine, OutOnly, SameCall, ret
<1> HIDE DEF p
<1>10. QED
  BY <1>1, <1>4, <1>5, <1>6, <1>7, <1>8, <1>9, Effect, Zenon

\* The end of the dance.
LEMMA Danced ==
  ASSUME IInv, NEW t \in Threads, danced(t)
  PROVE  IInv'
<1> DEFINE given == hal.in.mEchoReference
           s == releaseEchoReference(hal, given)
           q == DropOut(t, s)
           s1 == StandbyIn(q)
           ret == thread[t].ret
           then == thread[t].then
<1>0. /\ CInv /\ HInv /\ HalType(hal) /\ thread[t].at = "d_hw" /\ "hw" \notin held[t]
      /\ given \in BOOLEAN
  <2>1. "d_hw" \in DOMAIN Waits /\ Waits["d_hw"] = "hw" /\ Got(t, "d_hw")
    BY DEF danced, Waits
  <2>2. thread[t].at = "d_hw" /\ "hw" \notin held[t]
    BY <2>1, GotIs
  <2>3. given \in BOOLEAN
    BY DEF IInv, CInv, HalType, InRecords
  <2>4. QED
    BY <2>2, <2>3 DEF IInv, CInv
<1>1. /\ EchoOnly(hal, s) /\ s.in = hal.in
      /\ s.mEchoReference = (hal.mEchoReference /\ ~ given)
      /\ s.out.mEchoReference = (hal.out.mEchoReference /\ ~ (given /\ hal.mEchoReference /\ hal.mOutput))
  BY <1>0, ReleaseEchoOp
<1>2. \/ LastOut(t, s) /\ Move(t, "so_out", q, {"in", "hw"})
      \/ /\ ~ LastOut(t, s)
         /\ \/ ret = "standby" /\ FinishIn(t, s1)
            \/ ret = "enter" /\ EndEnter(t, s1)
            \/ ret = "leave" /\ EndSetMode(t, LeftCall(s1))
  BY DEF danced
<1>3. /\ t = Player => ret = "standby"
      /\ t \in {Recorder, Manager} => ret = "standby"
      /\ t = Control => ret \in {"standby", "enter", "leave"} /\ (ret # "standby" => then = "idle")
  <2>1. thread[Player].at = "d_hw" => thread[Player].ret # "write"
    BY <1>0 DEF CInv, Rets
  <2>2. QED
    BY <1>0, <2>1 DEF CInv, Rets
<1> HIDE DEF s
<1>4. /\ RefsOnly(s, q) /\ q.in = s.in
      /\ q.out.refs = s.out.refs \ {t} /\ q.out.fresh = s.out.fresh \ {t}
  BY <1>1, DropOutOp DEF EchoOnly
<1> HIDE DEF q, given
<1>5. /\ HalType(q) /\ SameMode(hal, q) /\ SameStreams(hal, q) /\ OutHold(hal, q) /\ q.in = hal.in
      /\ q.muted = hal.muted /\ q.mMicMute = hal.mMicMute
      /\ CountsOf(q) /\ FreshOf(q)
      /\ q.out.mEchoReference = s.out.mEchoReference /\ q.mEchoReference = s.mEchoReference
  <2>1. /\ HalType(q) /\ SameMode(hal, q) /\ SameStreams(hal, q) /\ OutHold(hal, q)
        /\ q.muted = hal.muted /\ q.mMicMute = hal.mMicMute /\ q.in = hal.in
        /\ q.out.mEchoReference = s.out.mEchoReference /\ q.mEchoReference = s.mEchoReference
        /\ q.mPcmOpenCnt = hal.mPcmOpenCnt /\ q.mMixerOpenCnt = hal.mMixerOpenCnt
    BY <1>1, <1>4 DEF EchoOnly, RefsOnly, SameCall, SameMode, SameStreams, OutHold
  <2>2. CountsOf(q)
    BY <1>0, <2>1 DEF HInv, CountsOf, OutHold, SameMode
  <2>3. FreshOf(q)
    BY <1>0, <1>1, <1>4 DEF HInv, FreshOf, EchoOnly
  <2>4. QED
    BY <2>1, <2>2, <2>3
<1>6. CASE LastOut(t, s) /\ Move(t, "so_out", q, {"in", "hw"})
  <2> DEFINE p == "so_out"
             h == {"in", "hw"}
  <2>1. Moved(t, p, ret, then, h) /\ hal' = q
    <3>1. p \in Points /\ h \in SUBSET Mutexes
      BY DEF Points, Waits, Mutexes
    <3>2. QED
      BY <1>0, <1>6, <3>1, MoveIs DEF CInv
  <2>2. StuckAt(p, h) /\ WillStandbyOut(p, then)
    BY DEF StuckAt, WillStandbyOut
  <2>3. Allowed(t, p, ret, then, h)
    BY <1>3, <2>2, FourThreads DEF Allowed, OutPoints, InPoints
  <2>4. p \notin {"w_hw", "w_in", "w_hw2", "r_hw", "r_out", "r_in2", "r_hw2"}
    OBVIOUS
  <2> HIDE DEF p, h
  <2>5. Steps(t, p, h)
    BY <1>3, <2>2 DEF Steps, ret
  <2>6. Sound(t, p, then, h)
    <3>1. (OutShut(hal) => OutShut(hal')) /\ (InShut(hal) => InShut(hal'))
      BY <1>5, <2>1 DEF OutShut, InShut, OutHold
    <3>2. GoneOk(t, p, then, h)
      BY <2>2, <3>1 DEF GoneOk
    <3>3. QED
      BY <1>5, <2>1, <2>5, <3>2 DEF Sound
  <2>7. OutFine'
    <3>1. t = Player => ~ (hal.out.mStandby /\ hal.out.wakeLock)
      BY <1>0, <1>3, Asleep DEF ret
    <3>2. QED
      BY <1>5, <2>1, <2>4, <2>5, <3>1, KeepOut
  <2>8. InFine'
    <3>1. InHold(hal, hal')
      BY <1>5, <2>1 DEF InHold
    <3>2. QED
      BY <2>1, <2>4, <2>5, <3>1, KeepIn
  <2>9. EchoKept(p, h) /\ MuteKept(t, p, h)
    <3>1. MuteOk(hal) => MuteOk(hal')
      BY <1>5, <2>1 DEF MuteOk, ActiveInput, SameMode, SameStreams
    <3>2. QED
      BY <2>2, <3>1 DEF EchoKept, MuteKept
  <2>10. CallKept(t, ret)
    BY <1>0, <1>5, <2>1 DEF CallKept, CallOk, HInv, CallFine, SameMode, ret
  <2>11. QED
    BY <2>1, <2>3, <2>6, <2>7, <2>8, <2>9, <2>10, Effect, Zenon
<1>7. CASE ~ LastOut(t, s)
  <2>1. /\ InOnly(q, s1) /\ InShut(s1) /\ s1.in.mStandby /\ s1.in.refs = q.in.refs
        /\ s1.in.fresh = q.in.fresh /\ ~ s1.in.mEchoReference
        /\ CountsOf(q) => CountsOf(s1)
    BY <1>5, StandbyInOp
  <2> HIDE DEF s1
  <2>2. OutHold(hal, s1) /\ SameMode(hal, s1) /\ SameStreams(hal, s1)
    BY <1>5, <2>1 DEF InOnly, SameCall, OutHold, SameMode, SameStreams
  <2>3. EchoOk(hal) => EchoOk(s1)
    <3>1. /\ s1.mEchoReference = s.mEchoReference /\ s1.out.mEchoReference = s.out.mEchoReference
          /\ s1.mOutput = hal.mOutput
      BY <1>5, <2>1, <2>2 DEF InOnly, SameCall, SameStreams
    <3>2. QED
      BY <1>1, <2>1, <3>1 DEF EchoOk, given
  <2>4. ~ hal.mOutput => (hal.out.refs # {} => s1.out.refs # {}) /\ (OutShut(hal) => OutShut(s1))
    <3>1. s1.out.refs = hal.out.refs \ {t} /\ s.out.refs = hal.out.refs /\ s.mOutput = hal.mOutput
      BY <1>1, <1>4, <2>1 DEF InOnly, EchoOnly
    <3>2. QED
      BY <1>7, <2>2, <3>1 DEF LastOut, OutHold, OutShut
  <2>5. Follows(s1)
    <3>1. FreshOf(s1) /\ CountsOf(s1) /\ HalType(s1) /\ s1.in.refs = hal.in.refs
      BY <1>5, <2>1 DEF FreshOf, InOnly
    <3>2. QED
      BY <2>1, <2>2, <2>3, <2>4, <3>1 DEF Follows
  <2>6. CASE ret = "standby" /\ FinishIn(t, s1)
    BY <1>0, <2>1, <2>2, <2>5, <2>6, Finished DEF ret
  <2>7. OutKept(s1) /\ InKept(s1) /\ ~ ActiveInput(s1)
    BY <2>1, <2>2 DEF OutKept, InKept, ActiveInput
  <2>8. ASSUME ret # "standby" PROVE t = Control /\ then = "idle" /\ s1.call = NoCall
                                     /\ (ret = "leave" => s1.mMode = "normal")
    <3>1. t = Control /\ then = "idle"
      BY <1>3, <2>8 DEF Threads
    <3>2. CallOk(hal, ret)
      BY <1>0, <3>1 DEF HInv, CallFine, ret
    <3>3. hal.call = NoCall /\ (ret = "leave" => hal.mMode = "normal")
      BY <1>3, <2>8, <3>1, <3>2 DEF CallOk
    <3>4. QED
      BY <2>2, <3>1, <3>3 DEF SameMode
  <2>9. CASE ret = "enter" /\ EndEnter(t, s1)
    BY <1>0, <2>1, <2>5, <2>7, <2>8, <2>9, EnterEnds DEF then
  <2>10. CASE ret = "leave" /\ EndSetMode(t, LeftCall(s1))
    BY <1>0, <2>1, <2>5, <2>7, <2>8, <2>10, LeaveEnds DEF then
  <2>11. QED
    BY <1>2, <1>7, <2>6, <2>9, <2>10
<1>8. QED
  BY <1>2, <1>6, <1>7

LEMMA StandbyKeeps ==
  ASSUME IInv, NEW t \in Threads, Standby(t)
  PROVE  IInv'
<1>0. CInv /\ HInv /\ held[t] \in SUBSET Mutexes
  BY ThreadTypes DEF IInv
<1>1. CASE standbyOut(t)
  <2>1. held[t] \cup {"out"} \in SUBSET Mutexes /\ "so_hw" \in Points
    BY <1>0 DEF Mutexes, Points, Waits
  <2>2. QED
    BY <1>1, <2>1, StandbyMoves DEF standbyOut
<1>2. CASE standbyOutHw(t)
  <2>1. "so_hw" \in DOMAIN Waits /\ Waits["so_hw"] = "hw"
    BY DEF Waits
  <2>2. thread[t].at = "so_hw" /\ "hw" \notin held[t]
    BY <1>2, <2>1, GotIs DEF standbyOutHw
  <2>3. QED
    BY <1>2, <2>2, OutputStands DEF standbyOutHw
<1>3. CASE standbyIn(t)
  <2>1. held[t] \cup {"in"} \in SUBSET Mutexes /\ "si_hw" \in Points
    BY <1>0 DEF Mutexes, Points, Waits
  <2>2. QED
    BY <1>3, <2>1, StandbyMoves DEF standbyIn
<1>4. CASE standbyInHw(t)
  <2>1. "si_hw" \in DOMAIN Waits /\ Waits["si_hw"] = "hw"
    BY DEF Waits
  <2>2. thread[t].at = "si_hw" /\ "hw" \notin held[t]
    BY <1>4, <2>1, GotIs DEF standbyInHw
  <2>3. thread[t].ret = "standby"
    BY <1>0, <2>2 DEF CInv, Rets, Threads, Dance, Stuck, StuckAt
  <2>4. Follows(hal) /\ OutKept(hal) /\ InHold(hal, hal) /\ OutHold(hal, hal)
    BY SameHal DEF OutKept, InHold, OutHold
  <2>5. CASE DoStandbyIn(t, hal, {}, "standby")
    <3>1. CallOk(hal, IF t = Control THEN "standby" ELSE thread[Control].ret)
      BY <1>0, <2>3 DEF HInv, CallFine
    <3>2. {} \in SUBSET Mutexes /\ "standby" \in {"standby", "enter", "leave"}
      OBVIOUS
    <3>3. QED
      BY <2>2, <2>4, <2>5, <3>1, <3>2, Dances
  <2>6. CASE FinishIn(t, StandbyIn(CountIn(hal)))
    <3> DEFINE s == StandbyIn(CountIn(hal))
    <3>1. Follows(s) /\ InOnly(hal, s) /\ InShut(s) /\ s.in.mStandby
      BY <2>4, FollowsStandbyIn
    <3>2. FinishIn(t, s)
      BY <2>6
    <3> HIDE DEF s
    <3>3. OutHold(hal, s) /\ SameMode(hal, s)
      BY <3>1 DEF InOnly, SameCall, OutHold, SameMode
    <3>4. QED
      BY <2>2, <2>3, <3>1, <3>2, <3>3, Finished
  <2>7. QED
    BY <1>4, <2>5, <2>6 DEF standbyInHw
<1>5. CASE retakeOut(t)
  <2>1. held[t] \cup {"out"} \in SUBSET Mutexes /\ "d_in" \in Points
    BY <1>0 DEF Mutexes, Points, Waits
  <2>2. QED
    BY <1>5, <2>1, StandbyMoves DEF retakeOut
<1>6. CASE retakeIn(t)
  <2>1. held[t] \cup {"in"} \in SUBSET Mutexes /\ "d_hw" \in Points
    BY <1>0 DEF Mutexes, Points, Waits
  <2>2. QED
    BY <1>6, <2>1, StandbyMoves DEF retakeIn
<1>7. CASE danced(t)
  BY <1>7, Danced
<1>8. QED
  BY <1>1, <1>2, <1>3, <1>4, <1>5, <1>6, <1>7 DEF Standby

-----------------------------------------------------------------------------
(* The playback thread.                                                    *)

\* What is so of the player in the block of write() that opens the output.
LEMMA InWrite ==
  ASSUME IInv, thread[Player].at \in {"w_hw", "w_hw2"}
  PROVE  /\ thread[Player].ret = "standby" /\ thread[Player].then = "idle" /\ ~ Stuck(Player)
         /\ thread[Player].at \notin ToStandbyIn /\ Player \in Threads
         /\ hal.mOutput /\ thread[Manager].at # "co_hw"
         /\ hal.out.mStandby /\ OutShut(hal) /\ "out" \in held[Player]
         /\ thread[Player].at = "w_hw2" => hal.out.wakeLock
<1>1. Player \in Threads /\ thread[Player].at \notin ToStandbyIn /\ ~ Stuck(Player)
  BY DEF Threads, ToStandbyIn, Dance, Stuck, StuckAt
<1>2. thread[Player].ret = "standby" /\ thread[Player].then = "idle"
  BY <1>1, AtRest
<1>3. hal.mOutput /\ thread[Manager].at # "co_hw" /\ "out" \in held[Player]
  BY DEF IInv, CInv, OutUsed, Holds, OutPoints
<1>4. hal.out.mStandby /\ OutShut(hal) /\ (thread[Player].at = "w_hw2" => hal.out.wakeLock)
  BY <1>2 DEF IInv, HInv, OutFine
<1>5. QED
  BY <1>1, <1>2, <1>3, <1>4

\* The input of s is as fine as it was, between two steps of the player.
InStays(s) ==
  /\ s.in.mStandby => InShut(s)
  /\ ~ s.in.mStandby => s.in.mPcm
  /\ hal.in.mStandby => s.in.mStandby
  /\ SameMode(hal, s)
  /\ MuteOk(hal) => MuteOk(s)

LEMMA LeavesStandby ==
  ASSUME IInv, thread[Player].at \in {"w_hw", "w_hw2"}, NEW s, Follows(s), InStays(s),
         s.out.mStandby, s.out.wakeLock, s.out.mPcm \/ OutShut(s), LeaveOutStandby(s)
  PROVE  IInv'
<1> DEFINE t == Player
           ret == "standby"
           then == "idle"
<1> USE FourThreads
<1>0. /\ CInv /\ HInv /\ t \in Threads /\ thread[t].ret = "standby" /\ thread[t].then = "idle"
      /\ ~ Stuck(t) /\ thread[t].at \notin ToStandbyIn /\ hal.mOutput /\ thread[Manager].at # "co_hw"
  BY InWrite DEF IInv
<1>1. PICK p \in {"w_use", "so_out"}, h \in {{"out"}, {}} :
        /\ Move(t, p, hal', h)
        /\ \/ p = "w_use" /\ s.out.mPcm /\ hal' = [s EXCEPT !.out.mStandby = FALSE]
           \/ p = "so_out" /\ ~ s.out.mPcm /\ hal' = [s EXCEPT !.out.wakeLock = FALSE]
  BY DEF LeaveOutStandby, Move
<1>2. /\ HalType(hal') /\ hal'.in = s.in /\ SameMode(s, hal') /\ SameStreams(s, hal')
      /\ hal'.muted = s.muted /\ hal'.mMicMute = s.mMicMute /\ hal'.mEchoReference = s.mEchoReference
      /\ hal'.mPcmOpenCnt = s.mPcmOpenCnt /\ hal'.mMixerOpenCnt = s.mMixerOpenCnt
      /\ hal'.out.mPcm = s.out.mPcm /\ hal'.out.mMixer = s.out.mMixer
      /\ hal'.out.mEchoReference = s.out.mEchoReference
      /\ hal'.out.refs = s.out.refs /\ hal'.out.fresh = s.out.fresh
      /\ hal'.out.mStandby = (p = "so_out") /\ hal'.out.wakeLock = (p = "w_use")
      /\ p = "w_use" <=> s.out.mPcm
  <2>0. HalType(s)
    BY DEF Follows
  <2>1. CASE p = "w_use"
    <3>1. hal' = [s EXCEPT !.out.mStandby = FALSE] /\ s.out.mPcm
      BY <1>1, <2>1
    <3>2. HalType(hal')
      BY <2>0, <3>1 DEF HalType, OutRecords
    <3>3. /\ hal'.in = s.in /\ SameMode(s, hal') /\ SameStreams(s, hal')
          /\ hal'.muted = s.muted /\ hal'.mMicMute = s.mMicMute /\ hal'.mEchoReference = s.mEchoReference
          /\ hal'.mPcmOpenCnt = s.mPcmOpenCnt /\ hal'.mMixerOpenCnt = s.mMixerOpenCnt
      BY <2>0, <3>1 DEF HalType, SameMode, SameStreams
    <3>4. /\ hal'.out.mPcm = s.out.mPcm /\ hal'.out.mMixer = s.out.mMixer
          /\ hal'.out.mEchoReference = s.out.mEchoReference
          /\ hal'.out.refs = s.out.refs /\ hal'.out.fresh = s.out.fresh
          /\ hal'.out.mStandby = FALSE /\ hal'.out.wakeLock = s.out.wakeLock
      BY <2>0, <3>1 DEF HalType, OutRecords
    <3>5. QED
      BY <2>1, <3>1, <3>2, <3>3, <3>4
  <2>2. CASE p = "so_out"
    <3>1. hal' = [s EXCEPT !.out.wakeLock = FALSE] /\ ~ s.out.mPcm
      BY <1>1, <2>2
    <3>2. HalType(hal')
      BY <2>0, <3>1 DEF HalType, OutRecords
    <3>3. /\ hal'.in = s.in /\ SameMode(s, hal') /\ SameStreams(s, hal')
          /\ hal'.muted = s.muted /\ hal'.mMicMute = s.mMicMute /\ hal'.mEchoReference = s.mEchoReference
          /\ hal'.mPcmOpenCnt = s.mPcmOpenCnt /\ hal'.mMixerOpenCnt = s.mMixerOpenCnt
      BY <2>0, <3>1 DEF HalType, SameMode, SameStreams
    <3>4. /\ hal'.out.mPcm = s.out.mPcm /\ hal'.out.mMixer = s.out.mMixer
          /\ hal'.out.mEchoReference = s.out.mEchoReference
          /\ hal'.out.refs = s.out.refs /\ hal'.out.fresh = s.out.fresh
          /\ hal'.out.mStandby = s.out.mStandby /\ hal'.out.wakeLock = FALSE
      BY <2>0, <3>1 DEF HalType, OutRecords
    <3>5. QED
      BY <2>2, <3>1, <3>2, <3>3, <3>4
  <2>3. QED
    BY <1>1, <2>1, <2>2
<1>3. Moved(t, p, ret, then, h)
  <2>1. p \in Points /\ h \in SUBSET Mutexes
    BY DEF Points, Waits, Mutexes
  <2>2. QED
    BY <1>0, <1>1, <2>1, MoveIs DEF CInv
<1>4. hal'.mOutput /\ SameStreams(hal, hal') /\ SameMode(hal, hal')
  BY <1>0, <1>2 DEF Follows, SameStreams, InStays, SameMode
<1>5. Allowed(t, p, ret, then, h)
  BY <1>0, <1>4 DEF Allowed
<1> HIDE DEF ret, then
<1>6. Sound(t, p, then, h)
  <2>1. Steps(t, p, h)
    BY <1>0 DEF Steps
  <2>2. CountsOf(hal') /\ FreshOf(hal')
    BY <1>2 DEF Follows, CountsOf, FreshOf, SameMode
  <2>3. GoneOk(t, p, then, h)
    <3>1. /\ ~ WillStandbyOut(thread[t].at, thread[t].then)
          /\ InShut(s) => InShut(hal')
      BY <1>0, <1>2 DEF WillStandbyOut, InShut
    <3>2. QED
      BY <1>0, <1>2, <3>1 DEF GoneOk, Follows
  <2>4. QED
    BY <1>2, <1>4, <2>1, <2>2, <2>3 DEF Sound
<1>7. OutFine'
  <2>1. thread'[Player].at = p
    BY <1>3 DEF Moved
  <2>2. QED
    BY <1>1, <1>2, <2>1 DEF OutFine, OutShut
<1>8. InFine'
  <2>1. thread'[Recorder] = thread[Recorder]
    BY <1>3 DEF Moved, Threads
  <2>2. QED
    BY <1>0, <1>2, <2>1 DEF InFine, InStays, InShut, HInv
<1>9. EchoKept(p, h)
  BY <1>2 DEF EchoKept, EchoOk, Follows, SameStreams
<1>10. MuteKept(t, p, h)
  <2>1. MuteOk(s) => MuteOk(hal')
    BY <1>2 DEF MuteOk, ActiveInput, SameMode, SameStreams
  <2>2. QED
    BY <2>1 DEF MuteKept, InStays
<1>11. CallKept(t, ret)
  BY <1>0, <1>4 DEF CallKept, CallOk, HInv, CallFine, SameMode
<1>12. QED
  BY <1>0, <1>3, <1>5, <1>6, <1>7, <1>8, <1>9, <1>10, <1>11, Effect, Zenon

LEMMA OpensOutput ==
  ASSUME IInv, thread[Player].at \in {"w_hw", "w_hw2"}, NEW s, Follows(s), InStays(s),
         s.out.mStandby, s.out.wakeLock, OutShut(s), OpenOutput(s)
  PROVE  IInv'
<1>1. PICK pcm \in Opens("pcm"), mixer \in Opens("mixer") : LeaveOutStandby(OpenOut(s, pcm, mixer))
  BY DEF OpenOutput
<1> DEFINE r == OpenOut(s, pcm, mixer)
<1>2. pcm \in BOOLEAN /\ mixer \in BOOLEAN
  BY DEF Opens
<1>3. /\ OutOnly(s, r) /\ OutSame(s, r) /\ (r.out.mPcm \/ OutShut(r))
      /\ CountsOf(s) => CountsOf(r)
  BY <1>2, OpenOutOp DEF Follows
<1>4. LeaveOutStandby(r)
  BY <1>1
<1> HIDE DEF r
<1>5. hal.mOutput
  BY InWrite
<1>6. Follows(r)
  BY <1>3, <1>5 DEF Follows, OutOnly, OutSame, SameCall, SameStreams, FreshOf, EchoOk, InShut
<1>7. InStays(r)
  BY <1>3 DEF InStays, OutOnly, SameCall, SameMode, InShut, MuteOk, ActiveInput
<1>8. r.out.mStandby /\ r.out.wakeLock
  BY <1>3 DEF OutSame
<1>9. QED
  BY <1>3, <1>4, <1>6, <1>7, <1>8, LeavesStandby

\* The input is closed and opened again around the opening of the output.
LEMMA Reopened ==
  ASSUME IInv, thread[Player].at = "w_hw2", NEW pcm \in BOOLEAN, NEW mixer \in BOOLEAN,
         NEW cap \in BOOLEAN, NEW mixer2 \in BOOLEAN, NEW s, s = Reopen(hal, pcm, mixer, cap, mixer2),
         ActiveInput(hal)
  PROVE  /\ Follows(s) /\ OutSame(hal, s) /\ (s.out.mPcm \/ OutShut(s))
         /\ InSame(hal, s) /\ (s.in.mPcm \/ InShut(s)) /\ SameCall(hal, s) /\ MuteOk(s)
<1> DEFINE a == CloseIn(hal)
           b == OpenOut(a, pcm, mixer)
<1>0. HalType(hal) /\ OutShut(hal) /\ CountsOf(hal) /\ hal.mOutput
  BY InWrite DEF IInv, CInv, HInv
<1>1. /\ InOnly(hal, a) /\ InSame(hal, a) /\ InShut(a)
      /\ CountsOf(hal) => CountsOf(a)
  BY <1>0, CloseInOp
<1>2. s = OpenIn(b, cap, mixer2)
  BY DEF Reopen
<1> HIDE DEF a
<1>3. HalType(a) /\ OutShut(a)
  BY <1>0, <1>1 DEF InOnly, OutShut
<1>4. /\ OutOnly(a, b) /\ OutSame(a, b) /\ (b.out.mPcm \/ OutShut(b))
      /\ CountsOf(a) => CountsOf(b)
  BY <1>3, OpenOutOp
<1> HIDE DEF b
<1>5. HalType(b) /\ InShut(b)
  BY <1>1, <1>4 DEF OutOnly, InShut
<1>6. /\ InOnly(b, s) /\ InSame(b, s)
      /\ s.in.mPcm \/ InShut(s)
      /\ b.mMode # "in_call" /\ s.in.mMixer => s.muted = b.mMicMute
      /\ CountsOf(b) => CountsOf(s)
  BY <1>2, <1>5, OpenInOp
<1>7. SameCall(hal, s) /\ HalType(s)
  BY <1>1, <1>4, <1>6 DEF InOnly, OutOnly, SameCall
<1>8. OutSame(hal, s) /\ (s.out.mPcm \/ OutShut(s))
  BY <1>1, <1>4, <1>6 DEF InOnly, OutSame, OutShut
<1>9. InSame(hal, s)
  BY <1>1, <1>4, <1>6 DEF OutOnly, InSame
<1>10. MuteOk(s)
  BY <1>4, <1>6 DEF OutOnly, InOnly, SameCall, MuteOk
<1>11. CountsOf(s)
  BY <1>0, <1>1, <1>4, <1>6
<1>12. FreshOf(s)
  BY <1>8, <1>9 DEF IInv, HInv, FreshOf, OutSame, InSame
<1>13. EchoOk(hal) => EchoOk(s)
  BY <1>7, <1>8, <1>9 DEF EchoOk, SameCall, OutSame, InSame
<1>14. Follows(s)
  BY <1>0, <1>7, <1>11, <1>12, <1>13 DEF Follows, SameStreams, SameCall, ActiveInput
<1>15. QED
  BY <1>6, <1>7, <1>8, <1>9, <1>10, <1>14

LEMMA WriteTakesLocks ==
  ASSUME IInv, writeHw
  PROVE  IInv'
<1> DEFINE t == Player
           s == [hal EXCEPT !.out.wakeLock = TRUE]
<1> USE FourThreads
<1>0. /\ CInv /\ HInv /\ HalType(hal) /\ t \in Threads /\ thread[t].at = "w_hw"
      /\ thread[t].ret = "standby" /\ thread[t].then = "idle" /\ ~ Stuck(t)
      /\ thread[t].at \notin ToStandbyIn /\ hal.mOutput /\ thread[Manager].at # "co_hw"
      /\ hal.out.mStandby /\ OutShut(hal)
  BY InWrite DEF writeHw, Got, IInv, CInv
<1>1. /\ HalType(s) /\ s.in = hal.in /\ SameCall(hal, s) /\ s.muted = hal.muted
      /\ s.mPcmOpenCnt = hal.mPcmOpenCnt /\ s.mMixerOpenCnt = hal.mMixerOpenCnt
      /\ s.out.mStandby = hal.out.mStandby /\ s.out.mPcm = hal.out.mPcm /\ s.out.mMixer = hal.out.mMixer
      /\ s.out.mEchoReference = hal.out.mEchoReference /\ s.out.wakeLock
      /\ s.out.fresh = hal.out.fresh /\ s.out.refs = hal.out.refs
  <2>1. HalType(s)
    BY <1>0 DEF HalType, OutRecords
  <2>2. /\ s.in = hal.in /\ SameCall(hal, s) /\ s.muted = hal.muted
        /\ s.mPcmOpenCnt = hal.mPcmOpenCnt /\ s.mMixerOpenCnt = hal.mMixerOpenCnt
    BY <1>0 DEF HalType, SameCall
  <2>3. /\ s.out.mStandby = hal.out.mStandby /\ s.out.mPcm = hal.out.mPcm /\ s.out.mMixer = hal.out.mMixer
        /\ s.out.mEchoReference = hal.out.mEchoReference /\ s.out.wakeLock
        /\ s.out.fresh = hal.out.fresh /\ s.out.refs = hal.out.refs
    BY <1>0 DEF HalType, OutRecords
  <2>4. QED
    BY <2>1, <2>2, <2>3
<1>2. \/ ActiveInput(s) /\ Move(Player, "w_in", PrepareIn(Player, s), {"out"})
      \/ ~ ActiveInput(s) /\ OpenOutput(s)
  BY DEF writeHw
<1> HIDE DEF s
<1>3. Follows(s)
  BY <1>0, <1>1 DEF Follows, HInv, SameCall, SameStreams, CountsOf, FreshOf, EchoOk, InShut
<1>4. InStays(s)
  <2>1. /\ hal.in.mStandby => InShut(hal)
        /\ ~ hal.in.mStandby => hal.in.mPcm
    BY <1>0 DEF HInv, InFine
  <2>2. QED
    BY <1>1, <2>1 DEF InStays, SameCall, SameMode, InShut, MuteOk, ActiveInput
<1>5. CASE OpenOutput(s)
  BY <1>0, <1>1, <1>3, <1>4, <1>5, OpensOutput DEF OutShut
<1>6. CASE Move(t, "w_in", PrepareIn(t, s), {"out"})
  <2> DEFINE p == "w_in"
             h == {"out"}
             ret == "standby"
             then == "idle"
  <2>1. /\ RefsOnly(s, hal') /\ hal'.out = s.out
        /\ hal'.in.refs = s.in.refs \cup {t} /\ hal'.in.fresh = s.in.fresh \cup {t}
    BY <1>0, <1>1, <1>6, PrepareInOp DEF Move
  <2>2. Near(s, hal') /\ HalType(hal') /\ FreshOf(hal')
    BY <1>3, <2>1, RefsAreNear DEF Follows, FreshOf, RefsOnly
  <2>3. Moved(t, p, ret, then, h)
    <3>1. p \in Points /\ h \in SUBSET Mutexes
      BY DEF Points, Waits, Mutexes
    <3>2. QED
      BY <1>0, <1>6, <3>1, MoveIs DEF CInv
  <2>4. SameStreams(hal, hal') /\ SameMode(hal, hal') /\ hal'.mOutput
    BY <1>0, <1>1, <2>2 DEF Near, SameCall, SameStreams, SameMode
  <2>5. Allowed(t, p, ret, then, h)
    BY <1>0, <2>4 DEF Allowed
  <2>6. Sound(t, p, then, h)
    <3>1. Steps(t, p, h) /\ CountsOf(hal')
      BY <1>0, <1>3, <2>2 DEF Steps, Near, Follows
    <3>2. GoneOk(t, p, then, h)
      <4>1. (InShut(hal) => InShut(hal')) /\ hal'.in.refs # {}
        BY <1>1, <2>1, <2>2 DEF Near, InShut
      <4>2. QED
        BY <1>0, <4>1 DEF GoneOk, WillStandbyOut
    <3>3. QED
      BY <2>2, <2>4, <3>1, <3>2 DEF Sound
  <2>7. OutFine'
    <3>1. thread'[Player].at = p /\ thread'[Player].ret = ret /\ held'[Player] = h
      BY <2>3 DEF Moved
    <3>2. InBlock'
      BY <3>1 DEF InBlock, InBlockAt
    <3>3. hal'.out.mStandby /\ hal'.out.wakeLock /\ OutShut(hal')
      BY <1>0, <1>1, <2>2 DEF Near, OutHold, OutShut
    <3>4. QED
      BY <3>2, <3>3 DEF OutFine, OutShut
  <2>8. InFine'
    <3>1. InHold(hal, hal')
      BY <1>1, <2>2 DEF Near, InHold
    <3>2. QED
      BY <1>0, <2>3, <2>6, <3>1, KeepIn DEF Sound
  <2>9. EchoKept(p, h) /\ MuteKept(t, p, h)
    BY <1>3, <1>4, <2>2 DEF EchoKept, MuteKept, Follows, InStays, Near
  <2>10. CallKept(t, ret)
    BY <1>0, <2>4 DEF CallKept, CallOk, HInv, CallFine, SameMode
  <2> HIDE DEF p, h, ret, then
  <2>11. QED
    BY <1>0, <2>3, <2>5, <2>6, <2>7, <2>8, <2>9, <2>10, Effect, Zenon
<1>7. QED
  BY <1>2, <1>5, <1>6

LEMMA WriteReopens ==
  ASSUME IInv, thread[Player].at = "w_hw2", ActiveInput(hal),
         NEW pcm \in Opens("pcm"), NEW mixer \in Opens("mixer"), NEW cap \in Opens("capture"),
         NEW mixer2 \in Opens("mixer"), NEW s, s = Reopen(hal, pcm, mixer, cap, mixer2),
         \/ s.in.mPcm /\ LeaveOutStandby(DropIn(Player, s))
         \/ ~ s.in.mPcm /\ DoStandbyIn(Player, s, {"out"}, "write")
         \/ /\ ~ s.in.mPcm /\ ~ NeedsDance(s)
            /\ LeaveOutStandby(DropIn(Player, StandbyIn(CountIn(s))))
  PROVE  IInv'
<1> DEFINE t == Player
<1> USE FourThreads
<1>0. /\ CInv /\ HInv /\ t \in Threads
      /\ thread[t].ret = "standby" /\ thread[t].then = "idle" /\ ~ Stuck(t)
      /\ thread[t].at \notin ToStandbyIn /\ hal.mOutput /\ thread[Manager].at # "co_hw"
      /\ hal.out.mStandby /\ OutShut(hal) /\ hal.out.wakeLock
      /\ hal.mInput /\ ~ hal.in.mStandby
  BY InWrite DEF IInv, ActiveInput
<1>1. /\ Follows(s) /\ OutSame(hal, s) /\ (s.out.mPcm \/ OutShut(s))
      /\ InSame(hal, s) /\ (s.in.mPcm \/ InShut(s)) /\ SameCall(hal, s) /\ MuteOk(s)
  <2>1. pcm \in BOOLEAN /\ mixer \in BOOLEAN /\ cap \in BOOLEAN /\ mixer2 \in BOOLEAN
    BY DEF Opens
  <2>2. QED
    BY <2>1, Reopened
<1>2. /\ s.out.mStandby /\ s.out.wakeLock /\ s.mInput /\ ~ s.in.mStandby /\ SameMode(hal, s)
      /\ s.mOutput
  BY <1>0, <1>1 DEF OutSame, InSame, SameCall, SameMode
<1>3. CASE s.in.mPcm /\ LeaveOutStandby(DropIn(Player, s))
  <2> DEFINE r == DropIn(t, s)
  <2>1. Follows(r)
    BY <1>0, <1>1, <1>2, FollowsDropIn DEF LastIn
  <2>2. RefsOnly(s, r) /\ r.out = s.out
    BY <1>0, <1>1, DropInOp DEF Follows
  <2>3. LeaveOutStandby(r)
    BY <1>3
  <2> HIDE DEF r
  <2>4. Near(s, r)
    BY <2>2, RefsAreNear
  <2>5. InStays(r)
    BY <1>0, <1>1, <1>2, <1>3, <2>4 DEF InStays, Near, InHold, SameMode
  <2>6. r.out.mStandby /\ r.out.wakeLock /\ (r.out.mPcm \/ OutShut(r))
    BY <1>1, <1>2, <2>2 DEF OutShut
  <2>7. QED
    BY <2>1, <2>3, <2>5, <2>6, LeavesStandby
<1>4. CASE ~ s.in.mPcm /\ LeaveOutStandby(DropIn(Player, StandbyIn(CountIn(s))))
  <2> DEFINE q == StandbyIn(CountIn(s))
             r == DropIn(t, q)
  <2>1. Follows(q) /\ InOnly(s, q) /\ InShut(q) /\ q.in.mStandby
    BY <1>1, FollowsStandbyIn
  <2>2. LeaveOutStandby(r)
    BY <1>4
  <2> HIDE DEF q
  <2>3. q.mInput /\ q.out = s.out /\ SameMode(s, q) /\ MuteOk(q)
    BY <1>2, <2>1 DEF InOnly, SameCall, SameMode, MuteOk, ActiveInput
  <2>4. Follows(r)
    BY <1>0, <2>1, <2>3, FollowsDropIn DEF LastIn
  <2>5. RefsOnly(q, r) /\ r.out = q.out
    BY <1>0, <2>1, DropInOp DEF Follows
  <2> HIDE DEF r
  <2>6. Near(q, r)
    BY <2>5, RefsAreNear
  <2>7. InStays(r)
    BY <1>2, <2>1, <2>3, <2>6 DEF InStays, Near, InHold, SameMode
  <2>8. r.out.mStandby /\ r.out.wakeLock /\ (r.out.mPcm \/ OutShut(r))
    BY <1>1, <1>2, <2>3, <2>5 DEF OutShut
  <2>9. QED
    BY <2>2, <2>4, <2>7, <2>8, LeavesStandby
<1>5. CASE ~ s.in.mPcm /\ DoStandbyIn(Player, s, {"out"}, "write")
  <2> DEFINE p == "d_out"
             h == {"out"}
             ret == "write"
             then == "idle"
  <2>1. /\ Moved(t, p, ret, then, h) /\ Near(s, hal') /\ HalType(hal') /\ FreshOf(hal')
        /\ hal'.out.refs # {}
    <3>1. h \in SUBSET Mutexes /\ ret \in Returns
      BY DEF Mutexes, Returns
    <3> HIDE DEF h, ret
    <3>2. DoStandbyIn(t, s, h, ret)
      BY <1>5 DEF h, ret
    <3>3. QED
      BY <1>0, <1>1, <3>1, <3>2, DanceBegins DEF Follows, RefsOnly
  <2>2. SameStreams(hal, hal') /\ SameMode(hal, hal')
    BY <1>1, <1>2, <2>1 DEF Near, SameStreams, SameMode, SameCall
  <2>3. Allowed(t, p, ret, then, h)
    BY DEF Allowed, OutPoints, InPoints
  <2>4. Sound(t, p, then, h)
    <3>1. Steps(t, p, h) /\ CountsOf(hal')
      BY <1>0, <1>1, <2>1 DEF Steps, Near, Follows
    <3>2. GoneOk(t, p, then, h)
      BY <1>0 DEF GoneOk, WillStandbyOut
    <3>3. QED
      BY <2>1, <2>2, <3>1, <3>2 DEF Sound
  <2>5. thread'[Player].at = p /\ thread'[Player].ret = ret /\ held'[Player] = h
    BY <2>1 DEF Moved
  <2>6. OutFine'
    <3>1. hal'.out.mStandby /\ InBlock'
      BY <1>2, <2>1, <2>5 DEF Near, OutHold, InBlock, InBlockAt
    <3>2. QED
      BY <2>5, <3>1 DEF OutFine
  <2>7. InFine'
    <3>1. ~ hal'.in.mStandby
      BY <1>2, <2>1 DEF Near, InHold
    <3>2. thread[Recorder].at \notin {"r_hw", "r_out", "r_in2", "r_hw2"}
      BY <1>0 DEF HInv, InFine
    <3>3. thread'[Recorder] = thread[Recorder]
      BY <2>1 DEF Moved, Threads
    <3>4. QED
      BY <2>5, <3>1, <3>2, <3>3 DEF InFine
  <2>8. EchoKept(p, h) /\ MuteKept(t, p, h)
    BY <1>1, <2>1 DEF EchoKept, MuteKept, Follows, Near
  <2>9. CallKept(t, ret)
    BY <1>0, <2>2 DEF CallKept, CallOk, HInv, CallFine, SameMode
  <2> HIDE DEF p, h, ret, then
  <2>10. QED
    BY <1>0, <2>1, <2>3, <2>4, <2>6, <2>7, <2>8, <2>9, Effect, Zenon
<1>6. QED
  BY <1>3, <1>4, <1>5

LEMMA PlayerKeeps ==
  ASSUME IInv, PlayerStep
  PROVE  IInv'
<1> USE FourThreads
<1> DEFINE t == Player
<1>0. /\ t \in Threads /\ Refers(hal) /\ CInv /\ HInv
      /\ {} \in SUBSET Mutexes /\ {"out"} \in SUBSET Mutexes /\ {"out", "in"} \in SUBSET Mutexes
      /\ {"out", "hw"} \in SUBSET Mutexes
      /\ {"w_hw", "w_use", "w_hw2", "w_in", "ro_hw", "idle", "so_out", "si_in"} \subseteq Points
  BY SameHal DEF Threads, Refers, Mutexes, Points, Waits, IInv
<1>1. CASE writeOut
  <2>1. PICK p \in {"w_hw", "w_use"} :
          /\ thread[t].at = "w_out" /\ Move(t, p, hal, {"out"})
          /\ p = "w_hw" => hal.out.mStandby
    BY <1>1 DEF writeOut, Got
  <2>2. /\ thread[t].at \notin ToStandbyIn \cup {"so_out", "so_hw"}
        /\ hal.mOutput /\ thread[Manager].at # "co_hw" /\ p \in Points
    BY <1>0, <2>1 DEF ToStandbyIn, Dance, OutPoints, CInv, OutUsed
  <2>3. QED
    BY <1>0, <2>1, <2>2, SameHal, RestMoves
<1>2. CASE writeHw
  BY <1>2, WriteTakesLocks
<1>3. CASE writeIn
  <2>1. /\ thread[t].at = "w_in" /\ Move(t, "w_hw2", hal, {"out", "in"})
        /\ thread[t].at \notin ToStandbyIn \cup {"so_out", "so_hw"}
        /\ InBlockAt("w_hw2", "standby", {"out", "in"})
    BY <1>3 DEF writeIn, Got, ToStandbyIn, Dance, InBlockAt
  <2>2. hal.mOutput /\ thread[Manager].at # "co_hw" /\ hal.out.mStandby /\ hal.out.wakeLock
    BY <1>0, <2>1 DEF OutPoints, CInv, OutUsed, HInv, OutFine
  <2>3. QED
    BY <1>0, <2>1, <2>2, SameHal, RestMoves
<1>4. CASE writeCheckIn
  <2> DEFINE same == ActiveInput(hal) /\ Player \in hal.in.fresh
  <2>1. /\ thread[t].at = "w_hw2"
        /\ thread[t].at \notin ToStandbyIn \cup {"so_out", "so_hw"}
        /\ \/ /\ same
              /\ \E pcm \in Opens("pcm"), mixer, mixer2 \in Opens("mixer"), cap \in Opens("capture") :
                   LET s == Reopen(hal, pcm, mixer, cap, mixer2)
                   IN \/ s.in.mPcm /\ LeaveOutStandby(DropIn(Player, s))
                      \/ ~ s.in.mPcm /\ DoStandbyIn(Player, s, {"out"}, "write")
                      \/ /\ ~ s.in.mPcm /\ ~ NeedsDance(s)
                         /\ LeaveOutStandby(DropIn(Player, StandbyIn(CountIn(s))))
           \/ Move(t, "w_in", PrepareIn(t, hal), {"out"})
           \/ /\ LastIn(t, hal) /\ Move(t, "si_in", DropIn(t, hal), {"out", "hw"})
           \/ /\ ~ LastIn(t, hal) /\ OpenOutput(DropIn(t, hal))
    BY <1>4 DEF writeCheckIn, Got, ToStandbyIn, Dance
  <2>2. hal.mOutput /\ thread[Manager].at # "co_hw" /\ hal.out.mStandby /\ hal.out.wakeLock /\ OutShut(hal)
    BY <2>1, InWrite
  <2>3. ASSUME same, NEW pcm \in Opens("pcm"), NEW mixer \in Opens("mixer"), NEW mixer2 \in Opens("mixer"),
               NEW cap \in Opens("capture"), NEW s, s = Reopen(hal, pcm, mixer, cap, mixer2),
               \/ s.in.mPcm /\ LeaveOutStandby(DropIn(Player, s))
               \/ ~ s.in.mPcm /\ DoStandbyIn(Player, s, {"out"}, "write")
               \/ /\ ~ s.in.mPcm /\ ~ NeedsDance(s)
                  /\ LeaveOutStandby(DropIn(Player, StandbyIn(CountIn(s))))
        PROVE  IInv'
    BY <2>1, <2>3, WriteReopens
  <2>4. CASE Move(t, "w_in", PrepareIn(t, hal), {"out"})
    <3>1. Referred(PrepareIn(t, hal), "w_in", "idle") /\ InBlockAt("w_in", "standby", {"out"})
      BY <1>0, TakesIn, RefersIs DEF InBlockAt
    <3>2. QED
      BY <1>0, <2>1, <2>2, <2>4, <3>1, RestMoves
  <2>5. CASE Move(t, "si_in", DropIn(t, hal), {"out", "hw"})
    <3>1. "si_in" \in ToStandbyIn /\ InBlockAt("si_in", "standby", {"out", "hw"})
          /\ "si_in" \notin OutPoints
      BY DEF ToStandbyIn, InBlockAt, OutPoints
    <3>2. Referred(DropIn(t, hal), "si_in", "idle")
      BY <1>0, <3>1, DropsIn
    <3>3. QED
      BY <1>0, <2>1, <2>5, <3>1, <3>2, RestMoves
  <2>6. CASE ~ LastIn(t, hal) /\ OpenOutput(DropIn(t, hal))
    <3> DEFINE r == DropIn(t, hal)
    <3>1. Refers(r) /\ RefsOnly(hal, r)
      BY <1>0, <2>6, DropsIn
    <3>2. OpenOutput(r)
      BY <2>6
    <3> HIDE DEF r
    <3>3. Near(hal, r) /\ Follows(r)
      BY <3>1, RefsAreNear DEF Refers
    <3>4. InStays(r)
      <4>1. thread[Player].ret # "write"
        BY <2>1, InWrite
      <4>2. QED
        BY <1>0, <3>3, <4>1 DEF InStays, HInv, InFine, Near, InHold, SameMode
    <3>5. r.out.mStandby /\ r.out.wakeLock /\ OutShut(r)
      BY <2>2, <3>3 DEF Near, OutHold
    <3>6. QED
      BY <2>1, <3>2, <3>3, <3>4, <3>5, OpensOutput
  <2> HIDE DEF same
  <2>7. QED
    BY <2>1, <2>3, <2>4, <2>5, <2>6
<1>5. CASE writeFrames
  <2>1. PICK p \in {"idle", "so_out"} : thread[t].at = "w_use" /\ Move(t, p, hal, {})
    BY <1>5 DEF writeFrames
  <2>2. thread[t].at \notin ToStandbyIn \cup {"so_out", "so_hw"} /\ p \in Points /\ p \notin OutPoints
    BY <1>0, <2>1 DEF ToStandbyIn, Dance, OutPoints
  <2>3. QED
    BY <1>0, <2>1, <2>2, SameHal, RestMoves
<1>6. CASE routeOutputOut
  <2>1. /\ thread[t].at = "ro_out" /\ Move(t, "ro_hw", hal, {"out"})
        /\ thread[t].at \notin ToStandbyIn \cup {"so_out", "so_hw"}
    BY <1>6 DEF routeOutputOut, Got, ToStandbyIn, Dance
  <2>2. hal.mOutput /\ thread[Manager].at # "co_hw"
    BY <1>0, <2>1 DEF OutPoints, CInv, OutUsed
  <2>3. QED
    BY <1>0, <2>1, <2>2, SameHal, RestMoves
<1>7. CASE routeOutputHw
  <2>1. thread[t].at = "ro_hw" /\ "hw" \notin held[t]
    <3>1. "ro_hw" \in DOMAIN Waits /\ Waits["ro_hw"] = "hw"
      BY DEF Waits
    <3>2. QED
      BY <1>0, <1>7, <3>1, GotIs DEF routeOutputHw
  <2>2. CASE hal.mMode = "in_call"
    <3>1. Move(t, "idle", hal, {}) /\ "idle" \notin OutPoints
          /\ thread[t].at \notin ToStandbyIn \cup {"so_out", "so_hw"}
      BY <1>7, <2>1, <2>2 DEF routeOutputHw, OutPoints, ToStandbyIn, Dance
    <3>2. QED
      BY <1>0, <2>1, <3>1, SameHal, RestMoves
  <2>3. CASE hal.mMode # "in_call"
    BY <1>0, <1>7, <2>1, <2>3, OutputStands DEF routeOutputHw
  <2>4. QED
    BY <2>2, <2>3
<1>8. QED
  BY <1>1, <1>2, <1>3, <1>4, <1>5, <1>6, <1>7 DEF PlayerStep

-----------------------------------------------------------------------------
(* The record thread.                                                      *)

\* What is so of the recorder in the block of read() that opens the input.
LEMMA InRead ==
  ASSUME IInv, thread[Recorder].at \in {"r_hw", "r_out", "r_in2", "r_hw2"}
  PROVE  /\ thread[Recorder].ret = "standby" /\ thread[Recorder].then = "idle" /\ ~ Stuck(Recorder)
         /\ thread[Recorder].at \notin ToStandbyIn /\ Recorder \in Threads
         /\ hal.mInput /\ thread[Manager].at # "ci_hw" /\ hal.in.mStandby /\ InShut(hal)
<1>1. Recorder \in Threads /\ thread[Recorder].at \notin ToStandbyIn /\ ~ Stuck(Recorder)
  BY DEF Threads, ToStandbyIn, Dance, Stuck, StuckAt
<1>2. thread[Recorder].ret = "standby" /\ thread[Recorder].then = "idle"
  BY <1>1, AtRest
<1>3. hal.mInput /\ thread[Manager].at # "ci_hw"
  BY DEF IInv, CInv, InUsed, InPoints
<1>4. hal.in.mStandby /\ InShut(hal)
  BY DEF IInv, HInv, InFine
<1>5. QED
  BY <1>1, <1>2, <1>3, <1>4

\* The output of s is as fine as it was, between two steps of the recorder.
OutStays(s) ==
  /\ hal.out.mStandby => OutHold(hal, s)
  /\ ~ hal.out.mStandby /\ s.out.mStandby => OutShut(s) /\ ~ s.out.wakeLock
  /\ ~ hal.out.mStandby /\ ~ s.out.mStandby => s.out.mPcm /\ s.out.wakeLock

LEMMA OutStaysFine ==
  ASSUME IInv, NEW t \in Threads, t # Player, NEW p, NEW ret, NEW then, NEW h,
         Moved(t, p, ret, then, h), Steps(t, p, h), OutStays(hal')
  PROVE  OutFine'
<1>1. CASE hal.out.mStandby
  <2>1. OutHold(hal, hal')
    BY <1>1 DEF OutStays
  <2>2. QED
    BY <2>1, KeepOut
<1>2. CASE ~ hal.out.mStandby
  <2>1. thread'[Player] = thread[Player]
    BY DEF Moved, Threads
  <2>2. thread[Player].at \notin {"w_hw", "w_in", "w_hw2"}
    BY <1>2 DEF IInv, HInv, OutFine
  <2>3. QED
    BY <1>2, <2>1, <2>2 DEF OutFine, OutStays, OutShut
<1>3. QED
  BY <1>1, <1>2

LEMMA OpensInput ==
  ASSUME IInv, thread[Recorder].at \in {"r_hw", "r_hw2"}, NEW s, Follows(s), OutStays(s),
         SameMode(hal, s), s.in.mStandby, InShut(s), OpenInput(s)
  PROVE  IInv'
<1> USE FourThreads
<1> DEFINE t == Recorder
           ret == "standby"
           then == "idle"
<1>0. /\ CInv /\ HInv /\ t \in Threads /\ thread[t].ret = "standby" /\ thread[t].then = "idle"
      /\ ~ Stuck(t) /\ thread[t].at \notin ToStandbyIn /\ hal.mInput /\ thread[Manager].at # "ci_hw"
  BY InRead DEF IInv
<1>1. PICK cap \in Opens("capture"), mixer \in Opens("mixer") :
        LET s1 == OpenIn(s, cap, mixer)
        IN \/ s1.in.mPcm /\ Move(t, "r_use", [s1 EXCEPT !.in.mStandby = FALSE], {"in"})
           \/ ~ s1.in.mPcm /\ Move(t, "si_in", s1, {})
  BY DEF OpenInput
<1> DEFINE s1 == OpenIn(s, cap, mixer)
<1>2. /\ InOnly(s, s1) /\ InSame(s, s1) /\ (s1.in.mPcm \/ InShut(s1))
      /\ s.mMode # "in_call" /\ s1.in.mMixer => s1.muted = s.mMicMute
      /\ CountsOf(s) => CountsOf(s1)
  <2>1. cap \in BOOLEAN /\ mixer \in BOOLEAN
    BY DEF Opens
  <2>2. QED
    BY <2>1, OpenInOp DEF Follows
<1>3. \/ s1.in.mPcm /\ Move(t, "r_use", [s1 EXCEPT !.in.mStandby = FALSE], {"in"})
      \/ ~ s1.in.mPcm /\ Move(t, "si_in", s1, {})
  BY <1>1
<1> HIDE DEF s1
<1>4. /\ HalType(s1) /\ s1.out = s.out /\ SameCall(s, s1) /\ s1.in.mStandby
      /\ s1.in.fresh = s.in.fresh /\ s1.in.refs = s.in.refs
      /\ s1.in.mEchoReference = s.in.mEchoReference
  BY <1>2 DEF InOnly, InSame
<1>5. PICK p \in {"r_use", "si_in"}, h \in {{"in"}, {}} :
        /\ Move(t, p, hal', h)
        /\ \/ p = "r_use" /\ s1.in.mPcm /\ hal' = [s1 EXCEPT !.in.mStandby = FALSE]
           \/ p = "si_in" /\ ~ s1.in.mPcm /\ hal' = s1
  BY <1>3 DEF Move
<1>6. /\ HalType(hal') /\ hal'.out = s1.out /\ SameCall(s1, hal') /\ hal'.muted = s1.muted
      /\ hal'.mPcmOpenCnt = s1.mPcmOpenCnt /\ hal'.mMixerOpenCnt = s1.mMixerOpenCnt
      /\ hal'.in.mPcm = s1.in.mPcm /\ hal'.in.mMixer = s1.in.mMixer
      /\ hal'.in.mEchoReference = s1.in.mEchoReference
      /\ hal'.in.refs = s1.in.refs /\ hal'.in.fresh = s1.in.fresh
      /\ p = "r_use" => s1.in.mPcm /\ ~ hal'.in.mStandby
      /\ p = "si_in" => ~ s1.in.mPcm /\ hal'.in.mStandby
  <2>1. CASE p = "r_use"
    <3>1. hal' = [s1 EXCEPT !.in.mStandby = FALSE] /\ s1.in.mPcm
      BY <1>5, <2>1
    <3>2. HalType(hal')
      BY <1>4, <3>1 DEF HalType, InRecords
    <3>3. /\ hal'.out = s1.out /\ SameCall(s1, hal') /\ hal'.muted = s1.muted
          /\ hal'.mPcmOpenCnt = s1.mPcmOpenCnt /\ hal'.mMixerOpenCnt = s1.mMixerOpenCnt
      BY <1>4, <3>1 DEF HalType, SameCall
    <3>4. /\ hal'.in.mPcm = s1.in.mPcm /\ hal'.in.mMixer = s1.in.mMixer
          /\ hal'.in.mEchoReference = s1.in.mEchoReference
          /\ hal'.in.refs = s1.in.refs /\ hal'.in.fresh = s1.in.fresh /\ ~ hal'.in.mStandby
      BY <1>4, <3>1 DEF HalType, InRecords
    <3>5. QED
      BY <2>1, <3>1, <3>2, <3>3, <3>4
  <2>2. CASE p = "si_in"
    BY <1>4, <1>5, <2>2 DEF SameCall
  <2>3. QED
    BY <2>1, <2>2
<1>7. Moved(t, p, ret, then, h)
  <2>1. p \in Points /\ h \in SUBSET Mutexes
    BY DEF Points, Waits, Mutexes
  <2>2. QED
    BY <1>0, <1>5, <2>1, MoveIs DEF CInv
<1>8. SameStreams(hal, hal') /\ SameMode(hal, hal') /\ hal'.mInput
  BY <1>0, <1>4, <1>6 DEF Follows, SameStreams, SameMode, SameCall
<1>9. Allowed(t, p, ret, then, h)
  BY <1>0, <1>8 DEF Allowed
<1> HIDE DEF ret, then
<1>10. Sound(t, p, then, h)
  <2>1. Steps(t, p, h)
    BY <1>0 DEF Steps
  <2>2. CountsOf(s1)
    BY <1>2 DEF Follows
  <2>3. CountsOf(hal')
    BY <1>6, <2>2 DEF CountsOf, SameCall
  <2>4. FreshOf(hal')
    BY <1>4, <1>6 DEF Follows, FreshOf
  <2>5. GoneOk(t, p, then, h)
    <3>1. hal'.out = s.out /\ (OutShut(s) => OutShut(hal')) /\ ~ WillStandbyOut(thread[t].at, thread[t].then)
      BY <1>0, <1>4, <1>6 DEF OutShut, WillStandbyOut
    <3>2. QED
      BY <1>0, <3>1 DEF GoneOk, Follows
  <2>6. QED
    BY <1>6, <1>8, <2>1, <2>3, <2>4, <2>5 DEF Sound
<1>11. OutFine'
  <2>1. OutStays(hal')
    BY <1>4, <1>6 DEF OutStays, OutHold, OutShut
  <2>2. QED
    BY <1>0, <1>7, <1>10, <2>1, OutStaysFine DEF Sound
<1>12. InFine'
  <2>1. thread'[Recorder].at = p
    BY <1>7 DEF Moved
  <2>2. QED
    BY <1>2, <1>6, <2>1 DEF InFine, InShut
<1>13. EchoKept(p, h) /\ MuteKept(t, p, h)
  <2>1. EchoOk(s) => EchoOk(hal')
    BY <1>4, <1>6 DEF EchoOk, SameCall
  <2>2. MuteOk(hal')
    BY <1>2, <1>4, <1>6 DEF MuteOk, SameCall
  <2>3. QED
    BY <2>1, <2>2 DEF EchoKept, MuteKept, Follows
<1>14. CallKept(t, ret)
  BY <1>0, <1>8 DEF CallKept, CallOk, HInv, CallFine, SameMode
<1>15. QED
  BY <1>0, <1>7, <1>9, <1>10, <1>11, <1>12, <1>13, <1>14, Effect, Zenon

LEMMA EchoAlone ==
  ASSUME NEW s, NEW r, EchoOnly(s, r)
  PROVE  /\ HalType(r) /\ OutHold(s, r) /\ SameMode(s, r) /\ SameStreams(s, r)
         /\ r.out.refs = s.out.refs /\ r.in.refs = s.in.refs /\ r.in.mStandby = s.in.mStandby
         /\ OutShut(s) <=> OutShut(r)
         /\ InShut(s) <=> InShut(r)
         /\ CountsOf(s) <=> CountsOf(r)
         /\ FreshOf(s) <=> FreshOf(r)
<1>1. /\ HalType(r) /\ OutHold(s, r) /\ SameMode(s, r) /\ SameStreams(s, r)
      /\ r.out.refs = s.out.refs /\ r.in.refs = s.in.refs /\ r.in.mStandby = s.in.mStandby
  BY DEF EchoOnly, OutHold, SameMode, SameStreams
<1>2. (OutShut(s) <=> OutShut(r)) /\ (InShut(s) <=> InShut(r))
  BY DEF EchoOnly, OutShut, InShut
<1>3. CountsOf(s) <=> CountsOf(r)
  BY DEF EchoOnly, CountsOf
<1>4. FreshOf(s) <=> FreshOf(r)
  BY DEF EchoOnly, FreshOf
<1>5. QED
  BY <1>1, <1>2, <1>3, <1>4

\* The active output is closed and opened again, and the echo reference is made.
LEMMA ReadReopens ==
  ASSUME IInv, thread[Recorder].at = "r_hw2", hal.mOutput,
         NEW pcm \in Opens("pcm"), NEW mixer \in Opens("mixer"), NEW echo \in Opens("echo"),
         NEW s, s = OpenOut(CloseOut(hal), pcm, mixer),
         NEW s1, s1 = IF hal.out.mStandby THEN hal ELSE IF s.out.mPcm THEN s ELSE StandbyOut(s),
         NEW s2, s2 = IF s1.in.mNeedEchoReference /\ ~ s1.in.mEchoReference
                      THEN getEchoReference(s1, echo) ELSE s1,
         OpenInput(DropOut(Recorder, s2))
  PROVE  IInv'
<1> DEFINE t == Recorder
           c == CloseOut(hal)
<1>0. /\ CInv /\ HInv /\ t \in Threads /\ HalType(hal) /\ CountsOf(hal) /\ hal.in.mStandby /\ InShut(hal)
      /\ pcm \in BOOLEAN /\ mixer \in BOOLEAN /\ echo \in BOOLEAN
  BY InRead DEF IInv, CInv, HInv, Opens
<1>1. /\ OutOnly(hal, c) /\ OutSame(hal, c) /\ OutShut(c)
      /\ CountsOf(hal) => CountsOf(c)
  BY <1>0, CloseOutOp
<1> HIDE DEF c
<1>2. HalType(c)
  BY <1>1 DEF OutOnly
<1>3. /\ OutOnly(c, s) /\ OutSame(c, s) /\ (s.out.mPcm \/ OutShut(s))
      /\ CountsOf(c) => CountsOf(s)
  <2>1. s = OpenOut(c, pcm, mixer)
    BY DEF c
  <2>2. QED
    BY <1>0, <1>1, <1>2, <2>1, OpenOutOp
<1>4. OutOnly(hal, s) /\ OutSame(hal, s) /\ CountsOf(s)
  BY <1>0, <1>1, <1>3 DEF OutOnly, SameCall, OutSame
<1>5. Follows(s)
  BY <1>0, <1>4 DEF Follows, OutOnly, OutSame, SameCall, SameStreams, HInv, FreshOf, EchoOk, InShut
<1>6. /\ Follows(s1) /\ OutStays(s1) /\ SameMode(hal, s1) /\ s1.in = hal.in
  <2>1. CASE hal.out.mStandby
    <3>1. s1 = hal
      BY <2>1
    <3>2. QED
      BY <2>1, <3>1, SameHal DEF OutStays, OutHold, SameMode
  <2>2. CASE ~ hal.out.mStandby /\ s.out.mPcm
    <3>1. s1 = s
      BY <2>2
    <3>2. hal.out.wakeLock
      BY <1>0, <2>2 DEF HInv, OutFine
    <3>3. QED
      BY <1>4, <1>5, <2>2, <3>1, <3>2 DEF OutStays, OutOnly, OutSame, SameCall, SameMode
  <2>3. CASE ~ hal.out.mStandby /\ ~ s.out.mPcm
    <3>1. s1 = StandbyOut(s)
      BY <2>3
    <3>2. /\ Follows(s1) /\ OutOnly(s, s1) /\ OutShut(s1) /\ s1.out.mStandby
          /\ s1.out.wakeLock = (s.out.wakeLock /\ s.out.mStandby)
      BY <1>5, <3>1, FollowsStandbyOut
    <3>3. ~ s.out.mStandby
      BY <1>4, <2>3 DEF OutSame
    <3>4. QED
      BY <1>4, <2>3, <3>2, <3>3 DEF OutStays, OutOnly, SameCall, SameMode
  <2>4. QED
    BY <2>1, <2>2, <2>3
<1>7. /\ Follows(s2) /\ OutStays(s2) /\ SameMode(hal, s2) /\ s2.in.mStandby /\ InShut(s2)
  <2>1. CASE s2 = s1
    BY <1>0, <1>6, <2>1 DEF InShut
  <2>2. CASE s2 = getEchoReference(s1, echo)
    <3>1. /\ EchoOnly(s1, s2) /\ s2.mEchoReference = echo /\ s2.in.mEchoReference = echo
          /\ s2.out.mEchoReference = ((s1.out.mEchoReference /\ ~ (s1.mEchoReference /\ s1.mOutput)) \/ echo)
      BY <1>0, <1>6, <2>2, GetEchoOp DEF Follows
    <3>2. EchoOk(s1) => EchoOk(s2)
      BY <3>1 DEF EchoOk, EchoOnly
    <3>3. /\ HalType(s2) /\ OutHold(s1, s2) /\ SameMode(s1, s2) /\ SameStreams(s1, s2)
          /\ s2.out.refs = s1.out.refs /\ s2.in.refs = s1.in.refs
          /\ OutShut(s1) <=> OutShut(s2)
          /\ InShut(s1) <=> InShut(s2)
          /\ CountsOf(s1) <=> CountsOf(s2)
          /\ FreshOf(s1) <=> FreshOf(s2)
      BY <3>1, EchoAlone
    <3>4. Follows(s2)
      BY <1>6, <3>2, <3>3 DEF Follows, SameStreams
    <3>5. OutStays(s2) /\ SameMode(hal, s2)
      BY <1>6, <3>3 DEF OutStays, OutHold, SameMode
    <3>6. s2.in.mStandby /\ InShut(s2)
      BY <1>0, <1>6, <3>1 DEF EchoOnly, InShut
    <3>7. QED
      BY <3>4, <3>5, <3>6
  <2>3. QED
    BY <2>1, <2>2
<1> DEFINE r == DropOut(t, s2)
<1>8. Follows(r) /\ RefsOnly(s2, r)
  <2>1. s2.mOutput
    BY <1>7 DEF Follows, SameStreams
  <2>2. QED
    BY <1>0, <1>7, <2>1, FollowsDropOut, DropOutOp DEF LastOut, Follows
<1>9. OpenInput(r)
  OBVIOUS
<1> HIDE DEF r
<1>10. Near(s2, r)
  BY <1>8, RefsAreNear
<1>11. OutStays(r) /\ SameMode(hal, r) /\ r.in.mStandby /\ InShut(r)
  BY <1>7, <1>10 DEF OutStays, OutHold, OutShut, SameMode, Near, InHold
<1>12. QED
  BY <1>8, <1>9, <1>11, OpensInput

\* The input goes to standby and its thread rests.
LEMMA InputStands ==
  ASSUME IInv, thread[Recorder].at = "ri_hw", Move(Recorder, "idle", StandbyIn(CountIn(hal)), {})
  PROVE  IInv'
<1> USE FourThreads
<1> DEFINE t == Recorder
           p == "idle"
           ret == "standby"
           then == "idle"
           h == {}
<1>0. /\ CInv /\ HInv /\ t \in Threads /\ p \in Points /\ h \in SUBSET Mutexes
      /\ thread[t].at \notin ToStandbyIn /\ ~ Stuck(t)
  BY DEF IInv, Threads, Points, ToStandbyIn, Dance, Stuck, StuckAt
<1>1. thread[t].ret = "standby" /\ thread[t].then = "idle"
  BY <1>0, AtRest
<1>2. Moved(t, p, ret, then, h) /\ hal' = StandbyIn(CountIn(hal))
  BY <1>0, <1>1, MoveIs DEF CInv
<1>3. Follows(hal') /\ InOnly(hal, hal') /\ InShut(hal') /\ hal'.in.mStandby
  BY <1>2, SameHal, FollowsStandbyIn
<1>4. Allowed(t, p, ret, then, h)
  BY DEF Allowed, OutPoints, InPoints
<1>5. Sound(t, p, then, h)
  <2>1. Steps(t, p, h) /\ ~ WillStandbyOut(thread[t].at, thread[t].then)
    BY <1>0, <1>1 DEF Steps, WillStandbyOut
  <2>2. GoneOk(t, p, then, h)
    BY <1>0, <1>3, <2>1 DEF GoneOk, InOnly, OutShut
  <2>3. QED
    BY <1>3, <2>1, <2>2 DEF Sound, Follows
<1>6. OutFine'
  <2>1. OutHold(hal, hal')
    BY <1>3 DEF InOnly, OutHold
  <2>2. QED
    BY <1>0, <1>2, <1>5, <2>1, KeepOut DEF Sound
<1>7. InFine'
  BY <1>3, ShutIn
<1>8. EchoKept(p, h) /\ MuteKept(t, p, h)
  BY <1>3 DEF EchoKept, MuteKept, Follows, MuteOk, ActiveInput
<1>9. CallKept(t, ret)
  BY <1>0, <1>3 DEF CallKept, CallOk, HInv, CallFine, InOnly, SameCall
<1> HIDE DEF p, ret, then, h
<1>10. QED
  BY <1>0, <1>2, <1>4, <1>5, <1>6, <1>7, <1>8, <1>9, Effect, Zenon

LEMMA RecorderKeeps ==
  ASSUME IInv, RecorderStep
  PROVE  IInv'
<1> USE FourThreads
<1> DEFINE t == Recorder
<1>0. /\ t \in Threads /\ Refers(hal) /\ CInv /\ HInv /\ held[t] \in SUBSET Mutexes
      /\ {} \in SUBSET Mutexes /\ {"in"} \in SUBSET Mutexes /\ {"out", "in"} \in SUBSET Mutexes
      /\ {"in", "hw"} \in SUBSET Mutexes /\ held[t] \cup {"out"} \in SUBSET Mutexes
      /\ {"r_hw", "r_use", "r_out", "r_in2", "r_hw2", "ri_hw", "idle", "so_out", "si_in"} \subseteq Points
  BY SameHal, ThreadTypes DEF Threads, Refers, Mutexes, Points, Waits, IInv
<1>1. CASE readIn
  <2>1. PICK p \in {"r_hw", "r_use"} :
          /\ thread[t].at = "r_in" /\ Move(t, p, hal, {"in"})
          /\ p = "r_hw" => hal.in.mStandby
    BY <1>1 DEF readIn, Got
  <2>2. /\ thread[t].at \notin ToStandbyIn \cup {"so_out", "so_hw"}
        /\ hal.mInput /\ thread[Manager].at # "ci_hw" /\ p \in Points
    BY <1>0, <2>1 DEF ToStandbyIn, Dance, InPoints, CInv, InUsed
  <2>3. QED
    BY <1>0, <2>1, <2>2, SameHal, RestMoves
<1>2. CASE readHw
  <2>1. /\ thread[t].at = "r_hw"
        /\ thread[t].at \notin ToStandbyIn \cup {"so_out", "so_hw"}
        /\ \/ Move(t, "r_out", PrepareOut(t, hal), {})
           \/ OpenInput(hal)
    BY <1>2 DEF readHw, Got, ToStandbyIn, Dance, KeptForOut
  <2>2. hal.mInput /\ thread[Manager].at # "ci_hw" /\ hal.in.mStandby /\ InShut(hal)
    BY <2>1, InRead
  <2>3. CASE Move(t, "r_out", PrepareOut(t, hal), {})
    <3>1. Referred(PrepareOut(t, hal), "r_out", "idle")
      BY <1>0, TakesOut, RefersIs
    <3>2. QED
      BY <1>0, <2>1, <2>2, <2>3, <3>1, RestMoves
  <2>4. CASE OpenInput(hal)
    <3>1. OutStays(hal) /\ SameMode(hal, hal)
      BY <1>0 DEF OutStays, OutHold, SameMode, HInv, OutFine
    <3>2. QED
      BY <1>0, <2>1, <2>2, <2>4, <3>1, OpensInput DEF Refers
  <2>5. QED
    BY <2>1, <2>3, <2>4
<1>3. CASE readOut
  <2>1. /\ thread[t].at = "r_out" /\ Move(t, "r_in2", hal, held[t] \cup {"out"})
        /\ thread[t].at \notin ToStandbyIn \cup {"so_out", "so_hw"}
    BY <1>3 DEF readOut, Got, ToStandbyIn, Dance
  <2>2. hal.mInput /\ thread[Manager].at # "ci_hw" /\ hal.in.mStandby
    BY <2>1, InRead
  <2>3. QED
    BY <1>0, <2>1, <2>2, SameHal, RestMoves
<1>4. CASE readIn2
  <2>1. /\ thread[t].at = "r_in2" /\ Move(t, "r_hw2", hal, {"out", "in"})
        /\ thread[t].at \notin ToStandbyIn \cup {"so_out", "so_hw"}
    BY <1>4 DEF readIn2, Got, ToStandbyIn, Dance
  <2>2. hal.mInput /\ thread[Manager].at # "ci_hw" /\ hal.in.mStandby
    BY <2>1, InRead
  <2>3. QED
    BY <1>0, <2>1, <2>2, SameHal, RestMoves
<1>5. CASE readCheckOut
  <2>1. /\ thread[t].at = "r_hw2"
        /\ thread[t].at \notin ToStandbyIn \cup {"so_out", "so_hw"}
        /\ \/ /\ hal.mOutput
              /\ \E pcm \in Opens("pcm"), mixer \in Opens("mixer"), echo \in Opens("echo") :
                   LET s == OpenOut(CloseOut(hal), pcm, mixer)
                       s1 == IF hal.out.mStandby THEN hal
                             ELSE IF s.out.mPcm THEN s ELSE StandbyOut(s)
                       s2 == IF s1.in.mNeedEchoReference /\ ~ s1.in.mEchoReference
                             THEN getEchoReference(s1, echo) ELSE s1
                   IN OpenInput(DropOut(Recorder, s2))
           \/ /\ LastOut(t, hal) /\ Move(t, "so_out", DropOut(t, hal), {"in", "hw"})
           \/ /\ ~ LastOut(t, hal) /\ OpenInput(DropOut(t, hal))
    BY <1>5 DEF readCheckOut, Got, ToStandbyIn, Dance
  <2>2. hal.in.mStandby /\ InShut(hal)
    BY <2>1, InRead
  <2>3. ASSUME hal.mOutput, NEW pcm \in Opens("pcm"), NEW mixer \in Opens("mixer"), NEW echo \in Opens("echo"),
               NEW s, s = OpenOut(CloseOut(hal), pcm, mixer),
               NEW s1, s1 = IF hal.out.mStandby THEN hal ELSE IF s.out.mPcm THEN s ELSE StandbyOut(s),
               NEW s2, s2 = IF s1.in.mNeedEchoReference /\ ~ s1.in.mEchoReference
                            THEN getEchoReference(s1, echo) ELSE s1,
               OpenInput(DropOut(Recorder, s2))
        PROVE  IInv'
    BY <2>1, <2>3, ReadReopens
  <2>4. CASE Move(t, "so_out", DropOut(t, hal), {"in", "hw"})
    <3>1. Referred(DropOut(t, hal), "so_out", "idle") /\ "so_out" \notin InPoints
      BY <1>0, DropsOut DEF WillStandbyOut, InPoints
    <3>2. QED
      BY <1>0, <2>1, <2>4, <3>1, RestMoves
  <2>5. CASE ~ LastOut(t, hal) /\ OpenInput(DropOut(t, hal))
    <3> DEFINE r == DropOut(t, hal)
    <3>1. Refers(r) /\ RefsOnly(hal, r)
      BY <1>0, <2>5, DropsOut
    <3>2. OpenInput(r)
      BY <2>5
    <3> HIDE DEF r
    <3>3. Near(hal, r) /\ Follows(r)
      BY <3>1, RefsAreNear DEF Refers
    <3>4. OutStays(r)
      BY <1>0, <3>3 DEF OutStays, Near, OutHold, HInv, OutFine
    <3>5. SameMode(hal, r) /\ r.in.mStandby /\ InShut(r)
      BY <2>2, <3>3 DEF Near, InHold
    <3>6. QED
      BY <2>1, <3>2, <3>3, <3>4, <3>5, OpensInput
  <2>6. QED
    BY <2>1, <2>3, <2>4, <2>5
<1>6. CASE readFrames
  <2>1. PICK p \in {"idle", "si_in"} : thread[t].at = "r_use" /\ Move(t, p, hal, {})
    BY <1>6 DEF readFrames
  <2>2. thread[t].at \notin ToStandbyIn \cup {"so_out", "so_hw"} /\ p \in Points /\ p \notin InPoints
    BY <1>0, <2>1 DEF ToStandbyIn, Dance, InPoints
  <2>3. QED
    BY <1>0, <2>1, <2>2, SameHal, RestMoves
<1>7. CASE routeInputIn
  <2>1. /\ thread[t].at = "ri_in" /\ Move(t, "ri_hw", hal, {"in"})
        /\ thread[t].at \notin ToStandbyIn \cup {"so_out", "so_hw"}
    BY <1>7 DEF routeInputIn, Got, ToStandbyIn, Dance
  <2>2. hal.mInput /\ thread[Manager].at # "ci_hw"
    BY <1>0, <2>1 DEF InPoints, CInv, InUsed
  <2>3. QED
    BY <1>0, <2>1, <2>2, SameHal, RestMoves
<1>8. CASE routeInputHw
  <2>1. thread[t].at = "ri_hw" /\ thread[t].at \notin ToStandbyIn \cup {"so_out", "so_hw"}
        /\ thread[t].at \notin {"so_out", "so_hw"}
    BY <1>8 DEF routeInputHw, Got, ToStandbyIn, Dance
  <2>2. CASE Move(t, "idle", hal, {})
    <3>1. "idle" \notin InPoints
      BY DEF InPoints
    <3>2. QED
      BY <1>0, <2>1, <2>2, <3>1, SameHal, RestMoves
  <2>3. CASE DoStandbyIn(t, hal, {}, "standby")
    <3>1. /\ CallOk(hal, IF t = Control THEN "standby" ELSE thread[Control].ret)
          /\ "standby" \in {"standby", "enter", "leave"} /\ OutKept(hal) /\ InHold(hal, hal)
      BY <1>0 DEF HInv, CallFine, OutKept, OutHold, InHold
    <3>2. QED
      BY <1>0, <2>1, <2>3, <3>1, Dances DEF Refers
  <2>4. CASE Move(t, "idle", StandbyIn(CountIn(hal)), {})
    BY <2>1, <2>4, InputStands
  <2>5. QED
    BY <1>8, <2>2, <2>3, <2>4 DEF routeInputHw
<1>9. QED
  BY <1>1, <1>2, <1>3, <1>4, <1>5, <1>6, <1>7, <1>8 DEF RecorderStep

-----------------------------------------------------------------------------
(* The thread that opens and closes streams, and the calls.                *)

\* What is so of a thread that is called or that closes a stream.
LEMMA AtCall ==
  ASSUME IInv, NEW t \in Threads, thread[t].at \in {"idle", "co_hw", "ci_hw", "drop"}
  PROVE  /\ thread[t].ret = "standby" /\ thread[t].then = "idle" /\ ~ Stuck(t)
         /\ thread[t].at \notin ToStandbyIn \cup {"so_out", "so_hw"}
         /\ ~ WillStandbyOut(thread[t].at, thread[t].then)
<1>1. thread[t].at \notin ToStandbyIn \cup {"so_out", "so_hw"} /\ ~ Stuck(t)
  BY DEF ToStandbyIn, Dance, Stuck, StuckAt
<1>2. thread[t].ret = "standby" /\ thread[t].then = "idle"
  BY <1>1, AtRest
<1>3. QED
  BY <1>1, <1>2 DEF WillStandbyOut

\* What the others are on the way to, they still are on the way to.
LEMMA OthersGo ==
  ASSUME IInv, NEW t \in Threads, thread[t].at \in {"idle", "co_hw", "ci_hw", "drop"},
         NEW p, NEW ret, NEW then, NEW h, Moved(t, p, ret, then, h)
  PROVE  /\ (\E u \in Threads : WillStandbyOut(thread[u].at, thread[u].then)) =>
              (\E u \in Threads : WillStandbyOut(thread[u].at, thread[u].then)')
         /\ (\E u \in Threads : thread[u].at \in ToStandbyIn) =>
              (\E u \in Threads : thread'[u].at \in ToStandbyIn)
         /\ Blocked => Blocked'
<1>1. \A u \in Threads : WillStandbyOut(thread[u].at, thread[u].then) =>
                           WillStandbyOut(thread[u].at, thread[u].then)'
  BY AtCall DEF Moved, WillStandbyOut
<1>2. \A u \in Threads : thread[u].at \in ToStandbyIn => thread'[u].at \in ToStandbyIn
  BY AtCall DEF Moved
<1>3. \A u \in Threads : Stuck(u) => Stuck(u)'
  BY AtCall DEF Moved, Stuck
<1>4. QED
  BY <1>1, <1>2, <1>3 DEF Blocked

LEMMA ClosesOutput ==
  ASSUME IInv, closeOutputHw
  PROVE  IInv'
<1> USE FourThreads
<1> DEFINE t == Manager
           s == [hal EXCEPT !.mOutput = FALSE]
           u == [s EXCEPT !.out.refs = @ \cup {t}, !.in.refs = @ \cup {t}]
           after == IF hal.out.refs = {} THEN "so_out" ELSE "idle"
           dropping == s.mEchoReference /\ ActiveInput(s)
           p == IF dropping THEN "si_in" ELSE after
           ret == "standby"
           then == IF dropping THEN "drop" ELSE "idle"
           h == IF dropping THEN held[t] ELSE {}
<1>0. /\ CInv /\ HInv /\ HalType(hal) /\ t \in Threads /\ thread[t].at = "co_hw"
      /\ held[t] \in SUBSET Mutexes
  BY ThreadTypes DEF IInv, CInv, closeOutputHw, Got, Threads
<1>1. /\ thread[t].ret = "standby" /\ thread[t].then = "idle" /\ ~ Stuck(t)
      /\ thread[t].at \notin ToStandbyIn \cup {"so_out", "so_hw"}
  BY <1>0, AtCall
<1>2. Moved(t, p, ret, then, h) /\ hal' = IF dropping THEN u ELSE s
  <2>1. CASE dropping
    <3> DEFINE e == [thread[t] EXCEPT !.at = "si_in", !.then = "drop"]
    <3>1. e \in ThreadRecords
      <4>1. "si_in" \in Points /\ "drop" \in Sequels
        BY DEF Points, Waits, Sequels
      <4>2. QED
        BY <1>0, <4>1 DEF CInv, ThreadType, ThreadRecords
    <3>2. thread' = [thread EXCEPT ![t] = e] /\ held' = held /\ hal' = u
      BY <1>0, <2>1 DEF closeOutputHw, CInv, ThreadType
    <3>3. held' = [held EXCEPT ![t] = held[t]]
      BY <1>0, <3>2 DEF CInv, HeldType
    <3>4. e.at = "si_in" /\ e.ret = "standby" /\ e.then = "drop"
      BY <1>0, <1>1 DEF CInv, ThreadType, ThreadRecords
    <3> HIDE DEF e, u, dropping
    <3>5. Moved(t, e.at, e.ret, e.then, held[t])
      BY <1>0, <3>1, <3>2, <3>3, SetThread DEF CInv
    <3>6. QED
      BY <2>1, <3>2, <3>4, <3>5
  <2>2. CASE ~ dropping
    <3>1. Move(t, after, s, {})
      BY <2>2 DEF closeOutputHw
    <3>2. after \in Points /\ {} \in SUBSET Mutexes
      BY DEF Points, Waits
    <3> HIDE DEF after, s, u, dropping
    <3>3. QED
      BY <1>0, <1>1, <2>2, <3>1, <3>2, MoveIs DEF CInv
  <2>3. QED
    BY <2>1, <2>2
<1>3. /\ HalType(s) /\ s.out = hal.out /\ s.in = hal.in /\ SameMode(hal, s) /\ s.muted = hal.muted
      /\ s.mMicMute = hal.mMicMute /\ ~ s.mOutput /\ s.mInput = hal.mInput
      /\ s.mEchoReference = hal.mEchoReference
      /\ s.mPcmOpenCnt = hal.mPcmOpenCnt /\ s.mMixerOpenCnt = hal.mMixerOpenCnt
  BY <1>0 DEF HalType, SameMode
<1> HIDE DEF s
<1>4. /\ RefsOnly(s, u) /\ u.out.fresh = s.out.fresh /\ u.in.fresh = s.in.fresh
      /\ u.out.refs = s.out.refs \cup {t} /\ u.in.refs = s.in.refs \cup {t}
  <2> DEFINE o == [s.out EXCEPT !.refs = @ \cup {t}]
             i == [s.in EXCEPT !.refs = @ \cup {t}]
  <2>1. /\ o \in OutRecords /\ o.refs = s.out.refs \cup {t} /\ o.fresh = s.out.fresh
        /\ o.mStandby = s.out.mStandby /\ o.mPcm = s.out.mPcm /\ o.mMixer = s.out.mMixer
        /\ o.mEchoReference = s.out.mEchoReference /\ o.wakeLock = s.out.wakeLock
    BY <1>0, <1>3 DEF HalType, OutRecords
  <2>2. /\ i \in InRecords /\ i.refs = s.in.refs \cup {t} /\ i.fresh = s.in.fresh
        /\ i.mStandby = s.in.mStandby /\ i.mPcm = s.in.mPcm /\ i.mMixer = s.in.mMixer
        /\ i.mEchoReference = s.in.mEchoReference
        /\ i.mNeedEchoReference = s.in.mNeedEchoReference
    BY <1>0, <1>3 DEF HalType, InRecords
  <2>3. u = [s EXCEPT !.out = o, !.in = i]
    BY <1>3 DEF HalType
  <2> HIDE DEF o, i, u
  <2>4. HalType(u)
    BY <1>3, <2>1, <2>2, <2>3 DEF HalType
  <2>5. /\ u.out = o /\ u.in = i /\ SameCall(s, u) /\ u.muted = s.muted
        /\ u.mPcmOpenCnt = s.mPcmOpenCnt /\ u.mMixerOpenCnt = s.mMixerOpenCnt
    BY <1>3, <2>3 DEF HalType, SameCall
  <2>6. QED
    BY <2>1, <2>2, <2>4, <2>5 DEF RefsOnly
<1> HIDE DEF u
<1>5. /\ Near(s, hal') /\ HalType(hal') /\ hal'.out.fresh = hal.out.fresh
      /\ hal'.in.fresh = hal.in.fresh
      /\ hal.out.refs \subseteq hal'.out.refs /\ hal.in.refs \subseteq hal'.in.refs
      /\ dropping => hal'.out.refs # {}
  <2>1. CASE dropping
    BY <1>2, <1>3, <1>4, <2>1, RefsAreNear DEF RefsOnly
  <2>2. CASE ~ dropping
    <3>1. RefsOnly(s, s)
      BY <1>3 DEF RefsOnly, SameCall
    <3>2. hal' = s /\ Near(s, s)
      BY <1>2, <2>2, <3>1, RefsAreNear
    <3>3. QED
      BY <1>3, <2>2, <3>2
  <2>3. QED
    BY <2>1, <2>2
<1>6. /\ OutHold(hal, hal') /\ InHold(hal, hal') /\ SameMode(hal, hal')
      /\ (OutShut(hal) <=> OutShut(hal')) /\ (InShut(hal) <=> InShut(hal'))
      /\ hal'.mInput = hal.mInput /\ ~ hal'.mOutput
  BY <1>3, <1>5 DEF Near, OutHold, InHold, SameMode, SameStreams, OutShut, InShut
<1>7. CountsOf(hal') /\ FreshOf(hal')
  <2>1. CountsOf(s)
    BY <1>0, <1>3 DEF HInv, CountsOf, SameMode
  <2>2. FreshOf(hal')
    BY <1>0, <1>5 DEF HInv, FreshOf
  <2>3. QED
    BY <1>5, <2>1, <2>2 DEF Near
<1>8. Steps(t, p, h) /\ Allowed(t, p, ret, then, h)
  <2>1. /\ p \in {"si_in", "so_out", "idle"}
        /\ then # "idle" => p \in ToStandbyIn
    BY DEF ToStandbyIn
  <2> HIDE DEF p, then, h
  <2>2. QED
    BY <1>1, <2>1 DEF Steps, Allowed
<1>9. OutGone' /\ InGone'
  <2>1. p = "so_out" => OutGone'
    BY <1>0, <1>2 DEF OutGone, Moved, WillStandbyOut
  <2>2. hal'.out.refs # {} => OutGone'
    BY DEF OutGone
  <2>3. hal.out.refs # {} \/ dropping \/ p = "so_out"
    OBVIOUS
  <2>4. OutGone'
    BY <1>5, <2>1, <2>2, <2>3
  <2> HIDE DEF p, then, h, ret
  <2>5. InGone'
    <3>1. (\E x \in Threads : thread[x].at \in ToStandbyIn) => (\E x \in Threads : thread'[x].at \in ToStandbyIn)
      BY <1>0, <1>2, OthersGo
    <3>2. Blocked => Blocked'
      BY <1>0, <1>2, OthersGo
    <3>3. ~ hal.mInput => hal.in.refs # {} \/ InShut(hal) \/ Blocked
                          \/ \E x \in Threads : thread[x].at \in ToStandbyIn
      BY <1>0 DEF HInv, InGone
    <3>4. QED
      BY <1>5, <1>6, <3>1, <3>2, <3>3 DEF InGone, InShut
  <2>6. QED
    BY <2>4, <2>5
<1>10. UsedKept
  <2>1. thread'[Player] = thread[Player] /\ thread[Player].at \notin OutPoints
    BY <1>0, <1>2 DEF Moved, Threads, CInv, OutUsed
  <2>2. QED
    BY <1>6, <2>1 DEF UsedKept
<1> HIDE DEF p, then, h, ret
<1>11. OutFine' /\ InFine'
  <2>1. OutFine'
    BY <1>0, <1>2, <1>6, <1>8, KeepOut
  <2>2. InFine'
    BY <1>0, <1>2, <1>6, <1>8, KeepIn
  <2>3. QED
    BY <2>1, <2>2
<1>12. EchoKept(p, h) /\ MuteKept(t, p, h) /\ CallKept(t, ret)
  <2>1. EchoOk(hal) => EchoOk(s)
    BY <1>3 DEF EchoOk
  <2>2. MuteOk(hal) => MuteOk(s)
    BY <1>3 DEF MuteOk, ActiveInput, SameMode
  <2>3. CallKept(t, ret)
    BY <1>0, <1>6 DEF CallKept, CallOk, HInv, CallFine, SameMode
  <2>4. QED
    BY <1>5, <2>1, <2>2, <2>3 DEF EchoKept, MuteKept, Near
<1>13. QED
  BY <1>0, <1>2, <1>5, <1>7, <1>8, <1>9, <1>10, <1>11, <1>12, Changed, Zenon

\* The manager goes on, with a stream closed or opened.
LEMMA ClosesInput ==
  ASSUME IInv, closeInputHw
  PROVE  IInv'
<1> USE FourThreads
<1> DEFINE t == Manager
           s == [hal EXCEPT !.mInput = FALSE]
           p == IF hal.in.refs = {} THEN "si_in" ELSE "idle"
           ret == "standby"
           then == "idle"
           h == {}
<1>0. CInv /\ HInv /\ HalType(hal) /\ t \in Threads /\ thread[t].at = "ci_hw"
  BY DEF IInv, CInv, closeInputHw, Got, Threads
<1>1. /\ thread[t].ret = "standby" /\ thread[t].then = "idle" /\ ~ Stuck(t)
      /\ thread[t].at \notin ToStandbyIn \cup {"so_out", "so_hw"}
  BY <1>0, AtCall
<1>2. Moved(t, p, ret, then, h) /\ hal' = s
  <2>1. Move(t, p, s, h)
    BY DEF closeInputHw
  <2>2. p \in Points /\ h \in SUBSET Mutexes
    BY DEF Points, Waits
  <2> HIDE DEF p, s, h
  <2>3. QED
    BY <1>0, <1>1, <2>1, <2>2, MoveIs DEF CInv
<1>3. /\ HalType(hal') /\ hal'.out = hal.out /\ hal'.in = hal.in /\ SameMode(hal, hal')
      /\ hal'.muted = hal.muted /\ hal'.mMicMute = hal.mMicMute /\ ~ hal'.mInput
      /\ hal'.mOutput = hal.mOutput /\ hal'.mEchoReference = hal.mEchoReference
      /\ hal'.mPcmOpenCnt = hal.mPcmOpenCnt /\ hal'.mMixerOpenCnt = hal.mMixerOpenCnt
  BY <1>0, <1>2 DEF HalType, SameMode
<1> HIDE DEF s
<1>4. OutHold(hal, hal') /\ InHold(hal, hal')
  BY <1>3 DEF OutHold, InHold
<1>5. CountsOf(hal') /\ FreshOf(hal')
  BY <1>0, <1>3 DEF HInv, CountsOf, FreshOf, SameMode
<1>6. Steps(t, p, h) /\ Allowed(t, p, ret, then, h)
  <2>1. p \in {"si_in", "idle"}
    OBVIOUS
  <2> HIDE DEF p
  <2>2. QED
    BY <1>1, <2>1 DEF Steps, Allowed
<1>7. OutGone' /\ InGone'
  <2>1. InGone'
    <3>1. CASE hal.in.refs = {}
      <4>1. thread'[t].at \in ToStandbyIn
        BY <1>2, <3>1 DEF Moved, ToStandbyIn
      <4>2. QED
        BY <1>0, <4>1 DEF InGone
    <3>2. CASE hal.in.refs # {}
      BY <1>3, <3>2 DEF InGone
    <3>3. QED
      BY <3>1, <3>2
  <2> HIDE DEF p, then, ret, h
  <2>2. (\E x \in Threads : WillStandbyOut(thread[x].at, thread[x].then)) =>
          (\E x \in Threads : WillStandbyOut(thread[x].at, thread[x].then)')
    BY <1>0, <1>2, OthersGo
  <2>3. OutGone'
    BY <1>0, <1>3, <2>2 DEF HInv, OutGone, OutShut, WillStandbyOut
  <2>4. QED
    BY <2>1, <2>3
<1>8. UsedKept
  <2>1. thread'[Recorder] = thread[Recorder] /\ thread[Recorder].at \notin InPoints
    BY <1>0, <1>2 DEF Moved, Threads, CInv, InUsed
  <2>2. QED
    BY <1>3, <2>1 DEF UsedKept
<1> HIDE DEF p, then, h, ret
<1>9. OutFine' /\ InFine'
  <2>1. OutFine'
    BY <1>0, <1>2, <1>4, <1>6, KeepOut
  <2>2. InFine'
    BY <1>0, <1>2, <1>4, <1>6, KeepIn
  <2>3. QED
    BY <2>1, <2>2
<1>10. EchoKept(p, h) /\ MuteKept(t, p, h) /\ CallKept(t, ret)
  <2>1. EchoOk(hal) => EchoOk(hal')
    BY <1>3 DEF EchoOk
  <2>2. MuteOk(hal')
    BY <1>3 DEF MuteOk, ActiveInput
  <2>3. CallKept(t, ret)
    BY <1>0, <1>3 DEF CallKept, CallOk, HInv, CallFine, SameMode
  <2>4. QED
    BY <2>1, <2>2, <2>3 DEF EchoKept, MuteKept
<1>11. QED
  BY <1>0, <1>2, <1>3, <1>5, <1>6, <1>7, <1>8, <1>9, <1>10, Changed, Zenon

LEMMA OpensOutputStream ==
  ASSUME IInv, openOutputStream
  PROVE  IInv'
<1> USE FourThreads
<1> DEFINE t == Manager
           s == [hal EXCEPT !.mOutput = TRUE, !.out = NoOut]
           p == "idle"
           ret == "standby"
           then == "idle"
           h == {}
<1>0. /\ CInv /\ HInv /\ HalType(hal) /\ t \in Threads /\ thread[t].at = "idle"
      /\ ~ hal.mOutput /\ hal.out.refs = {}
      /\ \A u \in Threads : thread[u].at \notin {"so_out", "so_hw"} /\ thread[u].then # "so_out"
  BY DEF IInv, CInv, openOutputStream, ManagerIdle, Threads
<1>1. /\ thread[t].ret = "standby" /\ thread[t].then = "idle" /\ ~ Stuck(t)
      /\ thread[t].at \notin ToStandbyIn \cup {"so_out", "so_hw"}
  BY <1>0, AtCall
<1>2. Moved(t, p, ret, then, h) /\ hal' = s
  <2>1. Move(t, p, s, h)
    BY DEF openOutputStream
  <2>2. p \in Points /\ h \in SUBSET Mutexes
    BY DEF Points
  <2> HIDE DEF p, s, h
  <2>3. QED
    BY <1>0, <1>1, <2>1, <2>2, MoveIs DEF CInv
<1>3. /\ HalType(hal') /\ hal'.out = NoOut /\ hal'.in = hal.in /\ SameMode(hal, hal')
      /\ hal'.muted = hal.muted /\ hal'.mMicMute = hal.mMicMute /\ hal'.mInput = hal.mInput
      /\ hal'.mOutput /\ hal'.mEchoReference = hal.mEchoReference
      /\ hal'.mPcmOpenCnt = hal.mPcmOpenCnt /\ hal'.mMixerOpenCnt = hal.mMixerOpenCnt
  <2>1. NoOut \in OutRecords
    BY DEF NoOut, OutRecords
  <2>2. QED
    BY <1>0, <1>2, <2>1 DEF HalType, SameMode
<1> HIDE DEF s
<1>4. /\ hal'.out.mStandby /\ ~ hal'.out.mPcm /\ ~ hal'.out.mMixer /\ ~ hal'.out.wakeLock
      /\ hal'.out.fresh = {} /\ ~ hal'.out.mEchoReference
  BY <1>3 DEF NoOut
<1>5. OutShut(hal)
  BY <1>0 DEF HInv, OutGone, WillStandbyOut
<1>6. CountsOf(hal') /\ FreshOf(hal')
  <2>1. CountsOf(hal')
    <3>1. /\ One(hal'.out.mMixer) = One(hal.out.mMixer)
          /\ One(hal'.out.mPcm) = One(hal.out.mPcm)
      BY <1>4, <1>5 DEF One, OutShut
    <3>2. hal'.in = hal.in /\ hal'.call = hal.call
      BY <1>3 DEF SameMode
    <3>3. CountsOf(hal)
      BY <1>0 DEF HInv
    <3>4. /\ hal'.mPcmOpenCnt = hal.mPcmOpenCnt /\ hal'.mMixerOpenCnt = hal.mMixerOpenCnt
      BY <1>3
    <3>5. QED
      BY <3>1, <3>2, <3>3, <3>4 DEF CountsOf
  <2>2. FreshOf(hal')
    BY <1>0, <1>3, <1>4 DEF HInv, FreshOf
  <2>3. QED
    BY <2>1, <2>2
<1>7. Steps(t, p, h) /\ Allowed(t, p, ret, then, h)
  BY <1>1 DEF Steps, Allowed
<1>8. UsedKept
  BY <1>3 DEF UsedKept
<1>9. OutFine'
  <2>1. thread'[Player] = thread[Player] /\ thread[Player].at \notin {"w_hw", "w_in", "w_hw2"}
    BY <1>0, <1>2 DEF Moved, Threads, CInv, OutUsed, OutPoints
  <2>2. QED
    BY <1>4, <2>1 DEF OutFine, OutShut
<1> HIDE DEF p, then, h, ret
<1>10. InFine'
  <2>1. InHold(hal, hal')
    BY <1>3 DEF InHold
  <2>2. QED
    BY <1>0, <1>2, <1>7, <2>1, KeepIn
<1>11. OutGone' /\ InGone'
  <2>1. (\E x \in Threads : thread[x].at \in ToStandbyIn) => (\E x \in Threads : thread'[x].at \in ToStandbyIn)
    BY <1>0, <1>2, OthersGo
  <2>2. Blocked => Blocked'
    BY <1>0, <1>2, OthersGo
  <2>3. InGone'
    BY <1>0, <1>3, <2>1, <2>2 DEF HInv, InGone, InShut
  <2>4. OutGone'
    BY <1>3 DEF OutGone
  <2>5. QED
    BY <2>3, <2>4
<1>12. EchoKept(p, h) /\ MuteKept(t, p, h) /\ CallKept(t, ret)
  <2>1. EchoOk(hal) => EchoOk(hal')
    BY <1>3, <1>4 DEF EchoOk
  <2>2. MuteOk(hal) => MuteOk(hal')
    BY <1>3 DEF MuteOk, ActiveInput, SameMode
  <2>3. CallKept(t, ret)
    BY <1>0, <1>3 DEF CallKept, CallOk, HInv, CallFine, SameMode
  <2>4. t # Control
    OBVIOUS
  <2>5. QED
    BY <2>1, <2>2, <2>3, <2>4 DEF EchoKept, MuteKept
<1>13. QED
  BY <1>0, <1>2, <1>3, <1>6, <1>7, <1>8, <1>9, <1>10, <1>11, <1>12, Changed, Zenon

LEMMA OpensInputStream ==
  ASSUME IInv, openInputStream
  PROVE  IInv'
<1> USE FourThreads
<1> DEFINE t == Manager
           s == [hal EXCEPT !.mInput = TRUE, !.in = NoIn]
           p == "idle"
           ret == "standby"
           then == "idle"
           h == {}
<1>0. /\ CInv /\ HInv /\ HalType(hal) /\ t \in Threads /\ thread[t].at = "idle"
      /\ ~ hal.mInput /\ hal.in.refs = {} /\ Free("hw")
      /\ \A u \in Threads : thread[u].at \notin {"si_in", "si_hw", "d_out", "d_in", "d_hw"}
  BY DEF IInv, CInv, openInputStream, ManagerIdle, Threads
<1>1. /\ thread[t].ret = "standby" /\ thread[t].then = "idle" /\ ~ Stuck(t)
      /\ thread[t].at \notin ToStandbyIn \cup {"so_out", "so_hw"}
  BY <1>0, AtCall
<1>2. Moved(t, p, ret, then, h) /\ hal' = s
  <2>1. Move(t, p, s, h)
    BY DEF openInputStream
  <2>2. p \in Points /\ h \in SUBSET Mutexes
    BY DEF Points
  <2> HIDE DEF p, s, h
  <2>3. QED
    BY <1>0, <1>1, <2>1, <2>2, MoveIs DEF CInv
<1>3. /\ HalType(hal') /\ hal'.in = NoIn /\ hal'.out = hal.out /\ SameMode(hal, hal')
      /\ hal'.mOutput = hal.mOutput
      /\ hal'.mInput /\ hal'.mEchoReference = hal.mEchoReference
      /\ hal'.mPcmOpenCnt = hal.mPcmOpenCnt /\ hal'.mMixerOpenCnt = hal.mMixerOpenCnt
  <2>1. NoIn \in InRecords
    BY DEF NoIn, InRecords
  <2>2. QED
    BY <1>0, <1>2, <2>1 DEF HalType, SameMode
<1> HIDE DEF s
<1>4. /\ hal'.in.mStandby /\ ~ hal'.in.mPcm /\ ~ hal'.in.mMixer
      /\ hal'.in.fresh = {} /\ ~ hal'.in.mEchoReference
  BY <1>3 DEF NoIn
<1>5. InShut(hal)
  <2>1. ~ Blocked
    BY <1>0 DEF Blocked, Stuck, StuckAt, Free
  <2>2. \A u \in Threads : thread[u].at \notin ToStandbyIn
    BY <1>0 DEF ToStandbyIn, Dance
  <2>3. QED
    BY <1>0, <2>1, <2>2 DEF HInv, InGone
<1>6. CountsOf(hal') /\ FreshOf(hal')
  <2>1. CountsOf(hal')
    <3>1. /\ One(hal'.in.mMixer) = One(hal.in.mMixer)
          /\ One(hal'.in.mPcm) = One(hal.in.mPcm)
      BY <1>4, <1>5 DEF One, InShut
    <3>2. hal'.out = hal.out /\ hal'.call = hal.call
      BY <1>3 DEF SameMode
    <3>3. CountsOf(hal)
      BY <1>0 DEF HInv
    <3>4. /\ hal'.mPcmOpenCnt = hal.mPcmOpenCnt /\ hal'.mMixerOpenCnt = hal.mMixerOpenCnt
      BY <1>3
    <3>5. QED
      BY <3>1, <3>2, <3>3, <3>4 DEF CountsOf
  <2>2. FreshOf(hal')
    BY <1>0, <1>3, <1>4 DEF HInv, FreshOf
  <2>3. QED
    BY <2>1, <2>2
<1>7. Steps(t, p, h) /\ Allowed(t, p, ret, then, h)
  BY <1>1 DEF Steps, Allowed
<1>8. UsedKept /\ InFine' /\ InGone'
  BY <1>3, <1>4 DEF UsedKept, InFine, InShut, InGone
<1> HIDE DEF p, then, h, ret
<1>9. OutFine'
  <2>1. OutHold(hal, hal')
    BY <1>3 DEF OutHold
  <2>2. QED
    BY <1>0, <1>2, <1>7, <2>1, KeepOut
<1>10. OutGone'
  <2>1. (\E x \in Threads : WillStandbyOut(thread[x].at, thread[x].then)) =>
          (\E x \in Threads : WillStandbyOut(thread[x].at, thread[x].then)')
    BY <1>0, <1>2, OthersGo
  <2>2. QED
    BY <1>0, <1>3, <2>1 DEF HInv, OutGone, OutShut, WillStandbyOut
<1>11. EchoKept(p, h) /\ MuteKept(t, p, h) /\ CallKept(t, ret)
  <2>1. EchoOk(hal) => EchoOk(hal')
    BY <1>3, <1>4 DEF EchoOk
  <2>2. MuteOk(hal')
    BY <1>4 DEF MuteOk, ActiveInput
  <2>3. CallKept(t, ret)
    BY <1>0, <1>3 DEF CallKept, CallOk, HInv, CallFine, SameMode
  <2>4. QED
    BY <2>1, <2>2, <2>3 DEF EchoKept, MuteKept
<1>12. QED
  BY <1>0, <1>2, <1>3, <1>6, <1>7, <1>8, <1>9, <1>10, <1>11, Changed, Zenon

LEMMA EffectChanges ==
  ASSUME IInv, changeEffect
  PROVE  IInv'
<1> USE FourThreads
<1> DEFINE t == Manager
           s == [hal EXCEPT !.in.mNeedEchoReference = ~ @]
           p == "si_in"
           ret == "standby"
           then == "idle"
           h == {}
<1>0. CInv /\ HInv /\ HalType(hal) /\ t \in Threads /\ thread[t].at = "idle"
  BY DEF IInv, CInv, changeEffect, ManagerIdle, Threads
<1>1. /\ thread[t].ret = "standby" /\ thread[t].then = "idle" /\ ~ Stuck(t)
      /\ thread[t].at \notin ToStandbyIn \cup {"so_out", "so_hw"}
      /\ ~ WillStandbyOut(thread[t].at, thread[t].then)
  BY <1>0, AtCall
<1>2. Moved(t, p, ret, then, h) /\ hal' = s
  <2>1. Move(t, p, s, h)
    BY DEF changeEffect
  <2>2. p \in Points /\ h \in SUBSET Mutexes
    BY DEF Points, Waits
  <2> HIDE DEF p, s, h
  <2>3. QED
    BY <1>0, <1>1, <2>1, <2>2, MoveIs DEF CInv
<1>3. /\ HalType(hal') /\ hal'.out = hal.out /\ SameMode(hal, hal') /\ SameStreams(hal, hal')
      /\ hal'.muted = hal.muted /\ hal'.mMicMute = hal.mMicMute
      /\ hal'.mEchoReference = hal.mEchoReference
      /\ hal'.mPcmOpenCnt = hal.mPcmOpenCnt /\ hal'.mMixerOpenCnt = hal.mMixerOpenCnt
      /\ hal'.in.mStandby = hal.in.mStandby /\ hal'.in.mPcm = hal.in.mPcm
      /\ hal'.in.mMixer = hal.in.mMixer /\ hal'.in.mEchoReference = hal.in.mEchoReference
      /\ hal'.in.refs = hal.in.refs /\ hal'.in.fresh = hal.in.fresh
  <2>1. HalType(s)
    BY <1>0 DEF HalType, InRecords
  <2>2. /\ s.out = hal.out /\ SameMode(hal, s) /\ SameStreams(hal, s)
        /\ s.muted = hal.muted /\ s.mMicMute = hal.mMicMute
        /\ s.mEchoReference = hal.mEchoReference
        /\ s.mPcmOpenCnt = hal.mPcmOpenCnt /\ s.mMixerOpenCnt = hal.mMixerOpenCnt
    BY <1>0 DEF HalType, SameMode, SameStreams
  <2>3. /\ s.in.mStandby = hal.in.mStandby /\ s.in.mPcm = hal.in.mPcm
        /\ s.in.mMixer = hal.in.mMixer /\ s.in.mEchoReference = hal.in.mEchoReference
        /\ s.in.refs = hal.in.refs /\ s.in.fresh = hal.in.fresh
    BY <1>0 DEF HalType, InRecords
  <2> HIDE DEF s
  <2>4. QED
    BY <1>2, <2>1, <2>2, <2>3
<1> HIDE DEF s
<1>4. Allowed(t, p, ret, then, h) /\ p \in ToStandbyIn
  BY DEF Allowed, OutPoints, InPoints, ToStandbyIn
<1>5. Sound(t, p, then, h)
  <2>1. Steps(t, p, h)
    BY <1>1 DEF Steps
  <2>2. CountsOf(hal') /\ FreshOf(hal')
    BY <1>0, <1>3 DEF HInv, CountsOf, FreshOf, SameMode
  <2>3. GoneOk(t, p, then, h)
    BY <1>1, <1>3, <1>4 DEF GoneOk, OutShut, InShut
  <2>4. QED
    BY <1>3, <2>1, <2>2, <2>3 DEF Sound
<1> HIDE DEF p, then, h, ret
<1>6. OutFine' /\ InFine'
  <2>1. OutHold(hal, hal') /\ InHold(hal, hal') /\ Steps(t, p, h)
    BY <1>3, <1>5 DEF OutHold, InHold, Sound
  <2>2. OutFine'
    BY <1>0, <1>2, <2>1, KeepOut
  <2>3. InFine'
    BY <1>0, <1>2, <2>1, KeepIn
  <2>4. QED
    BY <2>2, <2>3
<1>7. EchoKept(p, h) /\ MuteKept(t, p, h) /\ CallKept(t, ret)
  <2>1. EchoOk(hal) => EchoOk(hal')
    BY <1>3 DEF EchoOk, SameStreams
  <2>2. MuteOk(hal) => MuteOk(hal')
    BY <1>3 DEF MuteOk, ActiveInput, SameMode, SameStreams
  <2>3. CallKept(t, ret)
    BY <1>0, <1>3 DEF CallKept, CallOk, HInv, CallFine, SameMode
  <2>4. QED
    BY <2>1, <2>2, <2>3 DEF EchoKept, MuteKept
<1>8. QED
  BY <1>0, <1>2, <1>4, <1>5, <1>6, <1>7, Effect, Zenon

LEMMA ManagerKeeps ==
  ASSUME IInv, ManagerStep
  PROVE  IInv'
<1> USE FourThreads
<1> DEFINE t == Manager
<1>0. t \in Threads /\ Refers(hal)
  BY SameHal DEF Threads, Refers
<1>1. CASE dropOutput
  <2>1. thread[t].at \notin ToStandbyIn \cup {"so_out", "so_hw"}
    BY <1>1 DEF dropOutput, ToStandbyIn, Dance
  <2>2. {} \in SUBSET Mutexes /\ "so_out" \in Points /\ "idle" \in Points
    BY DEF Points, Waits
  <2>3. CASE LastOut(t, hal)
    <3>1. Move(t, "so_out", DropOut(t, hal), {})
      BY <1>1, <2>3 DEF dropOutput
    <3>2. Referred(DropOut(t, hal), "so_out", "idle")
      BY <1>0, DropsOut DEF WillStandbyOut
    <3>3. QED
      BY <1>0, <2>1, <2>2, <3>1, <3>2, RestMoves
  <2>4. CASE ~ LastOut(t, hal)
    <3>1. Move(t, "idle", DropOut(t, hal), {})
      BY <1>1, <2>4 DEF dropOutput
    <3>2. Referred(DropOut(t, hal), "idle", "idle")
      BY <1>0, <2>4, DropsOut, RefersIs
    <3>3. QED
      BY <1>0, <2>1, <2>2, <3>1, <3>2, RestMoves
  <2>5. QED
    BY <2>3, <2>4
<1>2. QED
  BY <1>1, ClosesOutput, ClosesInput DEF ManagerStep

LEMMA CallKeeps ==
  ASSUME IInv, Call
  PROVE  IInv'
<1> USE FourThreads
<1>0. /\ Player \in Threads /\ Recorder \in Threads /\ Control \in Threads /\ Manager \in Threads
      /\ {} \in SUBSET Mutexes /\ CInv
      /\ {"w_out", "so_out", "ro_out", "r_in", "si_in", "ri_in", "mute_hw", "m_hw", "co_hw", "ci_hw"} \subseteq Points
  BY DEF Threads, Points, Waits, IInv
<1>1. ASSUME NEW m \in Modes, setMode(Control, m)
      PROVE  IInv'
  <2> DEFINE t == Control
             e == [thread[t] EXCEPT !.at = "m_hw", !.mode = m]
  <2>1. thread[t].at = "idle" /\ hal' = hal /\ held' = held
    BY <1>1 DEF setMode
  <2>2. /\ thread[t].ret = "standby" /\ thread[t].then = "idle" /\ ~ Stuck(t)
        /\ thread[t].at \notin ToStandbyIn \cup {"so_out", "so_hw"}
        /\ ~ WillStandbyOut(thread[t].at, thread[t].then)
    BY <1>0, <2>1, AtCall
  <2>3. e \in ThreadRecords /\ e.at = "m_hw" /\ e.ret = "standby" /\ e.then = "idle"
    BY <1>0, <2>2 DEF CInv, ThreadType, ThreadRecords
  <2>4. thread' = [thread EXCEPT ![t] = e] /\ held' = [held EXCEPT ![t] = held[t]]
        /\ held[t] \in SUBSET Mutexes
    BY <1>0, <1>1, <2>1 DEF setMode, CInv, ThreadType, HeldType
  <2> HIDE DEF e
  <2>5. Moved(t, "m_hw", "standby", "idle", held[t])
    <3>1. Moved(t, e.at, e.ret, e.then, held[t])
      BY <1>0, <2>3, <2>4, SetThread DEF CInv
    <3>2. QED
      BY <2>3, <3>1
  <2>6. Allowed(t, "m_hw", "standby", "idle", held[t])
    BY DEF Allowed
  <2>7. WaitsOk(t, "m_hw", "standby", "idle", held[t])
    BY <2>2 DEF WaitsOk, Steps
  <2>8. Referred(hal', "m_hw", "idle")
    BY <2>1, SameHal
  <2>9. QED
    BY <1>0, <2>5, <2>6, <2>7, <2>8, Waited
<1>2. ASSUME NEW t \in Threads, thread[t].at = "idle", NEW p \in Points, Move(t, p, hal, {}),
             t = Player => /\ p \in {"w_out", "so_out", "ro_out"}
                           /\ hal.mOutput /\ thread[Manager].at # "co_hw",
             t = Recorder => /\ p \in {"r_in", "si_in", "ri_in"}
                             /\ hal.mInput /\ thread[Manager].at # "ci_hw",
             t = Control => p = "mute_hw",
             t = Manager => /\ p = "co_hw" => thread[Player].at = "idle"
                            /\ p = "ci_hw" => thread[Recorder].at = "idle"
      PROVE  IInv'
  <2>1. thread[t].at \notin ToStandbyIn \cup {"so_out", "so_hw"}
    BY <1>2, AtCall
  <2>2. "idle" \notin OutPoints /\ "idle" \notin InPoints
    BY DEF OutPoints, InPoints
  <2>3. Referred(hal, p, "idle")
    BY SameHal
  <2>4. QED
    BY <1>0, <1>2, <2>1, <2>2, <2>3, RestMoves
<1>3. CASE setMicMute(Control)
  BY <1>0, <1>2, <1>3 DEF setMicMute
<1>4. CASE write \/ standbyOutput \/ routeOutput
  BY <1>0, <1>2, <1>4 DEF write, standbyOutput, routeOutput, OutUsable
<1>5. CASE read \/ standbyInput \/ routeInput
  BY <1>0, <1>2, <1>5 DEF read, standbyInput, routeInput, InUsable
<1>6. CASE closeOutputStream
  BY <1>0, <1>2, <1>6 DEF closeOutputStream, ManagerIdle
<1>7. CASE closeInputStream
  BY <1>0, <1>2, <1>7 DEF closeInputStream, ManagerIdle
<1>8. QED
  BY <1>1, <1>3, <1>4, <1>5, <1>6, <1>7, OpensOutputStream, OpensInputStream, EffectChanges DEF Call

-----------------------------------------------------------------------------
(* The theorems.                                                           *)

LEMMA InitInv ==
  ASSUME Init
  PROVE  IInv
<1> USE FourThreads
<1>1. /\ \A t \in Threads : /\ thread[t].at = "idle" /\ thread[t].ret = "standby"
                            /\ thread[t].then = "idle" /\ held[t] = {}
      /\ Player \in Threads /\ Recorder \in Threads /\ Control \in Threads /\ Manager \in Threads
  BY DEF Init, Threads
<1>2. /\ hal.out = NoOut /\ hal.in = NoIn /\ hal.mOutput /\ hal.mInput /\ hal.call = NoCall
      /\ hal.mMode = "normal" /\ ~ hal.mInCallAudioMode /\ ~ hal.mEchoReference
      /\ hal.mPcmOpenCnt = 0 /\ hal.mMixerOpenCnt = 0
  BY DEF Init
<1>3. /\ hal.out.mStandby /\ ~ hal.out.mPcm /\ ~ hal.out.mMixer /\ ~ hal.out.mEchoReference
      /\ ~ hal.out.wakeLock /\ hal.out.fresh = {}
      /\ hal.in.mStandby /\ ~ hal.in.mPcm /\ ~ hal.in.mMixer /\ ~ hal.in.mEchoReference
      /\ hal.in.fresh = {} /\ ~ hal.call.pcm /\ ~ hal.call.mixer
  BY <1>2 DEF NoOut, NoIn, NoCall
<1>4. CInv
  <2>1. ThreadType
    BY DEF Init, ThreadType, ThreadRecords, Points, Waits, Returns, Sequels, Modes
  <2>2. HeldType
    BY DEF Init, HeldType
  <2>3. HalType(hal)
    <3>1. NoOut \in OutRecords /\ NoIn \in InRecords /\ NoCall \in CallRecords
      BY DEF NoOut, NoIn, NoCall, OutRecords, InRecords, CallRecords
    <3>2. QED
      BY <3>1 DEF Init, HalType, Modes
  <2>4. Rets /\ Thens /\ Holds
    BY <1>1 DEF Rets, Thens, Holds
  <2>5. OutUsed /\ InUsed
    BY <1>1, <1>2 DEF OutUsed, InUsed
  <2>6. QED
    BY <2>1, <2>2, <2>3, <2>4, <2>5 DEF CInv
<1>5. OutFine /\ InFine
  BY <1>1, <1>3 DEF OutFine, InFine, OutShut, InShut
<1>6. OutGone /\ InGone
  BY <1>2 DEF OutGone, InGone
<1>7. EchoFine /\ MuteFine /\ CallFine
  <2>1. EchoFine
    BY <1>3 DEF EchoFine, EchoOk
  <2>2. MuteFine
    BY <1>3 DEF MuteFine, MuteOk, ActiveInput
  <2>3. CallFine
    BY <1>1, <1>2 DEF CallFine, CallOk
  <2>4. QED
    BY <2>1, <2>2, <2>3
<1>8. CountsOf(hal) /\ FreshOf(hal)
  <2>1. /\ One(hal.out.mPcm) = 0 /\ One(hal.out.mMixer) = 0 /\ One(hal.in.mMixer) = 0
        /\ One(hal.call.pcm) = 0 /\ One(hal.call.mixer) = 0
    BY <1>3 DEF One
  <2>2. CountsOf(hal)
    BY <1>2, <2>1 DEF CountsOf
  <2>3. FreshOf(hal)
    BY <1>3 DEF FreshOf
  <2>4. QED
    BY <2>2, <2>3
<1>9. QED
  BY <1>4, <1>5, <1>6, <1>7, <1>8 DEF IInv, HInv

LEMMA StutterKeeps ==
  ASSUME IInv, UNCHANGED vars
  PROVE  IInv'
<1>1. hal' = hal /\ thread' = thread /\ held' = held
  BY DEF vars
<1>2. CInv'
  BY <1>1 DEF IInv, CInv, ThreadType, HeldType, HalType, Rets, Thens, Holds, OutUsed, InUsed,
              Stuck, StuckAt
<1>3. HInv'
  BY <1>1 DEF IInv, HInv, OutFine, InFine, OutGone, InGone, EchoFine, MuteFine, CallFine, CountsOf,
              FreshOf, OutShut, InShut, InBlock, InBlockAt, WillStandbyOut, Blocked, Stuck, StuckAt,
              EchoOk, MuteOk, CallOk, ActiveInput
<1>4. QED
  BY <1>2, <1>3 DEF IInv

LEMMA StepInv ==
  ASSUME IInv, [Next]_vars
  PROVE  IInv'
<1>1. CASE \E t \in Threads : Standby(t)
  BY <1>1, StandbyKeeps
<1>2. CASE UNCHANGED vars
  BY <1>2, StutterKeeps
<1>3. QED
  BY <1>1, <1>2, CallKeeps, PlayerKeeps, RecorderKeeps, ControlKeeps, ManagerKeeps DEF Next

\* The invariant of the whole HAL.
THEOREM HalInvariant == Spec => []IInv
<1>1. Init => IInv
  BY InitInv
<1>2. IInv /\ [Next]_vars => IInv'
  BY StepInv
<1>3. QED
  BY <1>1, <1>2, PTL DEF Spec

LEMMA CountsBounded ==
  ASSUME IInv
  PROVE  hal.mPcmOpenCnt \in 0 .. 2 /\ hal.mMixerOpenCnt \in 0 .. 3
<1>1. hal.mPcmOpenCnt \in Nat /\ hal.mMixerOpenCnt \in Nat /\ CountsOf(hal)
  BY DEF IInv, CInv, HInv, HalType
<1>2. \A b : One(b) \in 0 .. 1
  BY DEF One
<1>3. QED
  BY <1>1, <1>2 DEF CountsOf

LEMMA Typed ==
  ASSUME IInv
  PROVE  TypeOK
<1>1. HalType(hal) /\ ThreadType /\ HeldType
  BY DEF IInv, CInv
<1>2. hal \in [mMode : Modes, mMicMute : BOOLEAN, muted : BOOLEAN, mInCallAudioMode : BOOLEAN,
               mPcmOpenCnt : 0 .. 2, mMixerOpenCnt : 0 .. 3, mEchoReference : BOOLEAN,
               call : [pcm : BOOLEAN, mixer : BOOLEAN], mOutput : BOOLEAN, mInput : BOOLEAN,
               out : OutRecords, in : InRecords]
  BY <1>1, CountsBounded DEF HalType, CallRecords
<1>3. QED
  BY <1>1, <1>2 DEF TypeOK, ThreadType, ThreadRecords, HeldType, Mutexes, Returns, Sequels

LEMMA Consistent ==
  ASSUME IInv
  PROVE  StreamsConsistent
<1>1. /\ OutFine /\ InFine /\ Player \in Threads
      /\ thread[Player].ret = "write" => "out" \in held[Player]
  BY DEF IInv, HInv, CInv, Rets, Threads
<1>2. ASSUME Free("out")
      PROVE  /\ hal.out.mStandby => ~ hal.out.mPcm /\ ~ hal.out.mMixer /\ ~ hal.out.wakeLock
             /\ ~ hal.out.mStandby => hal.out.mPcm /\ hal.out.wakeLock
  BY <1>1, <1>2 DEF OutFine, OutShut, InBlock, InBlockAt, Free
<1>3. QED
  BY <1>1, <1>2 DEF StreamsConsistent, InFine, InShut

\* The types hold, neither reference count exceeds what can hold a reference, and a
\* stream that nobody works on is in standby exactly when it holds nothing: whichever
\* thread put it there or opened it again, with the mutexes taken and given back as
\* write(), read(), setMode(), setMicMute() and the opening and closing of streams do.
THEOREM StreamsAreSound == Spec => []StreamsSound
<1>1. IInv => StreamsSound
  BY Typed, Consistent DEF StreamsSound
<1>2. QED
  BY <1>1, HalInvariant, PTL

\* While nothing fails to open for a call, the playback pcm and the mixer are open
\* exactly as often as a stream or the call holds them.
THEOREM CountsAreExact == "call" \notin Failures => (Spec => []CountsExact)
<1>1. SUFFICES ASSUME "call" \notin Failures
               PROVE  Spec => []CountsExact
  OBVIOUS
<1>2. IInv => CountsExact
  BY <1>1 DEF IInv, HInv, CountsOf, CountsExact
<1>3. QED
  BY <1>2, HalInvariant, PTL

\* Nobody feeds or reads an echo reference that has been released, through every
\* dance of doStandby_l and every closing of the output.
THEOREM EchoIsAlive == Spec => []EchoAlive
<1>1. IInv => EchoAlive
  BY DEF IInv, HInv, EchoFine, EchoOk, Blocked, Stuck, StuckAt, EchoAlive, Free
<1>2. QED
  BY <1>1, HalInvariant, PTL

\* setMicMute() reaches the capture that is running, and a capture that is opened
\* later is opened muted or not as mMicMute says.
THEOREM MuteReaches == Spec => []MuteReachesCapture
<1>1. IInv => MuteReachesCapture
  BY DEF IInv, HInv, MuteFine, MuteOk, ToStandbyIn, Dance, Stuck, StuckAt, MuteReachesCapture
<1>2. QED
  BY <1>1, HalInvariant, PTL

-----------------------------------------------------------------------------
(* The order of the mutexes, and the mode.                                 *)

Plain(s) == s.mOutput /\ s.mInput /\ ~ s.in.mNeedEchoReference /\ ~ s.in.mEchoReference
Fits(p, h) ==
  /\ p \in DOMAIN Waits => \A l \in h : Rank[l] < Rank[Waits[p]]
  /\ p = "idle" => h = {}

\* Without an echo reference and with its streams open, the HAL never dances and
\* destroys nothing.
Apart == Dance \cup {"co_hw", "ci_hw", "drop"}
Serene ==
  /\ Plain(hal)
  /\ \A t \in Threads : /\ thread[t].then = "idle" /\ thread[t].at \notin Apart
                        /\ Fits(thread[t].at, held[t])

\* From s to r the mode stays, and so do the streams and the echo reference.
Quiet(s, r) == HalType(r) /\ r.mMode = s.mMode /\ (Plain(s) => Plain(r))

StaysSerene == Serene => Serene'
Steady == hal'.mMode = hal.mMode /\ StaysSerene

LEMMA QuietChain ==
  ASSUME NEW s, NEW q, NEW r, Quiet(s, q), Quiet(q, r)
  PROVE  Quiet(s, r)
BY DEF Quiet

LEMMA QuietRefs ==
  ASSUME NEW s, NEW r, RefsOnly(s, r)
  PROVE  Quiet(s, r) /\ (ActiveInput(s) <=> ActiveInput(r)) /\ (NeedsDance(s) <=> NeedsDance(r))
BY DEF Quiet, RefsOnly, SameCall, Plain, ActiveInput, NeedsDance

LEMMA QuietOut ==
  ASSUME NEW s, NEW r, OutOnly(s, r)
  PROVE  Quiet(s, r)
BY DEF Quiet, OutOnly, SameCall, Plain

LEMMA QuietIn ==
  ASSUME NEW s, NEW r, InOnly(s, r), InSame(s, r)
  PROVE  Quiet(s, r)
BY DEF Quiet, InOnly, InSame, SameCall, Plain

LEMMA QuietStandbyIn ==
  ASSUME NEW s, HalType(s), NEW r, r = StandbyIn(s)
  PROVE  Quiet(s, r)
<1> DEFINE e == [s EXCEPT !.in.mStandby = TRUE, !.in.mEchoReference = FALSE]
<1>1. Quiet(s, e)
  BY DEF HalType, InRecords, Quiet, Plain
<1>2. r = CloseIn(e)
  BY DEF StandbyIn
<1> HIDE DEF e
<1>3. Quiet(e, r)
  BY <1>1, <1>2, CloseInOp, QuietIn DEF Quiet
<1>4. QED
  BY <1>1, <1>3, QuietChain

LEMMA QuietStandbys ==
  ASSUME NEW s, HalType(s), NEW r, r = StandbyIn(CountIn(s))
  PROVE  Quiet(s, r)
<1> DEFINE q == CountIn(s)
<1>1. Quiet(s, q)
  BY CountInOp, QuietRefs
<1>2. r = StandbyIn(q)
  OBVIOUS
<1> HIDE DEF q
<1>3. QED
  BY <1>1, <1>2, QuietStandbyIn, QuietChain DEF Quiet

\* Thread t goes on to p with the mutexes h.
LEMMA SereneMoves ==
  ASSUME IInv, NEW t \in Threads, NEW p \in Points \ Apart, NEW ret, NEW then, NEW h,
         Moved(t, p, ret, then, h), Plain(hal) => Plain(hal'), Fits(p, h), then = "idle"
  PROVE  StaysSerene
<1> SUFFICES ASSUME Serene
             PROVE  Serene'
  BY DEF StaysSerene
<1>1. Plain(hal)'
  BY DEF Serene, Plain
<1>2. \A u \in Threads : /\ thread'[u].then = "idle" /\ thread'[u].at \notin Apart
                         /\ Fits(thread'[u].at, held'[u])
  <2> TAKE u \in Threads
  <2>1. CASE u = t
    BY <2>1 DEF Moved
  <2>2. CASE u # t
    <3>1. thread'[u] = thread[u] /\ held'[u] = held[u]
      BY <2>2 DEF Moved
    <3>2. QED
      BY <3>1 DEF Serene
  <2>3. QED
    BY <2>1, <2>2
<1>3. QED
  BY <1>1, <1>2 DEF Serene, Fits, Waits, Rank

LEMMA SteadyMoves ==
  ASSUME IInv, NEW t \in Threads, NEW p \in Points, NEW h \in SUBSET Mutexes, NEW s,
         Move(t, p, s, h), Quiet(hal, s), Serene => p \notin Apart /\ Fits(p, h)
  PROVE  Steady
<1>1. Moved(t, p, thread[t].ret, thread[t].then, h) /\ hal' = s
  BY MoveIs DEF IInv, CInv
<1>2. ASSUME Serene
      PROVE  StaysSerene
  <2>1. thread[t].then = "idle"
    BY <1>2 DEF Serene
  <2>2. p \in Points \ Apart /\ Fits(p, h)
    BY <1>2
  <2>3. Plain(hal) => Plain(hal')
    BY <1>1 DEF Quiet
  <2> DEFINE ret == thread[t].ret
             then == thread[t].then
  <2> HIDE DEF ret, then
  <2>4. Moved(t, p, ret, then, h) /\ then = "idle"
    BY <1>1, <2>1 DEF ret, then
  <2>5. QED
    BY <2>2, <2>3, <2>4, SereneMoves
<1>3. QED
  BY <1>1, <1>2 DEF Steady, StaysSerene, Quiet

\* A standby of the input, from its beginning to what comes after it.
LEMMA SteadyDance ==
  ASSUME IInv, NEW t \in Threads, NEW s, Quiet(hal, s), NEW h \in SUBSET Mutexes,
         NEW ret \in Returns, DoStandbyIn(t, s, h, ret)
  PROVE  Steady
<1>1. RefsOnly(s, hal')
  BY DanceBegins DEF IInv, Quiet
<1>2. hal'.mMode = hal.mMode
  BY <1>1 DEF RefsOnly, SameCall, Quiet
<1>3. ~ Serene
  BY DEF DoStandbyIn, NeedsDance, Serene, Quiet, Plain
<1>4. QED
  BY <1>2, <1>3 DEF Steady, StaysSerene

LEMMA SteadyFinish ==
  ASSUME IInv, NEW t \in Threads, NEW s, Quiet(hal, s), FinishIn(t, s)
  PROVE  Steady
<1> DEFINE q == DropIn(t, s)
<1>1. Quiet(hal, q)
  BY DropInOp, QuietRefs, QuietChain DEF Quiet
<1>2. {} \in SUBSET Mutexes /\ "si_in" \in Points /\ "si_in" \notin Apart /\ "idle" \notin Apart
      /\ "idle" \in Points /\ Fits("si_in", {}) /\ Fits("idle", {})
  BY DEF Points, Waits, Apart, Dance, Fits
<1>3. CASE LastIn(t, s)
  <2>1. Move(t, "si_in", q, {})
    BY <1>3 DEF FinishIn
  <2> HIDE DEF q
  <2>2. QED
    BY <1>1, <1>2, <2>1, SteadyMoves
<1>4. CASE ~ LastIn(t, s)
  <2> DEFINE e == [thread[t] EXCEPT !.at = thread[t].then, !.then = "idle"]
  <2>1. /\ thread' = [thread EXCEPT ![t].at = thread[t].then, ![t].then = "idle"]
        /\ hal' = q /\ held' = [held EXCEPT ![t] = {}]
    BY <1>4 DEF FinishIn
  <2>2. ThreadType /\ HeldType
    BY DEF IInv, CInv
  <2>3. thread' = [thread EXCEPT ![t] = e]
    BY <2>1, <2>2 DEF ThreadType
  <2>4. e \in ThreadRecords /\ e.at = thread[t].then /\ e.then = "idle"
    <3>1. thread[t] \in ThreadRecords
      BY <2>2 DEF ThreadType
    <3>2. thread[t].then \in Points
      BY <3>1 DEF ThreadRecords, Sequels, Points, Waits
    <3>3. QED
      BY <3>1, <3>2 DEF ThreadRecords, Sequels
  <2> HIDE DEF e, q
  <2>5. Moved(t, e.at, e.ret, e.then, {})
    BY <1>2, <2>1, <2>2, <2>3, <2>4, SetThread
  <2>6. ASSUME Serene
        PROVE  StaysSerene
    <3>1. e.at = "idle"
      BY <2>4, <2>6 DEF Serene
    <3>2. Plain(hal) => Plain(hal')
      BY <1>1, <2>1 DEF Quiet
    <3> DEFINE p == e.at
               ret == e.ret
               then == e.then
    <3>3. p \in Points \ Apart /\ Fits(p, {}) /\ then = "idle" /\ Moved(t, p, ret, then, {})
      BY <1>2, <2>4, <2>5, <3>1
    <3> HIDE DEF p, ret, then
    <3>4. QED
      BY <3>2, <3>3, SereneMoves
  <2>7. QED
    BY <1>1, <2>1, <2>6 DEF Steady, StaysSerene, Quiet
<1>5. QED
  BY <1>3, <1>4

\* setMode() ends with the HAL in state s but for its references.
LEMMA SereneEnds ==
  ASSUME IInv, NEW t \in Threads, NEW s, HalType(s), Plain(hal) => Plain(s), EndSetMode(t, s)
  PROVE  hal'.mMode = s.mMode /\ StaysSerene
<1> DEFINE q == DropIn(t, s)
           r == DropOut(t, q)
           after == IF LastOut(t, s) THEN "so_out" ELSE "idle"
           e == [thread[t] EXCEPT !.at = IF LastIn(t, s) THEN "si_in" ELSE after,
                                  !.then = IF LastIn(t, s) THEN after ELSE "idle",
                                  !.mode = "normal", !.ret = "standby"]
<1>1. Quiet(s, q)
  BY DropInOp, QuietRefs
<1>2. Quiet(q, r)
  <2> HIDE DEF q
  <2>1. QED
    BY <1>1, DropOutOp, QuietRefs DEF Quiet
<1>3. /\ hal' = r /\ held' = [held EXCEPT ![t] = {}]
      /\ thread' = [thread EXCEPT ![t].at = IF LastIn(t, s) THEN "si_in" ELSE after,
                                  ![t].then = IF LastIn(t, s) THEN after ELSE "idle",
                                  ![t].mode = "normal", ![t].ret = "standby"]
  BY DEF EndSetMode
<1> HIDE DEF q, r
<1>4. hal'.mMode = s.mMode /\ (Plain(hal) => Plain(hal'))
  BY <1>1, <1>2, <1>3 DEF Quiet
<1>5. ASSUME Serene
      PROVE  StaysSerene
  <2>1. ThreadType /\ HeldType
    BY DEF IInv, CInv
  <2>2. thread' = [thread EXCEPT ![t] = e]
    BY <1>3, <2>1 DEF ThreadType
  <2>3. ~ LastIn(t, s) /\ ~ LastOut(t, s)
    BY <1>5 DEF Serene, Plain, LastIn, LastOut
  <2>4. e.at = "idle" /\ e.then = "idle" /\ e \in ThreadRecords
    BY <2>1, <2>3 DEF ThreadType, ThreadRecords, Sequels, Points, Returns, Modes
  <2> HIDE DEF e, after
  <2>5. Moved(t, e.at, e.ret, e.then, {})
    BY <1>3, <2>1, <2>2, <2>4, SetThread
  <2> DEFINE p == e.at
             ret == e.ret
             then == e.then
  <2>6. p \in Points \ Apart /\ Fits(p, {}) /\ then = "idle" /\ Moved(t, p, ret, then, {})
    BY <2>4, <2>5 DEF Points, Waits, Apart, Dance, Fits
  <2> HIDE DEF p, ret, then
  <2>7. QED
    BY <1>4, <2>6, SereneMoves
<1>6. QED
  BY <1>4, <1>5 DEF StaysSerene

LEMMA QuietEnter ==
  ASSUME NEW s, HalType(s), NEW pcm \in BOOLEAN, NEW mixer \in BOOLEAN,
         NEW r, r = EnterCall(s, pcm, mixer)
  PROVE  Quiet(s, r)
<1> DEFINE s1 == openPcmOut_l(s, pcm)
           s2 == openMixer_l(s1, mixer)
           c == [pcm |-> s1.mPcmOpenCnt > s.mPcmOpenCnt, mixer |-> s2.mMixerOpenCnt > s1.mMixerOpenCnt]
<1>1. CountsOnly(s, s1)
  BY OpenPcm
<1> HIDE DEF s1
<1>2. CountsOnly(s1, s2)
  BY <1>1, OpenMixer DEF CountsOnly
<1>3. c \in CallRecords
  BY DEF CallRecords
<1>4. r = [s2 EXCEPT !.mInCallAudioMode = TRUE, !.call = c]
  BY DEF EnterCall, s1
<1> HIDE DEF s2, c
<1>5. Quiet(s2, r)
  BY <1>2, <1>3, <1>4 DEF CountsOnly, HalType, Quiet, Plain
<1>6. QED
  BY <1>1, <1>2, <1>5 DEF CountsOnly, SameCall, Quiet, Plain

LEMMA SereneEnters ==
  ASSUME IInv, NEW t \in Threads, NEW s, HalType(s), Plain(hal) => Plain(s), EndEnter(t, s)
  PROVE  hal'.mMode = s.mMode /\ StaysSerene
<1>1. PICK pcm \in Opens("call"), mixer \in Opens("call") : EndSetMode(t, EnterCall(s, pcm, mixer))
  BY DEF EndEnter
<1>2. pcm \in BOOLEAN /\ mixer \in BOOLEAN
  BY DEF Opens
<1> DEFINE r == EnterCall(s, pcm, mixer)
<1>3. Quiet(s, r) /\ EndSetMode(t, r)
  BY <1>1, <1>2, QuietEnter
<1> HIDE DEF r
<1>4. QED
  BY <1>3, SereneEnds DEF Quiet

LEMMA QuietLeft ==
  ASSUME NEW s, HalType(s), NEW r, r = LeftCall(s)
  PROVE  Quiet(s, r)
BY DEF HalType, LeftCall, Quiet, Plain

\* setMode() switches in the state s.
LEMMA SereneSwitches ==
  ASSUME IInv, NEW t \in Threads, NEW s, HalType(s), Plain(hal) => Plain(s), Switch(t, s)
  PROVE  StaysSerene
<1> DEFINE m == thread[t].mode
           s1 == [s EXCEPT !.mMode = m]
           leave == m = "normal" /\ s.mInCallAudioMode
           enter == m = "in_call" /\ ~ s.mInCallAudioMode
           s2 == IF leave THEN LeaveCall(s1) ELSE s1
           s3 == IF t \in s.out.refs THEN StandbyOut(s2) ELSE s2
           s4 == IF t \in s.in.refs THEN StandbyIn(CountIn(s3)) ELSE s3
           dance == t \in s.in.refs /\ NeedsDance(s3)
<1>0. m \in Modes
  BY ThreadTypes
<1> HIDE DEF m
<1>1. HalType(s1) /\ (Plain(s) => Plain(s1))
  BY <1>0 DEF HalType, Plain
<1> HIDE DEF s1
<1>2. HalType(s2) /\ (Plain(s) => Plain(s2))
  <2>1. CASE leave
    <3>1. CallOnly(s1, s2)
      BY <1>1, <2>1, LeaveCallOp
    <3>2. QED
      BY <1>1, <3>1 DEF CallOnly, Plain
  <2>2. CASE ~ leave
    BY <1>1, <2>2
  <2>3. QED
    BY <2>1, <2>2
<1> HIDE DEF s2
<1>3. HalType(s3) /\ (Plain(s) => Plain(s3))
  <2>1. CASE t \in s.out.refs
    <3>1. Quiet(s2, s3)
      BY <1>2, <2>1, StandbyOutOp, QuietOut
    <3>2. QED
      BY <1>2, <3>1 DEF Quiet
  <2>2. CASE t \notin s.out.refs
    BY <1>2, <2>2
  <2>3. QED
    BY <2>1, <2>2
<1> HIDE DEF s3
<1>4. HalType(s4) /\ (Plain(s) => Plain(s4))
  <2>1. CASE t \in s.in.refs
    <3>1. Quiet(s3, s4)
      BY <1>3, <2>1, QuietStandbys
    <3>2. QED
      BY <1>3, <3>1 DEF Quiet
  <2>2. CASE t \notin s.in.refs
    BY <1>3, <2>2
  <2>3. QED
    BY <2>1, <2>2
<1> HIDE DEF s4
<1>5. Plain(s) => ~ dance
  BY <1>3 DEF Plain, NeedsDance
<1>6. \/ EndSetMode(t, s1)
      \/ dance
      \/ EndEnter(t, s4)
      \/ EndSetMode(t, LeftCall(s4))
  BY DEF Switch, m, s1, s2, s3, s4
<1> HIDE DEF dance
<1>7. CASE EndSetMode(t, s1)
  BY <1>1, <1>7, SereneEnds
<1>8. CASE dance
  BY <1>5, <1>8 DEF StaysSerene, Serene
<1>9. CASE EndEnter(t, s4)
  BY <1>4, <1>9, SereneEnters
<1>10. CASE EndSetMode(t, LeftCall(s4))
  <2> DEFINE r == LeftCall(s4)
  <2>1. Quiet(s4, r) /\ EndSetMode(t, r)
    BY <1>4, <1>10, QuietLeft
  <2> HIDE DEF r
  <2>2. QED
    BY <1>4, <2>1, SereneEnds DEF Quiet
<1>11. QED
  BY <1>6, <1>7, <1>8, <1>9, <1>10

\* setMode() changes the mode with nobody on an active input.
HoldsInput == hal'.mMode # hal.mMode /\ ActiveInput(hal) => "in" \in held[Control]
Paced == HoldsInput /\ StaysSerene

LEMMA SteadyIsPaced ==
  ASSUME Steady
  PROVE  Paced
BY DEF Steady, Paced, HoldsInput

LEMMA PacedIn ==
  ASSUME IInv, NEW t \in Threads, NEW s, RefsOnly(hal, s), ScanIn(t, s)
  PROVE  Paced
<1>0. Quiet(hal, s) /\ (ActiveInput(hal) <=> ActiveInput(s)) /\ HalType(s)
  BY QuietRefs DEF RefsOnly
<1>1. CASE ActiveInput(s) /\ Move(t, "m_in", PrepareIn(t, s), OutHeld(t, s))
  <2> DEFINE r == PrepareIn(t, s)
             h == OutHeld(t, s)
  <2>1. Quiet(hal, r)
    BY <1>0, PrepareInOp, QuietRefs, QuietChain
  <2>2. "m_in" \in Points \ Apart /\ h \in SUBSET Mutexes /\ Fits("m_in", h)
    <3>1. h \subseteq {"out"}
      BY DEF OutHeld
    <3> HIDE DEF h
    <3>2. QED
      BY <3>1 DEF Points, Waits, Apart, Dance, Mutexes, Fits, Rank
  <2> HIDE DEF r, h
  <2>3. Steady
    BY <1>1, <2>1, <2>2, SteadyMoves DEF r, h
  <2>4. QED
    BY <2>3, SteadyIsPaced
<1>2. CASE LastIn(t, s) /\ Move(t, "si_in", DropIn(t, s), OutHeld(t, s) \cup {"hw"})
  <2> DEFINE r == DropIn(t, s)
             h == OutHeld(t, s) \cup {"hw"}
  <2>1. Quiet(hal, r)
    BY <1>0, DropInOp, QuietRefs, QuietChain
  <2>2. "si_in" \in Points /\ h \in SUBSET Mutexes
    BY DEF OutHeld, Mutexes, Points, Waits
  <2>3. ~ Serene
    BY <1>0, <1>2 DEF Serene, Quiet, Plain, LastIn
  <2> HIDE DEF r, h
  <2>4. Steady
    BY <1>2, <2>1, <2>2, <2>3, SteadyMoves DEF r, h
  <2>5. QED
    BY <2>4, SteadyIsPaced
<1>3. CASE ~ ActiveInput(s) /\ Switch(t, DropIn(t, s))
  <2> DEFINE r == DropIn(t, s)
  <2>1. Quiet(hal, r) /\ Switch(t, r)
    BY <1>0, <1>3, DropInOp, QuietRefs, QuietChain
  <2> HIDE DEF r
  <2>2. QED
    BY <1>0, <1>3, <2>1, SereneSwitches DEF Quiet, Paced, HoldsInput
<1>4. QED
  BY <1>1, <1>2, <1>3 DEF ScanIn

LEMMA PacedOut ==
  ASSUME IInv, NEW t \in Threads, NEW s, RefsOnly(hal, s), ScanOut(t, s)
  PROVE  Paced
<1>0. Quiet(hal, s) /\ HalType(s)
  BY QuietRefs DEF RefsOnly
<1>1. CASE Move(t, "m_out", PrepareOut(t, s), {})
  <2> DEFINE r == PrepareOut(t, s)
  <2>1. Quiet(hal, r) /\ Move(t, "m_out", r, {})
    BY <1>0, <1>1, PrepareOutOp, QuietRefs, QuietChain
  <2>2. "m_out" \in Points \ Apart /\ {} \in SUBSET Mutexes /\ Fits("m_out", {})
    BY DEF Points, Waits, Apart, Dance, Fits
  <2> HIDE DEF r
  <2>3. QED
    BY <2>1, <2>2, SteadyMoves, SteadyIsPaced
<1>2. CASE LastOut(t, s) /\ Move(t, "so_out", DropOut(t, s), {"hw"})
  <2> DEFINE r == DropOut(t, s)
  <2>1. Quiet(hal, r) /\ Move(t, "so_out", r, {"hw"})
    BY <1>0, <1>2, DropOutOp, QuietRefs, QuietChain
  <2>2. "so_out" \in Points /\ {"hw"} \in SUBSET Mutexes
    BY DEF Mutexes, Points, Waits
  <2>3. ~ Serene
    BY <1>0, <1>2 DEF Serene, Quiet, Plain, LastOut
  <2> HIDE DEF r
  <2>4. QED
    BY <2>1, <2>2, <2>3, SteadyMoves, SteadyIsPaced
<1>3. CASE ScanIn(t, DropOut(t, s))
  <2> DEFINE r == DropOut(t, s)
  <2>1. RefsOnly(hal, r) /\ ScanIn(t, r)
    BY <1>0, <1>3, DropOutOp, RefsChain
  <2> HIDE DEF r
  <2>2. QED
    BY <2>1, PacedIn
<1>4. QED
  BY <1>1, <1>2, <1>3 DEF ScanOut

LEMMA ControlPaced ==
  ASSUME IInv, ControlStep
  PROVE  Paced
<1> DEFINE t == Control
<1>0. t \in Threads /\ RefsOnly(hal, hal) /\ HalType(hal) /\ Quiet(hal, hal)
      /\ held[t] \in SUBSET Mutexes /\ {} \in SUBSET Mutexes /\ {"out"} \in SUBSET Mutexes
  BY SameHal, ThreadTypes DEF Threads, Mutexes, IInv, CInv, Quiet
<1>1. CASE setModeHw(t)
  BY <1>0, <1>1, PacedOut DEF setModeHw
<1>2. CASE setModeOut(t)
  <2>1. Move(t, "m_hw2", hal, {"out"})
    BY <1>2 DEF setModeOut
  <2>2. "m_hw2" \in Points \ Apart /\ Fits("m_hw2", {"out"})
    BY DEF Points, Waits, Apart, Dance, Fits, Rank
  <2>3. QED
    BY <1>0, <2>1, <2>2, SteadyMoves, SteadyIsPaced
<1>3. CASE setModeCheckOut(t)
  BY <1>0, <1>3, PacedIn, PacedOut DEF setModeCheckOut
<1>4. CASE setModeIn(t)
  <2> DEFINE h == held[t] \cup {"in"}
  <2>1. Move(t, "m_hw3", hal, h) /\ thread[t].at = "m_in"
    BY <1>4 DEF setModeIn, Got
  <2>2. h \in SUBSET Mutexes
    BY <1>0 DEF Mutexes
  <2>3. "m_hw3" \in Points /\ "m_hw3" \notin Apart
    BY DEF Points, Waits, Apart, Dance
  <2>4. Serene => Fits("m_hw3", h)
    <3>1. Serene => \A l \in held[t] : Rank[l] < 2
      BY <1>0, <2>1 DEF Serene, Fits, Waits, Rank
    <3>2. \A l \in Mutexes : Rank[l] < 2 => l = "out"
      BY DEF Mutexes, Rank
    <3>3. Serene => h \subseteq {"out", "in"}
      BY <1>0, <3>1, <3>2
    <3>4. h \subseteq {"out", "in"} => Fits("m_hw3", h)
      BY DEF Fits, Waits, Rank
    <3>5. QED
      BY <3>3, <3>4
  <2> HIDE DEF h
  <2>5. QED
    BY <1>0, <2>1, <2>2, <2>3, <2>4, SteadyMoves, SteadyIsPaced
<1>5. CASE setModeCheckIn(t)
  <2>1. "in" \in held[t]
    BY <1>5 DEF IInv, CInv, Holds, setModeCheckIn, Got
  <2>2. CASE Switch(t, hal)
    BY <1>0, <2>1, <2>2, SereneSwitches DEF Paced, HoldsInput
  <2>3. CASE ScanIn(t, hal)
    BY <1>0, <2>3, PacedIn
  <2>4. QED
    BY <1>5, <2>2, <2>3 DEF setModeCheckIn
<1>6. CASE setMicMuteHw(t)
  <2> DEFINE s == [hal EXCEPT !.mMicMute = ~ @]
             u == [s EXCEPT !.in.refs = @ \cup {t}]
  <2>1. Quiet(hal, s)
    BY <1>0 DEF Quiet, HalType, Plain
  <2>2. Move(t, "si_in", u, {}) \/ Move(t, "idle", s, {})
    BY <1>6 DEF setMicMuteHw
  <2> HIDE DEF s
  <2>3. Quiet(s, u)
    BY <1>0, <2>1 DEF Quiet, HalType, InRecords, Plain
  <2> HIDE DEF u
  <2>4. Quiet(hal, u)
    BY <2>1, <2>3, QuietChain
  <2>5. /\ {"idle", "si_in"} \subseteq Points \ Apart /\ Fits("idle", {}) /\ Fits("si_in", {})
    BY DEF Points, Waits, Apart, Dance, Fits
  <2>6. QED
    BY <1>0, <2>1, <2>2, <2>4, <2>5, SteadyMoves, SteadyIsPaced
<1>7. QED
  BY <1>1, <1>2, <1>3, <1>4, <1>5, <1>6 DEF ControlStep

LEMMA StandbySteady ==
  ASSUME IInv, NEW t \in Threads, Standby(t)
  PROVE  Steady
<1>0. /\ HalType(hal) /\ Quiet(hal, hal) /\ held[t] \in SUBSET Mutexes /\ {} \in SUBSET Mutexes
      /\ "standby" \in Returns
      /\ "idle" \in Points /\ "idle" \notin Apart /\ Fits("idle", {})
      /\ held[t] \cup {"out"} \in SUBSET Mutexes /\ held[t] \cup {"in"} \in SUBSET Mutexes
  BY ThreadTypes DEF Mutexes, IInv, CInv, Quiet, Returns, Points, Waits, Apart, Dance, Fits
<1>1. CASE standbyOut(t)
  <2> DEFINE h == held[t] \cup {"out"}
  <2>1. Move(t, "so_hw", hal, h) /\ thread[t].at = "so_out"
    BY <1>1 DEF standbyOut, Got
  <2>2. Serene => Fits("so_hw", h)
    <3>1. Serene => \A l \in held[t] : Rank[l] < 1
      BY <1>0, <2>1 DEF Serene, Fits, Waits, Rank
    <3>2. \A l \in Mutexes : ~ (Rank[l] < 1)
      BY DEF Mutexes, Rank
    <3>3. Serene => h = {"out"}
      BY <1>0, <3>1, <3>2
    <3>4. Fits("so_hw", {"out"})
      BY DEF Fits, Waits, Rank
    <3> HIDE DEF h
    <3>5. QED
      BY <3>3, <3>4
  <2>3. "so_hw" \in Points /\ "so_hw" \notin Apart /\ h \in SUBSET Mutexes
    BY <1>0 DEF Points, Waits, Apart, Dance
  <2> HIDE DEF h
  <2>4. QED
    BY <1>0, <2>1, <2>2, <2>3, SteadyMoves
<1>2. CASE standbyOutHw(t)
  <2> DEFINE r == StandbyOut(hal)
  <2>1. Quiet(hal, r) /\ Move(t, "idle", r, {})
    BY <1>0, <1>2, StandbyOutOp, QuietOut DEF standbyOutHw
  <2> HIDE DEF r
  <2>2. QED
    BY <1>0, <2>1, SteadyMoves
<1>3. CASE standbyIn(t)
  <2> DEFINE h == held[t] \cup {"in"}
  <2>1. Move(t, "si_hw", hal, h) /\ thread[t].at = "si_in"
    BY <1>3 DEF standbyIn, Got
  <2>2. Serene => Fits("si_hw", h)
    <3>1. Serene => \A l \in held[t] : Rank[l] < 2
      BY <1>0, <2>1 DEF Serene, Fits, Waits, Rank
    <3>2. \A l \in Mutexes : Rank[l] < 2 => l = "out"
      BY DEF Mutexes, Rank
    <3>3. Serene => h \subseteq {"out", "in"}
      BY <1>0, <3>1, <3>2
    <3> HIDE DEF h
    <3>4. h \subseteq {"out", "in"} => Fits("si_hw", h)
      BY DEF Fits, Waits, Rank
    <3>5. QED
      BY <3>3, <3>4
  <2>3. "si_hw" \in Points /\ "si_hw" \notin Apart /\ h \in SUBSET Mutexes
    BY <1>0 DEF Points, Waits, Apart, Dance
  <2> HIDE DEF h
  <2>4. QED
    BY <1>0, <2>1, <2>2, <2>3, SteadyMoves
<1>4. CASE standbyInHw(t)
  <2>1. CASE DoStandbyIn(t, hal, {}, "standby")
    BY <1>0, <2>1, SteadyDance
  <2>2. CASE FinishIn(t, StandbyIn(CountIn(hal)))
    <3> DEFINE r == StandbyIn(CountIn(hal))
    <3>1. Quiet(hal, r) /\ FinishIn(t, r)
      BY <1>0, <2>2, QuietStandbys
    <3> HIDE DEF r
    <3>2. QED
      BY <3>1, SteadyFinish
  <2>3. QED
    BY <1>4, <2>1, <2>2 DEF standbyInHw
<1>5. CASE retakeOut(t)
  <2> DEFINE h == held[t] \cup {"out"}
  <2>1. Move(t, "d_in", hal, h) /\ ~ Serene
    BY <1>5 DEF retakeOut, Got, Serene, Apart, Dance
  <2>2. "d_in" \in Points /\ h \in SUBSET Mutexes
    BY <1>0 DEF Points, Waits
  <2> HIDE DEF h
  <2>3. QED
    BY <1>0, <2>1, <2>2, SteadyMoves
<1>6. CASE retakeIn(t)
  <2> DEFINE h == held[t] \cup {"in"}
  <2>1. Move(t, "d_hw", hal, h) /\ ~ Serene
    BY <1>6 DEF retakeIn, Got, Serene, Apart, Dance
  <2>2. "d_hw" \in Points /\ h \in SUBSET Mutexes
    BY <1>0 DEF Points, Waits
  <2> HIDE DEF h
  <2>3. QED
    BY <1>0, <2>1, <2>2, SteadyMoves
<1>7. CASE danced(t)
  <2> DEFINE s == releaseEchoReference(hal, hal.in.mEchoReference)
             q == DropOut(t, s)
             s1 == StandbyIn(q)
  <2>1. ~ Serene
    BY <1>7 DEF danced, Got, Serene, Apart, Dance
  <2>2. Quiet(hal, s)
    <3>1. hal.in.mEchoReference \in BOOLEAN
      BY <1>0 DEF HalType, InRecords
    <3>2. EchoOnly(hal, s) /\ s.in = hal.in
      BY <1>0, <3>1, ReleaseEchoOp
    <3>3. QED
      BY <3>2 DEF EchoOnly, Quiet, Plain
  <2> HIDE DEF s
  <2>3. Quiet(s, q)
    BY <2>2, DropOutOp, QuietRefs DEF Quiet
  <2> HIDE DEF q
  <2>4. Quiet(q, s1)
    BY <2>3, QuietStandbyIn DEF Quiet
  <2>5. Quiet(hal, q) /\ Quiet(hal, s1)
    <3> HIDE DEF s1
    <3>1. QED
      BY <2>2, <2>3, <2>4, QuietChain
  <2>6. \/ Move(t, "so_out", q, {"in", "hw"})
        \/ FinishIn(t, s1)
        \/ EndEnter(t, s1)
        \/ EndSetMode(t, LeftCall(s1))
    BY <1>7 DEF danced, s, q
  <2> HIDE DEF s1
  <2>7. CASE Move(t, "so_out", q, {"in", "hw"})
    <3>1. "so_out" \in Points /\ {"in", "hw"} \in SUBSET Mutexes
      BY DEF Points, Waits, Mutexes
    <3>2. QED
      BY <2>1, <2>5, <2>7, <3>1, SteadyMoves
  <2>8. CASE FinishIn(t, s1)
    BY <2>5, <2>8, SteadyFinish
  <2>9. CASE EndEnter(t, s1)
    BY <2>5, <2>9, SereneEnters DEF Quiet, Steady
  <2>10. CASE EndSetMode(t, LeftCall(s1))
    <3> DEFINE r == LeftCall(s1)
    <3>1. Quiet(hal, r) /\ EndSetMode(t, r)
      BY <2>5, <2>10, QuietLeft, QuietChain DEF Quiet
    <3> HIDE DEF r
    <3>2. QED
      BY <3>1, SereneEnds DEF Quiet, Steady
  <2>11. QED
    BY <2>6, <2>7, <2>8, <2>9, <2>10
<1>8. QED
  BY <1>1, <1>2, <1>3, <1>4, <1>5, <1>6, <1>7 DEF Standby

LEMMA SteadyLeaves ==
  ASSUME IInv, NEW s, Quiet(hal, s), LeaveOutStandby(s)
  PROVE  Steady
<1> DEFINE a == [s EXCEPT !.out.mStandby = FALSE]
           b == [s EXCEPT !.out.wakeLock = FALSE]
<1>1. Quiet(s, a) /\ Quiet(s, b)
  BY DEF Quiet, HalType, OutRecords, Plain
<1>2. Move(Player, "w_use", a, {"out"}) \/ Move(Player, "so_out", b, {})
  BY DEF LeaveOutStandby
<1> HIDE DEF a, b
<1>3. Quiet(hal, a) /\ Quiet(hal, b)
  BY <1>1, QuietChain
<1>4. /\ {"w_use", "so_out"} \subseteq Points \ Apart /\ {} \in SUBSET Mutexes /\ {"out"} \in SUBSET Mutexes
      /\ Fits("w_use", {"out"}) /\ Fits("so_out", {}) /\ Player \in Threads
  BY DEF Points, Waits, Apart, Dance, Mutexes, Fits, Threads
<1>5. QED
  BY <1>2, <1>3, <1>4, SteadyMoves

LEMMA SteadyOpens ==
  ASSUME IInv, NEW s, Quiet(hal, s), OutShut(s), OpenOutput(s)
  PROVE  Steady
<1>1. PICK pcm \in Opens("pcm"), mixer \in Opens("mixer") : LeaveOutStandby(OpenOut(s, pcm, mixer))
  BY DEF OpenOutput
<1>2. pcm \in BOOLEAN /\ mixer \in BOOLEAN
  BY DEF Opens
<1> DEFINE r == OpenOut(s, pcm, mixer)
<1>3. Quiet(s, r) /\ LeaveOutStandby(r)
  BY <1>1, <1>2, OpenOutOp, QuietOut DEF Quiet
<1> HIDE DEF r
<1>4. QED
  BY <1>3, QuietChain, SteadyLeaves

LEMMA SteadyReopens ==
  ASSUME IInv, writeCheckIn
  PROVE  Steady
<1> DEFINE t == Player
           same == ActiveInput(hal) /\ Player \in hal.in.fresh
<1>0. /\ HalType(hal) /\ Quiet(hal, hal) /\ t \in Threads /\ thread[t].at = "w_hw2"
      /\ {"out"} \in SUBSET Mutexes /\ {"out", "hw"} \in SUBSET Mutexes /\ OutShut(hal)
      /\ "write" \in Returns
  BY InWrite DEF Mutexes, Threads, IInv, CInv, Quiet, Returns, writeCheckIn, Got
<1> DEFINE q == DropIn(Player, hal)
<1>1. Quiet(hal, q) /\ q.out = hal.out
  BY <1>0, DropInOp, QuietRefs
<1> HIDE DEF q
<1>2. CASE same
  <2>1. PICK pcm \in Opens("pcm"), mixer \in Opens("mixer"), mixer2 \in Opens("mixer"),
             cap \in Opens("capture") :
          LET s == Reopen(hal, pcm, mixer, cap, mixer2)
          IN \/ LeaveOutStandby(DropIn(Player, s))
             \/ DoStandbyIn(Player, s, {"out"}, "write")
             \/ LeaveOutStandby(DropIn(Player, StandbyIn(CountIn(s))))
    BY <1>2 DEF writeCheckIn
  <2>2. pcm \in BOOLEAN /\ mixer \in BOOLEAN /\ mixer2 \in BOOLEAN /\ cap \in BOOLEAN
    BY DEF Opens
  <2> DEFINE s == Reopen(hal, pcm, mixer, cap, mixer2)
  <2>3. Quiet(hal, s)
    <3>1. HalType(s) /\ SameCall(hal, s) /\ InSame(hal, s)
      BY <1>0, <1>2, <2>2, Reopened DEF Follows
    <3> HIDE DEF s
    <3>2. QED
      BY <3>1 DEF SameCall, InSame, Quiet, Plain
  <2>4. \/ LeaveOutStandby(DropIn(Player, s))
        \/ DoStandbyIn(Player, s, {"out"}, "write")
        \/ LeaveOutStandby(DropIn(Player, StandbyIn(CountIn(s))))
    BY <2>1
  <2> HIDE DEF s
  <2> DEFINE a == DropIn(Player, s)
             b == StandbyIn(CountIn(s))
             c == DropIn(Player, b)
  <2>5. Quiet(hal, a) /\ Quiet(hal, b)
    BY <1>0, <2>3, DropInOp, QuietRefs, QuietStandbys, QuietChain DEF Quiet
  <2> HIDE DEF b
  <2>6. Quiet(hal, c)
    BY <1>0, <2>5, DropInOp, QuietRefs, QuietChain DEF Quiet
  <2>7. LeaveOutStandby(a) \/ DoStandbyIn(Player, s, {"out"}, "write") \/ LeaveOutStandby(c)
    BY <2>4 DEF b
  <2> HIDE DEF a, c
  <2>8. QED
    BY <1>0, <2>3, <2>5, <2>6, <2>7, SteadyLeaves, SteadyDance
<1>3. CASE ~ same
  <2>1. \/ Move(Player, "w_in", PrepareIn(Player, hal), {"out"})
        \/ LastIn(Player, hal) /\ Move(Player, "si_in", q, {"out", "hw"})
        \/ OpenOutput(q)
    BY <1>3 DEF writeCheckIn, q
  <2>2. CASE Move(Player, "w_in", PrepareIn(Player, hal), {"out"})
    <3> DEFINE r == PrepareIn(Player, hal)
    <3>1. Quiet(hal, r) /\ Move(t, "w_in", r, {"out"})
      BY <1>0, <2>2, PrepareInOp, QuietRefs
    <3>2. "w_in" \in Points /\ "w_in" \notin Apart /\ Fits("w_in", {"out"})
      BY DEF Points, Waits, Apart, Dance, Fits, Rank
    <3> HIDE DEF r
    <3>3. QED
      BY <1>0, <3>1, <3>2, SteadyMoves
  <2>3. CASE LastIn(Player, hal) /\ Move(Player, "si_in", q, {"out", "hw"})
    <3>1. ~ Serene /\ "si_in" \in Points
      BY <2>3 DEF Serene, Plain, LastIn, Points, Waits
    <3>2. QED
      BY <1>0, <1>1, <2>3, <3>1, SteadyMoves
  <2>4. CASE OpenOutput(q)
    BY <1>0, <1>1, <2>4, SteadyOpens DEF OutShut
  <2>5. QED
    BY <2>1, <2>2, <2>3, <2>4
<1>4. QED
  BY <1>2, <1>3

LEMMA PlayerSteady ==
  ASSUME IInv, PlayerStep
  PROVE  Steady
<1> DEFINE t == Player
<1>0. /\ HalType(hal) /\ Quiet(hal, hal) /\ t \in Threads
      /\ {} \in SUBSET Mutexes /\ {"out"} \in SUBSET Mutexes /\ {"out", "in"} \in SUBSET Mutexes
      /\ {"idle", "w_hw", "w_in", "w_hw2", "w_use", "so_out", "ro_hw"} \subseteq Points \ Apart
      /\ Fits("idle", {}) /\ Fits("w_hw", {"out"}) /\ Fits("w_in", {"out"}) /\ Fits("w_hw2", {"out", "in"})
      /\ Fits("w_use", {"out"}) /\ Fits("so_out", {}) /\ Fits("ro_hw", {"out"})
  BY DEF Mutexes, Threads, IInv, CInv, Quiet, Points, Waits, Apart, Dance, Fits, Rank
<1>1. CASE writeOut
  BY <1>0, <1>1, SteadyMoves DEF writeOut
<1>2. CASE writeHw
  <2> DEFINE s == [hal EXCEPT !.out.wakeLock = TRUE]
             r == PrepareIn(Player, s)
  <2>1. Quiet(hal, s) /\ OutShut(s)
    <3>1. OutShut(hal)
      BY <1>2, InWrite DEF writeHw, Got
    <3>2. QED
      BY <1>0, <3>1 DEF Quiet, HalType, OutRecords, Plain, OutShut
  <2>2. Move(Player, "w_in", r, {"out"}) \/ OpenOutput(s)
    BY <1>2 DEF writeHw
  <2> HIDE DEF s
  <2>3. Quiet(hal, r)
    BY <1>0, <2>1, PrepareInOp, QuietRefs, QuietChain DEF Quiet
  <2> HIDE DEF r
  <2>4. QED
    BY <1>0, <2>1, <2>2, <2>3, SteadyMoves, SteadyOpens
<1>3. CASE writeIn
  BY <1>0, <1>3, SteadyMoves DEF writeIn
<1>4. CASE writeCheckIn
  BY <1>4, SteadyReopens
<1>5. CASE writeFrames
  <2>1. PICK p \in {"idle", "so_out"} : Move(Player, p, hal, {})
    BY <1>5 DEF writeFrames
  <2>2. QED
    BY <1>0, <2>1, SteadyMoves
<1>6. CASE routeOutputOut
  BY <1>0, <1>6, SteadyMoves DEF routeOutputOut
<1>7. CASE routeOutputHw
  <2> DEFINE r == StandbyOut(hal)
  <2>1. Quiet(hal, r)
    BY <1>0, StandbyOutOp, QuietOut
  <2>2. Move(t, "idle", hal, {}) \/ Move(t, "idle", r, {})
    BY <1>7 DEF routeOutputHw
  <2> HIDE DEF r
  <2>3. QED
    BY <1>0, <2>1, <2>2, SteadyMoves
<1>8. QED
  BY <1>1, <1>2, <1>3, <1>4, <1>5, <1>6, <1>7 DEF PlayerStep

LEMMA SteadyInput ==
  ASSUME IInv, NEW s, Quiet(hal, s), InShut(s), OpenInput(s)
  PROVE  Steady
<1>1. PICK cap \in Opens("capture"), mixer \in Opens("mixer") :
        LET s1 == OpenIn(s, cap, mixer)
        IN \/ Move(Recorder, "r_use", [s1 EXCEPT !.in.mStandby = FALSE], {"in"})
           \/ Move(Recorder, "si_in", s1, {})
  BY DEF OpenInput
<1>2. cap \in BOOLEAN /\ mixer \in BOOLEAN
  BY DEF Opens
<1> DEFINE s1 == OpenIn(s, cap, mixer)
           a == [s1 EXCEPT !.in.mStandby = FALSE]
<1>3. Quiet(s, s1)
  BY <1>2, OpenInOp, QuietIn DEF Quiet
<1>4. Move(Recorder, "r_use", a, {"in"}) \/ Move(Recorder, "si_in", s1, {})
  BY <1>1
<1> HIDE DEF s1
<1>5. Quiet(s1, a)
  BY <1>3 DEF Quiet, HalType, InRecords, Plain
<1> HIDE DEF a
<1>6. Quiet(hal, s1) /\ Quiet(hal, a)
  BY <1>3, <1>5, QuietChain
<1>7. /\ {"r_use", "si_in"} \subseteq Points \ Apart /\ {} \in SUBSET Mutexes /\ {"in"} \in SUBSET Mutexes
      /\ Fits("r_use", {"in"}) /\ Fits("si_in", {}) /\ Recorder \in Threads
  BY DEF Points, Waits, Apart, Dance, Mutexes, Fits, Threads
<1>8. QED
  BY <1>4, <1>6, <1>7, SteadyMoves

LEMMA SteadyChecks ==
  ASSUME IInv, readCheckOut
  PROVE  Steady
<1> DEFINE t == Recorder
<1>0. /\ HalType(hal) /\ Quiet(hal, hal) /\ t \in Threads /\ thread[t].at = "r_hw2" /\ InShut(hal)
      /\ {"in", "hw"} \in SUBSET Mutexes /\ "so_out" \in Points
  BY InRead DEF Mutexes, Threads, IInv, CInv, Quiet, readCheckOut, Got, Points, Waits
<1>1. CASE hal.mOutput
  <2>1. PICK pcm \in Opens("pcm"), mixer \in Opens("mixer"), echo \in Opens("echo") :
          LET s == OpenOut(CloseOut(hal), pcm, mixer)
              s1 == IF hal.out.mStandby THEN hal
                    ELSE IF s.out.mPcm THEN s ELSE StandbyOut(s)
              s2 == IF s1.in.mNeedEchoReference /\ ~ s1.in.mEchoReference
                    THEN getEchoReference(s1, echo) ELSE s1
          IN OpenInput(DropOut(Recorder, s2))
    BY <1>1 DEF readCheckOut
  <2>2. pcm \in BOOLEAN /\ mixer \in BOOLEAN /\ echo \in BOOLEAN
    BY DEF Opens
  <2> DEFINE c == CloseOut(hal)
             s == OpenOut(c, pcm, mixer)
             r == StandbyOut(s)
             s1 == IF hal.out.mStandby THEN hal ELSE IF s.out.mPcm THEN s ELSE r
             s2 == IF s1.in.mNeedEchoReference /\ ~ s1.in.mEchoReference
                   THEN getEchoReference(s1, echo) ELSE s1
             q == DropOut(Recorder, s2)
  <2>3. OpenInput(q)
    BY <2>1
  <2>4. OutOnly(hal, c) /\ OutShut(c)
    BY <1>0, CloseOutOp
  <2> HIDE DEF c
  <2>5. OutOnly(c, s)
    BY <2>2, <2>4, OpenOutOp DEF OutOnly
  <2> HIDE DEF s
  <2>6. OutOnly(s, r)
    BY <2>5, StandbyOutOp DEF OutOnly
  <2> HIDE DEF r
  <2>7. Quiet(hal, s1) /\ s1.in = hal.in
    <3>1. Quiet(hal, s) /\ Quiet(hal, r)
      BY <2>4, <2>5, <2>6, QuietOut, QuietChain
    <3>2. s.in = hal.in /\ r.in = hal.in
      BY <2>4, <2>5, <2>6 DEF OutOnly
    <3>3. QED
      BY <1>0, <3>1, <3>2
  <2> HIDE DEF s1
  <2>8. Quiet(s1, s2) /\ InShut(s2)
    <3>1. InShut(s1)
      BY <1>0, <2>7 DEF InShut
    <3>2. CASE s1.in.mNeedEchoReference /\ ~ s1.in.mEchoReference
      <4>1. EchoOnly(s1, s2)
        BY <2>2, <2>7, <3>2, GetEchoOp DEF Quiet
      <4>2. QED
        BY <3>1, <3>2, <4>1 DEF EchoOnly, Quiet, Plain, InShut
    <3>3. CASE ~ (s1.in.mNeedEchoReference /\ ~ s1.in.mEchoReference)
      BY <2>7, <3>1, <3>3 DEF Quiet
    <3>4. QED
      BY <3>2, <3>3
  <2> HIDE DEF s2
  <2>9. Quiet(s2, q) /\ InShut(q)
    BY <1>0, <2>8, DropOutOp, QuietRefs DEF Quiet, InShut
  <2> HIDE DEF q
  <2>10. QED
    BY <2>3, <2>7, <2>8, <2>9, QuietChain, SteadyInput
<1>2. CASE ~ hal.mOutput
  <2> DEFINE q == DropOut(Recorder, hal)
  <2>1. Quiet(hal, q) /\ q.in = hal.in
    BY <1>0, DropOutOp, QuietRefs
  <2>2. Move(t, "so_out", q, {"in", "hw"}) \/ OpenInput(q)
    BY <1>2 DEF readCheckOut
  <2>3. ~ Serene
    BY <1>2 DEF Serene, Plain
  <2> HIDE DEF q
  <2>4. QED
    BY <1>0, <2>1, <2>2, <2>3, SteadyMoves, SteadyInput DEF InShut
<1>3. QED
  BY <1>1, <1>2

LEMMA RecorderSteady ==
  ASSUME IInv, RecorderStep
  PROVE  Steady
<1> DEFINE t == Recorder
<1>0. /\ HalType(hal) /\ Quiet(hal, hal) /\ t \in Threads /\ "standby" \in Returns
      /\ {} \in SUBSET Mutexes /\ {"in"} \in SUBSET Mutexes /\ {"out", "in"} \in SUBSET Mutexes
      /\ {"idle", "r_hw", "r_use", "r_out", "r_in2", "r_hw2", "si_in", "ri_hw"} \subseteq Points \ Apart
      /\ Fits("idle", {}) /\ Fits("r_hw", {"in"}) /\ Fits("r_use", {"in"}) /\ Fits("r_out", {})
      /\ Fits("r_hw2", {"out", "in"}) /\ Fits("si_in", {}) /\ Fits("ri_hw", {"in"})
  BY DEF Mutexes, Threads, IInv, CInv, Quiet, Points, Waits, Apart, Dance, Fits, Rank, Returns
<1>1. CASE readIn
  BY <1>0, <1>1, SteadyMoves DEF readIn
<1>2. CASE readHw
  <2> DEFINE r == PrepareOut(Recorder, hal)
  <2>1. Quiet(hal, r)
    BY <1>0, PrepareOutOp, QuietRefs
  <2>2. Move(t, "r_out", r, {}) \/ OpenInput(hal)
    BY <1>2 DEF readHw, KeptForOut
  <2>3. InShut(hal)
    BY <1>2, InRead DEF readHw, Got
  <2> HIDE DEF r
  <2>4. QED
    BY <1>0, <2>1, <2>2, <2>3, SteadyMoves, SteadyInput
<1>3. CASE readOut
  <2> DEFINE h == held[t] \cup {"out"}
  <2>1. Move(t, "r_in2", hal, h) /\ thread[t].at = "r_out" /\ held[t] \in SUBSET Mutexes
    BY <1>0, <1>3, ThreadTypes DEF readOut, Got
  <2>2. Serene => Fits("r_in2", h)
    <3>1. Serene => \A l \in held[t] : Rank[l] < 1
      BY <1>0, <2>1 DEF Serene, Fits, Waits, Rank
    <3>2. \A l \in Mutexes : ~ (Rank[l] < 1)
      BY DEF Mutexes, Rank
    <3>3. Serene => h = {"out"}
      BY <2>1, <3>1, <3>2
    <3>4. Fits("r_in2", {"out"})
      BY DEF Fits, Waits, Rank
    <3> HIDE DEF h
    <3>5. QED
      BY <3>3, <3>4
  <2>3. h \in SUBSET Mutexes
    BY <2>1 DEF Mutexes
  <2> HIDE DEF h
  <2>4. QED
    BY <1>0, <2>1, <2>2, <2>3, SteadyMoves
<1>4. CASE readIn2
  BY <1>0, <1>4, SteadyMoves DEF readIn2
<1>5. CASE readCheckOut
  BY <1>5, SteadyChecks
<1>6. CASE readFrames
  <2>1. PICK p \in {"idle", "si_in"} : Move(Recorder, p, hal, {})
    BY <1>6 DEF readFrames
  <2>2. QED
    BY <1>0, <2>1, SteadyMoves
<1>7. CASE routeInputIn
  BY <1>0, <1>7, SteadyMoves DEF routeInputIn
<1>8. CASE routeInputHw
  <2> DEFINE r == StandbyIn(CountIn(hal))
  <2>1. Quiet(hal, r)
    BY <1>0, QuietStandbys
  <2>2. \/ Move(t, "idle", hal, {}) \/ DoStandbyIn(t, hal, {}, "standby") \/ Move(t, "idle", r, {})
    BY <1>8 DEF routeInputHw
  <2> HIDE DEF r
  <2>3. QED
    BY <1>0, <2>1, <2>2, SteadyMoves, SteadyDance
<1>9. QED
  BY <1>1, <1>2, <1>3, <1>4, <1>5, <1>6, <1>7, <1>8 DEF RecorderStep

LEMMA ManagerSteady ==
  ASSUME IInv, ManagerStep
  PROVE  Steady
<1>0. HalType(hal) /\ Manager \in Threads
  BY DEF IInv, CInv, Threads
<1>1. ~ Serene
  BY <1>0 DEF ManagerStep, closeOutputHw, dropOutput, closeInputHw, Got, Serene, Apart
<1>2. hal'.mMode = hal.mMode
  <2>1. CASE closeOutputHw
    BY <1>0, <2>1 DEF closeOutputHw, Move, HalType
  <2>2. CASE dropOutput
    BY <1>0, <2>2 DEF dropOutput, Move, DropOut, HalType
  <2>3. CASE closeInputHw
    BY <1>0, <2>3 DEF closeInputHw, Move, HalType
  <2>4. QED
    BY <2>1, <2>2, <2>3 DEF ManagerStep
<1>3. QED
  BY <1>1, <1>2 DEF Steady, StaysSerene

LEMMA CallSteady ==
  ASSUME IInv, Call
  PROVE  hal'.mMode = hal.mMode /\ (~ EchoUsed /\ ~ StreamsClose => StaysSerene)
<1>0. /\ HalType(hal) /\ Quiet(hal, hal) /\ {} \in SUBSET Mutexes
      /\ Player \in Threads /\ Recorder \in Threads /\ Control \in Threads /\ Manager \in Threads
      /\ {"idle", "w_out", "so_out", "ro_out", "r_in", "si_in", "ri_in", "mute_hw", "m_hw"}
           \subseteq Points \ Apart
      /\ \A p : Fits(p, {})
  BY DEF Mutexes, Threads, IInv, CInv, Quiet, Points, Waits, Apart, Dance, Fits
<1>1. CASE \E m \in Modes : setMode(Control, m)
  <2>1. PICK m \in Modes : setMode(Control, m)
    BY <1>1
  <2> DEFINE e == [thread[Control] EXCEPT !.at = "m_hw", !.mode = m]
             p == e.at
             ret == e.ret
             then == e.then
             h == held[Control]
  <2>2. ThreadType /\ HeldType /\ h \in SUBSET Mutexes
    BY <1>0, ThreadTypes DEF IInv, CInv
  <2>3. thread' = [thread EXCEPT ![Control] = e] /\ hal' = hal /\ held' = [held EXCEPT ![Control] = h]
    BY <1>0, <2>1, <2>2 DEF setMode, ThreadType, HeldType
  <2>4. e \in ThreadRecords /\ e.at = "m_hw" /\ e.then = thread[Control].then
    BY <1>0, <2>1, <2>2 DEF ThreadType, ThreadRecords
  <2> HIDE DEF e, h
  <2>5. Moved(Control, p, ret, then, h)
    BY <1>0, <2>2, <2>3, <2>4, SetThread
  <2>6. p \in Points \ Apart
    BY <1>0, <2>4
  <2> HIDE DEF p, ret
  <2>7. ASSUME Serene
        PROVE  StaysSerene
    <3>1. then = "idle"
      BY <1>0, <2>4, <2>7 DEF Serene
    <3>2. Fits(p, h)
      <4>1. h = {}
        BY <1>0, <2>1, <2>7 DEF h, setMode, Serene, Fits
      <4>2. QED
        BY <1>0, <4>1
    <3> HIDE DEF then
    <3>3. QED
      BY <1>0, <2>3, <2>5, <2>6, <3>1, <3>2, SereneMoves
  <2>8. QED
    BY <2>3, <2>7 DEF StaysSerene
<1>2. CASE \/ setMicMute(Control) \/ write \/ standbyOutput \/ routeOutput
           \/ read \/ standbyInput \/ routeInput
  <2>1. PICK t \in Threads, p \in {"w_out", "so_out", "ro_out", "r_in", "si_in", "ri_in", "mute_hw"} :
          Move(t, p, hal, {})
    BY <1>0, <1>2 DEF setMicMute, write, standbyOutput, routeOutput, read, standbyInput, routeInput
  <2>2. QED
    BY <1>0, <2>1, SteadyMoves DEF Steady
<1>3. CASE closeOutputStream \/ closeInputStream \/ openOutputStream \/ openInputStream
  BY <1>0, <1>3 DEF closeOutputStream, closeInputStream, openOutputStream, openInputStream, Move, HalType
<1>4. CASE changeEffect
  BY <1>0, <1>4 DEF changeEffect, Move, HalType
<1>5. QED
  BY <1>1, <1>2, <1>3, <1>4 DEF Call

LEMMA NextPaced ==
  ASSUME IInv, [Next]_vars
  PROVE  HoldsInput /\ (~ EchoUsed /\ ~ StreamsClose => StaysSerene)
<1>1. CASE Call
  BY <1>1, CallSteady DEF HoldsInput
<1>2. CASE PlayerStep \/ RecorderStep \/ ManagerStep \/ \E t \in Threads : Standby(t)
  BY <1>2, PlayerSteady, RecorderSteady, ManagerSteady, StandbySteady, SteadyIsPaced DEF Paced
<1>3. CASE ControlStep
  BY <1>3, ControlPaced DEF Paced
<1>4. CASE UNCHANGED vars
  <2>1. StaysSerene
    BY <1>4 DEF vars, StaysSerene, Serene, Plain, Fits
  <2>2. QED
    BY <1>4, <2>1 DEF vars, HoldsInput
<1>5. QED
  BY <1>1, <1>2, <1>3, <1>4 DEF Next

\* The mode never changes under a recorder that is reading: setMode() holds the
\* mutex of the input by then, or the input is in standby, also when it let go of
\* every mutex on the way and had to begin again.
THEOREM ModeWaitsForInput == Spec => ModeChangeHoldsInput
<1>1. IInv /\ [Next]_vars => [HoldsInput]_vars
  BY NextPaced
<1>2. [][HoldsInput]_vars => ModeChangeHoldsInput
  BY PTL DEF HoldsInput, ModeChangeHoldsInput
<1>3. QED
  BY <1>1, <1>2, HalInvariant, PTL DEF Spec

\* While no effect needs an echo reference and the streams stay open, every thread
\* takes the mutexes in the order out -> in -> hw, whatever fails to open.
THEOREM MutexesInOrder == ~ EchoUsed /\ ~ StreamsClose => (Spec => []LockOrder)
<1> SUFFICES ASSUME ~ EchoUsed, ~ StreamsClose
             PROVE  Spec => []LockOrder
  OBVIOUS
<1>1. Init => Serene
  BY DEF Init, NoIn, Serene, Plain, Fits, Waits, Apart, Dance
<1>2. IInv /\ Serene /\ [Next]_vars => Serene'
  BY NextPaced DEF StaysSerene
<1>3. Serene => LockOrder
  BY DEF Serene, Fits, LockOrder
<1>4. QED
  BY <1>1, <1>2, <1>3, HalInvariant, PTL DEF Spec
=============================================================================
