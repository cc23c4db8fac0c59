--------------------------- MODULE CameraSettings ---------------------------
(***************************************************************************)
(* The settings of the camera, which exist three times: in mParameters,    *)
(* which getParameters() returns (SecCameraHWInterface.cpp), in the        *)
(* members of SecCamera, and in the sensor behind the driver.              *)
(*                                                                         *)
(* A setter of SecCamera checks a range, remembers the value and, when the *)
(* preview runs, sends it to the sensor; it sends nothing when the value   *)
(* is the remembered one.  startPreview() sends what is remembered.        *)
(* Settings also change each other: a scene sets focus and flash, face     *)
(* detection and recording set the focus, recording the ISO and metering.  *)
(* The model asks when the three still agree.                              *)
(***************************************************************************)
EXTENDS Integers, Sequences, FiniteSets

CONSTANTS
  Clusters,      \* groups of settings; the client varies those of one group
  MaxSetFaults   \* bound: how many kinds of ioctl fail between two openings

ASSUME SetFaultBound == MaxSetFaults \in Nat

VARIABLES
  cam,      \* SecCamera, the sensor and mParameters, see FreshCamera
  varied,   \* the group of this behaviour
  last      \* what the last call asked for, in a scene the scene's, when it was a
            \* setParameters() without an error and no ioctl had failed; else NoCall

setVars == << cam, varied, last >>

\* The members of sec_cam_parm, sent together by S_PARM, and the other ones.
Block == {"contrast", "effects", "brightness", "flash", "focus", "iso", "metering",
          "saturation", "scene", "sharpness", "wb", "rate"}
Others == {"zoom", "wdr", "shake", "banding", "beauty", "face", "gamma", "slowae", "blur", "quality"}
Settings == Block \cup Others

\* Values.  0 is each setting's default; what a name or a number stands for else is
\* left open, but for these.
Unset == -1
Accepted == 0..3
Movie == 2         \* ISO_MOVIE, which no name of setParameters() stands for
Matrix == 1        \* METERING_MATRIX; the default is METERING_CENTER
Macro == 1         \* FOCUS_MODE_MACRO
Face == 2          \* FOCUS_MODE_FACEDETECT, a name only of mParameters
Torch == 2         \* FLASH_MODE_TORCH
Night == 1         \* SCENE_MODE_NIGHT
RateAuto == 1      \* FRAME_RATE_AUTO; the default is 30 or 15
Unknown == -2      \* a name the HAL has no value for
Refused == 9       \* a number in the client's range and outside the setter's
Ignored == 8       \* a number outside the client's range

\* What mParameters holds, of the settings that are public.
Public == {"quality", "brightness", "iso", "wb", "focus", "flash", "scene", "zoom", "effects"}
Default == [s \in Public \cup {"fps"} |-> 0]
ASSUME ClustersArePublic == \A K \in Clusters : K \subseteq DOMAIN Default
Named == {"iso", "wb", "effects"}
Asks == [s \in Public \cup {"fps"} |->
           CASE s \in Named           -> {0, 1, Unknown}
             [] s = "focus"           -> {0, Macro, Face, Unknown}
             [] s = "scene"           -> {0, Night, 2, Unknown}
             [] s = "flash"           -> {0, 1, Torch, Unknown}
             [] s = "quality"         -> {0, 1, Ignored}
             [] s = "fps"             -> {0, 1}
             [] OTHER                 -> {0, 1, Refused, Ignored}]

FreshCamera(id) ==
  [ id |-> id, run |-> FALSE, rec |-> FALSE,
    cache |-> [s \in Settings |-> IF s = "quality" THEN 0 ELSE Unset],
    sensor |-> [s \in Settings |-> Unset],
    pending |-> {},       \* sent to the sensor and not reflected yet, while nothing has failed
    failed |-> {},        \* the kinds of ioctl that failed
    param |-> Default, distances |-> 0 ]
NoCall == << >>

-----------------------------------------------------------------------------
(* SecCamera.  A step takes and gives r = [c, f, ok]: the camera, the      *)
(* kinds of ioctl that fail in this call, and the result.                  *)
(* Definitions named X_Slip are X with a plausible mistake; no action uses *)
(* them.                                                                   *)

R(c, f) == [c |-> c, f |-> f, ok |-> TRUE]
No(r) == [r EXCEPT !.ok = FALSE]

\* fimc_v4l2_s_ctrl().
s_ctrl(r, s, v) ==
  IF s \in r.f THEN [No(r) EXCEPT !.c.failed = @ \cup {s}]
  ELSE [r EXCEPT !.ok = TRUE, !.c.sensor[s] = v, !.c.pending = @ \cup {s}]

\* What the setters have in common.
Set(r, s, v) ==
  IF v \notin Accepted THEN No(r)
  ELSE IF r.c.cache[s] = v THEN [r EXCEPT !.ok = TRUE]
  ELSE LET kept == [r EXCEPT !.ok = TRUE, !.c.cache[s] = v] IN
       IF r.c.run THEN s_ctrl(kept, s, v) ELSE kept

setISO(r, v)          == Set(r, "iso", v)
setMetering(r, v)     == Set(r, "metering", v)
setWhiteBalance(r, v) == Set(r, "wb", v)
setBrightness(r, v)   == Set(r, "brightness", v)
setImageEffect(r, v)  == Set(r, "effects", v)
setSceneMode(r, v)    == Set(r, "scene", v)
setFlashMode(r, v)    == Set(r, "flash", v)
setContrast(r, v)     == Set(r, "contrast", v)
setSaturation(r, v)   == Set(r, "saturation", v)
setSharpness(r, v)    == Set(r, "sharpness", v)
setFrameRate(r, v)    == Set(r, "rate", v)
setWDR(r, v)          == Set(r, "wdr", v)
setBlur(r, v)         == Set(r, "blur", v)
setZoom(r, v)         == Set(r, "zoom", v)
setFocusMode(r, v)    == Set(r, "focus", v)

\* Only the back camera's sensor makes the JPEG.
setJpegQuality(r, v) ==
  IF r.c.id = "back" THEN Set(r, "quality", v)
  ELSE [r EXCEPT !.ok = TRUE, !.c.cache["quality"] = v]

\* On top of the automatic focus, which it sets behind the cached focus mode.
setFaceDetect(r, v) ==
  IF r.c.cache["face"] = v THEN [r EXCEPT !.ok = TRUE]
  ELSE LET kept  == [r EXCEPT !.ok = TRUE, !.c.cache["face"] = v]
           focus == IF v = 0 THEN kept ELSE s_ctrl(kept, "focus", 0)
       IN  IF ~ r.c.run THEN kept ELSE IF focus.ok THEN s_ctrl(focus, "face", v) ELSE focus

\* "Must call after parameter update on CE147 (so the changes are reflected in batch)".
setBatchReflection(r) ==
  CASE ~ r.c.run                  -> [r EXCEPT !.ok = TRUE]
    [] r.c.run /\ "batch" \in r.f -> [No(r) EXCEPT !.c.failed = @ \cup {"batch"}]
    [] OTHER                      -> [r EXCEPT !.ok = TRUE, !.c.pending = {}]

\* Steps that return at once on an error: s is reached, sent.
Reached(order, f) == {order[i] : i \in {j \in DOMAIN order : \A k \in 1..(j - 1) : order[k] \notin f}}

\* What startPreview() sends for the back camera before and after STREAMON, and the
\* values that it sets itself on the way.
Early == << "banding", "iso", "brightness", "rate", "metering", "gamma", "slowae", "effects", "wb" >>
Late == << "focus", "face", "sharpness", "saturation", "contrast", "beauty", "zoom" >>
Forced == [banding |-> 1, gamma |-> 1, slowae |-> 1, face |-> 0, beauty |-> 0, zoom |-> 0]

\* The run of s_ctrls in order, each CHECKed.
Send(r, order) ==
  IF ~ r.ok THEN r
  ELSE LET reached == Reached(order, r.f)
           value == [s \in Settings |-> IF s \in reached \cap DOMAIN Forced THEN Forced[s]
                                        ELSE r.c.cache[s]]
       IN  [r EXCEPT !.ok = \A i \in DOMAIN order : order[i] \notin r.f,
              !.c.cache = value, !.c.failed = @ \cup (reached \cap r.f),
              !.c.sensor = [s \in Settings |-> IF s \in reached \ r.f THEN value[s] ELSE @[s]],
              !.c.pending = @ \cup (reached \ r.f)]

\* S_PARM takes the whole block; so does the sensor.
s_parm(r) ==
  CASE ~ r.ok                 -> r
    [] r.ok /\ "parm" \in r.f -> [No(r) EXCEPT !.c.failed = @ \cup {"parm"}]
    [] OTHER                  -> [r EXCEPT !.c.sensor =
                            [s \in Settings |-> IF s \in Block THEN r.c.cache[s] ELSE @[s]]]

SendIf(r, s) == IF r.ok THEN s_ctrl(r, s, r.c.cache[s]) ELSE r

StartSends_Slip(r) == IF r.c.run THEN r ELSE s_parm(Send([r EXCEPT !.c.run = TRUE], Early))
StartSends(r) ==
  IF r.c.run THEN r
  ELSE LET back == r.c.id = "back"
           sent == IF back THEN Send(Send(r, Early), Late) ELSE r
           on   == IF ~ sent.ok THEN sent
                   ELSE IF back /\ "batch" \in r.f
                        THEN [No(sent) EXCEPT !.c.failed = @ \cup {"batch"}]
                        ELSE [sent EXCEPT !.c.run = TRUE, !.c.pending = {}]
           block == s_parm(on)
       IN  SendIf(IF back THEN block ELSE SendIf(block, "blur"), "flash")

StopSends(r) ==
  IF ~ r.c.run THEN r
  ELSE LET dark == IF r.c.cache["flash"] = Torch THEN setFlashMode(r, 0) ELSE r
       IN  IF "stream" \in r.f THEN [No(dark) EXCEPT !.c.failed = @ \cup {"stream"}]
           ELSE [dark EXCEPT !.ok = TRUE, !.c.run = FALSE]

\* startRecord() for the back camera: what it changes stays when the rest fails.
RecordSends(r) ==
  LET set == IF r.c.id = "back"
             THEN setBatchReflection(setMetering(setISO(r, Movie), Matrix)) ELSE r
      rate == s_ctrl(set, "rate", r.c.cache["rate"])
  IN  IF ~ rate.ok \/ "record" \in r.f
      THEN [No(rate) EXCEPT !.c.failed = @ \cup {"record"}]
      ELSE [rate EXCEPT !.c.rec = TRUE]

\* With a detour over another focus mode, "so that the camera can focus properly".
RecordEndSends_Slip(r) == [r EXCEPT !.c.rec = FALSE]
RecordEndSends(r) ==
  LET back  == r.c.id = "back"
      focus == IF back THEN setFocusMode(setFocusMode(r, Macro), r.c.cache["focus"]) ELSE r
      off   == [focus EXCEPT !.c.rec = FALSE]
      rate  == IF "streamoff2" \in r.f THEN No(off) ELSE s_ctrl(off, "rate", RateAuto)
      fail(x) == [No(x) EXCEPT !.c.failed = @ \cup {"record"}]
  IN  IF back /\ "caf" \in r.f THEN fail(r)
      ELSE IF ~ rate.ok THEN fail(rate)
      ELSE IF back THEN setBatchReflection(setMetering(setISO(rate, 0), 0)) ELSE rate

-----------------------------------------------------------------------------
(* CameraHardwareSec::setParameters(p).  An error goes on with the next    *)
(* setting: bad collects in the camera under way whether there was one.    *)

\* The steps work on [r, bad].
On(r) == [r |-> r, bad |-> FALSE]
Bad(w) == [w EXCEPT !.bad = TRUE]
Do(w, r) == [r |-> [r EXCEPT !.ok = TRUE], bad |-> w.bad \/ ~ r.ok]

\* A value v that the setter takes, giving r, is what getParameters() returns from then on.
Offer(w, s, v, r) ==
  CASE v = Unknown -> Bad(w)
    [] v = Ignored -> w
    [] OTHER       -> Do(w, IF r.ok THEN [r EXCEPT !.c.param[s] = v] ELSE r)

OfferQuality(w, p)      == Offer(w, "quality", p["quality"], setJpegQuality(w.r, p["quality"]))
OfferBrightness(w, p)   == Offer(w, "brightness", p["brightness"], setBrightness(w.r, p["brightness"]))
OfferISO(w, p)          == Offer(w, "iso", p["iso"], setISO(w.r, p["iso"]))
OfferWhiteBalance(w, p) == Offer(w, "wb", p["wb"], setWhiteBalance(w.r, p["wb"]))
OfferFlash(w, v)        == Offer(w, "flash", v, setFlashMode(w.r, v))
OfferScene(w, p)        == Offer(w, "scene", p["scene"], setSceneMode(w.r, p["scene"]))
OfferZoom(w, p)         == Offer(w, "zoom", p["zoom"], setZoom(w.r, p["zoom"]))
OfferEffect(w, p)       == Offer(w, "effects", p["effects"], setImageEffect(w.r, p["effects"]))

\* A range that is not the present one is an error, but not together with another scene.
CheckFps(w, p) ==
  IF p["scene"] = w.r.c.param["scene"] /\ p["fps"] # w.r.c.param["fps"] THEN Bad(w) ELSE w

\* The back camera's range of frame rates, put down before the scene is looked at.
SceneFps(w, p) == [w EXCEPT !.r.c.param["fps"] = IF p["scene"] = Night THEN 1 ELSE 0]

\* A scene other than SCENE_MODE_AUTO comes with its own focus and flash.
SceneFocus(p) == IF p["scene"] = 0 THEN p["focus"] ELSE 0
SceneFlash(p) == CASE p["scene"] = 0 -> p["flash"] [] p["scene"] = 2 -> 1 [] OTHER -> 0
InScene(p) == [p EXCEPT !["focus"] = SceneFocus(p), !["flash"] = SceneFlash(p)]

\* Face detection is a focus mode to the client and a switch of SecCamera.
OfferFocus(w, v) ==
  IF v = Unknown THEN Bad(w)
  ELSE LET far == [w EXCEPT !.r.c.distances = IF v = Face THEN 0 ELSE v]
           on  == Do(far, setFaceDetect(far.r, 1))
           off == Do(far, setFaceDetect(far.r, 0))
       IN  IF v = Face THEN [on EXCEPT !.r.c.param["focus"] = Face]
           ELSE Offer(off, "focus", v, setFocusMode(off.r, v))

\* The front camera has the one focus mode.
CheckFocus(w, p) == IF p["focus"] # 0 THEN Bad(w) ELSE w

\* Contrast, WDR and blur come from mInternalParameters, which nobody changes.
Internal(w) ==
  LET contrast == Do(w, setContrast(w.r, 0))
      set == Do(contrast, setWDR(contrast.r, 0))
  IN  IF set.r.c.id = "front" THEN Do(set, setBlur(set.r, 0)) ELSE set

setParameters(r, p) ==
  LET light == OfferWhiteBalance(OfferISO(OfferBrightness(OfferQuality(On(r), p), p), p), p)
      fps   == CheckFps(light, p)
      focus == OfferFocus(SceneFps(fps, p), SceneFocus(p))
      mode  == IF r.c.id = "front" THEN CheckFocus(fps, p)
               ELSE OfferZoom(OfferScene(OfferFlash(focus, SceneFlash(p)), p), p)
      rest  == Internal(OfferEffect(mode, p))
  IN  Do(rest, setBatchReflection(rest.r))

\* What the constructor of CameraHardwareSec leaves, SecCamera being a singleton.
initDefaultParameters(c) ==
  LET r   == [R([c EXCEPT !.param = Default, !.distances = 0], {}) EXCEPT !.ok = TRUE]
      set == setParameters(r, Default).r
  IN  setFrameRate(setSaturation(setSharpness(setContrast(setMetering(
        setISO(set, 0), 0), 0), 0), 0), 0).c
-----------------------------------------------------------------------------
(* The calls of the client.                                                *)

\* What can fail, within the bound and, of the settings, among those that vary.
SetFaults(K) == {f \in SUBSET K : Cardinality(f \cup cam.failed) <= MaxSetFaults}

InitSettings ==
  /\ \E id \in {"back", "front"} : cam = initDefaultParameters(FreshCamera(id))
  /\ varied \in Clusters /\ last = NoCall

\* What waits for its reflection is of no interest any more once an ioctl has failed.
Settled(c) == [c EXCEPT !.pending = IF c.failed = {} THEN @ ELSE {}]
Settle(r) == cam' = Settled(r.c) /\ last' = NoCall /\ UNCHANGED varied

\* What getParameters() returned, with changes.
SetParameters ==
  /\ \E p \in [varied -> UNION {Asks[s] : s \in varied}], f \in SetFaults(varied \cup {"batch"}) :
       /\ \A s \in varied : p[s] \in Asks[s]
       /\ LET asked == [s \in DOMAIN Default |-> IF s \in varied THEN p[s] ELSE cam.param[s]]
              w == setParameters(R(cam, f), asked)
          IN  cam' = Settled(w.r.c) /\ last' = IF w.bad \/ w.r.c.failed # {} THEN NoCall ELSE InScene(asked)
  /\ UNCHANGED varied

SettingsStart ==
  /\ ~ cam.run
  /\ \E f \in SetFaults(varied \cup {"batch", "parm"}) : Settle(StartSends(R(cam, f)))

SettingsStop ==
  /\ cam.run /\ ~ cam.rec
  /\ \E f \in SetFaults((varied \cap {"flash"}) \cup {"stream"}) : Settle(StopSends(R(cam, f)))

SettingsRecord ==
  /\ cam.run /\ ~ cam.rec
  /\ \E f \in SetFaults((varied \cap {"iso"}) \cup {"batch", "record"}) : Settle(RecordSends(R(cam, f)))

SettingsRecordEnd ==
  /\ cam.rec
  /\ \E f \in SetFaults((varied \cap {"iso", "focus"}) \cup {"batch", "caf", "streamoff2"}) :
       Settle(RecordEndSends(R(cam, f)))

\* release() and the next open(), of either camera: SecCamera remembers the settings of
\* the last one, and a sensor without power forgets.
Reopen ==
  /\ ~ cam.run /\ ~ cam.rec
  /\ \E id \in {"back", "front"} :
       Settle(R(initDefaultParameters([cam EXCEPT !.id = id, !.sensor = [s \in Settings |-> Unset],
                                         !.pending = {}, !.failed = {}]), {}))

NextSettings ==
  SetParameters \/ SettingsStart \/ SettingsStop \/ SettingsRecord \/ SettingsRecordEnd \/ Reopen

SpecSettings == InitSettings /\ [][NextSettings]_setVars
-----------------------------------------------------------------------------
SettingsTypeOK ==
  /\ cam.id \in {"back", "front"} /\ {cam.run, cam.rec} \subseteq BOOLEAN
  /\ cam.cache \in [Settings -> Accepted \cup {Unset}]
  /\ cam.sensor \in [Settings -> Accepted \cup {Unset}]
  /\ cam.pending \subseteq Settings /\ cam.distances \in {0, Macro}
  /\ \A s \in DOMAIN cam.param : cam.param[s] \in Asks[s] \ {Unknown, Refused, Ignored}

\* A running preview has in the sensor what SecCamera remembers, however settings,
\* starts, recordings and openings followed each other, for everything a start sends
\* and for every ioctl that has not failed.  Two settings are known to go their own
\* way: the focus may be the automatic one that face detection leaves behind (and
\* face detection off when that could not be set), the frame rate the one that
\* recording leaves.
SentAtStart == Block \cup (IF cam.id = "back" THEN DOMAIN Forced ELSE {"blur"})
SensorFollowsCache ==
  cam.run /\ {"parm", "batch"} \cap cam.failed = {} =>
    \A s \in SentAtStart \ cam.failed :
      \/ cam.sensor[s] = cam.cache[s]
      \/ s = "focus" /\ cam.sensor[s] = 0
      \/ s = "face" /\ "focus" \in cam.failed
      \/ s = "rate" /\ cam.sensor[s] = RateAuto

\* Parameters that setParameters() took without an error, no ioctl having failed
\* before, are what it reports, and the sensor of a running back camera has them; in
\* a scene, with the scene's focus and flash; the focus but for face detection.
AcceptedIsSet ==
  last # NoCall /\ cam.id = "back" =>
    \A s \in varied \ {"fps"} :
      last[s] # Ignored =>
        /\ cam.param[s] = last[s]
        /\ cam.run /\ s \notin {"focus", "quality"} => cam.sensor[s] = last[s]

\* "Must call after parameter update on CE147 (so the changes are reflected in batch)"
\* (setBatchReflection()): between two calls nothing waits for it, unless an ioctl
\* failed.  The exceptions are the frame rate and the flash, which startRecord() and
\* startPreview() send after it.
ChangesReflected ==
  cam.id = "back" /\ cam.run /\ cam.failed = {} => cam.pending \subseteq {"rate", "flash"}

\* The three copies of a setting (the client's, SecCamera's, the sensor's) agree.
SettingsAgree == SettingsTypeOK /\ SensorFollowsCache /\ AcceptedIsSet /\ ChangesReflected

\* The lamp is not left burning when the preview has stopped, through recordings,
\* scenes with a flash of their own and restarts.
TorchOff ==
  ~ cam.run /\ cam.failed = {} => cam.sensor["flash"] # Torch

\* The reported focus distances are those of the reported focus mode, whatever scene,
\* mode or wrong name was asked for, unless the focus could not be set.
DistancesFitFocus ==
  cam.failed \cap {"focus", "face"} = {} =>
    cam.distances = IF cam.param["focus"] = Face THEN 0 ELSE cam.param["focus"]

\* The ISO of recordings, which no client can ask for, ends with the recording.
MovieIsoEnds == cam.cache["iso"] = Movie /\ cam.failed = {} => cam.rec

\* What one setting or mode brings with it goes with it: the lamp, the distances, the ISO.
SettingsEnd == TorchOff /\ DistancesFitFocus /\ MovieIsoEnds

\* Refuted.  "make sure mSecCamera has all the settings we do" (comment in
\* initDefaultParameters()): the settings that getParameters() returns are the ones
\* SecCamera has, when no recording runs and nothing has failed.
SecCameraHasSettings ==
  ~ cam.rec /\ cam.failed = {} /\ cam.id = "back" =>
    \A s \in varied \ {"fps", "focus"} : cam.param[s] = cam.cache[s]

\* Refuted.  getJpeg() will "Set Jpeg quality" (its comment): a quality that the client
\* has chosen is the sensor's when the preview runs.
QualityReachesSensor ==
  cam.id = "back" /\ cam.run /\ cam.failed = {} /\ cam.param["quality"] # 0 =>
    cam.sensor["quality"] = cam.param["quality"]

\* Refuted.  "we have two ranges, 4-30fps for night mode and 15-30fps for all others"
\* (initDefaultParameters()): the reported range is the one of the reported scene.
FpsFitsScene ==
  cam.id = "back" /\ cam.failed = {} => (cam.param["fps"] = 1 <=> cam.param["scene"] = Night)

\* Refuted.  A focus mode that was taken without an error is in the running sensor:
\* setFaceDetect() changes the sensor's and not the remembered one.
FocusReachesSensor ==
  last # NoCall /\ cam.id = "back" /\ cam.run /\ cam.cache["face"] = 0 =>
    cam.sensor["focus"] = cam.cache["focus"]
=============================================================================
