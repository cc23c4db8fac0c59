--------------------------- MODULE CameraGeometry ---------------------------
(***************************************************************************)
(* Sizes and buffers of the camera HAL: what setParameters() of            *)
(* src/libcamera/SecCameraHWInterface.cpp stores in mParameters and in     *)
(* SecCamera, the heap and the window that preview frames are copied to,   *)
(* and the buffers of a picture.                                           *)
(*                                                                         *)
(* The preview thread asks for the size when it has a frame and copies by  *)
(* it; the heap and the window were made earlier.  A picture's buffers     *)
(* have sizes of their own.  Sizes are << width, height >>; bytes are real. *)
(***************************************************************************)
EXTENDS Integers

CONSTANTS
  Cameras,         \* the cameras a client opens
  PreviewSizes,    \* the sizes a client asks for
  PictureSizes,
  ThumbnailSizes,
  PictureFormats

Pixels == << 0, 0 >>    \* no size yet
ASSUME SizesArePairs ==
  /\ Cameras \subseteq {"back", "front"}
  /\ PreviewSizes \cup PictureSizes \cup ThumbnailSizes \subseteq Nat \X Nat

VARIABLES
  sizes,      \* SecCamera: m_camera_id, m_preview_*, m_snapshot_*, m_recording_*, m_jpeg_thumbnail_*
  params,   \* mParameters: sizes and formats of preview and picture, the thumbnail's size
  preview,  \* off, deferred, on, or stopping while a call waits for the thread; then: what
            \* the call does next
  heaps,    \* mPreviewHeap (bytes of a frame), mRawHeap and mPostViewSize; 0 for none
  window,   \* mPreviewWindow's geometry: its size and format, or NoWindow
  frame,    \* the preview thread: idle, or with a frame of the size it has read
  shot,     \* the buffers of the last picture
  told,     \* the last setParameters(): the preview format asked for and the answer
  meddled   \* the client has changed size or window since the preview was started

geoVars == << sizes, params, preview, heaps, window, frame, shot, told, meddled >>

NoWindow == [size |-> Pixels, format |-> "none"]
SupportedPreviews(id) ==
  IF id = "back"
  THEN {<< 1280, 720 >>, << 800, 480 >>, << 720, 480 >>, << 640, 480 >>, << 592, 480 >>, << 352, 288 >>}
  ELSE {<< 640, 480 >>, << 320, 240 >>, << 176, 144 >>}
SupportedPictures(id) ==
  IF id = "back"
  THEN {<< 2560, 1920 >>, << 2560, 1536 >>, << 2048, 1536 >>, << 2048, 1232 >>, << 1600, 1200 >>,
        << 1600, 960 >>, << 800, 480 >>, << 640, 480 >>}
  ELSE {<< 640, 480 >>}
DefaultThumbnail(id) == IF id = "back" THEN << 320, 240 >> ELSE << 160, 120 >>
SupportedThumbnails(id) == {<< 0, 0 >>, DefaultThumbnail(id)}
isSupportedPreviewSize(id, size) == size \in SupportedPreviews(id)

getPreviewMaxSize(id)  == IF id = "back" THEN << 1280, 720 >> ELSE << 640, 480 >>
getSnapshotMaxSize(id) == IF id = "back" THEN << 2560, 1920 >> ELSE << 640, 480 >>

-----------------------------------------------------------------------------
(* Formats and the bytes of a picture in them.                             *)

Area(size) == size[1] * size[2]
Align(x, n) == ((x + n - 1) \div n) * n

\* Definitions named X_Slip are X with a plausible mistake; no action uses them.

\* What SecCamera takes a picture in: the name of a format to V4L2's.
V4lFormat(name) ==
  CASE name = "rgb565"                    -> "RGB565"
    [] name = "rgba8888"                  -> "RGB32"
    [] name = "yuv420sp_custom"           -> "NV12T"
    [] name = "yuv420p"                   -> "YUV420"
    [] name \in {"yuv422i", "jpeg"}       -> "YUYV"
    [] name \in {"uyv422i", "uyv422i_custom"} -> "UYVY"
    [] name = "yuv422p"                   -> "YUV422P"
    [] OTHER                              -> "NV21"

\* The bits of a pixel that the driver is told.
get_pixel_depth(format) ==
  CASE format \in {"NV12", "NV12T", "NV21", "YUV420"} -> 12
    [] format \in {"RGB565", "YUYV", "UYVY", "YUV422P"} -> 16
    [] format = "RGB32" -> 32
    [] OTHER -> 0
sizeimage(format, size) == (Area(size) * get_pixel_depth(format)) \div 8

\* The bytes of a frame for the HAL's own buffers.
m_frameSize(format, size) ==
  CASE format \in {"YUV420", "NV12", "NV21"} -> (Area(size) * 3) \div 2
    [] format = "NV12T" ->
         Align(Align(size[1], 128) * Align(size[2], 32), 8192)
           + Align(Align(size[1], 128) * Align(size[2] \div 2, 32), 8192)
    [] OTHER -> Area(size) * 2

\* 1024 is the width of no preview size: the wide postview is never taken.
getPostViewConfig(size) == IF size[1] = 1024 THEN << 800, 480 >> ELSE << 640, 480 >>
getThumbnailConfig(id) == IF id = "back" THEN << 320, 240 >> ELSE << 160, 120 >>
PostViewSize(size) == Area(getPostViewConfig(size)) * 2

\* Scaling down takes every step-th pixel pair: the last byte it reads of the source.
scaleDownYuv422(src, dst) ==
  (dst[2] - 1) * (src[2] \div dst[2]) * src[1] * 2 + (dst[1] - 2) * (src[1] \div dst[1]) * 2 + 3

-----------------------------------------------------------------------------
(* Opening: SecCamera is one object that keeps its sizes when the camera is *)
(* closed and another is opened.                                           *)

\* setParameters() on d and p, an answer, and a window w.
setPreviewSize(d, size) == [d EXCEPT !.preview = size, !.format = "YUV420"]
NewSize(d, q) ==
  /\ isSupportedPreviewSize(d.id, q.preview)
  /\ d.preview # q.preview \/ d.format # "YUV420"

\* Everything else that is asked for is stored whatever became of the preview size, but
\* for a picture without a size.
Sized(size) == 0 < size[1] /\ 0 < size[2]
StoreSizes(d, q) ==
  [d EXCEPT !.snapshot = IF Sized(q.picture) THEN q.picture ELSE @,
            !.snapshotFormat = V4lFormat(q.pictureFormat), !.thumbnail = q.thumbnail, !.recording = q.preview]
Stored(d, q) == StoreSizes(IF NewSize(d, q) THEN setPreviewSize(d, q.preview) ELSE d, q)

\* mParameters takes the preview's format only together with a new size.
Remembered(d, p, q) ==
  [q EXCEPT !.preview = IF NewSize(d, q) THEN @ ELSE p.preview,
            !.format  = IF NewSize(d, q) THEN @ ELSE p.format,
            !.picture = IF Sized(q.picture) THEN @ ELSE p.picture]

Reply(d, q) ==
  CASE ~ isSupportedPreviewSize(d.id, q.preview)                       -> "INVALID_OPERATION"
    [] NewSize(d, q) /\ window # NoWindow /\ preview.at = "on" -> "INVALID_OPERATION"
    [] OTHER                                                           -> "OK"

Defaults(id) ==
  [preview |-> getPreviewMaxSize(id), format |-> "yuv420sp", picture |-> getSnapshotMaxSize(id),
   pictureFormat |-> "jpeg", thumbnail |-> DefaultThumbnail(id)]

\* The constructor, with initDefaultParameters(): d is what SecCamera was left with.
Opened(d, id) ==
  LET q == Defaults(id)
      e == [d EXCEPT !.id = id]
  IN  /\ sizes' = Stored(e, q) /\ params' = Remembered(e, q, q)
      /\ heaps' = [preview |-> 0, raw |-> 0, postview |-> PostViewSize(d.preview)]
      /\ told' = [format |-> q.format, ret |-> "OK"]

NoShot == [id |-> "none"]
InitGeometry ==
  /\ \E id \in Cameras :
       sizes = [id |-> id, preview |-> getPreviewMaxSize(id), format |-> "YUV420",
              snapshot |-> getSnapshotMaxSize(id), snapshotFormat |-> "YUYV",
              recording |-> getPreviewMaxSize(id), thumbnail |-> DefaultThumbnail(id)]
  /\ params = Defaults(sizes.id)
  /\ preview = [at |-> "off", then |-> "none"]
  /\ heaps = [preview |-> 0, raw |-> 0, postview |-> PostViewSize(Pixels)]
  /\ window = NoWindow /\ frame = [at |-> "idle", size |-> Pixels]
  /\ shot = NoShot /\ told = [format |-> "yuv420sp", ret |-> "OK"] /\ meddled = FALSE

-----------------------------------------------------------------------------
(* Calls of the client.  One that stops the preview waits for the thread.  *)

Calls == preview.at # "stopping" /\ preview.then = "none"
StoppedFor(then) == preview.at # "stopping" /\ preview.then = then

\* getParameters(), with something of the preview or of the picture changed.
Changes ==
  {[params EXCEPT !.preview = c[1], !.format = c[2]] :
     c \in PreviewSizes \X {"yuv420sp", "yuv420p", "yuv422i"}}
  \cup {[params EXCEPT !.picture = c[1], !.pictureFormat = c[2], !.thumbnail = c[3]] :
     c \in PictureSizes \X PictureFormats \X ThumbnailSizes}

\* With a window that has been given its geometry the format is V4L2's, not the HAL's.
SetSizes ==
  /\ Calls
  /\ \E q \in Changes :
       IF q.format = "yuv422i"
       THEN told' = [format |-> q.format, ret |-> "BAD_VALUE"] /\ UNCHANGED << sizes, params, window, meddled >>
       ELSE /\ told' = [format |-> q.format, ret |-> Reply(sizes, q)]
            /\ sizes' = Stored(sizes, q) /\ params' = Remembered(sizes, params, q)
            /\ window' = IF NewSize(sizes, q) /\ window # NoWindow
                         THEN [size |-> q.preview, format |-> "V4L2"] ELSE window
            /\ meddled' = (meddled \/ (NewSize(sizes, q) /\ preview.at = "on"))
  /\ UNCHANGED << preview, heaps, frame, shot >>

\* startPreviewInternal() makes the heap anew by the size it streams with.
StartInternal_Slip ==
  /\ heaps' = [heaps EXCEPT !.preview = IF @ = 0 THEN m_frameSize(sizes.format, sizes.preview) ELSE @]
  /\ preview' = [at |-> "on", then |-> "none"] /\ meddled' = FALSE
StartInternal ==
  /\ heaps' = [heaps EXCEPT !.preview = m_frameSize(sizes.format, sizes.preview),
                            !.postview = PostViewSize(sizes.preview)]
  /\ preview' = [at |-> "on", then |-> "none"] /\ meddled' = FALSE

StartFrames ==
  /\ Calls /\ preview.at = "off"
  /\ IF window = NoWindow
     THEN preview' = [preview EXCEPT !.at = "deferred"] /\ UNCHANGED << heaps, meddled >>
     ELSE StartInternal
  /\ UNCHANGED << sizes, params, window, frame, shot, told >>

\* stopPreviewInternal(), and what the caller does after it.
Stop(then) ==
  preview' = [at |-> CASE preview.at = "on" -> "stopping" [] preview.at = "deferred" -> "off"
                       [] OTHER -> preview.at,
              then |-> then]

StopFrames ==
  /\ Calls /\ preview.at # "off" /\ Stop("none")
  /\ UNCHANGED << sizes, params, heaps, window, frame, shot, told, meddled >>

\* takePicture() and release() stop the preview first.
TakePicture ==
  /\ Calls /\ Stop("picture")
  /\ UNCHANGED << sizes, params, heaps, window, frame, shot, told, meddled >>
ReleaseAll ==
  /\ Calls /\ Stop("release")
  /\ UNCHANGED << sizes, params, heaps, window, frame, shot, told, meddled >>

\* setPreviewWindow() stores the window before it stops the preview; a window comes
\* with a geometry of its own.
SetWindow ==
  /\ Calls
  /\ \/ window' = NoWindow /\ UNCHANGED << preview, meddled >>
     \/ /\ window' = [size |-> << 1, 1 >>, format |-> "default"]
        /\ meddled' = (meddled \/ preview.at = "on")
        /\ IF preview.at = "on" THEN Stop("window") ELSE preview' = [preview EXCEPT !.then = "window"]
  /\ UNCHANGED << sizes, params, heaps, frame, shot, told >>

\* Then it gets the size of mParameters, and a deferred preview starts.
GiveGeometry ==
  /\ StoppedFor("window")
  /\ window' = [size |-> params.preview, format |-> "YV12"]
  /\ IF preview.at = "deferred" THEN StartInternal
     ELSE preview' = [preview EXCEPT !.then = "none"] /\ UNCHANGED << heaps, meddled >>
  /\ UNCHANGED << sizes, params, frame, shot, told >>

\* The rest of takePicture(), and pictureThread(): the calls that change sizes wait for
\* its end.
rawHeap == IF heaps.raw = 0 THEN heaps.postview ELSE heaps.raw
Picture ==
  /\ StoppedFor("picture")
  /\ heaps' = [heaps EXCEPT !.raw = rawHeap]
  /\ preview' = [preview EXCEPT !.then = "deliver"]
  /\ shot' = [id |-> sizes.id,
              size |-> sizes.snapshot, format |-> sizes.snapshotFormat,
              jpeg |-> m_frameSize(sizes.snapshotFormat, sizes.snapshot),
              captured |-> sizeimage(sizes.snapshotFormat, sizes.snapshot),
              copied |-> Area(sizes.snapshot) * 2,
              postview |-> getPostViewConfig(sizes.preview),
              raw |-> rawHeap,
              thumbnail |-> getThumbnailConfig(sizes.id),
              written |-> sizes.thumbnail]      \* the size in the Exif header
  /\ UNCHANGED << sizes, params, window, frame, told, meddled >>

Deliver ==
  /\ StoppedFor("deliver")
  /\ preview' = [preview EXCEPT !.then = "none"] /\ shot' = NoShot
  /\ UNCHANGED << sizes, params, heaps, window, frame, told, meddled >>

\* release() frees the heaps, and the next open() finds SecCamera as it is.
OpenAgain ==
  /\ StoppedFor("release")
  /\ preview' = [at |-> "off", then |-> "none"] /\ window' = NoWindow /\ meddled' = FALSE
  /\ \E id \in Cameras : Opened(sizes, id)
  /\ UNCHANGED << frame, shot >>

-----------------------------------------------------------------------------
(* The preview thread.                                                     *)

\* A frame has come: getPreviewSize().
TakeFrame ==
  /\ preview.at = "on" /\ frame.at = "idle"
  /\ frame' = [at |-> "copy", size |-> sizes.preview]
  /\ UNCHANGED << sizes, params, preview, heaps, window, shot, told, meddled >>

\* The copy to the window and the conversion in the heap are done.
DropFrame ==
  /\ frame.at = "copy" /\ frame' = [frame EXCEPT !.at = "idle"]
  /\ UNCHANGED << sizes, params, preview, heaps, window, shot, told, meddled >>

\* The thread sees mPreviewRunning cleared, and tells the one who waits.
Park ==
  /\ preview.at = "stopping" /\ frame.at = "idle"
  /\ preview' = [preview EXCEPT !.at = "off"]
  /\ UNCHANGED << sizes, params, heaps, window, frame, shot, told, meddled >>

NextGeometry ==
  \/ SetSizes \/ StartFrames \/ StopFrames \/ TakePicture \/ ReleaseAll \/ SetWindow
  \/ GiveGeometry \/ Picture \/ Deliver \/ OpenAgain \/ TakeFrame \/ DropFrame \/ Park
SpecGeometry == InitGeometry /\ [][NextGeometry]_geoVars
-----------------------------------------------------------------------------
GeometryTypeOK ==
  /\ sizes.id \in Cameras /\ preview.at \in {"off", "deferred", "on", "stopping"}
  /\ frame.at \in {"idle", "copy"} /\ heaps.preview \in Nat /\ heaps.raw \in Nat
  /\ frame.at = "copy" => preview.at \in {"on", "stopping"}

\* mParameters has the sizes that the camera works with, whatever part of a call has
\* failed and whichever camera was open before.
ParametersAreDevice ==
  /\ params.preview = sizes.preview /\ sizes.format = "YUV420"
  /\ params.picture = sizes.snapshot /\ params.thumbnail = sizes.thumbnail

\* A frame that is copied lies inside its slot of the heap, is as long as the driver
\* was told, and has the window's size, as long as the client leaves size and window
\* alone while the preview runs: who has stopped it can change both, since stopping
\* waits for the frame under way.
FrameFits ==
  frame.at = "copy" /\ ~ meddled =>
    /\ m_frameSize("YUV420", frame.size) <= heaps.preview
    /\ sizeimage("YUV420", frame.size) = m_frameSize("YUV420", frame.size)
    /\ window # NoWindow => window.size = frame.size

\* A picture in a supported size and format fits its buffers: the copy is inside what
\* the driver captured and inside the postview, which fits the raw heap made by an
\* earlier preview, and scaling down to the thumbnail reads inside the postview.
PictureFits ==
  shot.id # "none" =>
    /\ shot.size \in SupportedPictures(shot.id) /\ shot.format = "YUYV" /\ shot.id = "front" =>
         shot.copied <= shot.captured /\ shot.copied <= Area(shot.postview) * 2 /\ shot.copied <= shot.jpeg
    /\ Area(shot.postview) * 2 <= shot.raw
    /\ scaleDownYuv422(shot.postview, shot.thumbnail) < Area(shot.postview) * 2

\* The header that the front camera's pictures get has the size of the thumbnail they
\* hold, for every supported one and after a change of cameras, although each comes from
\* elsewhere.  (The back camera's have their header from the sensor.)
ThumbnailIsWritten ==
  shot.id = "front" /\ shot.written \in SupportedThumbnails(shot.id) \ {<< 0, 0 >>} =>
    shot.written = shot.thumbnail

\* Whatever is copied fits where it goes, by the sizes that the client is told.
BuffersFit ==
  GeometryTypeOK /\ ParametersAreDevice /\ FrameFits /\ PictureFits /\ ThumbnailIsWritten

\* Refuted.  "preview is running, cannot change size and format!" (setParameters(),
\* SecCameraHWInterface.cpp line 1405): it has changed them, and the frame under way
\* is copied by the new size.
FrameAlwaysFits == frame.at = "copy" => m_frameSize("YUV420", frame.size) <= heaps.preview

\* Refuted.  A preview size that is refused changes nothing: it becomes the recording's.
RefusedSizeUnused == isSupportedPreviewSize(sizes.id, sizes.recording)

\* Refuted.  A call that returns OK has taken the preview's format: not without a new size.
FormatTaken == told.ret = "OK" => params.format = told.format

\* Refuted.  The window keeps the format the frames are copied in.
WindowFormat == frame.at = "copy" /\ ~ meddled /\ window # NoWindow => window.format = "YV12"
=============================================================================
