SPECIFICATION SpecParts
CONSTANTS
  MaxBuffers = 2
  Ids = {"back", "front"}
  MaxFaults = 2
  Frames = {f1, f2}
  RecSlips = {"start", "unstarted", "caf", "streamoff", "tail", "addr", "dqbuf", "qbuf"}
  Clusters = {{"iso"}, {"wb"}, {"brightness"}, {"zoom"}, {"quality"},
              {"focus", "scene"}, {"fps", "scene"}, {"flash", "scene"}}
  MaxSetFaults = 1
  Cameras = {"back", "front"}
  PreviewSizes <- SomePreviews
  PictureSizes <- SomePictures
  ThumbnailSizes <- SomeThumbnails
  PictureFormats = {"jpeg", "yuv420sp"}
  Openings = {"back", "front"}
  Latitudes <- SomeLatitudes
  Longitudes <- SomeLongitudes
  Altitudes <- SomeAltitudes
  Stamps = {86399}
  Rotations <- SomeRotations
\* The preview thread waits for good for a frame when the encoder has them all.
CHECK_DEADLOCK FALSE
INVARIANTS DeviceAgrees FramesSafe SettingsAgree SettingsEnd BuffersFit HeaderSound LocationTrue
PROPERTY RecordingCallReturns
