--------------------------- MODULE MCCameraDevice ---------------------------
(***************************************************************************)
(* The camera below the threads of CameraHardwareSec: the device, the      *)
(* frames of a recording, the settings, sizes and buffers, and what a      *)
(* picture says of itself.  No part reads what another one changes, so     *)
(* that a behaviour is one of one part.                                    *)
(***************************************************************************)
EXTENDS SecCamera, CameraRecording, CameraSettings, CameraGeometry, CameraExif

\* For CameraGeometry: two preview sizes and one that only the picture supports,
\* and a picture size that is none.
SomePreviews == {<< 640, 480 >>, << 1280, 720 >>, << 1024, 768 >>}
SomePictures == {<< 640, 480 >>, << 2560, 1920 >>, << 0, 480 >>}
SomeThumbnails == {<< 320, 240 >>}
\* For CameraExif: a place south of the equator and below the sea.
SomeLatitudes == {-338688201}
SomeLongitudes == {1512092901}
SomeAltitudes == {-1250}
SomeRotations == {-1, 45, 90}

VARIABLE part

allVars == << vars, recVars, setVars, geoVars, exifVars, part >>

InitParts ==
  /\ Init /\ InitRecording /\ InitSettings /\ InitGeometry /\ InitExif
  /\ part \in {"device", "recording", "settings", "geometry", "exif"}
  /\ part # "settings" => varied = CHOOSE c \in Clusters : TRUE
  /\ part # "settings" => cam.id = "back"
  /\ part # "geometry" => sizes.id = "back"
  /\ part # "exif" => gps.id = "back"

NextParts ==
  /\ UNCHANGED part
  /\ \/ part = "device" /\ Next /\ UNCHANGED << recVars, setVars, geoVars, exifVars >>
     \/ part = "recording" /\ NextRecording /\ UNCHANGED << vars, setVars, geoVars, exifVars >>
     \/ part = "settings" /\ NextSettings /\ UNCHANGED << vars, recVars, geoVars, exifVars >>
     \/ part = "geometry" /\ NextGeometry /\ UNCHANGED << vars, recVars, setVars, exifVars >>
     \/ part = "exif" /\ NextExif /\ UNCHANGED << vars, recVars, setVars, geoVars >>

SpecParts == InitParts /\ [][NextParts]_allVars /\ RecordingFairness
=============================================================================
