------------------------ MODULE MCCameraHardwareSec -------------------------
(* CameraHardwareSec as it stands, with device and window calls that fail. *)
EXTENDS CameraHardwareSec
=============================================================================
