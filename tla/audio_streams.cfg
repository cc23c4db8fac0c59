CONSTANTS
  Player = player
  Recorder = recorder
  Control = control
  Manager = manager
  Failures = {"pcm", "mixer", "capture"}
  EchoUsed = FALSE
  StreamsClose = FALSE
  MuteUsed = TRUE
SPECIFICATION Spec
INVARIANTS StreamsSound LockOrder MuteReachesCapture
PROPERTY ModeChangeHoldsInput
