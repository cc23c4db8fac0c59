CONSTANTS
  Player = player
  Recorder = recorder
  Control = control
  Manager = manager
  Failures = {"pcm", "mixer", "capture", "echo"}
  EchoUsed = TRUE
  StreamsClose = TRUE
  MuteUsed = FALSE
SPECIFICATION Spec
INVARIANTS CountsExact EchoAlive
CHECK_DEADLOCK FALSE
