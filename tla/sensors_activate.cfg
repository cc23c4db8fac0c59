CONSTANTS
  Others = {"L"}
  Failures = {"open", "write"}
  CompassInit = {0, 1, 2}
SPECIFICATION Spec
INVARIANT ActivationSound
