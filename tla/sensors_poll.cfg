CONSTANTS
  numSensorDrivers = 2
  Prox = 1
  RingSize = 4
  PacketSize = 2
  KernelEvents = 4
  PipeSize = 2
  Counts = {3, 4}
SPECIFICATION FairSpec
INVARIANT PollSound
PROPERTIES NeverEmptyHanded PendingTaken
