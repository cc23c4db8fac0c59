CONSTANT MaxConnects = 3
SPECIFICATION FairSpec
CHECK_DEADLOCK FALSE
INVARIANT ConnectionSound
PROPERTIES DisconnectReturns HangUpNoticed
