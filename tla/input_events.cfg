CONSTANTS
  numEvents = 4
  MaxEvents = 13
  Samples = 3
  KernelRoom = 6
  ReaderRoom = 4
  Delays = {5, 15, 20, 66, 200, 1000}
SPECIFICATION SpecParts
CHECK_DEADLOCK FALSE
INVARIANTS RingSound ReportsTrue
PROPERTIES IsFifo InOrder
