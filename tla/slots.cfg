SPECIFICATION Spec
CONSTANTS
  Addr = {a1, a2, a3}
  Null = Null
  MaxChildren = 3
  InitialNum = 1
  MaxFailures = 2
SYMMETRY AddrSymmetry
INVARIANTS TypeOK SlotsArePrivate  MemoryIsBounded
CHECK_DEADLOCK FALSE
