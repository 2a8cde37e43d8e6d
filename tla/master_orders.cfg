CONSTANTS
  p1 = p1  p2 = p2  p3 = p3  a = a  b = b
  NoPool = NoPool
  Pool = {a, b}
  Pid = {p1, p2}
  MaxChildren <- OneEach
  SpCapacity = 4
  AdminSignals = {"TERM", "INT", "QUIT", "USR1", "USR2"}
  MaxAdminSignals = 3
  FailingPool = {a}
SPECIFICATION Spec
SYMMETRY PidSymmetry
INVARIANTS TypeOK TableIsExact OrderIsPursued PoolsAreFull
PROPERTY ImplementsLifecycle
\* When every fork failed and nobody sends a signal the master waits for ever.
CHECK_DEADLOCK FALSE
