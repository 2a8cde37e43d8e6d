CONSTANTS
  Timer = {t1, t2}
  Io = {o1, o2}
  Fd = {f1, f2}
  None = None
  Delays = {1, 2}
  Skews <- Set
  MaxTime = 3
  MaxCalls = 5
SPECIFICATION Spec
SYMMETRY Symmetry
INVARIANTS TypeOK QueuesAreExact NotEarly OverdueIsNotSleptOn
PROPERTY ExitIsFinal
\* the loop leaves, or waits until the bounds are reached
CHECK_DEADLOCK FALSE
