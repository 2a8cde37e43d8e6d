CONSTANTS
  Timer = {t1}
  Io = {o1}
  Fd = {f1}
  None = None
  Delays = {2}
  Skews <- Set
  MaxTime = 3
  MaxCalls = 3
SPECIFICATION Spec
INVARIANT NotEarlyWhenSetBack
CHECK_DEADLOCK FALSE
