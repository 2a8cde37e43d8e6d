SPECIFICATION Spec
CONSTANTS
  r0 = r0  w0 = w0  b1 = b1  r4 = r4
  Event = {r0, w0, b1, r4}
  ev_fd <- FdOf
  ev_events <- Wants
  Persist = {w0}
  Null = Null
  Junk = Junk
  PollMin = 2
  NFDBITS = 2
  SelectMin = 1
  EpollFiles = 3
INVARIANTS TypeOK TablesAgree
PROPERTY ImplementsDemux
CHECK_DEADLOCK FALSE
