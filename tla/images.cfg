CONSTANTS
  NPools = 2
  any = any
  host = host
  Inet = {any, host}
  Unix = {u}
  Clash <- OneExcludes
  Fd = {f1, f2, f3, f4}
  None = None
  MaxImages = 3
  MaxEdits = 2
SPECIFICATION Spec
SYMMETRY Symmetry
INVARIANTS TypeOK ListensWhereTold SocketsAreKept FilesAreTrue
\* a configuration may have no pool with an address, and the bounds are reached
CHECK_DEADLOCK FALSE
