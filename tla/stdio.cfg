SPECIFICATION Spec
CONSTANTS
  Child = {c1, c2}
  NoChild = NoChild
  MaxChildren = 2
  MaxFd = 6
  BufSize = 3
  Say <- Words
  MaxSaid = 2
  MaxMishaps = 3
SYMMETRY ChildSymmetry
INVARIANTS TypeOK NothingIsLeft NumbersAreCurrent 
\* The workers may have said what they may say and stay silent.
CHECK_DEADLOCK FALSE
