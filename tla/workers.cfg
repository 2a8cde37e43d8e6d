SPECIFICATION FairSpec
CONSTANTS
  Worker = {w1, w2}
  Conn = {c1, c2, c3}
  NoConn = NoConn
  KeepConn = {c1}
  StallConn = {c1}
  MaxRequests = 2
  MaxSent = 2
  MaxDeaths = 1
INVARIANTS TypeOK AnswersAreExact EnvIsFreedOnce StageIsTrue
 
CHECK_DEADLOCK FALSE
