SPECIFICATION ConnectionSpec
CONSTANTS
  BufSize = 8192
  Stream = {"out", "err"}
  Lens <- Lengths
  FewLens = {1}
  MaxCalls = 3
  Requests <- AllRequests
  MaxLength = 3
  Asked = {1, 4}
  MaxSent = 2
INVARIANTS TypeOK WithinBuffer StreamsAreWhole 
