SPECIFICATION ConfSpec
CONSTANTS
  Null = Null
  Invalid = Invalid
  Elements <- Written
INVARIANTS LoadedAsWritten PoolsAreUsable
CHECK_DEADLOCK FALSE
