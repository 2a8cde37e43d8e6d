SPECIFICATION FaultsSpec
CONSTANTS
  Threshold = 3
  Interval = 2
  FirstClock = 5
  Skews <- SetOrNot
  MaxTime = 5
  MaxFaults = 5
INVARIANTS
  FaultsTypeOK
  ReloadIsDue
PROPERTY
  SeriesIsNoticed
