SPECIFICATION FairSpec
CONSTANTS
  Call = {c1, c2}
  First <- MCFirst
  MaxIndex = 8
INVARIANTS TypeOK NoGap ShowsLatest WorkerOnce ToldAsItEnded
PROPERTIES FillsUp CallEnds
CHECK_DEADLOCK FALSE
