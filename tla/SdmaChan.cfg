SPECIFICATION FairSpec
CONSTANTS
  p1 = p1
  p2 = p2
  c1 = c1
  c2 = c2
  None = None
  Proc <- MCProc
  Channel <- MCChannel
  MaxUsers = 2
INVARIANTS OneCcb HostMatches
PROPERTIES CallsEnd
CHECK_DEADLOCK FALSE
