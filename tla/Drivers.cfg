SPECIFICATION MCSpec
CONSTANTS
  Lengths <- SomeLengths
  dlens = {1, 2, 4}
  MaxXfers = 2
  MaxTimeouts = 2
  Clients = {c1, c2}
  NDev = 1
  MaxTimerPulses = 2
  Proc = {p1, p2}
  None = None
  MaxPulses = 2
INVARIANTS
  HandlerKeepsUp
  ResultRight
  LockExcludes
  MaskBalanced
  ModeOwned
  PressWatched
  LoadedWhenSaid
  OneListener
PROPERTIES
  EveryXferReturns
  ReleaseReported
  CallsEnd
CHECK_DEADLOCK FALSE
