SPECIFICATION MCSpec
CONSTANTS
  Subchns = {s1, s2}
  FragCounts = {1, 2, 3}
  MaxAudioPulses = 2
  NoSubchn = NoSubchn
  Transfers <- SomeTransfers
  MaxStretches = 2
  MaxReleases = 2
  MaxTouches = 3
  MaxOut = 3
  TxLevel = 1
  Surfaces = {"s", "t", "u"}
  Formats = {"RGB565", "ARGB8888"}
  FormatOf <- SurfaceFormats
  CaptureBuffer = "capture"
  Blocks = {"b"}
  clusters2blk = 3
  Trans = {"t", "u"}
  Data = {"d", "e"}
  BLANK = BLANK
  TORN = TORN
  NONE = NONE
INVARIANTS
  OwnFragmentsInTurn
  StreamGoesOn
  TransferRight
  PressEnds
  OutputGoesOn
  ShownIsCommitted
  ErasedIsBlank
  PostedReadsBack
CHECK_DEADLOCK FALSE
