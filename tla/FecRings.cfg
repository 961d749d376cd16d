SPECIFICATION RingsSpec
CONSTANTS
  NumTx = 4
  DEFRAG_LIMIT = 2
  MaxIov = 3
  Senders = {s1, s2}
  Driver = d
  Packets = {p1, p2, p3}
  Copies = {c1}
  None = None
  NumRx = 2
  RxPackets = {p1, p2, p3, r1, r2, r3}
  UpLimit = 3
  MaxBadFrames = 2
  NoPkt = NoPkt
SYMMETRY RingsSymmetry
INVARIANTS
  RingInv
  CompletedOnce
  WireInOrder
  OneHolder
  OldestFirst
  OneLostPerError
PROPERTIES
  ImplementsService
