SPECIFICATION MCDriverSpec
CONSTANTS
  NumTx = 3
  DEFRAG_LIMIT = 1
  MaxIov = 1
  Senders = {s1}
  Driver = d
  Packets = {p1}
  Copies = {}
  None = None
  NumRx = 2
  RxPackets = {r1, r2, r3}
  UpLimit = 0
  MaxBadFrames = 0
  NoPkt = NoPkt
PROPERTIES
  EveryoneServed
CHECK_DEADLOCK FALSE
