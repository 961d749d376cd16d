SPECIFICATION FairSpec
CONSTANTS
  Senders = {s1, s2}
  Uppers = {u1}
  Packets <- SomePackets
  Batches = {1, 2}
  TxBytes = 48
  Frames <- SomeFrames
  RxWords = 3
  max_rx_buffers = 1
  MaxBuffered = 1
  MaxAllocFails = 1
INVARIANTS BuffersBounded FramesWhole
PROPERTIES QueueOrder NothingWaits
CHECK_DEADLOCK FALSE
