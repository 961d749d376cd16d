SPECIFICATION MCSpec
CONSTANTS
  numrx = 1
  numtx = 1
  msgnum = 2
  MaxMsgs <- FourAndThree
  Buffered <- SomeBuffered
  Errors = {}
INVARIANTS BothInOrder
CHECK_DEADLOCK FALSE
