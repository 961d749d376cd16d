SPECIFICATION MCFairSpec
CONSTANTS
  numrx = 1
  numtx = 1
  msgnum = 2
  MaxMsgs <- FourAndThree
  Buffered <- SomeBuffered
  Errors = {e1}
INVARIANTS ReadInOrder SendsNext
PROPERTIES EveryMessageSent
CHECK_DEADLOCK FALSE
