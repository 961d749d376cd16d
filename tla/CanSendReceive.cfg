SPECIFICATION MCSpec
CONSTANTS
  numrx = 1
  numtx = 1
  msgnum = 2
  MaxMsgs <- FourAndThree
  Buffered <- NoneBuffered
  Errors = {}
INVARIANTS EnabledInProgress
CHECK_DEADLOCK FALSE
