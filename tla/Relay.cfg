SPECIFICATION RelaySpec
CONSTANTS
  RPC <- MCRPC
  ZMQ <- MCZMQ
INVARIANT RelayKept
PROPERTIES CloseDone HangUpCarried
CHECK_DEADLOCK FALSE
