SPECIFICATION LiveSpec
CONSTANTS
  k1 = k1  k2 = k2  k3 = k3  k4 = k4
  Calls <- FourCalls
  NoCall = NoCall
  NoMutex = NoMutex
INVARIANTS TypeOK SignaturesCounted NonceOfCurrentKey UpdatesKept
PROPERTIES Atomic EveryCallAnswered
CHECK_DEADLOCK FALSE
