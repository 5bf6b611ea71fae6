SPECIFICATION LiveSpec
CONSTANTS
  c1 = c1
  c2 = c2
  Coins <- TwoCoins
  Latched <- OneLatched
  Timeout = 0
  MaxTime = 1
INVARIANTS TypeOK TakenTogether LatchOpens PreimageEarned
PROPERTIES LockHeld Settles
CHECK_DEADLOCK FALSE
