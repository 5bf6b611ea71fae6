SPECIFICATION Spec
CONSTANTS
  c1 = c1
  c2 = c2
  Coins <- TwoCoins
  Latched <- NoneLatched
  Timeout = 0
  MaxTime = 1
INVARIANT AllOrNone
CHECK_DEADLOCK FALSE
