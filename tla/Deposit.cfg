SPECIFICATION Spec
CONSTANTS
  t1 = t1  t2 = t2
  r1 = r1  r2 = r2  r3 = r3  r4 = r4
  Tokens <- TwoTokens
  Requests <- FourRequests
  Nothing = Nothing
  Free = FALSE
  MayStop = TRUE
SYMMETRY Symmetry
INVARIANTS TypeOK OnlyLateReuse FeePaid CoinBacked
CHECK_DEADLOCK FALSE
