SPECIFICATION Spec
CONSTANTS
  A = A
  B = B
  C = C
  NoUser = NoUser
  Users <- ThreeUsers
  Depositor = A
  Share <- Shares
  X1s <- RandomX1s
  Key = 100000
  r1 = r1
  r2 = r2
  r3 = r3
  r4 = r4
  Requests <- FourRequests
  MayStop = FALSE
SYMMETRY Symmetry
INVARIANT SharesAddUp
CHECK_DEADLOCK FALSE
