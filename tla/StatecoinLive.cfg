SPECIFICATION LiveSpec
CONSTANTS
  A = A  B = B  C = C
  Users <- MCUsers
  Depositor = A
  NoUser = NoUser
  Initlock = 5
  Interval = 2
  MaxHeight = 4
  MaxOffers = 3
  MaxRows = 4
  MayFail = FALSE
  MayWithdraw = FALSE
PROPERTY TransferCompletes
CHECK_DEADLOCK FALSE
