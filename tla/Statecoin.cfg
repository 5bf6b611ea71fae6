SPECIFICATION Spec
CONSTANTS
  A = A  B = B  C = C
  Users <- MCUsers
  Depositor = A
  NoUser = NoUser
  Initlock = 5
  Interval = 2
  MaxHeight = 3
  MaxOffers = 3
  MaxRows = 4
  MayFail = TRUE
  MayWithdraw = TRUE
SYMMETRY Symmetry
INVARIANTS TypeOK OwnerFirst BackupsDisclosed SharesAddUp TransferredIsGone
PROPERTIES OwnerHadItsTurn
CHECK_DEADLOCK FALSE
