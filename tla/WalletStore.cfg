SPECIFICATION LiveSpec
CONSTANTS
  k1 = k1  k2 = k2
  Commands <- MCCommands
  MaxDeposits = 2
  MaxUtxos = 2
  MaxSigs = 2
  MaxStops = 1
  MaxOverlaps = 1
INVARIANTS TypeOK BackupKept Sendable OutputHeldOnce AddressKept
PROPERTY DepositConfirmed
CHECK_DEADLOCK FALSE
