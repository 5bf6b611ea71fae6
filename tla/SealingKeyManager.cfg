SPECIFICATION Spec
CONSTANTS
  a = a
  b = b
  s1 = s1
  s2 = s2
  s3 = s3
  Nodes <- TwoNodes
  Peer <- EachOther
  Indexes <- ThreeShares
  Quorum = 2
  Thresholds = {0, 1, 2}
  Shared = Shared
  NoSeed = NoSeed
  Absent = Absent
  Blank = Blank
  Fails = Fails
  Aborts = Aborts
  Operator = Operator
  MaxStarts = 2
SYMMETRY Symmetry
INVARIANTS TypeOK NoSeedLost KeysReadable ReplicaDurable Recovered
CHECK_DEADLOCK FALSE
