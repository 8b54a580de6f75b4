SPECIFICATION FairSpec
CONSTANTS
  None = None
  Signers = {s1}
  PodNames = {n1}
  KeyIds = {k1, k2}
  Passes = {p1, p2}
  MaxRetryCount = 1
  FreshNames = FALSE
  MaxOps = 3
  MaxFaults = 1
INVARIANTS
  TypeOK
  CreatedMeansKey
  RootKeyOpens
  PodsAccounted
PROPERTIES
  RootKeyKept
  KeepsTrying
