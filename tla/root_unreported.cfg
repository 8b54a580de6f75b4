SPECIFICATION FairSpec
CONSTANTS
  None = None
  Signers = {s1}
  PodNames = {n1, n2}
  KeyIds = {k1, k2}
  Passes = {p1}
  MaxRetryCount = 2
  FreshNames = TRUE
  MaxOps = 2
  MaxFaults = 0
PROPERTIES
  KeyReported
