SPECIFICATION FairSpec
CONSTANTS
  None = None
  Nil = Nil
  Requests = {r1}
  Signers = {s1}
  Targets = {t1}
  PodNames = {n1, n2}
  KeyIds = {k1, k2}
  Passes = {p1}
  MaxRetryCount = 2
  KeyShapes = {"nil"}
  RegistryFound = {TRUE}
  DeletableSigners = {}
  FreshNames = FALSE
  MaxOps = 2
  MaxFaults = 1
PROPERTIES
  EventuallyAnswered
