SPECIFICATION Spec
CONSTANTS
  None = None
  Nil = Nil
  Requests = {r1}
  Signers = {s1}
  Targets = {t1, t2}
  PodNames = {n1, n2}
  KeyIds = {k1, k2, k3}
  Passes = {p1}
  MaxRetryCount = 2
  KeyShapes = {"map"}
  RegistryFound = {TRUE, FALSE}
  DeletableSigners = {}
  FreshNames = FALSE
  MaxOps = 3
  MaxFaults = 1
SYMMETRY Drawn
INVARIANTS
  TypeOK
  SuccessIsBacked
  RepoKeyHeld
  PodsAccounted
PROPERTIES
  StoredKeysKept
  ResponseFinal
