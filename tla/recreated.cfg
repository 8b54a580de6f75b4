SPECIFICATION Spec
CONSTANTS
  None = None
  Nil = Nil
  Requests = {r1}
  Signers = {s1}
  Targets = {t1}
  PodNames = {n1}
  KeyIds = {k1, k2, k3}
  Passes = {p1, p2}
  MaxRetryCount = 1
  KeyShapes = {"map"}
  RegistryFound = {TRUE}
  DeletableSigners = {s1}
  FreshNames = FALSE
  MaxOps = 2
  MaxFaults = 0
SYMMETRY Drawn
INVARIANTS
  StoredKeyOpensRepo
  IInv
PROPERTIES
  KeepsContract
