SPECIFICATION PromptObjectsSpec
CONSTANTS
  None = None
  Nil = Nil
  Requests = {r1}
  Signers = {s1}
  Keyed = {}
  Targets = {t1}
  SignerPods = {n1, n2}
  RequestPods = {m1}
  KeyIds = {k1, k2}
  Passes = {p1}
  MaxRetryCount = 1
  RegistryFound = {TRUE}
  FreshNames = TRUE
  SignerOps = 0
  RequestOps = 1
  MaxFaults = 1
SYMMETRY Drawn
INVARIANTS
  TypeOK
  SignerPodsAccounted
