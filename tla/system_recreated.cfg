SPECIFICATION PromptSpec
CONSTANTS
  None = None
  Nil = Nil
  Requests = {r1}
  Signers = {s1}
  Keyed = {s1}
  Targets = {t1}
  SignerPods = {n1}
  RequestPods = {n1}
  KeyIds = {k1, k2, k3}
  Passes = {p1}
  MaxRetryCount = 1
  RegistryFound = {TRUE}
  FreshNames = TRUE
  SignerOps = 2
  RequestOps = 1
  MaxFaults = 0
SYMMETRY Drawn
PROPERTIES
  RequestsSpec
