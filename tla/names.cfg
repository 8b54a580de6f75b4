SPECIFICATION Spec
CONSTANTS
  Letters = {"a", "h"}
  MaxName = 1
INVARIANTS
  OneRepositoryPerTarget
