SPECIFICATION Spec
CONSTANTS
  None = None
  Names = {s1, s2}
  Users = {u1}
  Groups = {g1}
  MaxChanges = 2
  MaxFaults = 1
INVARIANTS
  TypeOK
  AnswerReviewed
  AnswerFresh
  ListedPathsFound
CHECK_DEADLOCK FALSE
