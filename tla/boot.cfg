SPECIFICATION FairSpec
CONSTANTS
  None = None
  MaxPods = 2
  MaxEdits = 1
  MaxFaults = 2
INVARIANTS
  TypeOK
  DistrustedMeansOvertaken
PROPERTIES
  EditsKept
  EventuallyServes
CHECK_DEADLOCK FALSE
