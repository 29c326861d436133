SPECIFICATION Spec
CONSTANTS
  Users <- MCUsers
  Sessions <- MCSessions
  Resources = {"schedule"}
  Saved <- MCSaved
  Unsent <- MCUnsent
  MaxSigns = 2
  MaxChanges = 1
  MaxFailures = 1
INVARIANTS ShownIsSaved SentByItsOwner
PROPERTIES FetchingEnds ReplayEnds
CHECK_DEADLOCK FALSE
