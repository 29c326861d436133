SPECIFICATION FairSpec
CONSTANTS
  p1 = p1
  p2 = p2
  p3 = p3
  x = x
  Requests = {p1, p2, p3}
  Sessions = {x}
  Default = {}
  Faults = {"rpc", "lost", "meta"}
INVARIANTS OneFileOneSurvey
PROPERTIES NoLostUpdate UserSpec Answered
CHECK_DEADLOCK FALSE
