SPECIFICATION Spec
CONSTANTS
  Pages <- MCPages
  Subpages <- MCSubpages
  DefaultSubpage <- MCDefaults
  SectionOf <- MCSections
  Links <- MCLinks
  First = "home"
  MaxNavigations = 3
  MaxFailures = 1
INVARIANTS PageConverges AtRest
PROPERTIES TransitionsEnd
CHECK_DEADLOCK FALSE
