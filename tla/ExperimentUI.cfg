SPECIFICATION Spec
CONSTANTS
  Views = {"v1", "v2"}
  MaxInputs = 5
  MaxStarts = 2
INVARIANTS WayOut AtRest
PROPERTIES BackStaysInside RecordingEnds
CHECK_DEADLOCK FALSE
