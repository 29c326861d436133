SPECIFICATION Spec
CONSTANTS
  r1 = r1
  r2 = r2
  k = k
  s = s
  Absent = Absent
  Runs = {r1, r2}
  Sessions = {k, s}
  Keynote = k
  Starts = {2}
  Start = 2
  Soon = 3
  Survey = 1
  Grace = 1
  Faults = {"rpc", "crash"}
  MaxAttempts = 2
  MaxNow = 3
INVARIANTS AnnouncedOnce OnTime
CHECK_DEADLOCK FALSE
