SPECIFICATION FairSpec
CONSTANTS
  u1 = u1
  u2 = u2
  s1 = s1
  s2 = s2
  Users = {u1}
  Regs = {1}
  Others = {3}
  Sessions = {s1}
  Bookmarks <- MCBookmarks
  Starts <- SomeStarts
  Faults = {"rpc", "crash", "part", "down"}
  MaxFaults = 2
  MaxTaskRetry = 1
  Schedules = 3
PROPERTIES EveryDeviceIsPinged TasksDrain NobodyElseIsPinged
CHECK_DEADLOCK FALSE
