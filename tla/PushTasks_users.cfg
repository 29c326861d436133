SPECIFICATION Spec
CONSTANTS
  u1 = u1
  u2 = u2
  s1 = s1
  s2 = s2
  Users = {u1}
  Regs = {1, 2}
  Others = {3}
  Sessions = {s1}
  Bookmarks <- MCBookmarks
  Starts <- AllStarts
  Faults = {"rpc", "crash", "part", "queue", "add", "down", "refused", "auth"}
  MaxFaults = 1
  MaxTaskRetry = 0
  Schedules = 2
PROPERTIES DevicesAreKept
CHECK_DEADLOCK FALSE
