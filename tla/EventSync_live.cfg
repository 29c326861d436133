SPECIFICATION FairSpec
CONSTANTS
  s1 = s1
  s2 = s2
  a = a
  b = b
  Absent = Absent
  Sessions = {s1, s2}
  Contents = {a, b}
  Times = {1, 2, 3}
  Feeds <- MCFeeds
  Requests = {q1, q2}
  Readers = {}
  Shards = {c1}
  Faults = {"rpc"}
  GuardReset = 3
  MaxAttempts = 2
  MaxGuard = 2
  MaxVersions = 5
INVARIANTS SyncExclusive VersionsInOrder NoTornVersion EveryChangeIsAnnounced
PROPERTIES PublishedIsStored GuardReopens
