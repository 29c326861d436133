SPECIFICATION Spec
CONSTANTS
  s1 = s1
  s2 = s2
  a = a
  b = b
  Absent = Absent
  Sessions = {s1, s2}
  Contents = {a, b}
  Times = {1, 2}
  Feeds <- MCFeeds
  Requests = {q1, q2}
  Readers = {r}
  Shards = {c1}
  Faults = {"evict", "crash", "memcache", "rpc", "hurry", "header"}
  GuardReset = 2
  MaxAttempts = 2
  MaxGuard = 1
  MaxVersions = 2
SYMMETRY Symmetry
INVARIANTS FreshContentIsAnnounced
PROPERTY FeedSpec
