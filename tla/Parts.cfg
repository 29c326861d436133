SPECIFICATION MCSpec
CONSTANTS
  e1 = e1
  e2 = e2
  s1 = s1
  s2 = s2
  Events = {e1, e2}
  Sessions = {s1, s2}
  Bookmarks = {s1}
  Second = 2
  MaxLag = 2
  Limit = 1
  Faults = {"fetch", "show", "save"}
  MaxNow = 3
  MaxChanges = 3
  Dots = {"d1", "d2", "d3", "d4"}
  LoadedStrings <- MCLoaded
  Drums = {"kick", "snare"}
  Balls = {"b1", "b2"}
  Sizes <- MCSizes
  Pids = {0, 1}
  MaxNotes = 1
  MaxTakes = 1
  MaxResets = 1
  Channels = {"guitar", "drum"}
  Main = "main"
  ShortFadeIn = 3
  FadeInDelay = 3
  FadeInTime = 9
  FadeOutTime = 3
  ExitFadeTime = 2
  FADE_OUT_DURATION = 2
  FADE_IN_DURATION = 4
  MaxFades = 7
  TOTAL_BEATS = 4
  LOOK_AHEAD = 2
  SCHEDULE_AHEAD = 2
  A_16TH_NOTE_DURATION = 3
  MaxDelay = 1
  MaxStarts = 2
  MaxTime = 14
  easeInTime = 5
  waitTime = 3
  easeOutTime = 4
  CountdownSecond = 10
  Minute = 30
  Hour = 60
  Day = 120
  MaxFrame = 1
  Targets = {3, 34}
  CountdownNow = 40
  CountdownChanges = 1
  Users = {"ann", "bob"}
  Nobody = "nobody"
  MaxEndpoints = 3
  MaxFailures = 1
  SignIns = {"p1", "p2"}
  Calls = {"c1", "c2"}
  Cards = {"v1", "v2"}
  MaxInputs = 4
SYMMETRY Symmetry
INVARIANTS NothingSkipped RecordedIsPlayed FollowsTheHands BusKeepsAll AudioFollows SubscriptionFollowsUser GrantIsKept EndIsAnnounced AlgorithmsAgree
CHECK_DEADLOCK FALSE
