--------------------------- MODULE MyScheduleProofs ----------------------------
(***************************************************************************)
(* That the page marks what the server has, and that changes are sent in   *)
(* the name of the user who has made them, for any users, sessions and     *)
(* bounds: ShownIsSaved and SentByItsOwner of MySchedule are invariants.   *)
(*                                                                         *)
(* Neither is inductive.  As long as nothing has overlapped, the work that *)
(* is in flight at the same time is of few kinds (Alone), it is the work   *)
(* of the user who is signed in, and so is the queue unless it is about to *)
(* be deleted (Owned), which a replay then waits for (Blocked).  Before    *)
(* the schedule is there and after a sign-out the page knows nothing       *)
(* (Unknown).  With that, what loads is what the server has (LoadsOK), the *)
(* answer to a click is of the session that is selected (ClicksOK), and a  *)
(* session that is marked wrongly is queued or about to be marked, or a    *)
(* replay or a load will mark all of them (MarksOK).                       *)
(***************************************************************************)
EXTENDS MySchedule, TLAPS

(***************************************************************************)
(* Types                                                                   *)
(***************************************************************************)
(* What kind of work a job is.                                              *)
LEMMA KindOf ==
  ASSUME TypeOK, NEW j \in jobs
  PROVE  /\ j.kind = "load"    => j \in Loads
         /\ j.kind = "write"   => j \in Writes
         /\ j.kind = "enqueue" => j \in Enqueues
         /\ j.kind = "replay"  => j \in Replays
         /\ j.kind \in {"load", "write", "enqueue", "replay"}
  BY DEF TypeOK, Jobs, Loads, Writes, Enqueues, Replays

(* What new work is.                                                        *)
LEMMA NewReplay ==
  ASSUME NEW id \in Nat
  PROVE  Replay(id) \in Replays /\ Replay(id).kind = "replay"
  BY DEF Replay, Replays, open

LEMMA NewWrite ==
  ASSUME NEW u \in Users, NEW res \in Resources, NEW s \in Sessions,
         NEW m \in Methods, NEW o \in Users \cup {None},
         NEW from \in {"page", "replay", "gone"}, NEW id \in Nat
  PROVE  Write(u, res, s, m, o, from, id) \in Writes
  BY DEF Write, Writes

LEMMA NewEnqueue ==
  ASSUME NEW w \in Writes
  PROVE  Enqueue(w) \in Enqueues
  BY DEF Writes, Enqueue, Enqueues, open

LEMMA NewLoads ==
  ASSUME TypeOK
  PROVE  cacheThenNetwork \subseteq Loads
<1> SUFFICES ASSUME user # None, NEW res \in Missing
             PROVE  Load(user, res) \in Loads
  BY DEF cacheThenNetwork
<1>1. user \in Users /\ res \in Resources /\ signs \in Nat
  BY DEF TypeOK, Missing
<1> QED  BY <1>1 DEF Load, Loads

(* Jobs of a kind are jobs.                                                 *)
LEMMA AreJobs ==
  /\ Loads \subseteq Jobs /\ Writes \subseteq Jobs
  /\ Enqueues \subseteq Jobs /\ Replays \subseteq Jobs
  BY DEF Jobs

(* Nothing is known, and nothing is cached.                                 *)
Nothing == [res \in Resources |-> {}]

LEMMA NothingTypes ==
  /\ Nothing \in [Resources -> SUBSET Sessions]
  /\ Nothing \in [Resources -> SUBSET SUBSET Sessions]
  /\ \A res \in Resources : \A a, b \in Nothing[res] : a = b
  BY DEF Nothing

LEMMA DisplayTypes ==
  ASSUME TypeOK, NEW res \in Resources, NEW content \in SUBSET Sessions,
         display(res, content)
  PROVE  shown' \in [Resources -> SUBSET Sessions] /\ fetching' \in BOOLEAN
<1>1. shown \in [Resources -> SUBSET Sessions] /\ fetching \in BOOLEAN
  BY DEF TypeOK
<1>2. shown' = [shown EXCEPT ![res] = content]
  BY DEF display
<1>3. fetching' \in BOOLEAN
  BY Zenon DEF display
<1> QED
  BY <1>1, <1>2, <1>3

LEMMA InitTypes == Init => TypeOK
<1> SUFFICES ASSUME Init PROVE TypeOK
  OBVIOUS
<1>1. jobs \subseteq Jobs
  <2>1. jobs \subseteq Replays
    BY DEF Init, Replay, open, Replays
  <2> QED  BY <2>1, AreJobs
<1>2. user \in Users \cup {None} /\ Unsent \in [Users -> SUBSET Sessions]
  BY ScheduleAssumption DEF Init
<1>3. queue \in [Sessions -> Updates]
  <2>1. NoUpdate \in Updates
    BY DEF Updates
  <2>2. user # None => [method |-> "PUT", owner |-> user] \in Updates
    BY <1>2 DEF Updates, Methods
  <2> QED  BY <2>1, <2>2 DEF Init
<1>4. /\ server = Saved /\ selected \in Sessions /\ waiting \subseteq Changes /\ signs = 0
      /\ changes = 0 /\ failures = 0
      /\ cache = Nothing /\ shown = Nothing /\ swCache = Nothing
      /\ master \in BOOLEAN /\ fetching \in BOOLEAN /\ deleting \in BOOLEAN
      /\ held \in BOOLEAN /\ overlapped \in BOOLEAN /\ unloaded \in BOOLEAN
  BY DEF Init, Nothing
<1>5. Saved \in [Users -> [Resources -> SUBSET Sessions]] /\ MaxFailures \in Nat
  BY ScheduleAssumption
<1> QED
  BY <1>1, <1>2, <1>3, <1>4, <1>5, NothingTypes DEF TypeOK

LEMMA TypesKept == TypeOK /\ [Next]_vars => TypeOK'
<1> SUFFICES ASSUME TypeOK, [Next]_vars PROVE TypeOK'
  OBVIOUS
<1>0. jobs \subseteq Jobs /\ signs \in Nat /\ changes \in Nat
  BY DEF TypeOK
<1>1. CASE UNCHANGED vars
  BY <1>1 DEF vars, page, worker, bounds, TypeOK
<1>2. CASE resolveSchedulePromise
  BY <1>2 DEF resolveSchedulePromise, vars, page, worker, bounds, TypeOK
<1>3. ASSUME NEW u \in Users, SignIn(u) PROVE TypeOK'
  <2>1. Replay(signs + 1) \in Jobs
    BY <1>0, NewReplay, AreJobs
  <2>2. ASSUME NEW c \in waiting
        PROVE  submitSessionRequest(u, [c EXCEPT !.owner = u]) \in Jobs
    <3>1. c \in Changes
      BY DEF TypeOK
    <3>2. [c EXCEPT !.owner = u] \in Changes
      BY <3>1 DEF Changes
    <3>3. \A d \in Changes : submitSessionRequest(u, d) \in Writes
      BY NewWrite DEF Changes, submitSessionRequest
    <3> QED  BY <3>2, <3>3, AreJobs
  <2>3. jobs' \subseteq Jobs
    BY <1>3, <1>0, <2>1, <2>2 DEF SignIn
  <2>4. /\ signs' = signs + 1 /\ user' = u /\ waiting' \subseteq Changes /\ unloaded' \in BOOLEAN
        /\ fetching' \in BOOLEAN /\ overlapped' \in BOOLEAN
        /\ UNCHANGED <<server, master, cache, shown, selected, worker, held, changes,
                       failures>>
    BY <1>3 DEF SignIn, TypeOK
  <2> QED  BY <2>3, <2>4 DEF TypeOK, worker
<1>4. CASE SignOut
  <2>1. "schedule" \in Resources
    BY ScheduleAssumption
  <2>2. /\ shown' \in [Resources -> SUBSET Sessions]
        /\ cache' \in [Resources -> SUBSET Sessions]
    BY <1>4, <2>1 DEF SignOut, TypeOK
  <2>3. /\ signs' = signs + 1 /\ user' = None /\ swCache' = Nothing /\ deleting' = TRUE
        /\ overlapped' \in BOOLEAN
        /\ UNCHANGED <<server, master, selected, fetching, waiting, queue, jobs,
                       held, changes, failures, unloaded>>
    BY <1>4 DEF SignOut, Nothing, TypeOK
  <2> QED  BY <2>2, <2>3, NothingTypes DEF TypeOK
<1>5. CASE Reload
  <2>1. Replay(signs + 1) \in Jobs
    BY <1>0, NewReplay, AreJobs
  <2>2. \A w \in jobs : w.kind = "write" => [w EXCEPT !.from = "gone"] \in Jobs
    BY KindOf, AreJobs DEF Writes
  <2>3. jobs' \subseteq Jobs
    BY <1>5, <1>0, <2>1, <2>2 DEF Reload
  <2>4. /\ signs' = signs + 1 /\ master' \in BOOLEAN /\ fetching' \in BOOLEAN
        /\ cache' = Nothing /\ shown' = Nothing
        /\ waiting' \subseteq Changes /\ unloaded' \in BOOLEAN /\ overlapped' \in BOOLEAN
        /\ UNCHANGED <<server, user, selected, worker, held, changes, failures>>
    BY <1>5 DEF Reload, Nothing, TypeOK
  <2> QED  BY <2>3, <2>4, NothingTypes DEF TypeOK, worker
<1>6. ASSUME NEW s \in Sessions, openSession(s) PROVE TypeOK'
  BY <1>6 DEF openSession, worker, TypeOK
<1>7. ASSUME NEW s \in Sessions, NEW res \in Resources, Click(res, s) PROVE TypeOK'
  <2> DEFINE change == [res |-> res, session |-> s, owner |-> user, id |-> changes,
                        method |-> IF res = "schedule" /\ s \in shown["schedule"]
                                   THEN "DELETE" ELSE "PUT"]
  <2> HIDE DEF change
  <2>1. change \in Changes
    <3>1. user \in Users \cup {None}
      BY DEF TypeOK
    <3> QED  BY <1>0, <3>1 DEF change, Changes, Methods
  <2>2. user # None => submitSessionRequest(user, change) \in Jobs
    BY <2>1, NewWrite, AreJobs DEF TypeOK, submitSessionRequest, Changes
  <2>3. /\ changes' = changes + 1 /\ selected' = s /\ overlapped' \in BOOLEAN
        /\ \/ waiting' = waiting \cup {change} /\ UNCHANGED <<jobs, fetching>>
           \/ /\ user # None /\ jobs' = jobs \cup {submitSessionRequest(user, change)}
              /\ fetching' \in BOOLEAN /\ UNCHANGED waiting
        /\ UNCHANGED <<server, user, master, cache, shown, worker, held, signs,
                       failures, unloaded>>
    BY <1>7 DEF Click, TypeOK, change
  <2>4. waiting' \subseteq Changes /\ jobs' \subseteq Jobs /\ fetching' \in BOOLEAN
    BY <2>1, <2>2, <2>3, <1>0 DEF TypeOK
  <2> QED
    BY <2>3, <2>4 DEF worker, TypeOK
<1>8. CASE Collect
  BY <1>8 DEF Collect, page, worker, bounds, TypeOK
<1>9. CASE DeleteDatabase
  <2> USE <1>9 DEF DeleteDatabase
  <2>1. ASSUME NEW j \in jobs, j.phase = "open"
        PROVE  [j EXCEPT !.phase = "use"] \in Enqueues \cup Replays
    <3>1. j \in Enqueues \/ j \in Replays
      BY <2>1, KindOf DEF Loads, Writes
    <3> QED  BY <3>1 DEF Enqueues, Replays
  <2>2. queue' \in [Sessions -> Updates]
    BY DEF Updates
  <2>3. jobs' \subseteq Jobs
    BY <2>1, AreJobs DEF TypeOK
  <2> QED  BY <2>2, <2>3 DEF page, bounds, TypeOK
<1>10. ASSUME NEW j \in jobs, Proceed(j) PROVE TypeOK'
  <2>1. CASE loadUserSchedule(j)
    <3>1. cacheThenNetwork \subseteq Loads
      BY NewLoads
    <3>2. shown' \in [Resources -> SUBSET Sessions]
      BY <2>1 DEF loadUserSchedule, fetchResource, Missing, TypeOK
    <3>3. jobs' \subseteq Jobs /\ fetching' \in BOOLEAN /\ unloaded' \in BOOLEAN
      BY <2>1, <3>1, AreJobs DEF loadUserSchedule, Replaying, TypeOK
    <3> QED  BY <2>1, <3>2, <3>3 DEF loadUserSchedule, worker, bounds, TypeOK
  <2>2. CASE CachedXhrOnload(j)
    <3> USE <2>2 DEF CachedXhrOnload
    <3>1. j \in Loads
      BY KindOf
    <3>2. j.res \in Resources
      BY <3>1 DEF Loads
    <3>3. swCache[j.res] \in SUBSET SUBSET Sessions
      BY <3>2 DEF TypeOK
    <3>4. [j EXCEPT !.cachedXhr = FALSE, !.cached = swCache[j.res]] \in Loads
      BY <3>1, <3>3 DEF Loads
    <3>5. jobs' \subseteq Jobs
      BY <3>4, AreJobs DEF Becomes, TypeOK
    <3>6. ASSUME NEW content \in SUBSET Sessions, display(j.res, content)
          PROVE  /\ shown' \in [Resources -> SUBSET Sessions]
                 /\ fetching' \in BOOLEAN
      BY <3>2, <3>6, DisplayTypes
    <3>0. shown \in [Resources -> SUBSET Sessions] /\ fetching \in BOOLEAN
      BY DEF TypeOK
    <3>7. shown' \in [Resources -> SUBSET Sessions] /\ fetching' \in BOOLEAN
      BY <3>0, <3>3, <3>6
    <3> QED  BY <3>5, <3>7 DEF worker, bounds, TypeOK
  <2>3. CASE NetworkFirst(j)
    <3>1. j \in Loads
      BY <2>3, KindOf DEF NetworkFirst
    <3>2. j.user \in Users /\ j.res \in Resources
      BY <3>1 DEF Loads
    <3>3. \A c \in SUBSET Sessions :
            [j EXCEPT !.phase = "answered", !.content = c] \in Loads
      BY <3>1 DEF Loads
    <3>4. [j EXCEPT !.phase = "failed"] \in Loads
      BY <3>1 DEF Loads
    <3>5. server[j.user][j.res] \in SUBSET Sessions /\ swCache[j.res] \subseteq SUBSET Sessions
      <4>1. /\ server \in [Users -> [Resources -> SUBSET Sessions]]
            /\ swCache \in [Resources -> SUBSET SUBSET Sessions]
        BY DEF TypeOK
      <4> QED  BY <3>2, <4>1
    <3>6. jobs' \subseteq Jobs
      <4>1. \/ \E c \in SUBSET Sessions :
                 Becomes(j, [j EXCEPT !.phase = "answered", !.content = c])
            \/ Becomes(j, [j EXCEPT !.phase = "failed"])
            \/ jobs' = jobs \ {j}
        BY <2>3, <3>5 DEF NetworkFirst
      <4> QED  BY <1>0, <3>3, <3>4, <4>1, AreJobs DEF Becomes
    <3>7. /\ swCache' \in [Resources -> SUBSET SUBSET Sessions]
          /\ \A res \in Resources : \A a, b \in swCache'[res] : a = b
      <4>1. /\ swCache \in [Resources -> SUBSET SUBSET Sessions]
            /\ \A res \in Resources : \A a, b \in swCache[res] : a = b
        BY DEF TypeOK
      <4>2. swCache' = swCache
              \/ swCache' = [swCache EXCEPT ![j.res] = {server[j.user][j.res]}]
        BY <2>3 DEF NetworkFirst
      <4> QED  BY <3>2, <3>5, <4>1, <4>2
    <3>8. failures' \in 0 .. MaxFailures /\ unloaded' \in BOOLEAN
      <4>1. failures \in 0 .. MaxFailures
        BY DEF TypeOK
      <4>2. failures' = failures \/ (failures < MaxFailures /\ failures' = failures + 1)
        BY <2>3 DEF NetworkFirst
      <4>3. unloaded' \in BOOLEAN
        BY <2>3 DEF NetworkFirst, TypeOK
      <4> QED  BY <4>1, <4>2, <4>3, ScheduleAssumption
    <3>9. UNCHANGED <<server, user, master, page, queue, deleting, held, signs,
                      changes, overlapped>>
      BY <2>3 DEF NetworkFirst
    <3> QED  BY <3>6, <3>7, <3>8, <3>9 DEF TypeOK, page
  <2>4. CASE FreshXhrOnload(j)
    <3> USE <2>4 DEF FreshXhrOnload
    <3>1. j \in Loads
      BY KindOf
    <3>2. j.res \in Resources /\ j.content \in SUBSET Sessions
      BY <3>1 DEF Loads
    <3> QED  BY <3>2 DEF display, worker, bounds, TypeOK
  <2>5. CASE handleSessionUpdateRequest(j)
    <3> USE <2>5 DEF handleSessionUpdateRequest
    <3>1. j \in Writes
      BY KindOf
    <3>2. Answer(j, "ok") \subseteq Writes /\ Answer(j, "failed") \subseteq Writes
      BY <3>1 DEF Answer, Writes
    <3>3. Enqueue(j) \in Enqueues
      BY <3>1, NewEnqueue
    <3>4. jobs' \subseteq Jobs
      BY <3>2, <3>3, AreJobs DEF TypeOK
    <3>5. server' \in [Users -> [Resources -> SUBSET Sessions]]
      <4>1. j.user \in Users /\ j.res \in Resources /\ j.session \in Sessions
        BY <3>1 DEF Writes
      <4>2. Applied(j) \in SUBSET Sessions
        BY <4>1 DEF Applied, TypeOK
      <4>3. [server EXCEPT ![j.user][j.res] = Applied(j)]
              \in [Users -> [Resources -> SUBSET Sessions]]
        BY <4>1, <4>2 DEF TypeOK
      <4> QED  BY <4>3 DEF TypeOK
    <3>6. failures' \in 0 .. MaxFailures
      <4>1. failures \in 0 .. MaxFailures
        BY DEF TypeOK
      <4>2. failures' = failures \/ (failures < MaxFailures /\ failures' = failures + 1)
        OBVIOUS
      <4> HIDE <2>5 DEF handleSessionUpdateRequest
      <4> QED  BY <4>1, <4>2, ScheduleAssumption
    <3> QED  BY <3>4, <3>5, <3>6 DEF TypeOK, page, worker
  <2>6. CASE SessionRequestDone(j)
    <3> USE <2>6 DEF SessionRequestDone
    <3>1. j \in Writes
      BY KindOf
    <3>2. j.res \in Resources
      BY <3>1 DEF Writes
    <3>3. cache' \in [Resources -> SUBSET Sessions] /\ shown' \in [Resources -> SUBSET Sessions]
      <4>1. /\ cache \in [Resources -> SUBSET Sessions]
            /\ shown \in [Resources -> SUBSET Sessions]
            /\ selected \in Sessions
        BY DEF TypeOK
      <4>2. cache' = cache \/ cache' = [cache EXCEPT !["schedule"] = {}]
        OBVIOUS
      <4>3. \/ shown' = shown
            \/ shown' = [shown EXCEPT ![j.res] = shown[j.res] \cup {selected}]
            \/ shown' = [shown EXCEPT ![j.res] = shown[j.res] \ {selected}]
        OBVIOUS
      <4> HIDE <2>6 DEF SessionRequestDone
      <4>4. cache' \in [Resources -> SUBSET Sessions]
        BY <4>1, <4>2
      <4>5. /\ shown[j.res] \cup {selected} \in SUBSET Sessions
            /\ shown[j.res] \ {selected} \in SUBSET Sessions
        BY <3>2, <4>1
      <4>6. shown' \in [Resources -> SUBSET Sessions]
        BY <4>1, <4>3, <4>5
      <4> QED  BY <4>4, <4>6
    <3>4. jobs' \subseteq Jobs /\ fetching' \in BOOLEAN
      BY DEF TypeOK
    <3> QED  BY <3>3, <3>4 DEF worker, bounds, TypeOK
  <2>7. CASE queueFailedSessionUpdateRequest(j)
    <3> USE <2>7 DEF queueFailedSessionUpdateRequest
    <3>1. j \in Enqueues
      BY KindOf
    <3>2. [method |-> j.method, owner |-> j.owner] \in Updates
      BY <3>1 DEF Enqueues, Updates
    <3> QED  BY <3>2 DEF page, bounds, TypeOK
  <2>8. CASE replayQueuedRequests(j)
    <3> USE <2>8 DEF replayQueuedRequests
    <3> DEFINE queued == {s \in Sessions : queue[s] # NoUpdate}
    <3>1. j \in Replays
      BY KindOf
    <3>2. [j EXCEPT !.phase = "load"] \in Replays
      BY <3>1 DEF Replays
    <3>3. [j EXCEPT !.phase = "wait", !.left = queued] \in Replays
      BY <3>1 DEF Replays
    <3>4. ASSUME user # None, NEW s \in queued
          PROVE  Write(user, "schedule", s, queue[s].method, queue[s].owner,
                       "replay", j.id) \in Writes
      <4>1. /\ user \in Users \/ user = None
            /\ queue[s] \in [method : Methods, owner : Users \cup {None}]
        BY DEF TypeOK, Updates
      <4>2. j.id \in Nat /\ "schedule" \in Resources
        BY <3>1, ScheduleAssumption DEF Replays
      <4> QED  BY <3>4, <4>1, <4>2, NewWrite
    <3>5. jobs' \subseteq Jobs
      <4>1. jobs \subseteq Jobs
        BY DEF TypeOK
      <4> QED  BY <3>2, <3>3, <3>4, <4>1, AreJobs
    <3> QED  BY <3>5 DEF page, worker, bounds, TypeOK
  <2>9. CASE ReplayedRequestDone(j)
    <3> USE <2>9 DEF ReplayedRequestDone
    <3>1. j \in Writes
      BY KindOf
    <3>2. \A r \in jobs : r.kind = "replay" =>
            [r EXCEPT !.left = @ \ {j.session},
                      !.phase = IF j.phase = "failed" \/ r.left = {j.session}
                                THEN "load" ELSE "wait"] \in Replays
      BY KindOf DEF Replays
    <3>3. jobs' \subseteq Jobs
      <4>1. jobs \subseteq Jobs
        BY DEF TypeOK
      <4> QED  BY <3>2, <4>1, AreJobs
    <3>4. queue' \in [Sessions -> Updates]
      BY DEF TypeOK, Updates
    <3> QED  BY <3>3, <3>4 DEF page, bounds, TypeOK
  <2> QED  BY <1>10, <2>1, <2>2, <2>3, <2>4, <2>5, <2>6, <2>7, <2>8, <2>9 DEF Proceed
<1> QED
  BY <1>1, <1>2, <1>3, <1>4, <1>5, <1>6, <1>7, <1>8, <1>9, <1>10 DEF Next, User, Work

(***************************************************************************)
(* What a replay waits for                                                 *)
(***************************************************************************)
Waits(r) == r.kind = "replay" /\ r.phase = "wait"

(* Those that wait did so before, and what they wait for is still there.    *)
LEMMA StillAwaited ==
  ASSUME Awaited,
         \A r \in jobs' : Waits(r) => r \in jobs,
         \A w \in jobs : FromReplay(w) =>
           \E v \in jobs' : FromReplay(v) /\ v.id = w.id /\ v.session = w.session
  PROVE  Awaited'
  BY DEF Awaited, Waits

LEMMA AwaitedKept == TypeOK /\ Awaited /\ [Next]_vars => Awaited'
<1> SUFFICES ASSUME TypeOK, Awaited, [Next]_vars PROVE Awaited'
  OBVIOUS
<1>1. CASE UNCHANGED jobs
  BY <1>1, StillAwaited
<1>2. ASSUME NEW u \in Users, SignIn(u) PROVE Awaited'
  <2>1. /\ jobs \subseteq jobs'
        /\ \A r \in jobs' \ jobs : \/ r = Replay(signs + 1)
                                   \/ \E c : r = submitSessionRequest(u, c)
    BY <1>2 DEF SignIn
  <2>2. \A r \in jobs' \ jobs : ~Waits(r)
    BY <2>1 DEF Waits, Replay, open, submitSessionRequest, Write
  <2> QED  BY <2>1, <2>2, StillAwaited
<1>3. CASE Reload
  <2>1. \A r \in jobs' : \/ \E w \in jobs : w.kind = "write" /\ r = [w EXCEPT !.from = "gone"]
                         \/ r.kind = "enqueue"
                         \/ r = Replay(signs + 1)
    BY <1>3 DEF Reload
  <2>2. \A w \in jobs : w.kind = "write" => [w EXCEPT !.from = "gone"].kind = "write"
    BY KindOf DEF Writes
  <2>3. ~Waits(Replay(signs + 1))
    BY DEF Waits, Replay, open
  <2>4. \A r \in jobs' : ~Waits(r)
    BY <2>1, <2>2, <2>3 DEF Waits
  <2> QED  BY <2>4 DEF Awaited, Waits
<1>4. ASSUME NEW s \in Sessions, NEW res \in Resources, Click(res, s) PROVE Awaited'
  <2>1. jobs' = jobs \/ \E c : jobs' = jobs \cup {submitSessionRequest(user, c)}
    BY <1>4 DEF Click
  <2>2. \A c : ~Waits(submitSessionRequest(user, c))
    BY DEF Waits, submitSessionRequest, Write
  <2> QED  BY <2>1, <2>2, StillAwaited
<1>5. CASE DeleteDatabase
  <2> DEFINE f(j) == IF j.phase = "open" THEN [j EXCEPT !.phase = "use"] ELSE j
  <2>1. jobs' = {f(j) : j \in jobs}
    BY <1>5 DEF DeleteDatabase
  <2>2. \A j \in jobs : Waits(f(j)) => f(j) = j
    BY KindOf DEF Waits, Loads, Writes, Enqueues, Replays
  <2>3. \A j \in jobs : FromReplay(j) => f(j) = j
    BY KindOf DEF FromReplay, Writes
  <2> HIDE DEF f
  <2> QED  BY <2>1, <2>2, <2>3, StillAwaited
<1>6. ASSUME NEW j \in jobs, Proceed(j) PROVE Awaited'
  <2>1. CASE loadUserSchedule(j)
    <3>1. jobs' = (jobs \ {j}) \cup cacheThenNetwork /\ ~FromReplay(j)
      BY <2>1 DEF loadUserSchedule, FromReplay
    <3>2. \A l \in cacheThenNetwork : ~Waits(l)
      BY DEF cacheThenNetwork, Load, Waits
    <3> QED  BY <3>1, <3>2, StillAwaited
  <2>2. CASE CachedXhrOnload(j) \/ NetworkFirst(j) \/ FreshXhrOnload(j)
    <3>1. j.kind = "load"
      BY <2>2 DEF CachedXhrOnload, NetworkFirst, FreshXhrOnload
    <3>2. \/ jobs' = jobs \ {j}
          \/ \E c : Becomes(j, [j EXCEPT !.cachedXhr = FALSE, !.cached = c])
          \/ \E c : Becomes(j, [j EXCEPT !.phase = "answered", !.content = c])
          \/ Becomes(j, [j EXCEPT !.phase = "failed"])
      BY <2>2 DEF CachedXhrOnload, NetworkFirst, FreshXhrOnload
    <3>3. \A c : /\ [j EXCEPT !.cachedXhr = FALSE, !.cached = c].kind = "load"
                 /\ [j EXCEPT !.phase = "answered", !.content = c].kind = "load"
                 /\ [j EXCEPT !.phase = "failed"].kind = "load"
      BY <3>1, KindOf DEF Loads
    <3>4. jobs \ {j} \subseteq jobs' /\ \A r \in jobs' \ jobs : r.kind = "load"
      BY <3>2, <3>3 DEF Becomes
    <3> QED  BY <3>1, <3>4, StillAwaited DEF Waits, FromReplay
  <2>3. CASE handleSessionUpdateRequest(j)
    <3>1. j.kind = "write" /\ j \in Writes
      BY <2>3, KindOf DEF handleSessionUpdateRequest
    <3>2. \E outcome \in {"ok", "failed"} :
            \/ jobs' = (jobs \ {j}) \cup Answer(j, outcome)
            \/ jobs' = (jobs \ {j}) \cup Answer(j, outcome) \cup {Enqueue(j)}
      BY <2>3 DEF handleSessionUpdateRequest
    <3>3. PICK outcome \in {"ok", "failed"} :
            \/ jobs' = (jobs \ {j}) \cup Answer(j, outcome)
            \/ jobs' = (jobs \ {j}) \cup Answer(j, outcome) \cup {Enqueue(j)}
      BY <3>2
    <3>4. \A a \in Answer(j, outcome) : ~Waits(a)
      BY <3>1 DEF Answer, Writes, Waits
    <3>5. ~Waits(Enqueue(j))
      BY DEF Enqueue, Waits
    <3>6. FromReplay(j) => \E v \in Answer(j, outcome) :
            FromReplay(v) /\ v.id = j.id /\ v.session = j.session
      BY <3>1 DEF Answer, FromReplay, Writes
    <3>7. \A r \in jobs' : Waits(r) => r \in jobs
      BY <3>3, <3>4, <3>5
    <3>8. \A w \in jobs : FromReplay(w) =>
            \E v \in jobs' : FromReplay(v) /\ v.id = w.id /\ v.session = w.session
      BY <3>3, <3>6
    <3> QED  BY <3>7, <3>8, StillAwaited
  <2>4. CASE SessionRequestDone(j) \/ queueFailedSessionUpdateRequest(j)
    <3>1. jobs' = jobs \ {j} /\ ~FromReplay(j)
      BY <2>4 DEF SessionRequestDone, queueFailedSessionUpdateRequest, FromReplay
    <3> QED  BY <3>1, StillAwaited
  <2>5. CASE replayQueuedRequests(j)
    <3> DEFINE queued == {s \in Sessions : queue[s] # NoUpdate}
               new(s) == Write(user, "schedule", s, queue[s].method, queue[s].owner,
                               "replay", j.id)
               r1 == [j EXCEPT !.phase = "load"]
               r2 == [j EXCEPT !.phase = "wait", !.left = queued]
    <3>1. j \in Replays /\ ~FromReplay(j)
      BY <2>5, KindOf DEF replayQueuedRequests, FromReplay
    <3>2. \/ jobs' = (jobs \ {j}) \cup {r1}
          \/ /\ queued # {}
             /\ jobs' = (jobs \ {j}) \cup ({r2} \cup {new(s) : s \in queued})
      BY <2>5 DEF replayQueuedRequests
    <3>3. ~Waits(r1)
      BY <3>1 DEF Waits, Replays
    <3>4. r2.left = queued /\ r2.id = j.id
      BY <3>1 DEF Replays
    <3>5. \A s : FromReplay(new(s)) /\ new(s).id = j.id /\ new(s).session = s /\ ~Waits(new(s))
      BY DEF Write, FromReplay, Waits
    <3>6. CASE jobs' = (jobs \ {j}) \cup {r1}
      BY <3>1, <3>3, <3>6, StillAwaited
    <3>7. CASE queued # {} /\ jobs' = (jobs \ {j}) \cup ({r2} \cup {new(s) : s \in queued})
      <4> HIDE DEF queued, new, r2
      <4>1. ASSUME NEW r \in jobs', Waits(r), r # r2
            PROVE  r.left # {} /\ \A s \in r.left :
                     \E w \in jobs' : FromReplay(w) /\ w.id = r.id /\ w.session = s
        <5>1. r \in jobs
          BY <3>7, <3>5, <4>1
        <5> QED  BY <3>1, <3>7, <4>1, <5>1 DEF Awaited, Waits
      <4>2. r2.left # {} /\ \A s \in r2.left :
              \E w \in jobs' : FromReplay(w) /\ w.id = r2.id /\ w.session = s
        BY <3>4, <3>5, <3>7
      <4> QED  BY <4>1, <4>2 DEF Awaited, Waits
    <3> QED  BY <3>2, <3>6, <3>7
  <2>6. CASE ReplayedRequestDone(j)
    <3> DEFINE done(r) == [r EXCEPT !.left = @ \ {j.session},
                             !.phase = IF j.phase = "failed" \/ r.left = {j.session}
                                       THEN "load" ELSE "wait"]
               f(r) == IF r.kind = "replay" /\ r.id = j.id /\ r.phase = "wait"
                       THEN done(r) ELSE r
    <3>1. FromReplay(j) /\ jobs' = {f(r) : r \in jobs \ {j}}
      BY <2>6 DEF ReplayedRequestDone, FromReplay
    <3>2. ASSUME NEW r \in jobs, Waits(f(r))
          PROVE  /\ Waits(r) /\ f(r).id = r.id
                 /\ f(r).left = IF r.id = j.id THEN r.left \ {j.session} ELSE r.left
                 /\ r.id = j.id => r.left # {j.session}
      <4>1. CASE r.kind = "replay" /\ r.id = j.id /\ r.phase = "wait"
        BY <3>2, <4>1, KindOf DEF Waits, Replays
      <4>2. CASE ~(r.kind = "replay" /\ r.id = j.id /\ r.phase = "wait")
        BY <3>2, <4>2 DEF Waits
      <4> QED  BY <4>1, <4>2
    <3>3. \A w \in jobs : FromReplay(w) => f(w) = w
      BY DEF FromReplay
    <3> HIDE DEF f
    <3>4. ASSUME NEW r \in jobs \ {j}, Waits(f(r))
          PROVE  f(r).left # {} /\ \A s \in f(r).left :
                   \E w \in jobs' : FromReplay(w) /\ w.id = f(r).id /\ w.session = s
      <4>1. r.left # {} /\ \A s \in r.left :
              \E w \in jobs : FromReplay(w) /\ w.id = r.id /\ w.session = s
        BY <3>2, <3>4 DEF Awaited, Waits
      <4>2. \A w \in jobs : FromReplay(w) /\ w # j => w \in jobs'
        BY <3>1, <3>3
      <4>3. \A s \in f(r).left : s \in r.left /\ (r.id = j.id => s # j.session)
        BY <3>2, <3>4
      <4>4. \A s \in f(r).left :
              \E w \in jobs' : FromReplay(w) /\ w.id = f(r).id /\ w.session = s
        BY <3>2, <3>4, <4>1, <4>2, <4>3
      <4>5. r.left # {j.session} => r.left \ {j.session} # {}
        BY <4>1
      <4>6. f(r).left # {}
        BY <3>2, <3>4, <4>1, <4>5
      <4> QED  BY <4>4, <4>6
    <3> QED  BY <3>1, <3>4 DEF Awaited, Waits
  <2> QED  BY <1>6, <2>1, <2>2, <2>3, <2>4, <2>5, <2>6 DEF Proceed
<1>7. CASE UNCHANGED vars \/ resolveSchedulePromise \/ SignOut \/ Collect
             \/ \E s \in Sessions : openSession(s)
  BY <1>1, <1>7 DEF vars, resolveSchedulePromise, SignOut, Collect, openSession
<1> QED
  BY <1>2, <1>3, <1>4, <1>5, <1>6, <1>7 DEF Next, User, Work

(***************************************************************************)
(* While nothing overlaps                                                  *)
(***************************************************************************)
ReplayRuns    == \E r \in jobs : r.kind = "replay"
ScheduleLoads == \E l \in jobs : l.kind = "load" /\ l.res = "schedule"
FromPage(j)   == j.kind = "write" /\ j.from = "page"

(* Who works at the same time.                                              *)
Alone ==
  /\ \A j \in jobs : j.kind = "write" => j.from \in {"page", "replay"}
  /\ \A j, k \in jobs :
       /\ j.kind = "replay" /\ k # j => k.kind = "enqueue" \/ FromReplay(k)
       /\ FromPage(j) /\ k # j => k.kind = "enqueue"
       /\ j.kind = "load" /\ k.kind = "load" /\ j.res = k.res => j = k

(* Everything is the user's: what is under way, and what is queued unless   *)
(* the queue is about to go.                                                *)
Owned ==
  /\ \A j \in jobs :
       /\ user # None
       /\ j.kind \in {"load", "write"} => j.user = user
       /\ j.kind \in {"write", "enqueue"} => j.owner = user
  /\ ~deleting => \A s \in Sessions :
       queue[s] # NoUpdate => user # None /\ queue[s].owner = user

(* While it is, nothing but a replay is under way, and that waits.          *)
Blocked ==
  /\ deleting /\ user # None => ReplayRuns
  /\ \A j \in jobs : deleting <=> j.phase = "open"

(* The page knows nothing before the schedule is there, and when nobody is  *)
(* signed in.                                                               *)
Unknown ==
  /\ user = None \/ ~master => shown["schedule"] = {}
  /\ user = None \/ ~master \/ ReplayRuns => cache["schedule"] = {}
  /\ ~master => \A j \in jobs : j.kind # "load" /\ ~FromPage(j)

(* What the worker had in its cache is shown; and while the schedule is     *)
(* loaded the server's is not changed.                                      *)
LoadsOK ==
  \A l \in jobs : l.kind = "load" /\ l.res = "schedule" =>
    /\ l.cached \subseteq {shown["schedule"]}
    /\ ~unloaded =>
         /\ l.phase # "failed" /\ ~ \E w \in jobs : w.kind = "write"
         /\ l.phase = "answered" => l.content = server[user]["schedule"]

(* A click is of the session that is selected, and its answer is true.      *)
ClicksOK ==
  \A w \in jobs : FromPage(w) =>
    /\ w.session = selected
    /\ w.res = "schedule" /\ w.phase = "ok" =>
         (w.method = "PUT" <=> w.session \in server[user]["schedule"])

(* A session is marked as the server has it, or will be sent again, or the  *)
(* answer to a click is about to mark it.                                   *)
Queued(s)  == \/ queue[s] # NoUpdate
              \/ \E e \in jobs : e.kind = "enqueue" /\ e.session = s
Marked(s)  == s \in shown["schedule"] <=> s \in server[user]["schedule"]
Clicked(s) == \E w \in jobs : /\ FromPage(w) /\ w.res = "schedule"
                              /\ w.session = s /\ w.phase = "ok"

MarksOK ==
  user # None /\ ~unloaded =>
    /\ Replaying => ReplayRuns
    /\ \/ ReplayRuns \/ ScheduleLoads
       \/ \A s \in Sessions : Queued(s) \/ Marked(s) \/ Clicked(s)

Orderly == Alone /\ Owned /\ Blocked /\ Unknown /\ LoadsOK /\ ClicksOK /\ MarksOK

LEMMA InitOrderly == Init => Orderly
<1> SUFFICES ASSUME Init PROVE Orderly
  OBVIOUS
<1>1. \A j \in jobs : /\ user # None /\ j.kind = "replay" /\ j.phase = "use"
                      /\ j = [Replay(0) EXCEPT !.phase = "use"]
  BY DEF Init, Replay
<1>2. user # None => ReplayRuns
  BY DEF Init, ReplayRuns, Replay
<1>3. Alone
  BY <1>1 DEF Alone, FromPage
<1>4. Owned
  <2>1. \A s \in Sessions : queue[s] # NoUpdate => user # None /\ queue[s].owner = user
    BY DEF Init
  <2> QED  BY <1>1, <2>1 DEF Owned
<1>5. Blocked
  BY <1>1 DEF Blocked, Init
<1>6. shown["schedule"] = {} /\ cache["schedule"] = {}
  BY ScheduleAssumption DEF Init
<1>7. Unknown /\ LoadsOK /\ ClicksOK
  BY <1>1, <1>6 DEF Unknown, LoadsOK, ClicksOK, FromPage
<1>8. MarksOK
  BY <1>2 DEF MarksOK
<1> QED
  BY <1>3, <1>4, <1>5, <1>7, <1>8 DEF Orderly

(***************************************************************************)
(* The user                                                                *)
(***************************************************************************)
(* What the user does does not overlap only if nothing is under way.        *)
LEMMA SignInOrderly ==
  ASSUME TypeOK, Orderly, NEW u \in Users, SignIn(u), ~overlapped'
  PROVE  Orderly'
<1>1. jobs = {} /\ waiting = {} /\ user = None
  BY DEF SignIn, Busy
<1>2. jobs' = {Replay(signs + 1)} /\ user' = u /\ user' # None
  BY <1>1, ScheduleAssumption DEF SignIn
<1>3. UNCHANGED <<server, master, cache, shown, selected, queue, deleting>>
  BY DEF SignIn, worker
<1>4. \A j \in jobs' : j.kind = "replay" /\ j.phase = open
  BY <1>2 DEF Replay
<1>5. ReplayRuns'
  BY <1>2, <1>4 DEF ReplayRuns
<1>6. Alone'
  BY <1>2, <1>4 DEF Alone, FromPage
<1>7. Owned'
  BY <1>1, <1>2, <1>3, <1>4 DEF Owned, Orderly
<1>8. Blocked'
  BY <1>3, <1>4, <1>5 DEF Blocked, open
<1>9. Unknown'
  BY <1>1, <1>3, <1>4 DEF Unknown, FromPage, Orderly
<1>10. LoadsOK' /\ ClicksOK' /\ MarksOK'
  BY <1>4, <1>5 DEF LoadsOK, ClicksOK, MarksOK, FromPage
<1> QED
  BY <1>6, <1>7, <1>8, <1>9, <1>10 DEF Orderly

LEMMA SignOutOrderly ==
  ASSUME TypeOK, Orderly, SignOut, ~overlapped'
  PROVE  Orderly'
<1>1. jobs = {} /\ jobs' = {} /\ user' = None /\ deleting' = TRUE /\ master' = master
  BY DEF SignOut, Busy
<1>2. "schedule" \in Resources
  BY ScheduleAssumption
<1>3. shown'["schedule"] = {} /\ cache'["schedule"] = {}
  <2>1. CASE master
    BY <1>2, <2>1 DEF SignOut, TypeOK
  <2>2. CASE ~master
    BY <2>2 DEF SignOut, Orderly, Unknown
  <2> QED  BY <2>1, <2>2
<1>4. Alone' /\ Owned' /\ Blocked' /\ Unknown' /\ LoadsOK' /\ ClicksOK'
  BY <1>1, <1>3 DEF Alone, Owned, Blocked, Unknown, LoadsOK, ClicksOK
<1>5. MarksOK'
  BY <1>1 DEF MarksOK
<1> QED
  BY <1>4, <1>5 DEF Orderly

LEMMA ReloadOrderly ==
  ASSUME TypeOK, Orderly, Reload, ~overlapped'
  PROVE  Orderly'
<1>1. jobs = {}
  BY DEF Reload, Busy
<1>2. /\ jobs' = IF user = None THEN {} ELSE {Replay(signs + 1)}
      /\ UNCHANGED <<user, queue, deleting>>
  BY <1>1 DEF Reload, worker
<1>3. shown'["schedule"] = {} /\ cache'["schedule"] = {}
  BY ScheduleAssumption DEF Reload
<1>4. \A j \in jobs' : user' # None /\ j.kind = "replay" /\ j.phase = open
  BY <1>2 DEF Replay
<1>5. user' # None => ReplayRuns'
  BY <1>2, <1>4 DEF ReplayRuns
<1>6. Alone'
  BY <1>2, <1>4 DEF Alone, FromPage
<1>7. Owned'
  BY <1>2, <1>4 DEF Owned, Orderly
<1>8. Blocked'
  BY <1>2, <1>4, <1>5 DEF Blocked, open
<1>9. Unknown'
  BY <1>3, <1>4 DEF Unknown, FromPage
<1>10. LoadsOK' /\ ClicksOK' /\ MarksOK'
  BY <1>4, <1>5 DEF LoadsOK, ClicksOK, MarksOK, FromPage
<1> QED
  BY <1>6, <1>7, <1>8, <1>9, <1>10 DEF Orderly

(* A click that waits for a sign-in, or only shows a session.               *)
LEMMA NothingSentOrderly ==
  ASSUME Orderly, jobs = {}, jobs' = {},
         UNCHANGED <<server, user, master, cache, shown, queue, deleting, unloaded>>
  PROVE  Orderly'
<1> USE DEF Orderly
<1>1. Alone' /\ LoadsOK' /\ ClicksOK'
  BY DEF Alone, LoadsOK, ClicksOK
<1>2. Owned' /\ Blocked' /\ Unknown'
  BY DEF Owned, Blocked, Unknown, ReplayRuns
<1>3. MarksOK'
  BY DEF MarksOK, ReplayRuns, ScheduleLoads, Replaying, Queued, Marked, Clicked
<1> QED
  BY <1>1, <1>2, <1>3

LEMMA ClickOrderly ==
  ASSUME TypeOK, Orderly, NEW s \in Sessions, NEW res \in Resources, Click(res, s),
         ~overlapped'
  PROVE  Orderly'
<1>1. jobs = {} /\ master
  BY DEF Click, Busy
<1>2. /\ selected' = s
      /\ UNCHANGED <<server, user, master, cache, shown, queue, deleting, unloaded>>
  BY DEF Click, worker
<1>3. CASE user = None
  BY <1>1, <1>2, <1>3, NothingSentOrderly DEF Click
<1>4. CASE user # None
  <2>1. PICK w : /\ jobs' = {w} /\ w.kind = "write" /\ w.from = "page" /\ w.phase = "sent"
                 /\ w.user = user /\ w.owner = user /\ w.session = s
    <3> DEFINE change == [res |-> res, session |-> s, owner |-> user, id |-> changes,
                          method |-> IF res = "schedule" /\ s \in shown["schedule"]
                                     THEN "DELETE" ELSE "PUT"]
    <3>1. jobs' = {submitSessionRequest(user, change)}
      BY <1>1, <1>4 DEF Click
    <3> DEFINE w == submitSessionRequest(user, change)
    <3>2. /\ w.kind = "write" /\ w.from = "page" /\ w.phase = "sent"
          /\ w.user = user /\ w.owner = user /\ w.session = s
      BY DEF submitSessionRequest, Write
    <3> HIDE DEF w
    <3> QED  BY <3>1, <3>2 DEF w
  <2>2. ~ReplayRuns /\ ~ScheduleLoads /\ deleting = FALSE
    BY <1>1, <1>4 DEF ReplayRuns, ScheduleLoads, Orderly, Blocked, TypeOK
  <2>3. Alone'
    BY <2>1 DEF Alone, FromPage
  <2>4. Owned'
    BY <1>2, <1>4, <2>1 DEF Owned, Orderly
  <2>5. Blocked'
    BY <1>2, <2>1, <2>2 DEF Blocked
  <2>6. Unknown'
    BY <1>1, <1>2, <1>4, <2>1 DEF Unknown, ReplayRuns
  <2>7. LoadsOK' /\ ClicksOK'
    BY <1>2, <2>1 DEF LoadsOK, ClicksOK
  <2>8. MarksOK'
    <3>1. ASSUME ~unloaded, NEW t \in Sessions
          PROVE  Queued(t)' \/ Marked(t)'
      <4>1. Queued(t) \/ Marked(t)
        BY <1>1, <1>4, <2>2, <3>1 DEF Orderly, MarksOK, Clicked
      <4> QED  BY <1>1, <1>2, <4>1 DEF Queued, Marked
    <3> QED  BY <1>2, <2>1, <3>1 DEF MarksOK, Replaying, FromReplay
  <2> QED  BY <2>3, <2>4, <2>5, <2>6, <2>7, <2>8 DEF Orderly
<1> QED
  BY <1>3, <1>4

(***************************************************************************)
(* The page loads                                                          *)
(***************************************************************************)
LEMMA LoadOrderly ==
  ASSUME TypeOK, Orderly, NEW r \in jobs, loadUserSchedule(r)
  PROVE  Orderly'
<1> USE DEF Orderly
<1>1. /\ r.kind = "replay" /\ r.phase = "load" /\ master
      /\ jobs' = (jobs \ {r}) \cup cacheThenNetwork
      /\ UNCHANGED <<server, user, master, cache, queue, deleting>>
  BY DEF loadUserSchedule, worker
<1>2. user # None /\ ~deleting /\ cache["schedule"] = {} /\ "schedule" \in Resources
  BY <1>1, ScheduleAssumption DEF Owned, Blocked, Unknown, ReplayRuns
<1>3. \A j \in jobs \ {r} : j.kind = "enqueue" \/ FromReplay(j)
  BY <1>1 DEF Alone
<1>4. cacheThenNetwork = {Load(user, res) : res \in Missing} /\ "schedule" \in Missing
  BY <1>2 DEF cacheThenNetwork, Missing
<1>5. \A res : /\ Load(user, res).kind = "load" /\ Load(user, res).res = res
               /\ Load(user, res).user = user /\ Load(user, res).phase = "sent"
               /\ Load(user, res).cached = {}
  BY DEF Load
<1>6. Alone'
  BY <1>1, <1>3, <1>4, <1>5 DEF Alone, FromPage, FromReplay
<1>7. Owned'
  BY <1>1, <1>4, <1>5 DEF Owned
<1>8. ~ReplayRuns' /\ ScheduleLoads'
  BY <1>1, <1>3, <1>4, <1>5 DEF ReplayRuns, ScheduleLoads, FromReplay
<1>9. Blocked'
  BY <1>1, <1>2, <1>4, <1>5 DEF Blocked
<1>10. Unknown'
  BY <1>1, <1>2, <1>8 DEF Unknown
<1>11. ~unloaded' => ~ \E w \in jobs' : w.kind = "write"
  BY <1>1, <1>3, <1>4, <1>5 DEF loadUserSchedule, Replaying
<1>12. LoadsOK'
  BY <1>1, <1>3, <1>4, <1>5, <1>11 DEF LoadsOK, FromReplay
<1>13. ClicksOK'
  BY <1>1, <1>3, <1>4, <1>5 DEF ClicksOK, FromPage, FromReplay
<1>14. MarksOK'
  BY <1>8, <1>11 DEF MarksOK, Replaying, FromReplay
<1> QED
  BY <1>6, <1>7, <1>9, <1>10, <1>12, <1>13, <1>14

(* While anything loads, somebody is signed in, the schedule is there, and  *)
(* neither a replay nor a click is under way.                               *)
LEMMA WhileLoading ==
  ASSUME TypeOK, Orderly, NEW l \in jobs, l.kind = "load"
  PROVE  /\ l \in Loads /\ user # None /\ l.user = user /\ master
         /\ ~deleting
         /\ \A j \in jobs : j.kind # "replay" /\ ~FromPage(j)
<1>1. l \in Loads
  BY KindOf
<1>2. master
  BY DEF Orderly, Unknown
<1>3. ~deleting
  BY <1>1 DEF Orderly, Blocked, Loads
<1>4. user # None /\ l.user = user
  BY DEF Orderly, Owned
<1>5. \A j \in jobs : j.kind # "replay" /\ ~FromPage(j)
  BY DEF Orderly, Alone, FromPage, FromReplay
<1> QED
  BY <1>1, <1>2, <1>3, <1>4, <1>5

(* A load goes on as new, or ends.                                          *)
LEMMA LoadGoesOn ==
  ASSUME TypeOK, Orderly, NEW l \in jobs, l.kind = "load",
         NEW new, new.kind = "load", new.res = l.res, new.user = l.user,
         new.phase # "open",
         jobs' = jobs \ {l} \/ Becomes(l, new),
         UNCHANGED <<user, master, queue, deleting>>
  PROVE  /\ (Alone /\ Owned /\ Blocked /\ Unknown)'
         /\ \A j \in jobs' : /\ j.kind # "replay" /\ ~FromPage(j)
                             /\ j.kind = "load" /\ j # new => j \in jobs /\ j.res # l.res
         /\ \A j : j.kind # "load" => (j \in jobs' <=> j \in jobs)
<1> USE DEF Orderly
<1>1. /\ user # None /\ l.user = user /\ master /\ ~deleting
      /\ \A j \in jobs : j.kind # "replay" /\ ~FromPage(j)
  BY WhileLoading
<1>2. \A j \in jobs' : j \in jobs \ {l} \/ j = new
  BY DEF Becomes
<1>3. \A j \in jobs' : /\ j.kind # "replay" /\ ~FromPage(j)
                       /\ j.kind = "load" /\ j # new => j \in jobs /\ j.res # l.res
  BY <1>1, <1>2 DEF Alone, FromPage
<1>4. Alone'
  <2>1. \A j \in jobs' : j.kind = "write" => j.from \in {"page", "replay"}
    BY <1>2 DEF Alone
  <2>2. \A j, k \in jobs' : j.kind = "load" /\ k.kind = "load" /\ j.res = k.res => j = k
    BY <1>2, <1>3 DEF Alone
  <2> QED  BY <1>3, <2>1, <2>2 DEF Alone, FromPage, FromReplay
<1>5. Owned'
  BY <1>1, <1>2 DEF Owned
<1>6. Blocked'
  BY <1>1, <1>2 DEF Blocked
<1>7. Unknown'
  BY <1>1, <1>3 DEF Unknown, ReplayRuns
<1>8. \A j : j.kind # "load" => (j \in jobs' <=> j \in jobs)
  BY DEF Becomes
<1> QED
  BY <1>3, <1>4, <1>5, <1>6, <1>7, <1>8

LEMMA CachedOrderly ==
  ASSUME TypeOK, Orderly, NEW l \in jobs, CachedXhrOnload(l)
  PROVE  Orderly'
<1> USE DEF Orderly
<1> DEFINE new == [l EXCEPT !.cachedXhr = FALSE, !.cached = swCache[l.res]]
<1>1. /\ l.kind = "load"
      /\ UNCHANGED <<server, user, master, queue, deleting, unloaded>>
      /\ l.phase = "failed" => jobs' = jobs \ {l}
      /\ l.phase # "failed" => jobs' = (jobs \ {l}) \cup {new}
  BY DEF CachedXhrOnload, worker, Becomes
<1>2. l \in Loads /\ user # None
  BY <1>1, WhileLoading
<1>3. /\ new.kind = "load" /\ new.res = l.res /\ new.user = l.user /\ new.phase = l.phase
      /\ new.cached = swCache[l.res] /\ new.content = l.content /\ l.phase # "open"
  BY <1>1, <1>2 DEF Loads
<1> HIDE DEF new
<1>4. /\ (Alone /\ Owned /\ Blocked /\ Unknown)'
      /\ \A j \in jobs' : /\ j.kind # "replay" /\ ~FromPage(j)
                          /\ j.kind = "load" /\ j # new => j \in jobs /\ j.res # l.res
      /\ \A j : j.kind # "load" => (j \in jobs' <=> j \in jobs)
  BY <1>1, <1>3, LoadGoesOn DEF Becomes
<1> HIDE DEF Orderly
<1>a. /\ LoadsOK /\ MarksOK
  BY DEF Orderly
<1>5. l.res # "schedule" => shown'["schedule"] = shown["schedule"]
  <2>1. l.res \in Resources /\ shown \in [Resources -> SUBSET Sessions]
    BY <1>2 DEF Loads, TypeOK
  <2>2. \A c : display(l.res, c) => shown' = [shown EXCEPT ![l.res] = c]
    BY DEF display
  <2>3. shown' = shown \/ \E c : shown' = [shown EXCEPT ![l.res] = c]
    BY <2>2 DEF CachedXhrOnload
  <2> QED  BY <2>1, <2>3, ScheduleAssumption
<1>6. l.res = "schedule" => swCache["schedule"] \subseteq {shown'["schedule"]}
  <2>1. "schedule" \in Resources
    BY ScheduleAssumption
  <2>2. \A a, b \in swCache["schedule"] : a = b
    BY <2>1 DEF TypeOK
  <2>3. \A c : display("schedule", c) => shown'["schedule"] = c
    BY <2>1 DEF display, TypeOK
  <2>4. ASSUME l.res = "schedule", swCache["schedule"] # {}
        PROVE  \E c \in swCache["schedule"] : shown'["schedule"] = c
    BY <2>3, <2>4 DEF CachedXhrOnload
  <2> QED  BY <2>2, <2>4
<1>7. LoadsOK'
  <2>1. ASSUME NEW j \in jobs', j.kind = "load", j.res = "schedule"
        PROVE  j.cached \subseteq {shown'["schedule"]}
    BY <1>1, <1>3, <1>4, <1>5, <1>6, <1>a, <2>1 DEF LoadsOK
  <2>2. ASSUME NEW j \in jobs', j.kind = "load", j.res = "schedule", ~unloaded'
        PROVE  /\ j.phase # "failed" /\ ~ \E w \in jobs' : w.kind = "write"
               /\ j.phase = "answered" => j.content = (server[user]["schedule"])'
    <3>1. j \in jobs \/ (j = new /\ l.res = "schedule")
      BY <1>3, <1>4, <2>2
    <3>2. /\ j.phase # "failed" /\ ~ \E w \in jobs : w.kind = "write"
          /\ j.phase = "answered" => j.content = server[user]["schedule"]
      BY <1>1, <1>3, <2>2, <3>1, <1>a DEF LoadsOK
    <3> QED  BY <1>1, <1>4, <3>2
  <2> QED  BY <2>1, <2>2 DEF LoadsOK
<1>8. ClicksOK'
  BY <1>4 DEF ClicksOK
<1>9. MarksOK'
  <2> SUFFICES ASSUME ~unloaded PROVE MarksOK'
    BY <1>1 DEF MarksOK
  <2>1. ~ReplayRuns /\ ~ReplayRuns' /\ (Replaying' <=> Replaying)
    BY <1>1, <1>4, WhileLoading DEF ReplayRuns, Replaying, FromReplay
  <2>2. CASE l.res = "schedule"
    <3>1. l.phase # "failed"
      BY <1>1, <1>a, <2>2 DEF LoadsOK
    <3>2. ScheduleLoads'
      BY <1>1, <1>3, <2>2, <3>1 DEF ScheduleLoads
    <3> QED  BY <1>1, <1>2, <2>1, <3>2, <1>a DEF MarksOK
  <2>3. CASE l.res # "schedule"
    <3>1. ScheduleLoads => ScheduleLoads'
      BY <1>1, <2>3 DEF ScheduleLoads
    <3>2. \A s : Queued(s)' <=> Queued(s)
      BY <1>1, <1>4 DEF Queued
    <3>3. \A s : Clicked(s)' <=> Clicked(s)
      BY <1>1, <1>4, WhileLoading DEF Clicked
    <3>4. \A s : Marked(s)' <=> Marked(s)
      BY <1>1, <1>5, <2>3 DEF Marked
    <3> QED  BY <1>1, <1>2, <2>1, <3>1, <3>2, <3>3, <3>4, <1>a DEF MarksOK
  <2> QED  BY <2>2, <2>3
<1> QED
  BY <1>4, <1>7, <1>8, <1>9 DEF Orderly

LEMMA NetworkOrderly ==
  ASSUME TypeOK, Orderly, NEW l \in jobs, NetworkFirst(l)
  PROVE  Orderly'
<1>1. /\ l.kind = "load" /\ l.phase = "sent"
      /\ UNCHANGED <<server, user, master, cache, shown, queue, deleting>>
  BY DEF NetworkFirst, page
<1>2. l \in Loads /\ user # None /\ l.user = user
  BY <1>1, WhileLoading
<1>3. PICK new : /\ jobs' = jobs \ {l} \/ Becomes(l, new)
                 /\ \/ new.phase = "answered"
                    \/ new.phase = "failed"
                 /\ new.kind = "load" /\ new.res = l.res /\ new.user = l.user
                 /\ new.cached = l.cached
                 /\ ~unloaded' => /\ Becomes(l, new) /\ new.phase = "answered"
                                  /\ new.content = server[l.user][l.res]
  <2> DEFINE a(c) == [l EXCEPT !.phase = "answered", !.content = c]
             f == [l EXCEPT !.phase = "failed"]
  <2>1. /\ \A c : /\ a(c).phase = "answered" /\ a(c).kind = "load" /\ a(c).res = l.res
                  /\ a(c).user = l.user /\ a(c).cached = l.cached /\ a(c).content = c
        /\ f.phase = "failed" /\ f.kind = "load" /\ f.res = l.res /\ f.user = l.user
        /\ f.cached = l.cached
    BY <1>1, <1>2 DEF Loads
  <2>2. \/ Becomes(l, a(server[l.user][l.res]))
        \/ unloaded' /\ \/ \E c : Becomes(l, a(c))
                        \/ Becomes(l, f)
                        \/ jobs' = jobs \ {l}
    BY DEF NetworkFirst
  <2> HIDE DEF a, f
  <2> QED  BY <2>1, <2>2
<1>4. new.phase # "open" /\ new.phase # "sent"
  BY <1>3
<1>5. /\ (Alone /\ Owned /\ Blocked /\ Unknown)'
      /\ \A j \in jobs' : /\ j.kind # "replay" /\ ~FromPage(j)
                          /\ j.kind = "load" /\ j # new => j \in jobs /\ j.res # l.res
      /\ \A j : j.kind # "load" => (j \in jobs' <=> j \in jobs)
  BY <1>1, <1>3, <1>4, LoadGoesOn
<1>6. LoadsOK /\ MarksOK /\ (~unloaded' => ~unloaded)
  <2>1. UNCHANGED unloaded \/ unloaded'
    BY DEF NetworkFirst
  <2> QED  BY <2>1 DEF Orderly
<1>7. LoadsOK'
  <2>1. ASSUME NEW j \in jobs', j.kind = "load", j.res = "schedule"
        PROVE  j.cached \subseteq {shown'["schedule"]}
    BY <1>1, <1>3, <1>5, <1>6, <2>1 DEF LoadsOK
  <2>2. ASSUME NEW j \in jobs', j.kind = "load", j.res = "schedule", ~unloaded'
        PROVE  /\ j.phase # "failed" /\ ~ \E w \in jobs' : w.kind = "write"
               /\ j.phase = "answered" => j.content = (server[user]["schedule"])'
    <3>1. CASE j = new
      <4>1. l.res = "schedule"
        BY <1>3, <2>2, <3>1
      <4>2. ~ \E w \in jobs' : w.kind = "write"
        BY <1>1, <1>5, <1>6, <2>2, <4>1 DEF LoadsOK
      <4> QED  BY <1>1, <1>2, <1>3, <2>2, <3>1, <4>1, <4>2
    <3>2. CASE j # new
      BY <1>1, <1>5, <1>6, <2>2, <3>2 DEF LoadsOK
    <3> QED  BY <3>1, <3>2
  <2> QED  BY <2>1, <2>2 DEF LoadsOK
<1>8. ClicksOK'
  BY <1>5 DEF ClicksOK
<1>9. MarksOK'
  <2> SUFFICES ASSUME ~unloaded' PROVE MarksOK'
    BY DEF MarksOK
  <2>1. ~ReplayRuns /\ ~ReplayRuns' /\ (Replaying' <=> Replaying)
    BY <1>1, <1>5, WhileLoading DEF ReplayRuns, Replaying, FromReplay
  <2>2. ScheduleLoads => ScheduleLoads'
    BY <1>3 DEF ScheduleLoads, Becomes
  <2>3. \A s : (Queued(s)' <=> Queued(s)) /\ (Marked(s)' <=> Marked(s))
    BY <1>1, <1>5 DEF Queued, Marked
  <2>4. \A s : Clicked(s)' <=> Clicked(s)
    BY <1>1, <1>5, WhileLoading DEF Clicked
  <2> QED  BY <1>1, <1>2, <1>6, <2>1, <2>2, <2>3, <2>4 DEF MarksOK
<1> QED
  BY <1>5, <1>7, <1>8, <1>9 DEF Orderly

LEMMA FreshOrderly ==
  ASSUME TypeOK, Orderly, NEW l \in jobs, FreshXhrOnload(l)
  PROVE  Orderly'
<1>1. /\ l.kind = "load" /\ l.phase = "answered" /\ jobs' = jobs \ {l}
      /\ UNCHANGED <<server, user, master, queue, deleting, unloaded>>
  BY DEF FreshXhrOnload, worker
<1>2. l \in Loads /\ user # None /\ l.user = user
  BY <1>1, WhileLoading
<1>3. /\ (Alone /\ Owned /\ Blocked /\ Unknown)'
      /\ \A j \in jobs' : /\ j.kind # "replay" /\ ~FromPage(j)
                          /\ j.kind = "load" => j \in jobs /\ j.res # l.res
      /\ \A j : j.kind # "load" => (j \in jobs' <=> j \in jobs)
  <2>1. l \notin jobs' /\ l.phase # "open"
    BY <1>1
  <2> QED  BY <1>1, <2>1, LoadGoesOn
<1>4. LoadsOK /\ MarksOK
  BY DEF Orderly
<1>5. /\ l.res = "schedule" => shown'["schedule"] = l.content
      /\ l.res # "schedule" => shown'["schedule"] = shown["schedule"]
  <2>1. l.res \in Resources /\ shown \in [Resources -> SUBSET Sessions]
    BY <1>2 DEF Loads, TypeOK
  <2>2. CASE l.content \in l.cached
    <3>1. l.res = "schedule" => l.content = shown["schedule"]
      BY <1>1, <1>4, <2>2 DEF LoadsOK
    <3> QED  BY <2>2, <3>1 DEF FreshXhrOnload
  <2>3. CASE l.content \notin l.cached
    BY <2>1, <2>3, ScheduleAssumption DEF FreshXhrOnload, display
  <2> QED  BY <2>2, <2>3
<1>6. LoadsOK'
  BY <1>1, <1>3, <1>4, <1>5 DEF LoadsOK
<1>7. ClicksOK'
  BY <1>3 DEF ClicksOK
<1>8. MarksOK'
  <2> SUFFICES ASSUME ~unloaded PROVE MarksOK'
    BY <1>1 DEF MarksOK
  <2>1. ~ReplayRuns /\ ~ReplayRuns' /\ (Replaying' <=> Replaying)
    BY <1>1, <1>3, WhileLoading DEF ReplayRuns, Replaying, FromReplay
  <2>2. CASE l.res = "schedule"
    <3>1. l.content = server[user]["schedule"]
      BY <1>1, <1>4, <2>2 DEF LoadsOK
    <3>2. \A s : Marked(s)'
      BY <1>1, <1>5, <2>2, <3>1 DEF Marked
    <3> QED  BY <1>1, <1>2, <1>4, <2>1, <3>2 DEF MarksOK
  <2>3. CASE l.res # "schedule"
    <3>1. ScheduleLoads => ScheduleLoads'
      BY <1>1, <2>3 DEF ScheduleLoads
    <3>2. \A s : (Queued(s)' <=> Queued(s)) /\ (Marked(s)' <=> Marked(s))
      BY <1>1, <1>3, <1>5, <2>3 DEF Queued, Marked
    <3>3. \A s : Clicked(s)' <=> Clicked(s)
      BY <1>1, <1>3, WhileLoading DEF Clicked
    <3> QED  BY <1>1, <1>2, <1>4, <2>1, <3>1, <3>2, <3>3 DEF MarksOK
  <2> QED  BY <2>2, <2>3
<1> QED
  BY <1>3, <1>6, <1>7, <1>8 DEF Orderly

(***************************************************************************)
(* The server is asked for a change                                        *)
(***************************************************************************)
(* While a change is sent, somebody is signed in; and either it is of a     *)
(* click, with nothing else but updates that are being queued, or it is     *)
(* replayed, and no click is under way.                                     *)
LEMMA WhileSending ==
  ASSUME TypeOK, Orderly, NEW w \in jobs, w.kind = "write", w.phase # "open"
  PROVE  /\ w \in Writes /\ user # None /\ w.user = user /\ w.owner = user
         /\ ~deleting
         /\ FromPage(w) \/ FromReplay(w)
         /\ FromPage(w) => /\ \A k \in jobs : k = w \/ k.kind = "enqueue"
                           /\ ~ReplayRuns /\ ~ScheduleLoads /\ ~Replaying
         /\ FromReplay(w) => \A k \in jobs : ~FromPage(k)
<1>1. w \in Writes
  BY KindOf
<1>2. user # None /\ w.user = user /\ w.owner = user
  BY DEF Orderly, Owned
<1>3. ~deleting
  BY DEF Orderly, Blocked
<1>4. FromPage(w) \/ FromReplay(w)
  BY DEF Orderly, Alone, FromPage, FromReplay
<1>5. FromPage(w) => \A k \in jobs : k = w \/ k.kind = "enqueue"
  BY DEF Orderly, Alone
<1>6. FromPage(w) => ~ReplayRuns /\ ~ScheduleLoads /\ ~Replaying
  BY <1>5 DEF ReplayRuns, ScheduleLoads, Replaying, FromPage, FromReplay
<1>7. FromReplay(w) => \A k \in jobs : ~FromPage(k)
  BY DEF Orderly, Alone, FromPage, FromReplay
<1> QED
  BY <1>1, <1>2, <1>3, <1>4, <1>5, <1>6, <1>7

(* The change is answered, or its answer is lost and it is to be queued.    *)
LEMMA HandleOrderly ==
  ASSUME TypeOK, Orderly, NEW w \in jobs, handleSessionUpdateRequest(w)
  PROVE  Orderly'
<1> DEFINE ok == [w EXCEPT !.phase = "ok"]
           failed == [w EXCEPT !.phase = "failed"]
           applied == [server EXCEPT ![w.user][w.res] = Applied(w)]
<1>1. /\ w.kind = "write" /\ w.phase = "sent"
      /\ UNCHANGED <<user, master, cache, shown, selected, queue, deleting, unloaded>>
  BY DEF handleSessionUpdateRequest, page, worker
<1>2. /\ w \in Writes /\ user # None /\ w.user = user /\ w.owner = user /\ ~deleting
      /\ FromPage(w) \/ FromReplay(w)
      /\ FromPage(w) => /\ \A k \in jobs : k = w \/ k.kind = "enqueue"
                        /\ ~ReplayRuns /\ ~ScheduleLoads /\ ~Replaying
      /\ FromReplay(w) => \A k \in jobs : ~FromPage(k)
  BY <1>1, WhileSending
<1>4. /\ ok.kind = "write" /\ ok.user = user /\ ok.owner = user /\ ok.from = w.from
      /\ ok.phase = "ok" /\ ok.session = w.session /\ ok.res = w.res /\ ok.method = w.method
      /\ failed.kind = "write" /\ failed.user = user /\ failed.owner = user
      /\ failed.from = w.from /\ failed.phase = "failed" /\ failed.session = w.session
      /\ failed.res = w.res
  BY <1>1, <1>2 DEF Writes
<1>5. /\ Enqueue(w).kind = "enqueue" /\ Enqueue(w).owner = user
      /\ Enqueue(w).session = w.session /\ Enqueue(w).phase # "open"
  BY <1>2 DEF Enqueue, open
<1>6. Answer(w, "ok") = {ok} /\ Answer(w, "failed") = {failed}
  BY <1>2 DEF Answer, FromPage, FromReplay
<1>7. \/ server' = applied /\ jobs' = (jobs \ {w}) \cup {ok}
      \/ server' = server /\ jobs' = (jobs \ {w}) \cup {failed}
      \/ /\ server' \in {server, applied} /\ w.res = "schedule"
         /\ jobs' = (jobs \ {w}) \cup {failed, Enqueue(w)}
      \/ /\ server' \in {server, applied} /\ w.res # "schedule"
         /\ jobs' = (jobs \ {w}) \cup {failed}
  BY <1>6 DEF handleSessionUpdateRequest
<1>8. /\ \A s : s # w.session \/ w.res # "schedule" =>
              (s \in applied[user]["schedule"] <=> s \in server[user]["schedule"])
      /\ w.res = "schedule" =>
           (w.method = "PUT" <=> w.session \in applied[user]["schedule"])
  <2>1. /\ user \in Users /\ w.res \in Resources /\ "schedule" \in Resources
        /\ server \in [Users -> [Resources -> SUBSET Sessions]]
    BY <1>2, ScheduleAssumption DEF TypeOK, Writes
  <2>2. applied[user]["schedule"] = IF w.res = "schedule" THEN Applied(w)
                                    ELSE server[user]["schedule"]
    BY <1>2, <2>1
  <2> QED  BY <1>2, <2>2 DEF Applied
<1> HIDE DEF ok, failed, applied
<1>9. PICK a \in {ok, failed} :
        /\ \/ jobs' = (jobs \ {w}) \cup {a}
           \/ a = failed /\ jobs' = (jobs \ {w}) \cup {a, Enqueue(w)}
        /\ server' = server \/ server' = applied
        /\ a = ok => server' = applied
        /\ server' = server \/ a = ok \/ Enqueue(w) \in jobs' \/ w.res # "schedule"
  <2>1. ok # failed
    BY <1>4
  <2>2. CASE server' = applied /\ jobs' = (jobs \ {w}) \cup {ok}
    BY <2>1, <2>2
  <2>3. CASE server' \in {server, applied} /\ jobs' = (jobs \ {w}) \cup {failed}
             /\ (server' = server \/ w.res # "schedule")
    BY <2>1, <2>3
  <2>4. CASE server' \in {server, applied} /\ jobs' = (jobs \ {w}) \cup {failed, Enqueue(w)}
    BY <2>1, <2>4
  <2> QED  BY <1>7, <2>2, <2>3, <2>4
<1>10. /\ a.kind = "write" /\ a.user = user /\ a.owner = user /\ a.from = w.from
       /\ a.phase \in {"ok", "failed"} /\ a.session = w.session /\ a.res = w.res
       /\ (FromPage(a) <=> FromPage(w)) /\ (FromReplay(a) <=> FromReplay(w))
       /\ a.phase = "ok" => a = ok /\ a.method = w.method
  BY <1>1, <1>4 DEF FromPage, FromReplay
<1>11. \A j \in jobs' : \/ j \in jobs /\ j # w
                        \/ j = a
                        \/ j = Enqueue(w)
  BY <1>9
<1>12. Alone /\ Owned /\ Blocked /\ Unknown /\ LoadsOK /\ ClicksOK /\ MarksOK
  BY DEF Orderly
<1>13. Alone'
  <2>1. \A j \in jobs' : j.kind = "write" => j.from \in {"page", "replay"}
    BY <1>1, <1>5, <1>10, <1>11, <1>12 DEF Alone
  <2>2. \A j, k \in jobs' : j.kind = "replay" /\ k # j => k.kind = "enqueue" \/ FromReplay(k)
    BY <1>1, <1>2, <1>5, <1>10, <1>11, <1>12 DEF Alone, FromPage, FromReplay
  <2>3. \A j, k \in jobs' : FromPage(j) /\ k # j => k.kind = "enqueue"
    BY <1>1, <1>2, <1>5, <1>10, <1>11, <1>12 DEF Alone, FromPage, FromReplay
  <2>4. \A j, k \in jobs' : j.kind = "load" /\ k.kind = "load" /\ j.res = k.res => j = k
    <3>1. \A j \in jobs' : j.kind = "load" => j \in jobs
      BY <1>5, <1>10, <1>11
    <3> QED  BY <1>12, <3>1 DEF Alone
  <2> QED  BY <2>1, <2>2, <2>3, <2>4 DEF Alone
<1>14. Owned'
  BY <1>1, <1>2, <1>5, <1>10, <1>11, <1>12 DEF Owned
<1>15. ReplayRuns' <=> ReplayRuns
  BY <1>1, <1>5, <1>9, <1>10, <1>11 DEF ReplayRuns
<1>16. Blocked'
  BY <1>1, <1>2, <1>5, <1>10, <1>11, <1>12 DEF Blocked
<1>17. Unknown'
  BY <1>1, <1>2, <1>5, <1>10, <1>11, <1>12, <1>15 DEF Unknown, FromPage
<1>18. LoadsOK'
  BY <1>1, <1>5, <1>10, <1>11, <1>12 DEF LoadsOK
<1>19. ClicksOK'
  <2>1. ASSUME NEW k \in jobs', FromPage(k) PROVE k = a /\ FromPage(w)
    BY <1>2, <1>5, <1>10, <1>11, <2>1 DEF FromPage, FromReplay
  <2>2. FromPage(w) => w.session = selected
    BY <1>12 DEF ClicksOK
  <2> QED  BY <1>1, <1>8, <1>9, <1>10, <2>1, <2>2 DEF ClicksOK
<1>20. MarksOK'
  <2> SUFFICES ASSUME ~unloaded PROVE MarksOK'
    BY <1>1 DEF MarksOK
  <2>1. CASE FromReplay(w)
    <3>1. ReplayRuns'
      BY <1>2, <1>12, <1>15, <2>1 DEF MarksOK, Replaying
    <3> QED  BY <3>1 DEF MarksOK
  <2>2. CASE FromPage(w)
    <3>1. ~Replaying'
      BY <1>2, <1>5, <1>10, <1>11, <2>2 DEF Replaying, FromPage, FromReplay
    <3>2. ASSUME NEW s \in Sessions
          PROVE  Queued(s)' \/ Marked(s)' \/ Clicked(s)'
      <4>1. Queued(s) \/ Marked(s)
        BY <1>1, <1>2, <1>12, <2>2 DEF MarksOK, Clicked, FromPage
      <4>2. CASE Queued(s)
        BY <1>1, <1>9, <4>2 DEF Queued
      <4>3. CASE Marked(s) /\ (s # w.session \/ w.res # "schedule" \/ server' = server)
        BY <1>1, <1>8, <1>9, <4>3 DEF Marked
      <4>4. CASE s = w.session /\ a = ok /\ w.res = "schedule"
        BY <1>4, <1>9, <1>10, <2>2, <4>4 DEF Clicked
      <4>5. CASE s = w.session /\ Enqueue(w) \in jobs'
        BY <1>5, <4>5 DEF Queued
      <4> QED  BY <1>9, <4>1, <4>2, <4>3, <4>4, <4>5
    <3> QED  BY <3>1, <3>2 DEF MarksOK
  <2> QED  BY <1>2, <2>1, <2>2
<1> QED
  BY <1>13, <1>14, <1>16, <1>17, <1>18, <1>19, <1>20 DEF Orderly

LEMMA DoneOrderly ==
  ASSUME TypeOK, Orderly, NEW w \in jobs, SessionRequestDone(w)
  PROVE  Orderly'
<1>1. /\ w.kind = "write" /\ w.from = "page" /\ w.phase \in {"ok", "failed"}
      /\ jobs' = jobs \ {w}
      /\ UNCHANGED <<server, user, master, selected, queue, deleting, unloaded>>
  BY DEF SessionRequestDone, worker
<1>2. /\ w \in Writes /\ user # None /\ w.user = user /\ ~deleting /\ FromPage(w)
      /\ \A k \in jobs : k = w \/ k.kind = "enqueue"
      /\ ~ReplayRuns /\ ~ScheduleLoads
  BY <1>1, WhileSending DEF FromPage
<1>3. Alone /\ Owned /\ Blocked /\ Unknown /\ ClicksOK /\ MarksOK
  BY DEF Orderly
<1>4. \A j \in jobs' : j \in jobs /\ j.kind = "enqueue"
  BY <1>1, <1>2
<1>5. master
  BY <1>2, <1>3 DEF Unknown
<1>6. Alone' /\ LoadsOK' /\ ClicksOK'
  BY <1>4 DEF Alone, LoadsOK, ClicksOK, FromPage
<1>7. Owned'
  BY <1>1, <1>2, <1>3, <1>4 DEF Owned
<1>8. Blocked'
  BY <1>1, <1>2, <1>3, <1>4 DEF Blocked
<1>9. ~ReplayRuns' /\ ~Replaying'
  BY <1>4 DEF ReplayRuns, Replaying, FromReplay
<1>10. Unknown'
  BY <1>1, <1>2, <1>5, <1>9 DEF Unknown
<1>11. /\ "schedule" \in Resources /\ w.res \in Resources
       /\ shown \in [Resources -> SUBSET Sessions]
  BY <1>2, ScheduleAssumption DEF TypeOK, Writes
<1>12. w.session = selected
  BY <1>2, <1>3 DEF ClicksOK
<1>13. ASSUME NEW s, s # w.session \/ w.res # "schedule" \/ w.phase = "failed"
       PROVE  s \in shown'["schedule"] <=> s \in shown["schedule"]
  BY <1>11, <1>12, <1>13 DEF SessionRequestDone
<1>14. w.res = "schedule" /\ w.phase = "ok" => Marked(w.session)'
  <2> SUFFICES ASSUME w.res = "schedule", w.phase = "ok" PROVE Marked(w.session)'
    OBVIOUS
  <2>1. w.method = "PUT" <=> w.session \in server[user]["schedule"]
    BY <1>2, <1>3 DEF ClicksOK
  <2>2. w.session \in shown'["schedule"] <=> w.method = "PUT"
    BY <1>11, <1>12 DEF SessionRequestDone
  <2> QED  BY <1>1, <2>1, <2>2 DEF Marked
<1>15. MarksOK'
  <2> SUFFICES ASSUME ~unloaded, NEW s \in Sessions
               PROVE  Queued(s)' \/ Marked(s)' \/ Clicked(s)'
    BY <1>1, <1>9 DEF MarksOK
  <2>1. Queued(s) \/ Marked(s) \/ Clicked(s)
    BY <1>2, <1>3 DEF MarksOK
  <2>2. Queued(s) => Queued(s)'
    BY <1>1 DEF Queued
  <2>3. Clicked(s) => s = w.session /\ w.res = "schedule" /\ w.phase = "ok"
    BY <1>2 DEF Clicked, FromPage
  <2>4. Marked(s) => Marked(s)' \/ (s = w.session /\ w.res = "schedule" /\ w.phase = "ok")
    BY <1>1, <1>13 DEF Marked
  <2> QED  BY <1>14, <2>1, <2>2, <2>3, <2>4
<1> QED
  BY <1>6, <1>7, <1>8, <1>10, <1>15 DEF Orderly

(***************************************************************************)
(* The queue                                                               *)
(***************************************************************************)
LEMMA QueueOrderly ==
  ASSUME TypeOK, Orderly, NEW e \in jobs, queueFailedSessionUpdateRequest(e)
  PROVE  Orderly'
<1>1. /\ e.kind = "enqueue" /\ e.phase = "use" /\ jobs' = jobs \ {e}
      /\ queue' = [queue EXCEPT ![e.session] = [method |-> e.method, owner |-> e.owner]]
      /\ UNCHANGED <<server, user, master, cache, shown, selected, deleting, unloaded>>
  BY DEF queueFailedSessionUpdateRequest, page
<1>2. Alone /\ Owned /\ Blocked /\ Unknown /\ LoadsOK /\ ClicksOK /\ MarksOK
  BY DEF Orderly
<1>3. e \in Enqueues /\ e.owner = user /\ user # None /\ ~deleting
  BY <1>1, <1>2, KindOf DEF Owned, Blocked
<1>4. \A j : j.kind # "enqueue" => (j \in jobs' <=> j \in jobs)
  BY <1>1
<1>5. /\ ReplayRuns' <=> ReplayRuns
      /\ ScheduleLoads' <=> ScheduleLoads
      /\ Replaying' <=> Replaying
  BY <1>4 DEF ReplayRuns, ScheduleLoads, Replaying, FromReplay
<1>6. Alone'
  BY <1>1, <1>2 DEF Alone, FromPage, FromReplay
<1>7. \A s \in Sessions : queue'[s] # NoUpdate =>
        \/ s = e.session /\ queue'[s].owner = user
        \/ queue[s] # NoUpdate /\ queue'[s] = queue[s]
  BY <1>1, <1>3 DEF TypeOK
<1>8. Owned'
  BY <1>1, <1>2, <1>3, <1>7 DEF Owned
<1>9. Blocked' /\ Unknown'
  BY <1>1, <1>2, <1>5 DEF Blocked, Unknown, FromPage
<1>10. LoadsOK' /\ ClicksOK'
  BY <1>1, <1>2 DEF LoadsOK, ClicksOK, FromPage
<1>11. MarksOK'
  <2>1. queue'[e.session] # NoUpdate
    <3>1. e.session \in Sessions /\ e.method # None
      BY <1>3 DEF Enqueues, Methods, None
    <3> QED  BY <1>1, <3>1 DEF NoUpdate, TypeOK
  <2>2. \A s \in Sessions : queue[s] # NoUpdate => queue'[s] # NoUpdate
    BY <1>1, <2>1 DEF TypeOK
  <2>3. \A s \in Sessions : Queued(s) => Queued(s)'
    BY <1>1, <2>1, <2>2 DEF Queued
  <2>4. \A s : (Marked(s)' <=> Marked(s)) /\ (Clicked(s)' <=> Clicked(s))
    BY <1>1 DEF Marked, Clicked, FromPage
  <2> QED  BY <1>1, <1>2, <1>5, <2>3, <2>4 DEF MarksOK
<1> QED
  BY <1>6, <1>8, <1>9, <1>10, <1>11 DEF Orderly

(* What is queued is the user's who is signed in: it is sent in that name.  *)
LEMMA ReplayOrderly ==
  ASSUME TypeOK, Orderly, NEW r \in jobs, replayQueuedRequests(r)
  PROVE  Orderly'
<1> DEFINE queued == {s \in Sessions : queue[s] # NoUpdate}
           new(s) == Write(user, "schedule", s, queue[s].method, queue[s].owner,
                           "replay", r.id)
<1>1. /\ r.kind = "replay" /\ r.phase = "use"
      /\ UNCHANGED <<server, user, master, cache, shown, queue, deleting, unloaded>>
  BY DEF replayQueuedRequests, page, worker
<1>2. Alone /\ Owned /\ Blocked /\ Unknown
  BY DEF Orderly
<1>3. r \in Replays /\ user # None /\ ~deleting
  BY <1>1, <1>2, KindOf DEF Owned, Blocked
<1>4. PICK next : /\ next.kind = "replay" /\ next.phase # "open" /\ next \in jobs'
                  /\ \A j \in jobs' : \/ j \in jobs /\ j # r
                                      \/ j = next
                                      \/ \E s \in queued : j = new(s)
  <2> DEFINE r1 == [r EXCEPT !.phase = "load"]
             r2 == [r EXCEPT !.phase = "wait", !.left = queued]
  <2>1. /\ r1.kind = "replay" /\ r1.phase = "load"
        /\ r2.kind = "replay" /\ r2.phase = "wait"
    BY <1>3 DEF Replays
  <2>2. \/ jobs' = (jobs \ {r}) \cup {r1}
        \/ jobs' = (jobs \ {r}) \cup ({r2} \cup {new(s) : s \in queued})
    BY DEF replayQueuedRequests
  <2> HIDE DEF queued, new, r1, r2
  <2> QED  BY <2>1, <2>2
<1>5. \A s \in queued : /\ new(s).kind = "write" /\ new(s).from = "replay"
                        /\ new(s).user = user /\ new(s).owner = user
                        /\ new(s).phase = "sent"
  BY <1>2, <1>3 DEF Write, Owned
<1>6. \A j \in jobs \ {r} : j.kind = "enqueue" \/ FromReplay(j)
  BY <1>1, <1>2 DEF Alone
<1> HIDE DEF queued, new
<1>7. \A j \in jobs' : \/ j = next
                       \/ j.kind = "enqueue"
                       \/ FromReplay(j)
  BY <1>4, <1>5, <1>6 DEF FromReplay
<1>8. Alone'
  BY <1>4, <1>7 DEF Alone, FromPage, FromReplay
<1>9. Owned'
  BY <1>1, <1>2, <1>3, <1>4, <1>5 DEF Owned
<1>10. Blocked'
  BY <1>1, <1>2, <1>3, <1>4, <1>5 DEF Blocked
<1>11. ReplayRuns /\ ReplayRuns'
  BY <1>1, <1>4 DEF ReplayRuns
<1>12. Unknown'
  BY <1>1, <1>2, <1>4, <1>7, <1>11 DEF Unknown, FromPage, FromReplay
<1>13. LoadsOK' /\ ClicksOK'
  BY <1>4, <1>7 DEF LoadsOK, ClicksOK, FromPage, FromReplay
<1>14. MarksOK'
  BY <1>11 DEF MarksOK
<1> QED
  BY <1>8, <1>9, <1>10, <1>12, <1>13, <1>14 DEF Orderly

(* The jobs are what they were, but for the phase of some that have none of *)
(* a click or of a load.                                                    *)
LEMMA SameJobsOrderly ==
  ASSUME TypeOK, Orderly, NEW f, NEW B \in SUBSET jobs,
         jobs' = {f[j] : j \in B},
         \A j \in B : /\ f[j].kind = j.kind
                      /\ j.kind \in {"load", "write"} => f[j] = j
                      /\ j.kind = "enqueue" => f[j].owner = j.owner
                      /\ f[j].phase # "open",
         \A j \in jobs \ B : FromReplay(j),
         ~deleting',
         UNCHANGED <<server, user, master, cache, shown, selected, unloaded>>,
         \A s \in Sessions : queue'[s] # NoUpdate =>
           user # None /\ queue'[s].owner = user,
         user # None /\ ~unloaded => ReplayRuns
  PROVE  Orderly'
<1>1. Alone /\ Owned /\ Unknown /\ LoadsOK /\ ClicksOK
  BY DEF Orderly
<1>2. \A k \in jobs' : \E j \in B : k = f[j]
  OBVIOUS
<1>3. ReplayRuns' <=> ReplayRuns
  BY DEF ReplayRuns, FromReplay
<1>4. \A j \in jobs' : j.kind \in {"load", "write"} => j \in jobs
  OBVIOUS
<1>5. Alone'
  <2>1. \A j \in jobs' : j.kind = "write" => j.from \in {"page", "replay"}
    BY <1>1, <1>4 DEF Alone
  <2>2. \A j, k \in jobs' : j.kind = "replay" /\ k # j => k.kind = "enqueue" \/ FromReplay(k)
    BY <1>1, <1>2 DEF Alone, FromReplay
  <2>3. \A j, k \in jobs' : FromPage(j) /\ k # j => k.kind = "enqueue"
    BY <1>1, <1>2 DEF Alone, FromPage
  <2>4. \A j, k \in jobs' : j.kind = "load" /\ k.kind = "load" /\ j.res = k.res => j = k
    BY <1>1, <1>4 DEF Alone
  <2> QED  BY <2>1, <2>2, <2>3, <2>4 DEF Alone
<1>6. Owned'
  BY <1>1, <1>2 DEF Owned
<1>7. Blocked'
  BY <1>2 DEF Blocked
<1>8. Unknown'
  BY <1>1, <1>3, <1>4 DEF Unknown, FromPage
<1>9. LoadsOK' /\ ClicksOK'
  BY <1>1, <1>4 DEF LoadsOK, ClicksOK, FromPage
<1>10. MarksOK'
  BY <1>3 DEF MarksOK
<1> QED
  BY <1>5, <1>6, <1>7, <1>8, <1>9, <1>10 DEF Orderly

(* A replayed update is answered.                                           *)
LEMMA ReplayedOrderly ==
  ASSUME TypeOK, Orderly, NEW w \in jobs, ReplayedRequestDone(w)
  PROVE  Orderly'
<1> DEFINE waits(r) == r.kind = "replay" /\ r.id = w.id /\ r.phase = "wait"
           f == [r \in jobs |->
                  IF waits(r)
                  THEN [r EXCEPT !.left = @ \ {w.session},
                                 !.phase = IF w.phase = "failed" \/ r.left = {w.session}
                                           THEN "load" ELSE "wait"]
                  ELSE r]
           B == jobs \ {w}
<1>1. /\ FromReplay(w) /\ w.phase # "open" /\ jobs' = {f[r] : r \in B}
      /\ queue' = IF w.phase = "ok" THEN [queue EXCEPT ![w.session] = NoUpdate] ELSE queue
      /\ UNCHANGED <<server, user, master, cache, shown, selected, deleting, unloaded>>
  BY DEF ReplayedRequestDone, FromReplay, page
<1>2. w \in Writes /\ user # None /\ ~deleting
  BY <1>1, WhileSending DEF FromReplay
<1>3. ASSUME NEW j \in B
      PROVE  /\ f[j].kind = j.kind
             /\ j.kind \in {"load", "write"} => f[j] = j
             /\ j.kind = "enqueue" => f[j].owner = j.owner
             /\ f[j].phase # "open"
  <2>1. j.phase # "open"
    BY <1>2 DEF Orderly, Blocked
  <2>2. CASE waits(j)
    <3>1. j \in Replays
      BY <2>2, KindOf
    <3> QED  BY <2>2, <3>1 DEF Replays
  <2>3. CASE ~waits(j)
    BY <2>1, <2>3
  <2> QED  BY <2>2, <2>3
<1>4. \A s \in Sessions : queue'[s] # NoUpdate => user # None /\ queue'[s].owner = user
  BY <1>1, <1>2 DEF Orderly, Owned, TypeOK
<1>5. user # None /\ ~unloaded => ReplayRuns
  BY <1>1 DEF Orderly, MarksOK, Replaying
<1>6. B \in SUBSET jobs /\ (\A j \in jobs \ B : FromReplay(j)) /\ ~deleting'
  BY <1>1, <1>2
<1> HIDE DEF f, B
<1> QED
  BY <1>1, <1>3, <1>4, <1>5, <1>6, SameJobsOrderly

(* The queue is deleted, and what has waited for it goes on.                *)
LEMMA DeletedOrderly ==
  ASSUME TypeOK, Orderly, DeleteDatabase
  PROVE  Orderly'
<1> DEFINE f == [j \in jobs |->
                  IF j.phase = "open" THEN [j EXCEPT !.phase = "use"] ELSE j]
<1>1. /\ deleting /\ ~deleting' /\ jobs' = {f[j] : j \in jobs}
      /\ queue' = [s \in Sessions |-> NoUpdate]
      /\ UNCHANGED <<server, user, master, cache, shown, selected, unloaded>>
  BY DEF DeleteDatabase, page
<1>2. ASSUME NEW j \in jobs
      PROVE  /\ f[j].kind = j.kind
             /\ j.kind \in {"load", "write"} => f[j] = j
             /\ j.kind = "enqueue" => f[j].owner = j.owner
             /\ f[j].phase # "open"
  <2>1. j.phase = "open"
    BY <1>1 DEF Orderly, Blocked
  <2>2. j \in Enqueues \/ j \in Replays
    BY <2>1, KindOf DEF Loads, Writes
  <2> QED  BY <2>1, <2>2 DEF Enqueues, Replays
<1>3. \A s \in Sessions : queue'[s] # NoUpdate => user # None /\ queue'[s].owner = user
  BY <1>1
<1>4. user # None /\ ~unloaded => ReplayRuns
  BY <1>1 DEF Orderly, Blocked
<1>5. jobs \in SUBSET jobs /\ \A j \in jobs \ jobs : FromReplay(j)
  OBVIOUS
<1> HIDE DEF f
<1> QED
  BY <1>1, <1>2, <1>3, <1>4, <1>5, SameJobsOrderly

(* The schedule arrives; connections are collected; nothing happens.        *)
LEMMA OtherOrderly ==
  ASSUME Orderly, master => master',
         UNCHANGED <<server, user, cache, shown, selected, queue, deleting, jobs, unloaded>>
  PROVE  Orderly'
<1> USE DEF Orderly
<1>1. Alone' /\ Owned'
  BY DEF Alone, Owned
<1>2. ReplayRuns' = ReplayRuns
  BY DEF ReplayRuns
<1>3. Blocked' /\ Unknown'
  BY <1>2 DEF Blocked, Unknown
<1>4. LoadsOK' /\ ClicksOK'
  BY DEF LoadsOK, ClicksOK
<1>5. MarksOK'
  BY <1>2 DEF MarksOK, Replaying, ScheduleLoads, Queued, Marked, Clicked
<1> QED
  BY <1>1, <1>3, <1>4, <1>5

(***************************************************************************)
(* The theorems                                                            *)
(***************************************************************************)
OrderlyInv == TypeOK /\ (~overlapped => Orderly)

(* What has overlapped stays so.                                            *)
LEMMA OverlapStays == ~overlapped' /\ [Next]_vars => ~overlapped
<1> SUFFICES ASSUME overlapped, [Next]_vars PROVE overlapped'
  OBVIOUS
<1>1. \/ UNCHANGED overlapped
      \/ overlapped' = (overlapped \/ Busy)
      \/ overlapped' = (overlapped \/ Busy \/ waiting # {})
  BY DEF Next, User, Work, Proceed, vars, resolveSchedulePromise, Collect, DeleteDatabase,
         SignIn, SignOut, Reload, openSession, Click, loadUserSchedule, CachedXhrOnload,
         NetworkFirst, FreshXhrOnload, handleSessionUpdateRequest, SessionRequestDone,
         queueFailedSessionUpdateRequest, replayQueuedRequests, ReplayedRequestDone
<1> QED
  BY <1>1

LEMMA OrderlyKept == TypeOK /\ Orderly /\ ~overlapped' /\ [Next]_vars => Orderly'
<1> SUFFICES ASSUME TypeOK, Orderly, ~overlapped', [Next]_vars PROVE Orderly'
  OBVIOUS
<1>1. CASE UNCHANGED vars
  BY <1>1, OtherOrderly DEF vars, page, worker
<1>2. CASE resolveSchedulePromise
  BY <1>2, OtherOrderly DEF resolveSchedulePromise, page, worker
<1>3. CASE Collect
  BY <1>3, OtherOrderly DEF Collect, page, worker
<1>4. CASE DeleteDatabase
  BY <1>4, DeletedOrderly
<1>5. ASSUME NEW u \in Users, SignIn(u) PROVE Orderly'
  BY <1>5, SignInOrderly
<1>6. CASE SignOut
  BY <1>6, SignOutOrderly
<1>7. CASE Reload
  BY <1>7, ReloadOrderly
<1>8. ASSUME NEW s \in Sessions, openSession(s) PROVE Orderly'
  <2>1. jobs = {}
    BY <1>8 DEF openSession, Busy
  <2> QED  BY <1>8, <2>1, NothingSentOrderly DEF openSession, worker
<1>9. ASSUME NEW s \in Sessions, NEW res \in Resources, Click(res, s) PROVE Orderly'
  BY <1>9, ClickOrderly
<1>10. ASSUME NEW j \in jobs, Proceed(j) PROVE Orderly'
  BY <1>10, LoadOrderly, CachedOrderly, NetworkOrderly, FreshOrderly, HandleOrderly,
     DoneOrderly, QueueOrderly, ReplayOrderly, ReplayedOrderly DEF Proceed
<1> QED
  BY <1>1, <1>2, <1>3, <1>4, <1>5, <1>6, <1>7, <1>8, <1>9, <1>10 DEF Next, User, Work

(* Every value has its type: jobs are loads, writes, updates to be queued   *)
(* and replays, and the worker has at most one answer for each URL.         *)
THEOREM TypeCorrect == Spec => []TypeOK
  BY InitTypes, TypesKept, PTL DEF Spec

(* A replay that waits for its requests (Promise.all of                     *)
(* replayQueuedRequests) has one in flight for each that it waits for.      *)
THEOREM ReplaysAreAwaited == Spec => []Awaited
<1>2. Init => Awaited
  BY DEF Init, Awaited, Replay
<1> QED
  BY <1>2, InitTypes, TypesKept, AwaitedKept, PTL DEF Spec

(* What holds while nothing overlaps.                                       *)
LEMMA AlwaysOrderly == Spec => []OrderlyInv
<1>2. Init => OrderlyInv
  BY InitTypes, InitOrderly DEF OrderlyInv
<1>3. OrderlyInv /\ [Next]_vars => OrderlyInv'
  BY TypesKept, OverlapStays, OrderlyKept DEF OrderlyInv
<1> QED
  BY <1>2, <1>3, PTL DEF Spec

(* As long as nothing overlaps, a change of the schedule, whether it is     *)
(* sent at once, after a sign-in or from the queue, is sent in the name of  *)
(* the user who has made it (schedule.js, offline-session-updates.js).      *)
THEOREM OwnersSend == Spec => []SentByItsOwner
<1>1. OrderlyInv => SentByItsOwner
  BY DEF OrderlyInv, Orderly, Owned, SentByItsOwner
<1> QED
  BY <1>1, AlwaysOrderly, PTL

(* As long as nothing overlaps, whatever fails, is queued, sent again,      *)
(* cached and deleted: when the page has come to rest it marks the sessions *)
(* that the server has, but for changes that are still queued.              *)
THEOREM RestIsTrue == Spec => []ShownIsSaved
<1>1. OrderlyInv => ShownIsSaved
  <2> SUFFICES ASSUME OrderlyInv, Calm
               PROVE  IF user = None THEN shown["schedule"] \cup cache["schedule"] = {}
                      ELSE unloaded \/ \A s \in Sessions :
                             queue[s] # NoUpdate
                               \/ (s \in shown["schedule"] <=> s \in server[user]["schedule"])
    BY DEF ShownIsSaved
  <2>1. Orderly /\ jobs = {}
    BY DEF OrderlyInv, Calm, Busy
  <2>2. CASE user = None
    BY <2>1, <2>2 DEF Orderly, Unknown
  <2>3. CASE user # None
    BY <2>1, <2>3 DEF Orderly, MarksOK, ReplayRuns, ScheduleLoads, Queued, Marked, Clicked
  <2> QED  BY <2>2, <2>3
<1> QED
  BY <1>1, AlwaysOrderly, PTL
===============================================================================
