------------------------------ MODULE MySchedule ------------------------------
(***************************************************************************)
(* The sessions that a user has saved and rated, as the page shows them:   *)
(* helper/schedule.js with what it uses of request.js, auth.js, bootstrap, *)
(* simple-db.js and the schedule page, and the two parts of the service    *)
(* worker that answer its requests, shed/cache-then-network.js and         *)
(* shed/offline-session-updates.js.                                        *)
(*                                                                         *)
(* A request is answered in three steps (it is sent, the server handles    *)
(* it, the page gets the answer), the user goes on clicking, signs out or  *)
(* lets somebody else sign in, and what has failed is queued in IndexedDB  *)
(* and sent again after the next sign-in.  Work in flight is a set of jobs.*)
(***************************************************************************)
EXTENDS Naturals, FiniteSets, Sequences

CONSTANTS Users, Sessions,
          Resources,        \* SCHEDULE_ENDPOINT_USERS, and SURVEY_ENDPOINT_USERS
          Saved,            \* what the server knows of each user at first
          Unsent,           \* what an earlier visit of each has left in the
                            \*   queue to be saved
          MaxSigns,         \* BOUND: sign-ins, sign-outs and reloads
          MaxChanges,       \* BOUND: sessions the user opens, saves, removes or rates
          MaxFailures       \* BOUND: requests that fail

Methods == {"PUT", "DELETE"}
None    == "none"

ASSUME ScheduleAssumption ==
  /\ None \notin Users
  /\ "schedule" \in Resources /\ Resources \subseteq {"schedule", "survey"}
  /\ Saved \in [Users -> [Resources -> SUBSET Sessions]]
  /\ Unsent \in [Users -> SUBSET Sessions]
  /\ MaxSigns \in Nat /\ MaxChanges \in Nat /\ MaxFailures \in Nat

VARIABLES
  server,     \* what the backend has for each user
  user,       \* auth2.currentUser, None if nobody is signed in
  master,     \* the worker has delivered the schedule of the conference
  cache,      \* userSavedSessions, userSavedSurveys; empty is not loaded
  shown,      \* sessions with saved, and with rated
  selected,   \* template.selectedSession
  fetching,   \* template.scheduleFetchingUserData
  waiting,    \* pendingResolutions: changes that wait for a sign-in
  swCache,    \* the worker's answers of GET: a set of them has at most one
  queue,      \* IndexedDB: the method for a session's URL, and who wanted it
  deleting,   \* deleteDatabase has been called and is blocked
  jobs,       \* requests, loads, replays and what the worker stores
  held,       \* connections to the queue that nobody uses any more
  signs, changes, failures,
  overlapped, \* a click, a sign-in or a
              \*   sign-out while anything is in flight
  unloaded    \* a load has failed, or did not wait for a replay

page   == <<cache, shown, selected, fetching, waiting>>
worker == <<swCache, queue, deleting>>
bounds == <<signs, changes, failures>>
vars   == <<server, user, master, page, worker, jobs, held, bounds, overlapped,
            unloaded>>

(***************************************************************************)
(* Jobs.  Connections to the queue are never closed, so they last until    *)
(* they are collected.                                                     *)
(***************************************************************************)
Load(u, res) == [kind |-> "load", id |-> signs, user |-> u, res |-> res,
                 phase |-> "sent",        \* of the request for fresh content
                 content |-> {},          \* its answer
                 cachedXhr |-> TRUE,      \* the request for cached content is
                                          \*   in flight
                 cached |-> {}]           \* cachedResponse: none or one answer

(* from is the page, a replay, or "gone" for a page that has been left;     *)
(* id is the replay's, or tells the user's clicks apart.                   *)
Write(u, res, s, method, owner, from, id) ==
  [kind |-> "write", user |-> u, res |-> res, session |-> s, method |-> method,
   owner |-> owner, from |-> from, id |-> id, phase |-> "sent"]

(* simpleDB.open waits for a database that is being deleted.               *)
open == IF deleting THEN "open" ELSE "use"

Enqueue(w) == [kind |-> "enqueue", session |-> w.session, method |-> w.method,
               owner |-> w.owner, phase |-> open]

Replay(id) == [kind |-> "replay", id |-> id, phase |-> open, left |-> {}]

Busy == jobs # {}

Becomes(j, new) == jobs' = (jobs \ {j}) \cup {new}

(***************************************************************************)
(* The page: loading                                                       *)
(***************************************************************************)
(* MUTANT: the spinner is left to who has asked.                            *)
display_Spins(res, content) ==
  /\ shown' = [shown EXCEPT ![res] = content]
  /\ fetching' = fetching

(* fetchUserSchedule's and the survey's callback: updateSavedSessionsUI,   *)
(* updateRatedSessions.                                                    *)
display(res, content) ==
  /\ shown' = [shown EXCEPT ![res] = content]
  /\ fetching' = (fetching /\ res # "schedule")

(* resolveSchedulePromise: loads have waited for the worker.               *)
resolveSchedulePromise ==
  /\ ~master
  /\ master' = TRUE
  /\ UNCHANGED <<server, user, page, worker, jobs, held, bounds, overlapped, unloaded>>

(* fetchResource: from memory, or a load (cacheThenNetwork), which has no   *)
(* answer when the user has signed out in the meantime.                    *)
Missing == {res \in Resources : cache[res] = {}}
fetchResource(res) == IF res \notin Missing THEN cache[res]
                      ELSE IF user = None THEN {} ELSE shown[res]
cacheThenNetwork == IF user = None THEN {} ELSE {Load(user, res) : res \in Missing}

(* A replay has ended, well or not, and the schedule is there.  It has      *)
(* ended with the first request that failed: others may be in flight.      *)
FromReplay(w) == w.kind = "write" /\ w.from = "replay"
Replaying == \E w \in jobs : FromReplay(w)

loadUserSchedule(r) ==
  /\ r.kind = "replay" /\ r.phase = "load" /\ master
  /\ jobs' = (jobs \ {r}) \cup cacheThenNetwork
  /\ shown' = [res \in Resources |-> fetchResource(res)]
  /\ fetching' = (user # None /\ "schedule" \in Missing)
  /\ unloaded' = (unloaded \/ Replaying)
  /\ UNCHANGED <<server, user, master, cache, selected, waiting, worker, held,
                 bounds, overlapped>>

(* The answer from the worker's cache.                                      *)
CachedXhrOnload(l) ==
  /\ l.kind = "load" /\ l.cachedXhr
  /\ IF l.phase = "failed" THEN jobs' = jobs \ {l}
     ELSE Becomes(l, [l EXCEPT !.cachedXhr = FALSE, !.cached = swCache[l.res]])
  /\ IF swCache[l.res] = {} THEN UNCHANGED <<shown, fetching>>
     ELSE \E content \in swCache[l.res] : display(l.res, content)
  /\ UNCHANGED <<server, user, master, cache, selected, waiting, worker, held,
                 bounds, overlapped, unloaded>>

(* networkFirst in the worker: the server's answer, which is cached under  *)
(* its URL whoever asked, or the cached one when there is none.            *)
NetworkFirst(l) ==
  /\ l.kind = "load" /\ l.phase = "sent"
  /\ \/ /\ swCache' = [swCache EXCEPT ![l.res] = {server[l.user][l.res]}]
        /\ Becomes(l, [l EXCEPT !.phase = "answered",
                                !.content = server[l.user][l.res]])
        /\ UNCHANGED <<failures, unloaded>>
     \/ /\ failures < MaxFailures
        /\ failures' = failures + 1
        /\ unloaded' = TRUE
        /\ \/ \E content \in swCache[l.res] :
                Becomes(l, [l EXCEPT !.phase = "answered", !.content = content])
           \/ /\ swCache[l.res] = {}
              /\ IF l.cachedXhr THEN Becomes(l, [l EXCEPT !.phase = "failed"])
                 ELSE jobs' = jobs \ {l}
        /\ UNCHANGED swCache
  /\ UNCHANGED <<server, user, master, page, queue, deleting, held, signs,
                 changes, overlapped>>

(* Fresh content that is what the cache had is not called back with, and   *)
(* not kept in memory.  After fresh content the answer from the cache is   *)
(* ignored: freshContentPending.                                           *)
FreshXhrOnload(l) ==
  /\ l.kind = "load" /\ l.phase = "answered"
  /\ jobs' = jobs \ {l}
  /\ IF l.content \in l.cached THEN UNCHANGED <<cache, shown, fetching>>
     ELSE /\ cache' = [cache EXCEPT ![l.res] = l.content]
          /\ display(l.res, l.content)
  /\ UNCHANGED <<server, user, master, selected, waiting, worker, held, bounds,
                 overlapped, unloaded>>

(***************************************************************************)
(* The page: changing                                                      *)
(***************************************************************************)
(* saveSession and saveSurvey, once there is somebody signed in as u.      *)
submitSessionRequest(u, change) ==
  Write(u, change.res, change.session, change.method, change.owner, "page",
        change.id)

(* toggleSaveSession or onRateSessionSubmit.  Without a user the change     *)
(* waits: waitForSignedIn.                                                 *)
Click(res, s) ==
  LET change == [res |-> res, session |-> s, owner |-> user, id |-> changes,
                 method |-> IF res = "schedule" /\ s \in shown["schedule"]
                            THEN "DELETE" ELSE "PUT"]
  IN  /\ master /\ changes < MaxChanges
      /\ changes' = changes + 1
      /\ selected' = s
      /\ overlapped' = (overlapped \/ Busy)
      /\ IF user = None
         THEN /\ waiting' = waiting \cup {change}
              /\ UNCHANGED <<jobs, fetching>>
         ELSE /\ jobs' = jobs \cup {submitSessionRequest(user, change)}
              /\ fetching' = (fetching \/ res = "schedule")
              /\ UNCHANGED waiting
      /\ UNCHANGED <<server, user, master, cache, shown, worker, held, signs,
                     failures, unloaded>>

(* The details of a session are opened.                                    *)
openSession(s) ==
  /\ master /\ s # selected /\ changes < MaxChanges
  /\ changes' = changes + 1
  /\ selected' = s
  /\ overlapped' = (overlapped \/ Busy)
  /\ UNCHANGED <<server, user, master, cache, shown, fetching, waiting, worker,
                 jobs, held, signs, failures, unloaded>>

Applied(w) == IF w.method = "PUT" THEN server[w.user][w.res] \cup {w.session}
              ELSE server[w.user][w.res] \ {w.session}

(* The server handles a change and its answer gets to the worker; or it    *)
(* answers with an error; or the request or the answer is lost.  Only what *)
(* is lost is queued (handleSessionUpdateRequest): Response.error() does   *)
(* not reject.                                                             *)
Answer(w, outcome) == IF w.from = "gone" THEN {} ELSE {[w EXCEPT !.phase = outcome]}

handleSessionUpdateRequest(w) ==
  /\ w.kind = "write" /\ w.phase = "sent"
  /\ \/ /\ server' = [server EXCEPT ![w.user][w.res] = Applied(w)]
        /\ jobs' = (jobs \ {w}) \cup Answer(w, "ok")
        /\ UNCHANGED failures
     \/ /\ failures < MaxFailures
        /\ failures' = failures + 1
        /\ UNCHANGED server
        /\ jobs' = (jobs \ {w}) \cup Answer(w, "failed")
     \/ /\ failures < MaxFailures
        /\ failures' = failures + 1
        /\ server' \in {server, [server EXCEPT ![w.user][w.res] = Applied(w)]}
        /\ jobs' = (jobs \ {w}) \cup Answer(w, "failed")
                     \cup (IF w.res = "schedule" THEN {Enqueue(w)} ELSE {})
  /\ UNCHANGED <<user, master, page, worker, held, signs, changes, overlapped,
                 unloaded>>

(* The page gets the answer: the session that is selected now is marked.   *)
(* After a failure the page that has asked may leave the spinner on.       *)
SessionRequestDone(w) ==
  /\ w.kind = "write" /\ w.from = "page" /\ w.phase \in {"ok", "failed"}
  /\ jobs' = jobs \ {w}
  /\ IF w.phase = "failed"
     THEN /\ fetching' \in {fetching, fetching /\ w.res # "schedule"}
          /\ UNCHANGED <<cache, shown>>
     ELSE /\ cache' = IF w.res = "schedule" THEN [cache EXCEPT !["schedule"] = {}]
                      ELSE cache
          /\ shown' = [shown EXCEPT ![w.res] =
                         IF w.method = "PUT" THEN @ \cup {selected} ELSE @ \ {selected}]
          /\ fetching' = (fetching /\ w.res # "schedule")
  /\ UNCHANGED <<server, user, master, selected, waiting, worker, held, bounds,
                 overlapped, unloaded>>

(***************************************************************************)
(* Signing in and out                                                      *)
(***************************************************************************)
(* Who waited is served, and what is queued is sent again: both as u.      *)
SignIn(u) ==
  /\ user = None /\ signs < MaxSigns
  /\ signs' = signs + 1
  /\ user' = u
  /\ waiting' = {}
  /\ jobs' = jobs \cup {Replay(signs + 1)}
                  \cup {submitSessionRequest(u, [c EXCEPT !.owner = u]) : c \in waiting}
  /\ fetching' = (fetching \/ \E c \in waiting : c.res = "schedule")
  /\ overlapped' = (overlapped \/ Busy \/ waiting # {})
  /\ unloaded' = FALSE
  /\ UNCHANGED <<server, master, cache, shown, selected, worker, held, changes,
                 failures>>

(* MUTANT: what is kept in memory is not cleared.                           *)
SignOut_KeepsMemory ==
  /\ user # None /\ signs < MaxSigns
  /\ signs' = signs + 1
  /\ user' = None
  /\ swCache' = [res \in Resources |-> {}]
  /\ deleting' = TRUE
  /\ IF master THEN shown' = [shown EXCEPT !["schedule"] = {}] ELSE UNCHANGED shown
  /\ overlapped' = (overlapped \/ Busy)
  /\ UNCHANGED <<server, master, cache, selected, fetching, waiting, queue, jobs,
                 held, changes, failures, unloaded>>

(* MUTANT: the queue is kept for the next user.                             *)
SignOut_KeepsQueue ==
  /\ user # None /\ signs < MaxSigns
  /\ signs' = signs + 1
  /\ user' = None
  /\ swCache' = [res \in Resources |-> {}]
  /\ IF master THEN /\ shown' = [shown EXCEPT !["schedule"] = {}]
                    /\ cache' = [cache EXCEPT !["schedule"] = {}]
     ELSE UNCHANGED <<shown, cache>>
  /\ overlapped' = (overlapped \/ Busy)
  /\ UNCHANGED <<server, master, selected, fetching, waiting, queue, deleting,
                 jobs, held, changes, failures, unloaded>>

(* 'clear-cached-user-data' for the worker, clearQueuedRequests, and        *)
(* clearUserSchedule, which leaves the ratings alone and stops at the      *)
(* sessions if there are none yet.                                         *)
SignOut ==
  /\ user # None /\ signs < MaxSigns
  /\ signs' = signs + 1
  /\ user' = None
  /\ swCache' = [res \in Resources |-> {}]
  /\ deleting' = TRUE
  /\ IF master THEN /\ shown' = [shown EXCEPT !["schedule"] = {}]
                    /\ cache' = [cache EXCEPT !["schedule"] = {}]
     ELSE UNCHANGED <<shown, cache>>
  /\ overlapped' = (overlapped \/ Busy)
  /\ UNCHANGED <<server, master, selected, fetching, waiting, queue, jobs, held,
                 changes, failures, unloaded>>

(* The page is loaded anew and finds the user still signed in: "on your    *)
(* next visit".  The worker goes on with what it has been sent.            *)
Reload ==
  /\ signs < MaxSigns
  /\ signs' = signs + 1
  /\ master' = FALSE
  /\ cache' = [res \in Resources |-> {}]
  /\ shown' = [res \in Resources |-> {}]
  /\ fetching' = FALSE
  /\ waiting' = {}
  /\ jobs' = {[w EXCEPT !.from = "gone"] : w \in {j \in jobs : j.kind = "write"
                                                              /\ j.phase = "sent"}}
               \cup {j \in jobs : j.kind = "enqueue"}
               \cup (IF user = None THEN {} ELSE {Replay(signs + 1)})
  /\ overlapped' = (overlapped \/ Busy)
  /\ unloaded' = FALSE
  /\ UNCHANGED <<server, user, selected, worker, held, changes, failures>>

(***************************************************************************)
(* The queue                                                               *)
(***************************************************************************)
NoUpdate == [method |-> None, owner |-> None]

(* The database is open: the last failed update of a session is kept.       *)
queueFailedSessionUpdateRequest(e) ==
  /\ e.kind = "enqueue" /\ e.phase = "use"
  /\ queue' = [queue EXCEPT ![e.session] = [method |-> e.method, owner |-> e.owner]]
  /\ jobs' = jobs \ {e}
  /\ held' = TRUE
  /\ UNCHANGED <<server, user, master, page, swCache, deleting, bounds,
                 overlapped, unloaded>>

(* Every queued update is sent as the user who is signed in now; without   *)
(* one the promises reject at once.                                        *)
replayQueuedRequests(r) ==
  LET queued == {s \in Sessions : queue[s] # NoUpdate}
  IN  /\ r.kind = "replay" /\ r.phase = "use"
      /\ held' = TRUE
      /\ jobs' = (jobs \ {r}) \cup
                 IF queued = {} \/ user = None THEN {[r EXCEPT !.phase = "load"]}
                 ELSE {[r EXCEPT !.phase = "wait", !.left = queued]} \cup
                      {Write(user, "schedule", s, queue[s].method, queue[s].owner,
                             "replay", r.id) : s \in queued}
      /\ UNCHANGED <<server, user, master, page, worker, bounds, overlapped,
                     unloaded>>

(* MUTANT: a replay waits for those that have succeeded only.               *)
ReplayedRequestDone_AllSucceed(w) ==
  /\ w.kind = "write" /\ w.from = "replay" /\ w.phase \in {"ok", "failed"}
  /\ queue' = IF w.phase = "ok" THEN [queue EXCEPT ![w.session] = NoUpdate] ELSE queue
  /\ jobs' = {IF /\ r.kind = "replay" /\ r.id = w.id /\ r.phase = "wait"
                 /\ w.phase = "ok"
              THEN [r EXCEPT !.left = @ \ {w.session},
                             !.phase = IF r.left = {w.session} THEN "load" ELSE "wait"]
              ELSE r : r \in jobs \ {w}}
  /\ UNCHANGED <<server, user, master, page, swCache, deleting, held, bounds,
                 overlapped, unloaded>>

(* One of them is answered: its entry is deleted, whatever it is by now.   *)
(* The first that fails, or the last, ends the replay.                     *)
ReplayedRequestDone(w) ==
  /\ w.kind = "write" /\ w.from = "replay" /\ w.phase \in {"ok", "failed"}
  /\ queue' = IF w.phase = "ok" THEN [queue EXCEPT ![w.session] = NoUpdate] ELSE queue
  /\ jobs' = {IF r.kind = "replay" /\ r.id = w.id /\ r.phase = "wait"
              THEN [r EXCEPT !.left = @ \ {w.session},
                             !.phase = IF w.phase = "failed" \/ r.left = {w.session}
                                       THEN "load" ELSE "wait"]
              ELSE r : r \in jobs \ {w}}
  /\ UNCHANGED <<server, user, master, page, swCache, deleting, held, bounds,
                 overlapped, unloaded>>

(* Connections that nobody uses are collected.                             *)
Using == \E j \in jobs : \/ j.phase \in {"use", "wait"}
                         \/ FromReplay(j)

Collect ==
  /\ held /\ ~Using
  /\ held' = FALSE
  /\ UNCHANGED <<server, user, master, page, worker, jobs, bounds, overlapped,
                 unloaded>>

(* The database goes when nobody is connected, and is opened anew.         *)
DeleteDatabase ==
  /\ deleting /\ ~held /\ ~Using
  /\ deleting' = FALSE
  /\ queue' = [s \in Sessions |-> NoUpdate]
  /\ jobs' = {IF j.phase = "open" THEN [j EXCEPT !.phase = "use"] ELSE j : j \in jobs}
  /\ UNCHANGED <<server, user, master, page, swCache, held, bounds, overlapped,
                 unloaded>>

-----------------------------------------------------------------------------
Init ==
  /\ server = Saved
  /\ user \in Users \cup {None}    \* who has been signed in before
  /\ master = FALSE
  /\ cache = [res \in Resources |-> {}]
  /\ shown = [res \in Resources |-> {}]
  /\ selected \in Sessions
  /\ fetching = FALSE
  /\ waiting = {}
  /\ swCache = [res \in Resources |-> {}]
  /\ queue = [s \in Sessions |-> IF user # None /\ s \in Unsent[user]
                                THEN [method |-> "PUT", owner |-> user] ELSE NoUpdate]
  /\ deleting = FALSE
  /\ jobs = (IF user = None THEN {} ELSE {[Replay(0) EXCEPT !.phase = "use"]})
  /\ held = FALSE
  /\ signs = 0 /\ changes = 0 /\ failures = 0
  /\ overlapped = FALSE
  /\ unloaded = FALSE

Proceed(j) ==
  \/ loadUserSchedule(j) \/ CachedXhrOnload(j) \/ NetworkFirst(j)
  \/ FreshXhrOnload(j) \/ handleSessionUpdateRequest(j) \/ SessionRequestDone(j)
  \/ queueFailedSessionUpdateRequest(j) \/ replayQueuedRequests(j)
  \/ ReplayedRequestDone(j)

Work == resolveSchedulePromise \/ Collect \/ DeleteDatabase \/ \E j \in jobs : Proceed(j)

User == \/ \E u \in Users : SignIn(u)
        \/ SignOut \/ Reload
        \/ \E s \in Sessions : openSession(s) \/ \E res \in Resources : Click(res, s)

Next == User \/ Work

(* The worker delivers the schedule, requests are answered or fail, and     *)
(* connections are collected.                                              *)
Spec == Init /\ [][Next]_vars /\ WF_vars(Work)

-----------------------------------------------------------------------------
Changes == [res : Resources, session : Sessions, owner : Users \cup {None},
            id : Nat, method : Methods]

Updates == {NoUpdate} \cup [method : Methods, owner : Users \cup {None}]

Loads    == [kind : {"load"}, id : Nat, user : Users, res : Resources,
             phase : {"sent", "answered", "failed"}, content : SUBSET Sessions,
             cachedXhr : BOOLEAN, cached : SUBSET SUBSET Sessions]
Writes   == [kind : {"write"}, user : Users, res : Resources,
             session : Sessions, method : Methods, owner : Users \cup {None},
             from : {"page", "replay", "gone"}, id : Nat,
             phase : {"sent", "ok", "failed"}]
Enqueues == [kind : {"enqueue"}, session : Sessions, method : Methods,
             owner : Users \cup {None}, phase : {"open", "use"}]
Replays  == [kind : {"replay"}, id : Nat,
             phase : {"open", "use", "wait", "load"}, left : SUBSET Sessions]

Jobs == Loads \cup Writes \cup Enqueues \cup Replays

TypeOK ==
  /\ server \in [Users -> [Resources -> SUBSET Sessions]]
  /\ user \in Users \cup {None}
  /\ cache \in [Resources -> SUBSET Sessions]
  /\ shown \in [Resources -> SUBSET Sessions]
  /\ selected \in Sessions
  /\ master \in BOOLEAN /\ fetching \in BOOLEAN /\ deleting \in BOOLEAN
  /\ held \in BOOLEAN /\ overlapped \in BOOLEAN /\ unloaded \in BOOLEAN
  /\ waiting \subseteq Changes
  /\ swCache \in [Resources -> SUBSET SUBSET Sessions]
  /\ \A res \in Resources : \A a, b \in swCache[res] : a = b
  /\ queue \in [Sessions -> Updates]
  /\ jobs \subseteq Jobs
  /\ signs \in Nat /\ changes \in Nat /\ failures \in 0 .. MaxFailures

(* A replay that waits has something to wait for.                           *)
Awaited ==
  \A r \in jobs : r.kind = "replay" /\ r.phase = "wait" =>
    r.left # {} /\ \A s \in r.left :
      \E w \in jobs : FromReplay(w) /\ w.id = r.id /\ w.session = s

(* The page has come to rest and nothing has overlapped until now.          *)
Calm == ~overlapped /\ ~Busy /\ ~deleting /\ master

(* As long as nothing overlaps, and whatever fails, is queued, sent again, *)
(* cached and deleted: at rest the page marks the sessions that the server *)
(* has for the user, but for changes that are still queued, unless content *)
(* could not be loaded; and none when that user has signed out.            *)
ShownIsSaved ==
  Calm => IF user = None THEN shown["schedule"] \cup cache["schedule"] = {}
          ELSE unloaded \/ \A s \in Sessions :
                 queue[s] # NoUpdate
                   \/ (s \in shown["schedule"] <=> s \in server[user]["schedule"])

(* As long as nothing has overlapped, a change is sent only in the name of *)
(* the user who has made it: what is queued goes with the session.         *)
SentByItsOwner ==
  ~overlapped => \A w \in jobs : w.kind = "write" => w.owner = w.user

(* Unless a request fails, the page does not say for ever that it fetches. *)
FetchingEnds == fetching ~> (~fetching \/ failures > 0)

(* A replay always ends and lets the schedule load, although it may have   *)
(* to wait for the queue to be deleted and that for other connections.     *)
ReplayEnds == \A n \in 1 .. MaxSigns :
  (\E r \in jobs : r.kind = "replay" /\ r.id = n)
    ~> ~(\E r \in jobs : r.kind = "replay" /\ r.id = n)
===============================================================================
