------------------------------ MODULE EventClock ------------------------------
(***************************************************************************)
(* The clock of the backend: handleClock (backend/handler.go), which cron  *)
(* runs every minute, announces sessions that are about to start, and the  *)
(* survey after the keynote.  What it has announced it keeps in entities   *)
(* of kindNext (backend/db_gae.go), written in the transaction that stores *)
(* the change and tells the subscribers.                                   *)
(*                                                                         *)
(* Runs may overlap.  A run reads the schedule before its transaction, and *)
(* perhaps from the cache, so it may see the start times of a while ago.   *)
(*                                                                         *)
(* Starting times that a run compares with are those of its own clock when *)
(* it began.                                                               *)
(***************************************************************************)
EXTENDS Integers, Sequences

CONSTANTS Runs,         \* invocations of handleClock that may overlap
          Sessions,     \* session IDs
          Keynote,      \* keynoteID: soonSessionIDs, surveySessionIDs
          Absent,       \* the schedule has no such session
          Starts,       \* start times that are ever scheduled
          Start,        \* timeoutStart: 10 minutes
          Soon,         \* timeoutSoon: 24 hours
          Survey,       \* timeoutSurvey: 4 days and a half hour
          Grace,        \* how old the last run that succeeded may get
          Faults,       \* which of the faults below may happen
          MaxAttempts,  \* attempts of RunInTransaction: 3
          MaxNow        \* BOUND: time ends here

(* "rpc": a call of the transaction fails, or it conflicts with one that is *)
(* not of a clock run; "crash": the instance dies.                          *)
AllFaults == {"rpc", "crash"}

ASSUME ClockAssumption ==
  /\ Keynote \in Sessions
  /\ Starts \subseteq Int
  /\ Absent \notin Starts
  /\ {Start, Soon, Survey, Grace, MaxAttempts} \subseteq Nat \ {0}
  /\ Start <= Soon
  /\ Faults \subseteq AllFaults
  /\ MaxNow \in Nat

VARIABLES
  now,       \* the time, in minutes
  schedule,  \* start times in the version stored last
  cached,    \* start times in the version that a cache still has
  known,     \* since when the cache, too, has the start time of a session
  ran,       \* when the last run that succeeded began
  next,      \* kindNext entities
  changes,   \* kindChanges entities of the clock, in the order of commits
  tasks,     \* notify-subscribers tasks of the clock, in the same order
  pc,        \* where each run waits
  began,     \* now of each run
  items,     \* allsess of each run
  all,       \* does it have a survey?
  touched,   \* the commits that the transaction's snapshot has
  attempt    \* attempt of the transaction

feed == <<next, changes, tasks>>
run  == <<pc, began, items, all, touched, attempt>>
vars == <<now, schedule, cached, known, ran, next, changes, tasks,
          pc, began, items, all, touched, attempt>>

Schedules == [Sessions -> Starts \cup {Absent}]

Items == Sessions \X {"start", "soon", "survey"}

Fault(f) == f \in Faults

Scheduled(d) == {s \in Sessions : d[s] # Absent}

Init ==
  /\ now = 0
  /\ schedule \in Schedules
  /\ cached = schedule
  /\ known = [s \in Sessions |-> 0]
  /\ ran = 0
  /\ next = {}
  /\ changes = <<>>
  /\ tasks = <<>>
  /\ pc = [r \in Runs |-> "idle"]
  /\ began = [r \in Runs |-> 0]
  /\ items = [r \in Runs |-> {}]
  /\ all = [r \in Runs |-> FALSE]
  /\ touched = [r \in Runs |-> 0]
  /\ attempt = [r \in Runs |-> 0]

-----------------------------------------------------------------------------
(* External: time, syncs and the cache                                      *)

(* Cron runs the clock, and a run succeeds before the last one is too old.  *)
Tick ==
  /\ now < MaxNow
  /\ now - ran < Grace
  /\ now' = now + 1
  /\ UNCHANGED <<schedule, cached, known, ran, feed, run>>

(* A sync stores a schedule.                                                *)
Publish ==
  /\ cached = schedule
  /\ schedule' \in Schedules \ {schedule}
  /\ UNCHANGED <<now, cached, known, ran, feed, run>>

(* A cached version expires.                                                *)
Expire ==
  /\ cached # schedule
  /\ cached' = schedule
  /\ known' = [s \in Sessions |-> IF cached[s] # schedule[s] THEN now ELSE known[s]]
  /\ UNCHANGED <<now, schedule, ran, feed, run>>

-----------------------------------------------------------------------------
(* The sessions that start at t plus one of the spans.                      *)
After(t, d, spans) == {s \in Scheduled(d) : d[s] - t \in spans}

(* Mutant: the keynote is announced a day before, and that is all.          *)
upcomingSessions_SoonFirst(t, d) ==
  {<<s, "soon">>  : s \in After(t, d, 1..(Soon - 1)) \cap {Keynote}} \cup
  {<<s, "start">> : s \in After(t, d, 1..(Start - 1)) \ {Keynote}}

upcomingSessions(t, d) ==
  {<<s, "start">> : s \in After(t, d, 1..(Start - 1))} \cup
  {<<s, "soon">>  : s \in After(t, d, Start..(Soon - 1)) \cap {Keynote}}

upcomingSurveys(t, d) ==
  {<<s, "survey">> : s \in {x \in Scheduled(d) \cap {Keynote} : t - d[x] >= Survey}}

Goto(r, label) == pc' = [pc EXCEPT ![r] = label]

(* The run is over; its variables are gone.                                 *)
Finish(r) ==
  /\ Goto(r, "idle")
  /\ began' = [began EXCEPT ![r] = 0]
  /\ items' = [items EXCEPT ![r] = {}]
  /\ all' = [all EXCEPT ![r] = FALSE]
  /\ touched' = [touched EXCEPT ![r] = 0]
  /\ attempt' = [attempt EXCEPT ![r] = 0]

Succeed(r) == Finish(r) /\ ran' = IF began[r] > ran THEN began[r] ELSE ran

(* handleClock, up to its transaction.                                      *)
ClockStart(r) ==
  /\ pc[r] = "idle"
  /\ \E d \in {schedule, cached} :
       LET surveys == upcomingSurveys(now, d)
       IN /\ items' = [items EXCEPT ![r] = upcomingSessions(now, d) \cup surveys]
          /\ all' = [all EXCEPT ![r] = surveys # {}]
  /\ began' = [began EXCEPT ![r] = now]
  /\ attempt' = [attempt EXCEPT ![r] = 1]
  /\ Goto(r, "filter")
  /\ UNCHANGED <<now, schedule, cached, known, ran, feed, touched>>

(* Mutant: the sessions are not filtered again.                             *)
FilterNext_Once(r) ==
  /\ pc[r] = "filter"
  /\ LET left == IF attempt[r] = 1 THEN items[r] \ next ELSE items[r]
     IN IF left = {}
          THEN Succeed(r)
          ELSE /\ items' = [items EXCEPT ![r] = left]
               /\ touched' = [touched EXCEPT ![r] = Len(changes)]
               /\ Goto(r, "commit")
               /\ UNCHANGED <<ran, began, all, attempt>>
  /\ UNCHANGED <<now, schedule, cached, known, feed>>

(* filterNextSessions, the first call of the transaction.  What it leaves   *)
(* out stays out when the transaction is tried again.                       *)
FilterNext(r) ==
  /\ pc[r] = "filter"
  /\ LET left == items[r] \ next
     IN IF left = {}
          THEN Succeed(r)
          ELSE /\ items' = [items EXCEPT ![r] = left]
               /\ touched' = [touched EXCEPT ![r] = Len(changes)]
               /\ Goto(r, "commit")
               /\ UNCHANGED <<ran, began, all, attempt>>
  /\ UNCHANGED <<now, schedule, cached, known, feed>>

(* storeNextSessions, storeChanges and notifySubscribersAsync commit.       *)
Commit(r) ==
  /\ pc[r] = "commit"
  /\ touched[r] = Len(changes)
  /\ next' = next \cup items[r]
  /\ changes' = Append(changes, [ts |-> began[r], items |-> items[r]])
  /\ tasks' = Append(tasks, [sessions |-> {i[1] : i \in items[r]}, all |-> all[r]])
  /\ Succeed(r)
  /\ UNCHANGED <<now, schedule, cached, known>>

(* ErrConcurrentTransaction                                                 *)
Conflict(r) ==
  /\ pc[r] = "commit"
  /\ touched[r] # Len(changes) \/ Fault("rpc")
  /\ IF attempt[r] < MaxAttempts
       THEN /\ Goto(r, "filter")
            /\ touched' = [touched EXCEPT ![r] = 0]
            /\ attempt' = [attempt EXCEPT ![r] = @ + 1]
            /\ UNCHANGED <<began, items, all>>
       ELSE Finish(r)
  /\ UNCHANGED <<now, schedule, cached, known, ran, feed>>

(* A call fails, or the instance dies: the transaction is rolled back.      *)
Abort(r) ==
  /\ pc[r] # "idle"
  /\ Fault("rpc") \/ Fault("crash")
  /\ Finish(r)
  /\ UNCHANGED <<now, schedule, cached, known, ran, feed>>

-----------------------------------------------------------------------------
Work(r) == FilterNext(r) \/ Commit(r) \/ Conflict(r)

Next == \/ Tick \/ Publish \/ Expire
        \/ \E r \in Runs : ClockStart(r) \/ Work(r) \/ Abort(r)

Spec == Init /\ [][Next]_vars

-----------------------------------------------------------------------------
(* Type invariant.                                                          *)
TypeOK ==
  /\ now \in Nat
  /\ schedule \in Schedules
  /\ cached \in Schedules
  /\ known \in [Sessions -> 0..now]
  /\ ran \in 0..now
  /\ next \subseteq Items
  /\ changes \in Seq([ts : Nat, items : SUBSET Items])
  /\ tasks \in Seq([sessions : SUBSET Sessions, all : BOOLEAN])
  /\ pc \in [Runs -> {"idle", "filter", "commit"}]
  /\ began \in [Runs -> 0..now]
  /\ items \in [Runs -> SUBSET Items]
  /\ all \in [Runs -> BOOLEAN]
  /\ touched \in [Runs -> 0..Len(changes)]
  /\ attempt \in [Runs -> 0..MaxAttempts]

(* A start, and a survey, is announced once, although runs overlap, fail    *)
(* and try again.                                                           *)
AnnouncedOnce ==
  \A i, j \in 1..Len(changes) : i # j => changes[i].items \cap changes[j].items = {}

(* A session whose start time the caches have in time is announced before   *)
(* it starts, however runs fail, if some run within Grace succeeds.         *)
OnTime ==
  \A s \in Scheduled(schedule) :
    (/\ cached[s] = schedule[s]
     /\ schedule[s] <= now
     /\ schedule[s] - known[s] > Grace
     /\ Start > Grace) => <<s, "start">> \in next
===============================================================================
