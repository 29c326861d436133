--------------------------- MODULE EventClockProofs ---------------------------
(***************************************************************************)
(* Proofs about EventClock: however runs overlap, fail and try again, each *)
(* start and each survey is announced once, and a start is announced       *)
(* before it happens.                                                      *)
(***************************************************************************)
EXTENDS EventClock, TLAPS

(* What a run is about to commit is new, unless another has committed since *)
(* its snapshot was taken; and it is something.                             *)
FilteredInv ==
  \A r \in Runs : pc[r] = "commit" =>
    /\ items[r] # {}
    /\ touched[r] = Len(changes) => items[r] \cap next = {}

(* What counts as announced is what has been stored for the devices.        *)
NextInv == next = UNION {changes[i].items : i \in 1..Len(changes)}

Inv == TypeOK /\ FilteredInv /\ NextInv /\ AnnouncedOnce

-----------------------------------------------------------------------------
(* What a run compares the schedule with gives sessions of the schedule.    *)
LEMMA UpcomingType ==
  ASSUME NEW t \in Nat, NEW d \in Schedules
  PROVE  /\ upcomingSessions(t, d) \subseteq Items
         /\ upcomingSurveys(t, d) \subseteq Items
  BY DEF upcomingSessions, upcomingSurveys, After, Scheduled, Items

LEMMA InvInit == Init => Inv
  <1> SUFFICES ASSUME Init PROVE Inv
    OBVIOUS
  <1>1. TypeOK
    BY ClockAssumption DEF Init, TypeOK
  <1>2. FilteredInv
    BY DEF Init, FilteredInv
  <1>3. NextInv /\ AnnouncedOnce
    BY DEF Init, NextInv, AnnouncedOnce
  <1> QED
    BY <1>1, <1>2, <1>3 DEF Inv

TypesOfRuns ==
  /\ pc \in [Runs -> {"idle", "filter", "commit"}]
  /\ began \in [Runs -> 0..now]
  /\ items \in [Runs -> SUBSET Items]
  /\ all \in [Runs -> BOOLEAN]
  /\ touched \in [Runs -> 0..Len(changes)]
  /\ attempt \in [Runs -> 0..MaxAttempts]

(* The end of a run keeps the types of its variables.                       *)
LEMMA FinishType ==
  ASSUME TypeOK, NEW r \in Runs, Finish(r), now' = now,
         Len(changes) \in Nat, Len(changes') \in Nat, Len(changes') >= Len(changes)
  PROVE  TypesOfRuns'
  BY ClockAssumption DEF Finish, Goto, TypeOK, TypesOfRuns

LEMMA TypeNext == TypeOK /\ [Next]_vars => TypeOK'
  <1> SUFFICES ASSUME TypeOK, [Next]_vars PROVE TypeOK'
    OBVIOUS
  <1>0. Len(changes) \in Nat /\ now \in Nat /\ MaxAttempts \in Nat \ {0}
    BY ClockAssumption DEF TypeOK
  <1>1. CASE Tick
    BY <1>0, <1>1 DEF Tick, TypeOK, feed, run
  <1>2. CASE Publish
    BY <1>2 DEF Publish, TypeOK, feed, run
  <1>3. CASE Expire
    BY <1>0, <1>3 DEF Expire, TypeOK, feed, run
  <1>4. ASSUME NEW r \in Runs, ClockStart(r) PROVE TypeOK'
    <2>1. PICK d \in {schedule, cached} :
            /\ items' = [items EXCEPT ![r] = upcomingSessions(now, d)
                                              \cup upcomingSurveys(now, d)]
            /\ all' = [all EXCEPT ![r] = upcomingSurveys(now, d) # {}]
      BY <1>4 DEF ClockStart
    <2>2. d \in Schedules /\ now \in Nat
      BY DEF TypeOK
    <2>3. items' \in [Runs -> SUBSET Items] /\ all' \in [Runs -> BOOLEAN]
      BY <2>1, <2>2, UpcomingType DEF TypeOK
    <2>4. /\ pc' \in [Runs -> {"idle", "filter", "commit"}]
          /\ began' \in [Runs -> 0..now']
          /\ attempt' \in [Runs -> 0..MaxAttempts]
      BY <1>0, <1>4 DEF ClockStart, Goto, TypeOK
    <2> QED
      BY <1>4, <2>3, <2>4 DEF ClockStart, TypeOK, feed
  <1>5. ASSUME NEW r \in Runs, FilterNext(r) PROVE TypeOK'
    <2>1. CASE items[r] \ next = {}
      <3>1. Finish(r) /\ ran' \in 0..now
        BY <1>5, <2>1 DEF FilterNext, Succeed, TypeOK
      <3>2. UNCHANGED <<now, schedule, cached, known, next, changes, tasks>>
        BY <1>5 DEF FilterNext, feed
      <3>3. TypesOfRuns'
        BY <1>0, <3>1, <3>2, FinishType
      <3> QED
        BY <3>1, <3>2, <3>3 DEF TypeOK, TypesOfRuns
    <2>2. CASE items[r] \ next # {}
      <3>1. /\ pc' = [pc EXCEPT ![r] = "commit"]
            /\ items' = [items EXCEPT ![r] = items[r] \ next]
            /\ touched' = [touched EXCEPT ![r] = Len(changes)]
            /\ UNCHANGED <<now, schedule, cached, known, feed, ran, began, all, attempt>>
        BY <1>5, <2>2 DEF FilterNext, Goto
      <3>2. items' \in [Runs -> SUBSET Items]
        BY <3>1 DEF TypeOK
      <3>3. touched' \in [Runs -> 0..Len(changes)]
        BY <1>0, <3>1 DEF TypeOK
      <3> QED
        BY <3>1, <3>2, <3>3 DEF TypeOK, feed
    <2> QED
      BY <2>1, <2>2
  <1>6. ASSUME NEW r \in Runs, Commit(r) PROVE TypeOK'
    <2>1. [ts |-> began[r], items |-> items[r]] \in [ts : Nat, items : SUBSET Items]
      BY DEF TypeOK
    <2>2. /\ changes' \in Seq([ts : Nat, items : SUBSET Items])
          /\ Len(changes') = Len(changes) + 1
      BY <1>6, <2>1 DEF Commit, TypeOK
    <2>3. [sessions |-> {i[1] : i \in items[r]}, all |-> all[r]]
            \in [sessions : SUBSET Sessions, all : BOOLEAN]
      BY DEF TypeOK, Items
    <2>4. tasks' \in Seq([sessions : SUBSET Sessions, all : BOOLEAN])
      BY <1>6, <2>3 DEF Commit, TypeOK
    <2>5. next' \subseteq Items
      BY <1>6 DEF Commit, TypeOK
    <2>6. Finish(r) /\ ran' \in 0..now /\ now' = now
      BY <1>6 DEF Commit, Succeed, TypeOK
    <2>7. TypesOfRuns'
      BY <1>0, <2>2, <2>6, FinishType
    <2>8. UNCHANGED <<schedule, cached, known>>
      BY <1>6 DEF Commit
    <2> QED
      BY <2>2, <2>4, <2>5, <2>6, <2>7, <2>8 DEF TypeOK, TypesOfRuns
  <1>7. ASSUME NEW r \in Runs, Conflict(r) PROVE TypeOK'
    <2>1. CASE attempt[r] < MaxAttempts
      <3>1. /\ pc' = [pc EXCEPT ![r] = "filter"]
            /\ touched' = [touched EXCEPT ![r] = 0]
            /\ attempt' = [attempt EXCEPT ![r] = attempt[r] + 1]
            /\ UNCHANGED <<now, schedule, cached, known, feed, ran, began, items, all>>
        BY <1>7, <2>1 DEF Conflict, Goto
      <3>2. attempt[r] + 1 \in 0..MaxAttempts
        BY <1>0, <2>1 DEF TypeOK
      <3> QED
        BY <1>0, <3>1, <3>2 DEF TypeOK, feed
    <2>2. CASE ~(attempt[r] < MaxAttempts)
      <3>1. Finish(r) /\ UNCHANGED <<now, schedule, cached, known, ran, feed>>
        BY <1>7, <2>2 DEF Conflict
      <3>2. TypesOfRuns'
        BY <1>0, <3>1, FinishType DEF feed
      <3> QED
        BY <3>1, <3>2 DEF TypeOK, TypesOfRuns, feed
    <2> QED
      BY <2>1, <2>2
  <1>8. ASSUME NEW r \in Runs, Abort(r) PROVE TypeOK'
    <2>1. Finish(r) /\ UNCHANGED <<now, schedule, cached, known, ran, feed>>
      BY <1>8 DEF Abort
    <2>2. TypesOfRuns'
      BY <1>0, <2>1, FinishType DEF feed
    <2> QED
      BY <2>1, <2>2 DEF TypeOK, TypesOfRuns, feed
  <1>9. CASE UNCHANGED vars
    BY <1>9 DEF vars, TypeOK
  <1> QED
    BY <1>1, <1>2, <1>3, <1>4, <1>5, <1>6, <1>7, <1>8, <1>9 DEF Next, Work

-----------------------------------------------------------------------------
(* A step that commits nothing, and leaves the runs that are about to       *)
(* commit as they are, keeps the invariant.                                 *)
LEMMA QuietStep ==
  ASSUME Inv, UNCHANGED feed,
         \A r \in Runs : pc'[r] = "commit" =>
           pc[r] = "commit" /\ items'[r] = items[r] /\ touched'[r] = touched[r]
  PROVE  (FilteredInv /\ NextInv /\ AnnouncedOnce)'
  BY DEF Inv, FilteredInv, NextInv, AnnouncedOnce, feed

LEMMA CommitStep ==
  ASSUME Inv, NEW r \in Runs, Commit(r)
  PROVE  (FilteredInv /\ NextInv /\ AnnouncedOnce)'
  <1> DEFINE c == [ts |-> began[r], items |-> items[r]]
  <1>1. /\ changes' = Append(changes, c)
        /\ next' = next \cup items[r]
    BY DEF Commit
  <1>2. items[r] # {} /\ items[r] \cap next = {} /\ items[r] \subseteq Items
    BY DEF Commit, Inv, FilteredInv, TypeOK
  <1>3. /\ changes \in Seq([ts : Nat, items : SUBSET Items])
        /\ Len(changes) \in Nat
    BY DEF Inv, TypeOK
  <1> HIDE DEF c
  <1>4. /\ Len(changes') = Len(changes) + 1
        /\ changes'[Len(changes) + 1] = c
        /\ \A i \in 1..Len(changes) : changes'[i] = changes[i]
    BY <1>1, <1>3
  <1>6. FilteredInv'
    <2>1. \A q \in Runs : pc'[q] = "commit" =>
            q # r /\ pc[q] = "commit" /\ items'[q] = items[q] /\ touched'[q] = touched[q]
      BY DEF Commit, Succeed, Finish, Goto, Inv, TypeOK
    <2>2. \A q \in Runs : touched[q] # Len(changes')
      BY <1>3, <1>4 DEF Inv, TypeOK
    <2> QED
      BY <2>1, <2>2 DEF Inv, FilteredInv
  <1>7. NextInv'
    <2>1. next = UNION {changes[i].items : i \in 1..Len(changes)}
      BY DEF Inv, NextInv
    <2>2. c.items = items[r]
      BY DEF c
    <2>3. next' = UNION {changes'[i].items : i \in 1..Len(changes')}
      <3>1. 1..Len(changes') = 1..Len(changes) \cup {Len(changes) + 1}
        BY <1>3, <1>4
      <3>2. ASSUME NEW x \in next'
            PROVE  x \in UNION {changes'[i].items : i \in 1..Len(changes')}
        <4>1. CASE x \in items[r]
          BY <1>4, <2>2, <3>1, <4>1
        <4>2. CASE x \in next
          <5>1. PICK i \in 1..Len(changes) : x \in changes[i].items
            BY <2>1, <4>2
          <5> QED
            BY <1>4, <3>1, <5>1
        <4> QED
          BY <1>1, <3>2, <4>1, <4>2
      <3>3. ASSUME NEW i \in 1..Len(changes') PROVE changes'[i].items \subseteq next'
        BY <1>1, <1>4, <2>1, <2>2, <3>1
      <3> QED
        BY <3>2, <3>3
    <2> QED
      BY <2>3 DEF NextInv
  <1>8. AnnouncedOnce'
    <2>1. \A i \in 1..Len(changes) : changes[i].items \cap items[r] = {}
      BY <1>2 DEF Inv, NextInv
    <2>2. c.items = items[r]
      BY DEF c
    <2>3. \A i \in 1..Len(changes') : i \in 1..Len(changes) \/ i = Len(changes) + 1
      BY <1>3, <1>4
    <2> QED
      BY <1>4, <2>1, <2>2, <2>3 DEF Inv, AnnouncedOnce
  <1> QED
    BY <1>6, <1>7, <1>8

LEMMA InvNext == Inv /\ [Next]_vars => Inv'
  <1> SUFFICES ASSUME Inv, [Next]_vars PROVE Inv'
    OBVIOUS
  <1>0. TypeOK'
    BY TypeNext DEF Inv
  <1> DEFINE Goal == (FilteredInv /\ NextInv /\ AnnouncedOnce)'
  <1>1. CASE Tick \/ Publish \/ Expire
    BY <1>0, <1>1, QuietStep DEF Tick, Publish, Expire, run, Inv
  <1>2. ASSUME NEW r \in Runs, ClockStart(r) PROVE Goal
    BY <1>2, QuietStep DEF ClockStart, Goto, Inv, TypeOK
  <1>3. ASSUME NEW r \in Runs, FilterNext(r) PROVE Goal
    <2>1. CASE items[r] \ next = {}
      BY <1>3, <2>1, QuietStep DEF FilterNext, Succeed, Finish, Goto, Inv, TypeOK
    <2>2. CASE items[r] \ next # {}
      <3>1. /\ items' = [items EXCEPT ![r] = items[r] \ next]
            /\ touched' = [touched EXCEPT ![r] = Len(changes)]
            /\ pc' = [pc EXCEPT ![r] = "commit"]
            /\ UNCHANGED feed
        BY <1>3, <2>2 DEF FilterNext, Goto
      <3>2. FilteredInv'
        BY <2>2, <3>1 DEF Inv, FilteredInv, TypeOK, feed
      <3>3. (NextInv /\ AnnouncedOnce)'
        BY <3>1 DEF Inv, NextInv, AnnouncedOnce, feed
      <3> QED
        BY <3>2, <3>3
    <2> QED
      BY <2>1, <2>2
  <1>4. ASSUME NEW r \in Runs, Commit(r) PROVE Goal
    BY <1>4, CommitStep
  <1>5. ASSUME NEW r \in Runs, Conflict(r) PROVE Goal
    BY <1>5, QuietStep DEF Conflict, Finish, Goto, Inv, TypeOK
  <1>6. ASSUME NEW r \in Runs, Abort(r) PROVE Goal
    BY <1>6, QuietStep DEF Abort, Finish, Goto, Inv, TypeOK
  <1>7. CASE UNCHANGED vars
    BY <1>0, <1>7, QuietStep DEF vars, feed, Inv
  <1> QED
    BY <1>0, <1>1, <1>2, <1>3, <1>4, <1>5, <1>6, <1>7 DEF Next, Work, Inv

(* The types, and what the promises of the clock rest on, always hold.      *)
THEOREM ClockInvariant == Spec => []Inv
  <1>1. Init => Inv
    BY InvInit
  <1>2. Inv /\ [Next]_vars => Inv'
    BY InvNext
  <1> QED
    BY <1>1, <1>2, PTL DEF Spec

(* A start, and a survey, is announced once, for every number of runs that  *)
(* overlap and every schedule.                                              *)
THEOREM Once == Spec => []AnnouncedOnce
  <1>1. Inv => AnnouncedOnce
    BY DEF Inv
  <1> QED
    BY <1>1, ClockInvariant, PTL

-----------------------------------------------------------------------------
(* OnTime                                                                   *)

(* A run that began at t, when both the schedule and the cache had the      *)
(* session at its time for longer, finds it if it is due.                   *)
Due(s, t) ==
  /\ s \in Scheduled(schedule)
  /\ cached[s] = schedule[s]
  /\ known[s] < t
  /\ schedule[s] - t \in 1..(Start - 1)

(* A run will announce what it has found, unless another did; the last run  *)
(* that succeeded has announced it, and it is not long ago.                 *)
TimelyInv ==
  /\ \A r \in Runs : pc[r] # "idle" =>
       \A s \in Sessions : Due(s, began[r]) =>
         <<s, "start">> \in items[r] \cup next
  /\ \A s \in Sessions : Due(s, ran) => <<s, "start">> \in next
  /\ now - ran <= Grace

LEMMA Times ==
  ASSUME TypeOK
  PROVE  /\ now \in Nat /\ ran \in 0..now
         /\ Start \in Nat /\ Grace \in Nat \ {0}
         /\ \A s \in Sessions : known[s] \in 0..now
         /\ \A r \in Runs : began[r] \in 0..now
         /\ \A s \in Scheduled(schedule) : s \in Sessions /\ schedule[s] \in Int
BY ClockAssumption DEF TypeOK, Schedules, Scheduled

(* What is due has been due: the schedule and the cache agree on a session  *)
(* only from when the cache has got its time on.                            *)
LEMMA DueBefore ==
  ASSUME TypeOK, Tick \/ Publish \/ Expire, NEW s \in Sessions,
         NEW t \in 0..now, Due(s, t)'
  PROVE  Due(s, t)
<1>1. CASE Tick
  BY <1>1 DEF Tick, Due, Scheduled
<1>2. CASE Publish
  BY <1>2 DEF Publish, Due, Scheduled
<1>3. CASE Expire
  <2>1. cached[s] = schedule[s]
    <3>1. cached[s] # schedule[s] => known'[s] = now
      BY <1>3 DEF Expire
    <3>2. known'[s] < t
      BY DEF Due
    <3> QED  BY <3>1, <3>2, Times
  <2>2. known'[s] = known[s] /\ schedule' = schedule
    BY <1>3, <2>1 DEF Expire, TypeOK
  <2> QED  BY <2>1, <2>2 DEF Due, Scheduled
<1> QED  BY <1>1, <1>2, <1>3

(* A run that succeeds has announced what it has found.                     *)
LEMMA SucceedStep ==
  ASSUME TypeOK, TimelyInv, NEW r \in Runs, pc[r] # "idle", Succeed(r),
         UNCHANGED <<now, schedule, cached, known>>,
         next' = next \cup items[r]
  PROVE  TimelyInv'
<1>1. \A q \in Runs : pc'[q] # "idle" =>
         /\ q # r /\ pc[q] # "idle"
         /\ began'[q] = began[q] /\ items'[q] = items[q]
  BY DEF Succeed, Finish, Goto, TypeOK
<1>2. ASSUME NEW q \in Runs, pc'[q] # "idle", NEW s \in Sessions,
             Due(s, began[q])
      PROVE  <<s, "start">> \in items'[q] \cup next'
  BY <1>1, <1>2 DEF TimelyInv
<1>3. ASSUME NEW s \in Sessions, Due(s, ran')
      PROVE  <<s, "start">> \in next'
  <2>1. ran' = began[r] \/ ran' = ran
    BY DEF Succeed
  <2> QED  BY <1>3, <2>1 DEF TimelyInv
<1>4. now' - ran' <= Grace
  BY Times DEF Succeed, TimelyInv
<1>5. \A q \in Runs : pc'[q] # "idle" =>
        \A s \in Sessions : Due(s, began[q])' => Due(s, began[q])
  BY <1>1 DEF Due, Scheduled
<1>6. \A s \in Sessions : Due(s, ran)' => Due(s, ran')
  BY DEF Due, Scheduled
<1>7. \A q \in Runs : pc'[q] # "idle" => \A s \in Sessions :
        Due(s, began[q])' => <<s, "start">> \in items'[q] \cup next'
  BY <1>2, <1>5
<1>8. \A s \in Sessions : Due(s, ran)' => <<s, "start">> \in next'
  BY <1>3, <1>6
<1> QED  BY <1>4, <1>7, <1>8 DEF TimelyInv

LEMMA TimelyNext == TypeOK /\ TimelyInv /\ [Next]_vars => TimelyInv'
<1> SUFFICES ASSUME TypeOK, TimelyInv, [Next]_vars PROVE TimelyInv'
  OBVIOUS
<1>1. CASE Tick \/ Publish \/ Expire
  <2>1. UNCHANGED <<ran, feed, run>>
    BY <1>1 DEF Tick, Publish, Expire
  <2>2. \A s \in Sessions, t \in 0..now : Due(s, t)' => Due(s, t)
    BY <1>1, DueBefore
  <2>3. \A s \in Sessions : /\ Due(s, ran)' => Due(s, ran)
                           /\ \A r \in Runs :
                                   Due(s, began[r])' => Due(s, began[r])
    <3>1. ran' = ran /\ ran \in 0..now
      BY <2>1, Times
    <3>2. \A r \in Runs : began'[r] = began[r] /\ began[r] \in 0..now
      BY <2>1, Times DEF run
    <3> QED  BY <2>2, <3>1, <3>2 DEF Due
  <2>4. now' - ran' <= Grace
    BY <1>1, <2>1, Times DEF Tick, Publish, Expire, TimelyInv
  <2> QED  BY <2>1, <2>3, <2>4 DEF TimelyInv, feed, run
<1>2. ASSUME NEW r \in Runs, ClockStart(r) PROVE TimelyInv'
  <2>1. PICK d \in {schedule, cached} :
          items' = [items EXCEPT ![r] = upcomingSessions(now, d)
                                          \cup upcomingSurveys(now, d)]
    BY <1>2 DEF ClockStart
  <2>2. /\ UNCHANGED <<now, schedule, cached, known, ran, next>>
        /\ pc' = [pc EXCEPT ![r] = "filter"]
        /\ began' = [began EXCEPT ![r] = now]
    BY <1>2 DEF ClockStart, Goto, feed
  <2>3. \A q \in Runs \ {r} : /\ pc'[q] = pc[q] /\ began'[q] = began[q]
                              /\ items'[q] = items[q]
    BY <2>1, <2>2 DEF TypeOK
  <2>4. ASSUME NEW s \in Sessions, Due(s, now)
        PROVE  <<s, "start">> \in items'[r]
    <3>1. s \in After(now, d, 1..(Start - 1))
      BY <2>4 DEF Due, After, Scheduled
    <3> QED  BY <2>1, <3>1 DEF upcomingSessions, TypeOK
  <2>5. began'[r] = now
    BY <2>2 DEF TypeOK
  <2>6. \A s \in Sessions : /\ Due(s, ran)' => Due(s, ran)
                           /\ \A q \in Runs :
                                   Due(s, began[q])' => Due(s, began'[q])
    BY <2>2 DEF Due, Scheduled
  <2> QED  BY <2>2, <2>3, <2>4, <2>5, <2>6 DEF TimelyInv
<1>3. ASSUME NEW r \in Runs, FilterNext(r) PROVE TimelyInv'
  <2>1. UNCHANGED <<now, schedule, cached, known, next>> /\ pc[r] = "filter"
    BY <1>3 DEF FilterNext, feed
  <2>2. CASE items[r] \ next = {}
    BY <1>3, <2>1, <2>2, SucceedStep DEF FilterNext
  <2>3. CASE items[r] \ next # {}
    <3>1. /\ items' = [items EXCEPT ![r] = items[r] \ next]
          /\ UNCHANGED <<ran, began>>
          /\ pc' = [pc EXCEPT ![r] = "commit"]
      BY <1>3, <2>3 DEF FilterNext, Goto
    <3>2. \A q \in Runs : /\ pc'[q] # "idle" => pc[q] # "idle"
                         /\ items[q] \cup next = items'[q] \cup next'
      BY <2>1, <3>1 DEF TypeOK
    <3>3. \A s \in Sessions : /\ Due(s, ran)' => Due(s, ran)
                             /\ \A q \in Runs :
                                     Due(s, began[q])' => Due(s, began[q])
      BY <2>1, <3>1 DEF Due, Scheduled
    <3> QED  BY <2>1, <3>1, <3>2, <3>3 DEF TimelyInv
  <2> QED  BY <2>2, <2>3
<1>4. ASSUME NEW r \in Runs, Commit(r) PROVE TimelyInv'
  BY <1>4, SucceedStep DEF Commit
<1>5. ASSUME NEW r \in Runs, Conflict(r) \/ Abort(r) PROVE TimelyInv'
  <2>1. UNCHANGED <<now, schedule, cached, known, ran, next>>
    BY <1>5 DEF Conflict, Abort, feed
  <2>2. \A q \in Runs : pc'[q] # "idle" =>
          pc[q] # "idle" /\ began'[q] = began[q] /\ items'[q] = items[q]
    BY <1>5 DEF Conflict, Abort, Finish, Goto, TypeOK
  <2>3. \A s \in Sessions : /\ Due(s, ran)' => Due(s, ran)
                           /\ \A q \in Runs :
                                   Due(s, began[q])' => Due(s, began'[q])
    BY <2>1 DEF Due, Scheduled
  <2> QED  BY <2>1, <2>2, <2>3 DEF TimelyInv
<1>6. CASE UNCHANGED vars
  BY <1>6 DEF vars, TimelyInv, Due, Scheduled
<1> QED  BY <1>1, <1>2, <1>3, <1>4, <1>5, <1>6 DEF Next, Work

(* When the time of a session comes, the last run that succeeded is one     *)
(* that has found it.                                                       *)
LEMMA OnTimeNext == TypeOK /\ TimelyInv /\ OnTime /\ [Next]_vars => OnTime'
<1> SUFFICES ASSUME TypeOK, TimelyInv, OnTime, [Next]_vars,
                    NEW s \in Scheduled(schedule)', (cached[s] = schedule[s])',
                    (schedule[s] <= now)', (schedule[s] - known[s] > Grace)',
                    Start > Grace
             PROVE  <<s, "start">> \in next'
  BY DEF OnTime
<1>0. s \in Sessions /\ next \subseteq next'
  BY DEF Scheduled, Next, Tick, Publish, Expire, ClockStart, Work, FilterNext,
         Commit, Conflict, Abort, vars, feed
<1>1. CASE Tick
  <2>1. /\ s \in Scheduled(schedule) /\ cached[s] = schedule[s]
        /\ schedule[s] <= now + 1 /\ schedule[s] - known[s] > Grace
    BY <1>1 DEF Tick, Scheduled
  <2>2. CASE schedule[s] <= now
    BY <1>0, <2>1, <2>2 DEF OnTime
  <2>3. CASE schedule[s] = now + 1
    <3>1. Due(s, ran)
      <4>1. now - ran < Grace
        BY <1>1 DEF Tick
      <4>2. known[s] < ran /\ schedule[s] - ran \in 1..(Start - 1)
        BY <1>0, <2>1, <2>3, <4>1, Times
      <4> QED  BY <2>1, <4>2 DEF Due
    <3> QED  BY <1>0, <3>1 DEF TimelyInv
  <2> QED  BY <2>1, <2>2, <2>3, Times
<1>2. CASE Publish
  <2>1. /\ s \in Scheduled(schedule) /\ cached[s] = schedule[s]
        /\ schedule[s] <= now /\ schedule[s] - known[s] > Grace
    BY <1>2 DEF Publish, Scheduled
  <2> QED  BY <1>0, <2>1 DEF OnTime
<1>3. CASE Expire
  <2>1. now' = now /\ schedule' = schedule /\ s \in Scheduled(schedule)
    BY <1>3 DEF Expire, Scheduled
  <2>2. known'[s] = IF cached[s] # schedule[s] THEN now ELSE known[s]
    BY <1>0, <1>3 DEF Expire
  <2>3. schedule[s] <= now /\ schedule[s] - known'[s] > Grace
    BY <2>1
  <2>4. cached[s] = schedule[s] /\ known'[s] = known[s]
    BY <2>1, <2>2, <2>3, Times
  <2> QED  BY <1>0, <2>1, <2>3, <2>4 DEF OnTime
<1>4. CASE UNCHANGED <<now, schedule, cached, known>>
  BY <1>0, <1>4 DEF OnTime, Scheduled
<1>5. \/ Tick \/ Publish \/ Expire
      \/ UNCHANGED <<now, schedule, cached, known>>
  BY DEF Next, ClockStart, Work, FilterNext, Commit, Conflict, Abort, vars
<1> QED  BY <1>1, <1>2, <1>3, <1>4, <1>5

(* OnTime: a session that the schedule and the cache have had at its time   *)
(* for longer than Grace is announced before it starts, however runs of     *)
(* handleClock overlap, fail and read stale versions, if no gap between     *)
(* those that succeed is longer than Grace.                                 *)
THEOREM InTime == Spec => []OnTime
<1>1. Init => TimelyInv /\ OnTime
  <2> SUFFICES ASSUME Init PROVE TimelyInv /\ OnTime
    OBVIOUS
  <2>1. /\ \A s \in Sessions : known[s] = 0
        /\ ran = 0 /\ now = 0 /\ \A r \in Runs : pc[r] = "idle"
    BY DEF Init
  <2>2. Grace \in Nat \ {0}
    BY ClockAssumption
  <2>3. TimelyInv
    BY <2>1, <2>2 DEF TimelyInv, Due
  <2>4. TypeOK
    BY InvInit DEF Inv
  <2>5. OnTime
    BY <2>1, <2>2, <2>4, Times DEF OnTime
  <2> QED  BY <2>3, <2>5
<1>2. TypeOK /\ TimelyInv /\ OnTime /\ [Next]_vars => (TimelyInv /\ OnTime)'
  BY TimelyNext, OnTimeNext
<1>3. Inv => TypeOK
  BY DEF Inv
<1> QED  BY <1>1, <1>2, <1>3, ClockInvariant, PTL DEF Spec
===============================================================================
