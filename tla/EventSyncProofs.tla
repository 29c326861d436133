--------------------------- MODULE EventSyncProofs ---------------------------
(***************************************************************************)
(* Theorems about EventSync, for any number of requests, readers, cache    *)
(* shards, schedules and times, with any of the faults:                    *)
(*   - its state has the right type,                                       *)
(*   - the guard admits one sync at a time (unless memcache evicts it),    *)
(*   - it implements ChangeFeed, and so keeps the promises of the feed,    *)
(*   - a version that mixes two publications does not pass for the newer   *)
(*     (if the times of the manifests tell publications apart),            *)
(*   - versions are stored in order (unless memcache evicts the guard, or  *)
(*     a manifest comes without its time),                                 *)
(*   - each change is the difference to the version before (if also no     *)
(*     reader fills the caches and no call to memcache fails).             *)
(***************************************************************************)
EXTENDS EventSync, TLAPS

(* The version a sync is about to store was published after the version it  *)
(* is compared with; if there was none, the snapshot has none either.       *)
CommitReady(p) ==
  /\ pc[p] = "fill" => old[p] # 0
  /\ pc[p] \in {"manifest", "files", "store", "commit"} /\ old[p] = 0
       => touched[p] = 0
  /\ pc[p] \in {"files", "store", "commit"}
       => /\ new[p] \in eventData
          /\ old[p] # 0 => new[p].modified > versions[old[p]].modified
  /\ pc[p] \in {"store", "commit"} => ~isEmptyEventData(new[p].data)

CommitInv == \A p \in Requests : CommitReady(p)

GuardInv ==
  /\ \A p \in Requests : Syncing(p) => guard > 0
  /\ SyncExclusive

(* Resetting and counting keep the guard in its range, and counting makes   *)
(* it positive.                                                             *)
LEMMA GuardCount ==
  ASSUME NEW n \in 0..MaxGuard
  PROVE  Count(n) \in 0..MaxGuard /\ Count(n) > 0 /\ Reset(n) \in 0..MaxGuard
BY SyncAssumption DEF Count, Reset

LEMMA NoDataType == NoData \in [modified : Times \cup {0}, data : Data]
BY DEF NoData, Data

(* What the steps of a request do to its place and its variables is typed.  *)
LEMMA LocalType ==
  ASSUME TypeOK, NEW p \in Procs, NEW n \in 0..MaxAttempts, Forget(p, n)
  PROVE  /\ old' \in [Procs -> 0..Len(versions)]
         /\ new' \in [Procs -> [modified : Times \cup {0}, data : Data]]
         /\ touched' \in [Procs -> {Untouched} \cup 0..Len(versions)]
         /\ attempt' \in [Procs -> 0..MaxAttempts]
<1>1. versions \in Seq(eventData) /\ Len(versions) \in Nat  BY DEF TypeOK
<1>2. /\ old \in [Procs -> 0..Len(versions)]
      /\ new \in [Procs -> [modified : Times \cup {0}, data : Data]]
      /\ touched \in [Procs -> {Untouched} \cup 0..Len(versions)]
      /\ attempt \in [Procs -> 0..MaxAttempts]
  BY DEF TypeOK
<1>3. /\ old' = [old EXCEPT ![p] = 0]
      /\ new' = [new EXCEPT ![p] = NoData]
      /\ touched' = [touched EXCEPT ![p] = Untouched]
      /\ attempt' = [attempt EXCEPT ![p] = n]
  BY DEF Forget
<1>4. new' \in [Procs -> [modified : Times \cup {0}, data : Data]]
  BY <1>2, <1>3, NoDataType
<1> HIDE DEF Untouched
<1> QED  BY <1>1, <1>2, <1>3, <1>4

(* The time of a fetched manifest is not before that of its schedule.       *)
LEMMA FetchedTime ==
  ASSUME gcs \in eventData, NEW t \in Modified
  PROVE  /\ [modified |-> t, data |-> gcs.data] \in eventData
         /\ t \in Nat /\ gcs.modified \in Nat /\ t >= gcs.modified
         /\ "header" \notin Faults => [modified |-> t, data |-> gcs.data] = gcs
<1>1. gcs.modified \in Times /\ gcs.data \in Data
  BY DEF eventData
<1>2. gcs = [modified |-> gcs.modified, data |-> gcs.data]
  BY DEF eventData
<1>3. \A x \in Times : x \in Nat
  BY ScheduleAssumption
<1>4. t \in Times /\ (t = gcs.modified \/ (Fault("header") /\ t >= gcs.modified))
  <2>1. t = gcs.modified \/ (t \in Times /\ Fault("header") /\ Now(t))
    BY DEF Modified
  <2>2. CASE t = gcs.modified
    <3>1. t \in Times  BY <1>1, <2>2
    <3> QED  BY <2>2, <3>1
  <2>3. CASE t \in Times /\ Fault("header") /\ Now(t)
    <3>1. t >= gcs.modified  BY <2>3 DEF Now
    <3> QED  BY <2>3, <3>1
  <2> QED  BY <2>1, <2>2, <2>3
<1>5. t >= gcs.modified
  <2>1. CASE t = gcs.modified
    <3>1. gcs.modified \in Nat  BY <1>1, <1>3
    <3> QED  BY <2>1, <3>1
  <2>2. CASE Fault("header") /\ t >= gcs.modified  BY <2>2
  <2> QED  BY <1>4, <2>1, <2>2
<1>6. [modified |-> t, data |-> gcs.data] \in eventData
  BY <1>1, <1>4 DEF eventData
<1>7. "header" \notin Faults => [modified |-> t, data |-> gcs.data] = gcs
  BY <1>2, <1>4 DEF Fault
<1>8. gcs.modified \in Nat /\ t \in Nat
  BY <1>1, <1>3, <1>4
<1> QED  BY <1>5, <1>6, <1>7, <1>8

LEMMA TypeInit == Init => TypeOK
<1> SUFFICES ASSUME Init PROVE TypeOK
  OBVIOUS
<1>1. gcs \in eventData /\ versions \in Seq(eventData) /\ Len(versions) = 0
  BY DEF Init
<1>2. new \in [Procs -> [modified : Times \cup {0}, data : Data]]
  BY NoDataType DEF Init
<1>3. pc \in [Procs -> InTx \cup {"idle", "unguard"}]
  BY DEF Init, InTx
<1>4. /\ cache \in [Shards -> 0..Len(versions)]
      /\ old \in [Procs -> 0..Len(versions)]
      /\ touched \in [Procs -> {Untouched} \cup 0..Len(versions)]
      /\ attempt \in [Procs -> 0..MaxAttempts]
      /\ guard \in 0..MaxGuard
  BY <1>1, SyncAssumption DEF Init
<1> QED  BY <1>1, <1>2, <1>3, <1>4 DEF Init, TypeOK

LEMMA TypeNext == TypeOK /\ CommitInv /\ [Next]_vars => TypeOK'
<1> SUFFICES ASSUME TypeOK, CommitInv, [Next]_vars PROVE TypeOK'
  OBVIOUS
<1> USE DEF Goto
<1>0. /\ gcs \in eventData
      /\ versions \in Seq(eventData)
      /\ Len(versions) \in Nat
      /\ guard \in 0..MaxGuard
      /\ 1 \in 0..MaxAttempts /\ 0 \in 0..MaxAttempts
  BY SyncAssumption DEF TypeOK
<1>a. ASSUME NEW p \in Procs, NEW l \in InTx \cup {"idle", "unguard"},
             pc' = [pc EXCEPT ![p] = l]
      PROVE  pc' \in [Procs -> InTx \cup {"idle", "unguard"}]
  BY <1>a DEF TypeOK
<1>1. CASE Publish
  <2>1. gcs' \in eventData
    BY <1>1, SyncAssumption DEF Publish, eventData
  <2> QED  BY <1>1, <2>1 DEF Publish, TypeOK, store, local
<1>2. ASSUME NEW p \in Requests, SyncStart(p) PROVE TypeOK'
  <2>1. p \in Procs  BY DEF Procs
  <2>2. guard' \in 0..MaxGuard  BY <1>0, <1>2, GuardCount DEF SyncStart
  <2>3. Forget(p, 1)  BY <1>2 DEF SyncStart, Begin
  <2>4. pc' \in [Procs -> InTx \cup {"idle", "unguard"}]
    BY <1>2, <1>a, <2>1 DEF SyncStart, Begin, InTx
  <2> QED  BY <1>0, <1>2, <2>1, <2>2, <2>3, <2>4, LocalType
           DEF SyncStart, TypeOK, store
<1>3. ASSUME NEW p \in Requests, SyncRejected(p) \/ SyncGuardError(p)
      PROVE  TypeOK'
  <2>1. guard' \in 0..MaxGuard
    BY <1>0, <1>3, GuardCount DEF SyncRejected, SyncGuardError
  <2> QED  BY <1>3, <2>1 DEF SyncRejected, SyncGuardError, TypeOK, store, local
<1>4. ASSUME NEW p \in Procs, CacheHit(p) PROVE TypeOK'
  <2>1. old' \in [Procs -> 0..Len(versions)]
    BY <1>4 DEF CacheHit, TypeOK
  <2>2. pc' \in [Procs -> InTx \cup {"idle", "unguard"}]
    BY <1>4, <1>a DEF CacheHit, Got, InTx
  <2> QED  BY <1>4, <2>1, <2>2 DEF CacheHit, TypeOK, store
<1>5. ASSUME NEW p \in Procs, CacheMiss(p) PROVE TypeOK'
  <2>1. pc' \in [Procs -> InTx \cup {"idle", "unguard"}]
    BY <1>5, <1>a DEF CacheMiss, InTx
  <2> QED  BY <1>5, <2>1 DEF CacheMiss, TypeOK, store
<1>6. ASSUME NEW p \in Procs, Query(p) PROVE TypeOK'
  <2>1. pc' \in [Procs -> InTx \cup {"idle", "unguard"}]
    BY <1>6, <1>a DEF Query, Got, InTx
  <2>2. old' \in [Procs -> 0..Len(versions)]
    <3>1. old \in [Procs -> 0..Len(versions)]  BY DEF TypeOK
    <3>2. \E k \in 0..Len(versions) : old' = [old EXCEPT ![p] = k]
      <4>1. CASE versions = <<>>  BY <1>0, <1>6, <4>1 DEF Query
      <4>2. CASE versions # <<>>
        <5>1. PICK k \in Newest : old' = [old EXCEPT ![p] = k]
          BY <1>6, <4>2 DEF Query
        <5>2. k \in 0..Len(versions)  BY <1>0 DEF Newest
        <5> QED  BY <5>1, <5>2
      <4> QED  BY <4>1, <4>2
    <3> QED  BY <3>1, <3>2
  <2>3. touched' \in [Procs -> {Untouched} \cup 0..Len(versions)]
    BY <1>0, <1>6 DEF Query, TypeOK
  <2> QED  BY <1>6, <2>1, <2>2, <2>3 DEF Query, TypeOK, store
<1>7. ASSUME NEW p \in Procs, Fill(p) PROVE TypeOK'
  <2>1. pc' \in [Procs -> InTx \cup {"idle", "unguard"}]
    BY <1>7, <1>a DEF Fill, Got, InTx
  <2>2. cache' \in [Shards -> 0..Len(versions)]
    BY <1>7 DEF Fill, TypeOK
  <2>3. old' \in [Procs -> 0..Len(versions)]
    BY <1>0, <1>7 DEF Fill, TypeOK
  <2> QED  BY <1>7, <2>1, <2>2, <2>3 DEF Fill, TypeOK, store
<1>8. ASSUME NEW p \in Requests, FetchManifest(p) PROVE TypeOK'
  <2>1. p \in Procs  BY DEF Procs
  <2>2. pc' \in [Procs -> InTx \cup {"idle", "unguard"}]
    BY <1>8, <1>a, <2>1 DEF FetchManifest, Leave, InTx
  <2>3. CASE Leave(p)
    BY <1>0, <1>8, <2>1, <2>2, <2>3, LocalType
    DEF FetchManifest, Leave, TypeOK, store
  <2>4. ASSUME NEW t \in Modified,
               new' = [new EXCEPT ![p] = [modified |-> t, data |-> gcs.data]],
               UNCHANGED <<old, touched, attempt>>
        PROVE  TypeOK'
    <3>1. new' \in [Procs -> [modified : Times \cup {0}, data : Data]]
      <4>1. [modified |-> t, data |-> gcs.data] \in eventData
        BY <1>0, FetchedTime
      <4>2. [modified |-> t, data |-> gcs.data]
              \in [modified : Times \cup {0}, data : Data]
        BY <4>1 DEF eventData
      <4> QED  BY <2>4, <4>2 DEF TypeOK
    <3> QED  BY <1>8, <2>2, <2>4, <3>1 DEF FetchManifest, TypeOK, store
  <2> QED  BY <1>8, <2>3, <2>4 DEF FetchManifest
<1>9. ASSUME NEW p \in Requests, FetchFiles(p) PROVE TypeOK'
  <2>1. p \in Procs  BY DEF Procs
  <2>2. pc' \in [Procs -> InTx \cup {"idle", "unguard"}]
    BY <1>9, <1>a, <2>1 DEF FetchFiles, Leave, InTx
  <2>3. CASE Leave(p)
    BY <1>0, <1>9, <2>1, <2>2, <2>3, LocalType
    DEF FetchFiles, Leave, TypeOK, store
  <2>4. ASSUME NEW d \in Data, new' = [new EXCEPT ![p].data = d],
               UNCHANGED <<old, touched, attempt>>
        PROVE  TypeOK'
    <3>1. new' \in [Procs -> [modified : Times \cup {0}, data : Data]]
      BY <2>1, <2>4 DEF TypeOK
    <3> QED  BY <1>9, <2>2, <2>4, <3>1 DEF FetchFiles, TypeOK, store
  <2>5. PICK late \in SUBSET Sessions :
          LET d == [s \in Sessions |-> IF s \in late THEN gcs.data[s]
                                       ELSE new[p].data[s]]
          IN \/ Leave(p)
             \/ /\ new' = [new EXCEPT ![p].data = d]
                /\ UNCHANGED <<old, touched, attempt>>
    BY <1>9 DEF FetchFiles
  <2>6. gcs.data \in Data /\ new[p].data \in Data
    BY <2>1 DEF TypeOK, eventData
  <2>7. [s \in Sessions |-> IF s \in late THEN gcs.data[s] ELSE new[p].data[s]]
          \in Data
    BY <2>6 DEF Data
  <2> QED  BY <2>3, <2>4, <2>5, <2>7
<1>10. ASSUME NEW p \in Requests, Store(p) PROVE TypeOK'
  <2>1. p \in Procs  BY DEF Procs
  <2>2. pc' \in [Procs -> InTx \cup {"idle", "unguard"}]
    BY <1>10, <1>a, <2>1 DEF Store, InTx
  <2>3. touched' \in [Procs -> {Untouched} \cup 0..Len(versions)]
    <3>1. touched' = touched \/ touched' = [touched EXCEPT ![p] = Len(versions)]
      BY <1>10 DEF Store
    <3>2. Len(versions) \in 0..Len(versions)  BY <1>0
    <3> QED  BY <3>1, <3>2 DEF TypeOK
  <2>4. cache' \in [Shards -> 0..Len(versions)]
    <3>1. 0 \in 0..Len(versions)  BY <1>0
    <3> QED  BY <1>10, <3>1 DEF Store, TypeOK
  <2> QED  BY <1>10, <2>2, <2>3, <2>4 DEF Store, TypeOK, store
<1>11. ASSUME NEW p \in Requests, Commit(p) PROVE TypeOK'
  <2> DEFINE d == IF old[p] = 0 THEN {}
                  ELSE diffEventData(versions[old[p]].data, new[p].data)
             c == IF d = {} THEN {}
                  ELSE {[at |-> Len(versions) + 1, ts |-> new[p].modified,
                         sessions |-> d]}
  <2>1. p \in Procs  BY DEF Procs
  <2>2. new[p] \in eventData
    BY <1>11 DEF Commit, CommitInv, CommitReady
  <2>3. pc' \in [Procs -> InTx \cup {"idle", "unguard"}]
    BY <1>11, <1>a, <2>1 DEF Commit, Leave
  <2>4. /\ versions' \in Seq(eventData)
        /\ Len(versions') = Len(versions) + 1
    BY <1>0, <1>11, <2>2 DEF Commit, Recorded
  <2>5. d \in SUBSET Sessions  BY DEF diffEventData, Present
  <2>6. c \subseteq [at : Nat, ts : Times, sessions : SUBSET Sessions]
    BY <1>0, <2>2, <2>5 DEF eventData
  <2>7. /\ changes' = changes \cup c
        /\ tasks' = tasks \cup c
        /\ Forget(p, 0)
        /\ UNCHANGED <<gcs, cache, guard, shard>>
    BY <1>11 DEF Commit, Recorded, Leave
  <2>8. 0..Len(versions) \subseteq 0..Len(versions')
    BY <1>0, <2>4
  <2>9. /\ cache' \in [Shards -> 0..Len(versions')]
        /\ old' \in [Procs -> 0..Len(versions')]
        /\ touched' \in [Procs -> {Untouched} \cup 0..Len(versions')]
    <3>1. /\ cache' \in [Shards -> 0..Len(versions)]
          /\ old' \in [Procs -> 0..Len(versions)]
          /\ touched' \in [Procs -> {Untouched} \cup 0..Len(versions)]
      BY <1>0, <2>1, <2>7, LocalType DEF TypeOK
    <3> QED  BY <2>8, <3>1
  <2>10. /\ new' \in [Procs -> [modified : Times \cup {0}, data : Data]]
         /\ attempt' \in [Procs -> 0..MaxAttempts]
    BY <1>0, <2>1, <2>7, LocalType
  <2>11. /\ changes' \subseteq [at : Nat, ts : Times, sessions : SUBSET Sessions]
         /\ tasks' \subseteq [at : Nat, ts : Times, sessions : SUBSET Sessions]
    BY <2>6, <2>7 DEF TypeOK
  <2>12. gcs' \in eventData /\ guard' \in 0..MaxGuard /\ shard' \in [Procs -> Shards]
    BY <2>7 DEF TypeOK
  <2> HIDE DEF c
  <2> QED  BY <2>3, <2>4, <2>9, <2>10, <2>11, <2>12 DEF TypeOK
<1>12. ASSUME NEW p \in Requests, Conflict(p) PROVE TypeOK'
  <2>1. p \in Procs  BY DEF Procs
  <2>2. PICK n \in 0..MaxAttempts : Forget(p, n)
    <3>1. CASE attempt[p] < MaxAttempts
      <4>1. attempt[p] + 1 \in 0..MaxAttempts
        BY <2>1, <3>1, SyncAssumption DEF TypeOK
      <4> QED  BY <1>12, <3>1, <4>1 DEF Conflict, Begin
    <3>2. CASE ~(attempt[p] < MaxAttempts)
      BY <1>0, <1>12, <3>2 DEF Conflict, Leave
    <3> QED  BY <3>1, <3>2
  <2>3. pc' \in [Procs -> InTx \cup {"idle", "unguard"}]
    BY <1>12, <1>a, <2>1 DEF Conflict, Begin, Leave, InTx
  <2> QED  BY <1>0, <1>12, <2>1, <2>2, <2>3, LocalType
           DEF Conflict, TypeOK, store
<1>13. ASSUME NEW p \in Requests, Abort(p) \/ Crash(p) PROVE TypeOK'
  <2>1. p \in Procs  BY DEF Procs
  <2>2. Forget(p, 0)  BY <1>13 DEF Abort, Crash, Leave
  <2>3. pc' \in [Procs -> InTx \cup {"idle", "unguard"}]
    BY <1>13, <1>a, <2>1 DEF Abort, Crash, Leave
  <2> QED  BY <1>0, <1>13, <2>1, <2>2, <2>3, LocalType
           DEF Abort, Crash, TypeOK, store
<1>14. ASSUME NEW p \in Requests, Unguard(p) PROVE TypeOK'
  <2>1. p \in Procs  BY DEF Procs
  <2>2. guard' \in 0..MaxGuard  BY <1>0, <1>14, GuardCount DEF Unguard
  <2>3. pc' \in [Procs -> InTx \cup {"idle", "unguard"}]
    BY <1>14, <1>a, <2>1 DEF Unguard
  <2> QED  BY <1>14, <2>2, <2>3 DEF Unguard, TypeOK, store
<1>15. CASE EvictGuard
  BY <1>15, SyncAssumption DEF EvictGuard, TypeOK, store, local
<1>16. ASSUME NEW c \in Shards, ExpireShard(c) PROVE TypeOK'
  BY <1>0, <1>16 DEF ExpireShard, TypeOK, store, local
<1>17. CASE UNCHANGED vars
  BY <1>17 DEF vars, TypeOK
<1> QED
  BY <1>1, <1>2, <1>3, <1>4, <1>5, <1>6, <1>7, <1>8, <1>9, <1>10, <1>11, <1>12,
     <1>13, <1>14, <1>15, <1>16, <1>17
  DEF Next, Work, GetLatest

-----------------------------------------------------------------------------
(* A request that does not move stays ready, also when a version is added.  *)
LEMMA CommitFrame ==
  ASSUME TypeOK, NEW q \in Requests, CommitReady(q),
         pc'[q] = pc[q], old'[q] = old[q], new'[q] = new[q],
         touched'[q] = touched[q],
         \A i \in 1..Len(versions) : versions'[i] = versions[i]
  PROVE  CommitReady(q)'
<1>1. old[q] # 0 => versions'[old[q]] = versions[old[q]]
  <2>1. old[q] \in 0..Len(versions)  BY DEF TypeOK, Procs
  <2>2. Len(versions) \in Nat  BY DEF TypeOK
  <2> QED  BY <2>1, <2>2
<1> QED  BY <1>1 DEF CommitReady, isEmptyEventData, Present

(* A request that is not past the version it compares with has nothing to   *)
(* be ready for.                                                            *)
LEMMA CommitEarly ==
  ASSUME NEW q \in Requests, pc'[q] \in {"idle", "lookup", "query", "unguard"}
  PROVE  CommitReady(q)'
BY DEF CommitReady

LEMMA CommitNext == TypeOK /\ CommitInv /\ [Next]_vars => CommitInv'
<1> SUFFICES ASSUME TypeOK, CommitInv, [Next]_vars, NEW q \in Requests
             PROVE  CommitReady(q)'
  BY DEF CommitInv
<1> USE DEF Goto
<1>0. /\ q \in Procs
      /\ CommitReady(q)
      /\ versions \in Seq(eventData)
      /\ Len(versions) \in Nat
      /\ gcs \in eventData
      /\ pc \in [Procs -> InTx \cup {"idle", "unguard"}]
      /\ old \in [Procs -> 0..Len(versions)]
      /\ new \in [Procs -> [modified : Times \cup {0}, data : Data]]
      /\ touched \in [Procs -> {Untouched} \cup 0..Len(versions)]
      /\ attempt \in [Procs -> 0..MaxAttempts]
  BY DEF TypeOK, CommitInv, Procs
<1>a. ASSUME UNCHANGED <<versions, pc, old, new, touched>> PROVE CommitReady(q)'
  BY <1>0, <1>a, CommitFrame
<1>b. ASSUME NEW p \in Procs, NEW n, NEW l, p # q, UNCHANGED versions,
             pc' = [pc EXCEPT ![p] = l], Forget(p, n)
      PROVE  CommitReady(q)'
  BY <1>0, <1>b, CommitFrame DEF Forget
<1>1. CASE Publish
  BY <1>1, <1>a DEF Publish, store, local
<1>2. ASSUME NEW p \in Requests, SyncStart(p) PROVE CommitReady(q)'
  <2>1. p \in Procs  BY DEF Procs
  <2>2. CASE p = q
    BY <1>0, <1>2, <2>2, CommitEarly DEF SyncStart, Begin
  <2> QED  BY <1>2, <1>b, <2>1, <2>2 DEF SyncStart, Begin, store
<1>3. ASSUME NEW p \in Requests, SyncRejected(p) \/ SyncGuardError(p)
      PROVE  CommitReady(q)'
  BY <1>3, <1>a DEF SyncRejected, SyncGuardError, store, local
<1>4. ASSUME NEW p \in Procs, CacheHit(p) PROVE CommitReady(q)'
  <2>1. CASE p = q
    BY <1>0, <1>4, <2>1 DEF CacheHit, CommitReady, Got
  <2>2. CASE p # q
    BY <1>0, <1>4, <2>2, CommitFrame DEF CacheHit, store
  <2> QED  BY <2>1, <2>2
<1>5. ASSUME NEW p \in Procs, CacheMiss(p) PROVE CommitReady(q)'
  <2>1. CASE p = q
    BY <1>0, <1>5, <2>1, CommitEarly DEF CacheMiss
  <2>2. CASE p # q
    BY <1>0, <1>5, <2>2, CommitFrame DEF CacheMiss, store
  <2> QED  BY <2>1, <2>2
<1>6. ASSUME NEW p \in Procs, Query(p) PROVE CommitReady(q)'
  <2>1. CASE p = q /\ versions = <<>>
    <3>1. pc'[q] = "manifest" /\ old'[q] = 0 /\ touched'[q] = Len(versions)
      BY <1>0, <1>6, <2>1 DEF Query, Got
    <3>2. Len(versions) = 0  BY <2>1
    <3> QED  BY <3>1, <3>2 DEF CommitReady
  <2>2. CASE p = q /\ versions # <<>>
    <3>1. PICK k \in Newest : old' = [old EXCEPT ![p] = k]
      BY <1>6, <2>2 DEF Query
    <3>2. k # 0  BY <1>0 DEF Newest
    <3>3. pc'[q] = "fill" /\ old'[q] # 0
      BY <1>0, <1>6, <2>2, <3>1, <3>2 DEF Query
    <3> QED  BY <3>3 DEF CommitReady
  <2>3. CASE p # q
    <3>1. old'[q] = old[q]
      BY <1>0, <1>6, <2>3 DEF Query
    <3> QED  BY <1>0, <1>6, <2>3, <3>1, CommitFrame DEF Query, store
  <2> QED  BY <2>1, <2>2, <2>3
<1>7. ASSUME NEW p \in Procs, Fill(p) PROVE CommitReady(q)'
  <2>1. CASE p = q
    <3>1. p \notin Readers  BY <2>1, SyncAssumption
    <3>2. pc'[q] = "manifest" /\ old'[q] = old[q] /\ pc[q] = "fill"
      BY <1>0, <1>7, <2>1, <3>1 DEF Fill, Got
    <3> QED  BY <1>0, <3>2 DEF CommitReady
  <2>2. CASE p # q
    <3>1. old'[q] = old[q]
      BY <1>0, <1>7, <2>2 DEF Fill
    <3> QED  BY <1>0, <1>7, <2>2, <3>1, CommitFrame DEF Fill, store
  <2> QED  BY <2>1, <2>2
<1>8. ASSUME NEW p \in Requests, FetchManifest(p) PROVE CommitReady(q)'
  <2>1. p \in Procs  BY DEF Procs
  <2>2. CASE p # q
    <3>1. CASE Leave(p)
      BY <1>8, <1>b, <2>1, <2>2, <3>1 DEF FetchManifest, Leave, store
    <3>2. CASE ~Leave(p)
      BY <1>0, <1>8, <2>2, <3>2, CommitFrame DEF FetchManifest, store
    <3> QED  BY <3>1, <3>2
  <2>3. CASE p = q /\ Leave(p)
    BY <1>0, <2>3, CommitEarly DEF Leave
  <2>4. CASE p = q /\ ~Leave(p)
    <3>0. PICK t \in Modified :
            new' = [new EXCEPT ![p] = [modified |-> t, data |-> gcs.data]]
      BY <1>8, <2>4 DEF FetchManifest
    <3>1. /\ pc[q] = "manifest" /\ pc'[q] = "files"
          /\ old'[q] = old[q] /\ touched'[q] = touched[q]
          /\ versions' = versions
          /\ ~(old[q] # 0 /\ gcs.modified <= versions[old[q]].modified)
      BY <1>0, <1>8, <2>4 DEF FetchManifest, store
    <3>4. new'[q] = [modified |-> t, data |-> gcs.data]
      BY <1>0, <2>4, <3>0
    <3>5. new'[q] \in eventData /\ new'[q].modified = t
      BY <1>0, <3>4, FetchedTime
    <3>6. t \in Nat /\ gcs.modified \in Nat /\ t >= gcs.modified
      BY <1>0, FetchedTime
    <3>2. old[q] # 0 => versions[old[q]] \in eventData  BY <1>0
    <3>3. old[q] # 0 => gcs.modified > versions[old[q]].modified
      <4>1. gcs.modified \in Nat
        BY <1>0, ScheduleAssumption DEF eventData
      <4>2. ASSUME old[q] # 0 PROVE versions[old[q]].modified \in Nat
        BY <3>2, <4>2, ScheduleAssumption DEF eventData
      <4> QED  BY <3>1, <4>1, <4>2
    <3>7. old[q] # 0 => t > versions[old[q]].modified
      <4>1. ASSUME old[q] # 0 PROVE versions[old[q]].modified \in Nat
        BY <3>2, <4>1, ScheduleAssumption DEF eventData
      <4> QED  BY <3>3, <3>6, <4>1
    <3> QED  BY <1>0, <3>1, <3>5, <3>7 DEF CommitReady
  <2> QED  BY <2>2, <2>3, <2>4
<1>9. ASSUME NEW p \in Requests, FetchFiles(p) PROVE CommitReady(q)'
  <2>1. p \in Procs  BY DEF Procs
  <2>2. PICK late \in SUBSET Sessions :
          LET d == [s \in Sessions |-> IF s \in late THEN gcs.data[s]
                                       ELSE new[p].data[s]]
          IN \/ Leave(p)
             \/ /\ ~isEmptyEventData(d)
                /\ pc' = [pc EXCEPT ![p] = "store"]
                /\ new' = [new EXCEPT ![p].data = d]
                /\ UNCHANGED <<old, touched, attempt>>
    BY <1>9 DEF FetchFiles
  <2> DEFINE d == [s \in Sessions |-> IF s \in late THEN gcs.data[s]
                                      ELSE new[p].data[s]]
  <2>3. CASE p # q
    <3>1. CASE Leave(p)
      BY <1>9, <1>b, <2>1, <2>3, <3>1 DEF FetchFiles, Leave, store
    <3>2. CASE ~Leave(p)
      BY <1>0, <1>9, <2>2, <2>3, <3>2, CommitFrame DEF FetchFiles, store
    <3> QED  BY <3>1, <3>2
  <2>4. CASE p = q /\ Leave(p)
    BY <1>0, <2>4, CommitEarly DEF Leave
  <2>5. CASE p = q /\ ~Leave(p)
    <3>1. /\ pc[q] = "files" /\ versions' = versions
          /\ pc'[q] = "store" /\ old'[q] = old[q] /\ touched'[q] = touched[q]
          /\ new'[q] = [new[q] EXCEPT !.data = d]
          /\ ~isEmptyEventData(d)
      BY <1>0, <1>9, <2>2, <2>5 DEF FetchFiles, store
    <3>2. gcs.data \in Data /\ new[q].data \in Data /\ new[q] \in eventData
      BY <1>0, <3>1 DEF eventData, CommitReady
    <3>3. d \in Data  BY <2>5, <3>2 DEF Data
    <3> HIDE DEF d
    <3>4. /\ new'[q] \in eventData
          /\ new'[q].modified = new[q].modified
          /\ new'[q].data = d
      BY <3>1, <3>2, <3>3 DEF eventData
    <3>5. ~isEmptyEventData(new'[q].data)  BY <3>1, <3>4
    <3> QED  BY <1>0, <3>1, <3>4, <3>5 DEF CommitReady, isEmptyEventData, Present
  <2> QED  BY <2>3, <2>4, <2>5
<1>10. ASSUME NEW p \in Requests, Store(p) PROVE CommitReady(q)'
  <2>1. CASE p = q
    <3>1. /\ pc[q] = "store" /\ pc'[q] = "commit" /\ versions' = versions
          /\ old'[q] = old[q] /\ new'[q] = new[q]
      BY <1>0, <1>10, <2>1 DEF Store, store
    <3>2. old[q] = 0 => touched'[q] = 0
      BY <1>0, <1>10, <2>1, <3>1 DEF Store, CommitReady, Untouched
    <3> QED  BY <1>0, <3>1, <3>2 DEF CommitReady, isEmptyEventData, Present
  <2>2. CASE p # q
    <3>1. touched'[q] = touched[q]
      BY <1>0, <1>10, <2>2 DEF Store
    <3> QED  BY <1>0, <1>10, <2>2, <3>1, CommitFrame DEF Store, store
  <2> QED  BY <2>1, <2>2
<1>11. ASSUME NEW p \in Requests, Commit(p) PROVE CommitReady(q)'
  <2>1. p \in Procs /\ Leave(p)  BY <1>11 DEF Procs, Commit
  <2>2. CASE p = q
    BY <1>0, <2>1, <2>2, CommitEarly DEF Leave
  <2>3. CASE p # q
    <3>1. versions' = Append(versions, new[p])  BY <1>11 DEF Commit
    <3>2. \A i \in 1..Len(versions) : versions'[i] = versions[i]
      BY <1>0, <3>1
    <3> QED  BY <1>0, <2>1, <2>3, <3>2, CommitFrame DEF Leave, Forget
  <2> QED  BY <2>2, <2>3
<1>12. ASSUME NEW p \in Requests,
              Conflict(p) \/ Abort(p) \/ Crash(p) \/ Unguard(p)
       PROVE  CommitReady(q)'
  <2>1. p \in Procs  BY DEF Procs
  <2>2. CASE p = q
    <3>1. pc'[q] \in {"idle", "lookup", "unguard"}
      BY <1>0, <1>12, <2>2 DEF Conflict, Abort, Crash, Unguard, Begin, Leave
    <3> QED  BY <3>1, CommitEarly
  <2>3. CASE p # q
    <3>1. /\ versions' = versions /\ pc'[q] = pc[q] /\ old'[q] = old[q]
          /\ new'[q] = new[q] /\ touched'[q] = touched[q]
      BY <1>0, <1>12, <2>3
      DEF Conflict, Abort, Crash, Unguard, Begin, Leave, Forget, store
    <3> QED  BY <1>0, <3>1, CommitFrame
  <2> QED  BY <2>2, <2>3
<1>13. CASE EvictGuard
  BY <1>13, <1>a DEF EvictGuard, store, local
<1>14. ASSUME NEW c \in Shards, ExpireShard(c) PROVE CommitReady(q)'
  BY <1>14, <1>a DEF ExpireShard, store, local
<1>15. CASE UNCHANGED vars
  BY <1>15, <1>a DEF vars
<1> QED
  BY <1>1, <1>2, <1>3, <1>4, <1>5, <1>6, <1>7, <1>8, <1>9, <1>10, <1>11, <1>12,
     <1>13, <1>14, <1>15
  DEF Next, Work, GetLatest

LEMMA CommitInit == Init => CommitInv
BY SyncAssumption DEF Init, CommitInv, CommitReady, Procs

(* The state of the pipeline always has its type, and a sync that is about  *)
(* to commit brings a schedule newer than the one it is compared with.      *)
THEOREM TypeCorrect == Spec => [](TypeOK /\ CommitInv)
<1>1. Init => TypeOK /\ CommitInv
  BY TypeInit, CommitInit
<1>2. (TypeOK /\ CommitInv) /\ [Next]_vars => (TypeOK /\ CommitInv)'
  BY TypeNext, CommitNext
<1> QED  BY <1>1, <1>2, PTL DEF Spec

-----------------------------------------------------------------------------
(* A step that lets nobody in and does not lower the guard keeps it.        *)
LEMMA GuardFrame ==
  ASSUME GuardInv, guard' > 0 \/ guard' = guard,
         \A q \in Requests : pc'[q] # "idle" => pc[q] # "idle"
  PROVE  GuardInv'
BY DEF GuardInv, SyncExclusive, Syncing

LEMMA GuardNext ==
  ASSUME "evict" \notin Faults, TypeOK, GuardInv, [Next]_vars
  PROVE  GuardInv'
<1> USE DEF Goto
<1>0. /\ pc \in [Procs -> InTx \cup {"idle", "unguard"}]
      /\ guard \in 0..MaxGuard
      /\ Requests \subseteq Procs
  BY DEF TypeOK, Procs
<1>1. CASE Publish
  BY <1>1, GuardFrame DEF Publish, store, local
<1>2. ASSUME NEW p \in Requests, SyncStart(p) PROVE GuardInv'
  <2>1. guard = 0 /\ guard' = Count(guard) /\ pc' = [pc EXCEPT ![p] = "lookup"]
    BY <1>2 DEF SyncStart, Begin
  <2>2. guard' > 0  BY <1>0, <2>1, GuardCount
  <2>3. \A q \in Requests : ~Syncing(q)  BY <2>1 DEF GuardInv
  <2>4. \A q \in Requests : pc'[q] # "idle" => q = p
    BY <1>0, <2>1, <2>3 DEF Syncing
  <2> QED  BY <2>2, <2>4 DEF GuardInv, SyncExclusive, Syncing
<1>3. ASSUME NEW p \in Requests, SyncRejected(p) \/ SyncGuardError(p)
      PROVE  GuardInv'
  <2>1. guard' > 0
    BY <1>0, <1>3, GuardCount DEF SyncRejected, SyncGuardError
  <2> QED  BY <1>3, <2>1, GuardFrame
           DEF SyncRejected, SyncGuardError, store, local
<1>4. ASSUME NEW p \in Procs, GetLatest(p) PROVE GuardInv'
  <2>1. guard' = guard /\ pc[p] # "idle"
    BY <1>4 DEF GetLatest, CacheHit, CacheMiss, Query, Fill
  <2>2. PICK l : pc' = [pc EXCEPT ![p] = l]
    BY <1>4 DEF GetLatest, CacheHit, CacheMiss, Query, Fill
  <2>3. \A q \in Requests : pc'[q] # "idle" => pc[q] # "idle"
    BY <1>0, <2>1, <2>2
  <2> QED  BY <2>1, <2>3, GuardFrame
<1>5. ASSUME NEW p \in Requests,
             \/ FetchManifest(p) \/ FetchFiles(p) \/ Store(p) \/ Commit(p)
             \/ Conflict(p) \/ Abort(p) \/ Crash(p)
      PROVE  GuardInv'
  <2>1. guard' = guard /\ pc[p] # "idle"
    BY <1>5 DEF FetchManifest, FetchFiles, Store, Commit, Conflict, Abort, Crash
  <2>2. PICK l : pc' = [pc EXCEPT ![p] = l]
    BY <1>5 DEF FetchManifest, FetchFiles, Store, Commit, Conflict, Abort, Crash,
                Begin, Leave
  <2>3. \A q \in Requests : pc'[q] # "idle" => pc[q] # "idle"
    BY <1>0, <2>1, <2>2
  <2> QED  BY <2>1, <2>3, GuardFrame
<1>6. ASSUME NEW p \in Requests, Unguard(p) PROVE GuardInv'
  <2>1. pc[p] = "unguard" /\ pc' = [pc EXCEPT ![p] = "idle"]
    BY <1>6 DEF Unguard
  <2>2. \A q \in Requests : Syncing(q) => q = p
    BY <2>1 DEF GuardInv, SyncExclusive, Syncing
  <2>3. \A q \in Requests : pc'[q] = "idle"
    BY <1>0, <2>1, <2>2 DEF Syncing
  <2> QED  BY <2>3 DEF GuardInv, SyncExclusive, Syncing
<1>7. CASE EvictGuard
  BY <1>7 DEF EvictGuard, Fault
<1>8. ASSUME NEW c \in Shards, ExpireShard(c) PROVE GuardInv'
  BY <1>8, GuardFrame DEF ExpireShard, store, local
<1>9. CASE UNCHANGED vars
  BY <1>9, GuardFrame DEF vars
<1> QED
  BY <1>1, <1>2, <1>3, <1>4, <1>5, <1>6, <1>7, <1>8, <1>9 DEF Next, Work

(* syncEventData's counter admits one sync at a time, although it is        *)
(* incremented by every request and reset by a fixed amount, whatever else  *)
(* fails - provided that memcache does not evict it.                        *)
THEOREM GuardAdmitsOne ==
  ASSUME "evict" \notin Faults
  PROVE  Spec => []SyncExclusive
<1>1. Init => GuardInv
  BY DEF Init, GuardInv, SyncExclusive, Syncing, Procs
<1>2. TypeOK /\ GuardInv /\ [Next]_vars => GuardInv'
  BY GuardNext
<1>3. GuardInv => SyncExclusive
  BY DEF GuardInv
<1> QED  BY <1>1, <1>2, <1>3, TypeCorrect, PTL DEF Spec

-----------------------------------------------------------------------------
(* The promises of ChangeFeed, for every set of sessions, contents and      *)
(* times.  The invariant that carries them says what each version was       *)
(* compared with: some version before it.                                   *)

(* Where a recorded change comes from.                                      *)
ChangesHaveACause ==
  \A c \in changes :
    /\ c.at \in 2..Len(versions)
    /\ c.sessions # {}
    /\ \E b \in 1..(c.at - 1) :
         c.sessions = diffEventData(versions[b].data, versions[c.at].data)

(* Where a stored version leaves a trace.                                   *)
VersionsAreCompared ==
  \A k \in 2..Len(versions) : \E b \in 1..(k - 1) :
    LET d == diffEventData(versions[b].data, versions[k].data)
    IN d # {} => \E c \in changes : c.at = k /\ c.sessions = d

FeedInv == /\ Feed!TypeOK
           /\ ChangesHaveACause
           /\ VersionsAreCompared

(* The feed reads schedules as the pipeline does.                           *)
LEMMA SameData ==
  /\ Feed!eventData = eventData
  /\ \A x, y : Feed!diffEventData(x, y) = diffEventData(x, y)
  /\ \A x : Feed!Present(x) = Present(x)
BY DEF Feed!eventData, eventData, Feed!Data, Data, Feed!diffEventData,
       diffEventData, Feed!Present, Present

(* A diff is made of sessions.                                              *)
LEMMA DiffType ==
  ASSUME NEW x \in Data, NEW y \in Data
  PROVE  diffEventData(x, y) \in SUBSET Sessions
BY DEF diffEventData, Present

LEMMA FeedInit == Feed!Init => FeedInv
BY DEF Feed!Init, FeedInv, Feed!TypeOK, ChangesHaveACause, VersionsAreCompared

(* A sync adds one version, and what it adds to changes and tasks is the    *)
(* difference from the version it was compared with.                        *)
LEMMA FeedSync ==
  ASSUME FeedInv, NEW b \in 0..Len(versions), NEW v \in eventData,
         Feed!Sync(b, v)
  PROVE  FeedInv'
<1> DEFINE n == Len(versions) + 1
           d == IF b = 0 THEN {} ELSE diffEventData(versions[b].data, v.data)
           c == IF d = {} THEN {} ELSE {Feed!Change(n, v, d)}
<1>0. /\ versions \in Seq(eventData)
      /\ changes \subseteq [at : Nat, ts : Times, sessions : SUBSET Sessions]
      /\ tasks \subseteq [at : Nat, ts : Times, sessions : SUBSET Sessions]
      /\ ChangesHaveACause
      /\ VersionsAreCompared
  BY SameData DEF FeedInv, Feed!TypeOK
<1>1. /\ versions' = Append(versions, v)
      /\ changes' = changes \cup c
      /\ tasks' = tasks \cup c
      /\ (b = 0) <=> (versions = <<>>)
  BY SameData DEF Feed!Sync
<1>2. /\ versions' \in Seq(eventData)
      /\ n \in Nat
      /\ Len(versions') = n
      /\ \A i \in 1..Len(versions) : versions'[i] = versions[i]
      /\ versions'[n] = v
  BY <1>0, <1>1
<1>3. d \in SUBSET Sessions
  <2>1. CASE b = 0  BY <2>1
  <2>2. CASE b # 0
    <3>1. versions[b] \in eventData  BY <1>0, <2>2
    <3>2. versions[b].data \in Data /\ v.data \in Data
      BY <3>1 DEF eventData
    <3> QED  BY <2>2, <3>2, DiffType
  <2> QED  BY <2>1, <2>2
<1>4. c \subseteq [at : Nat, ts : Times, sessions : SUBSET Sessions]
  BY <1>2, <1>3 DEF Feed!Change, eventData
<1>5. Feed!TypeOK'
  BY <1>0, <1>1, <1>2, <1>4, SameData DEF Feed!TypeOK
<1>7. ChangesHaveACause'
  <2> SUFFICES ASSUME NEW e \in changes'
               PROVE  /\ e.at \in 2..n
                      /\ e.sessions # {}
                      /\ \E j \in 1..(e.at - 1) :
                           e.sessions = diffEventData(versions'[j].data,
                                                      versions'[e.at].data)
    BY <1>2 DEF ChangesHaveACause, diffEventData, Present
  <2>1. CASE e \in changes
    <3>1. /\ e.at \in 2..Len(versions)
          /\ e.sessions # {}
          /\ \E j \in 1..(e.at - 1) :
               e.sessions = diffEventData(versions[j].data, versions[e.at].data)
      BY <1>0, <2>1 DEF ChangesHaveACause
    <3>2. PICK j \in 1..(e.at - 1) :
            e.sessions = diffEventData(versions[j].data, versions[e.at].data)
      BY <3>1
    <3>3. versions'[j] = versions[j] /\ versions'[e.at] = versions[e.at]
      BY <1>2, <3>1
    <3>4. e.at \in 2..n  BY <1>0, <3>1
    <3> QED  BY <3>1, <3>2, <3>3, <3>4
  <2>2. CASE e \in c
    <3>1. b # 0 /\ d # {} /\ e = Feed!Change(n, v, d)  BY <2>2
    <3>2. e.at = n /\ e.sessions = d  BY <3>1 DEF Feed!Change
    <3>3. b \in 1..(n - 1) /\ n \in 2..n  BY <1>0, <1>1, <3>1
    <3>4. versions'[b] = versions[b] /\ versions'[n] = v
      BY <1>2, <3>3
    <3>5. d = diffEventData(versions'[b].data, versions'[n].data)
      BY <3>1, <3>4
    <3> QED  BY <3>1, <3>2, <3>3, <3>5
  <2> QED  BY <1>1, <2>1, <2>2
<1>8. VersionsAreCompared'
  <2> SUFFICES ASSUME NEW k \in 2..n
               PROVE  \E j \in 1..(k - 1) :
                        diffEventData(versions'[j].data, versions'[k].data) # {}
                          => \E e \in changes' :
                               /\ e.at = k
                               /\ e.sessions = diffEventData(versions'[j].data,
                                                             versions'[k].data)
    <3>1. Len(versions') = n
      BY <1>2
    <3> HIDE DEF n
    <3> QED  BY <3>1 DEF VersionsAreCompared, diffEventData, Present
  <2>1. CASE k \in 2..Len(versions)
    <3>1. PICK j \in 1..(k - 1) :
            diffEventData(versions[j].data, versions[k].data) # {}
              => \E e \in changes :
                   /\ e.at = k
                   /\ e.sessions = diffEventData(versions[j].data,
                                                 versions[k].data)
      BY <1>0, <2>1 DEF VersionsAreCompared
    <3>2. versions'[j] = versions[j] /\ versions'[k] = versions[k]
      BY <1>2, <2>1
    <3> QED  BY <1>1, <3>1, <3>2
  <2>2. CASE k = n
    <3>1. b # 0  BY <1>0, <1>1, <2>2
    <3>2. b \in 1..(k - 1)  BY <1>0, <2>2, <3>1
    <3>3. versions'[b] = versions[b] /\ versions'[k] = v
      BY <1>2, <2>2, <3>2
    <3>4. d = diffEventData(versions'[b].data, versions'[k].data)
      BY <3>1, <3>3
    <3>5. d # {} => /\ Feed!Change(n, v, d) \in changes'
                    /\ Feed!Change(n, v, d).at = k
                    /\ Feed!Change(n, v, d).sessions = d
      BY <1>1, <2>2 DEF Feed!Change
    <3> HIDE DEF d
    <3> QED  BY <3>2, <3>4, <3>5
  <2> QED  BY <1>0, <2>1, <2>2
<1> QED  BY <1>5, <1>7, <1>8 DEF FeedInv

(* Inductive invariant of the feed, from which the promises follow.         *)
THEOREM FeedInvariant == Feed!Spec => []FeedInv
<1>1. Feed!Init => FeedInv
  BY FeedInit
<1>2. FeedInv /\ [Feed!Next]_(Feed!vars) => FeedInv'
  <2> SUFFICES ASSUME FeedInv, [Feed!Next]_(Feed!vars) PROVE FeedInv'
    OBVIOUS
  <2>1. CASE Feed!Next
    BY <2>1, FeedSync, SameData DEF Feed!Next
  <2>2. CASE UNCHANGED Feed!vars
    <3>1. versions' = versions /\ changes' = changes /\ tasks' = tasks
      BY <2>2 DEF Feed!vars
    <3>2. Feed!TypeOK'  BY <3>1 DEF FeedInv, Feed!TypeOK
    <3>3. ChangesHaveACause'
      BY <3>1 DEF FeedInv, ChangesHaveACause, diffEventData, Present
    <3>4. VersionsAreCompared'
      <4>1. ASSUME NEW k \in 2..Len(versions)
            PROVE  \E b \in 1..(k - 1) :
                     diffEventData(versions'[b].data, versions'[k].data) # {}
                       => \E c \in changes' :
                            /\ c.at = k
                            /\ c.sessions = diffEventData(versions'[b].data,
                                                          versions'[k].data)
        BY <3>1 DEF FeedInv, VersionsAreCompared
      <4> QED  BY <3>1, <4>1 DEF VersionsAreCompared, diffEventData, Present
    <3> QED  BY <3>2, <3>3, <3>4 DEF FeedInv
  <2> QED  BY <2>1, <2>2
<1> QED  BY <1>1, <1>2, PTL DEF Feed!Spec

(* What the feed promises about a state follows from its invariant.         *)
LEMMA FeedPromises ==
  FeedInv => /\ Feed!FreshContentIsAnnounced
             /\ Feed!AnnouncedIsReal
<1> SUFFICES ASSUME FeedInv
             PROVE  /\ Feed!FreshContentIsAnnounced
                    /\ Feed!AnnouncedIsReal
  OBVIOUS
<1>0. /\ versions \in Seq(eventData)
      /\ ChangesHaveACause
      /\ VersionsAreCompared
  BY SameData DEF FeedInv, Feed!TypeOK
<1>1. Feed!FreshContentIsAnnounced
  <2> SUFFICES ASSUME NEW k \in 2..Len(versions),
                      NEW s \in Present(versions[k].data),
                      \A j \in 1..(k - 1) :
                        versions[j].data[s] \notin {Absent, versions[k].data[s]}
               PROVE  Feed!Announced(k, s)
    BY SameData DEF Feed!FreshContentIsAnnounced
  <2>1. PICK b \in 1..(k - 1) :
          LET d == diffEventData(versions[b].data, versions[k].data)
          IN d # {} => \E c \in changes : c.at = k /\ c.sessions = d
    BY <1>0 DEF VersionsAreCompared
  <2>2. s \in diffEventData(versions[b].data, versions[k].data)
    BY DEF diffEventData, Present
  <2> QED  BY <2>1, <2>2 DEF Feed!Announced
<1>2. Feed!AnnouncedIsReal
  BY <1>0, SameData DEF ChangesHaveACause, Feed!AnnouncedIsReal
<1> QED  BY <1>0, <1>1, <1>2

-----------------------------------------------------------------------------
(* A commit is a step of the feed: the version stored is newer than the one *)
(* it is compared with, and none is compared with nothing unless the store  *)
(* is empty.                                                                *)
LEMMA CommitIsSync ==
  ASSUME TypeOK, CommitInv, NEW p \in Requests, Commit(p)
  PROVE  Feed!Next
<1>1. /\ pc[p] = "commit" /\ touched[p] = Len(versions)
      /\ CommitReady(p)
      /\ versions \in Seq(eventData)
      /\ old[p] \in 0..Len(versions)
  BY DEF Commit, Recorded, CommitInv, TypeOK, Procs
<1>2. /\ new[p] \in eventData
      /\ old[p] # 0 => new[p].modified > versions[old[p]].modified
      /\ ~isEmptyEventData(new[p].data)
      /\ old[p] = 0 => Len(versions) = 0
  BY <1>1 DEF CommitReady
<1>3. (old[p] = 0) <=> (versions = <<>>)
  BY <1>1, <1>2
<1>4. Feed!Sync(old[p], new[p])
  BY <1>2, <1>3
  DEF Commit, Recorded, Feed!Sync, Feed!Change, Feed!isEmptyEventData, Feed!Present,
      Feed!diffEventData, isEmptyEventData, Present, diffEventData
<1>5. new[p] \in Feed!eventData
  BY <1>2 DEF eventData, Data, Feed!eventData, Feed!Data
<1> QED  BY <1>1, <1>4, <1>5 DEF Feed!Next

LEMMA FeedStep ==
  ASSUME TypeOK, CommitInv, [Next]_vars
  PROVE  [Feed!Next]_(Feed!vars)
<1>1. ASSUME NEW p \in Requests, Commit(p) PROVE Feed!Next
  BY <1>1, CommitIsSync
<1>2. CASE \A p \in Requests : ~Commit(p)
  BY <1>2
  DEF Next, Work, GetLatest, Publish, SyncStart, SyncRejected, SyncGuardError,
      CacheHit, CacheMiss, Query, Fill, FetchManifest, FetchFiles, Store,
      Conflict, Abort, Crash, Unguard, EvictGuard, ExpireShard, store, local,
      vars, Feed!vars
<1> QED  BY <1>1, <1>2

(* The pipeline implements the feed: every step of a request, a reader, the *)
(* cache or the environment stores one version with its change and its      *)
(* notification, or changes nothing of the three.                           *)
THEOREM ImplementsFeed == Spec => FeedSpec
<1>1. Init => Feed!Init
  BY DEF Init, Feed!Init
<1>2. TypeOK /\ CommitInv /\ [Next]_vars => [Feed!Next]_(Feed!vars)
  BY FeedStep
<1> QED  BY <1>1, <1>2, TypeCorrect, PTL DEF Spec, FeedSpec, Feed!Spec

(* Through the feed: no version brings content that nobody is told of, and  *)
(* what is told did change.                                                 *)
THEOREM FeedPromisesKept ==
  Spec => [](FreshContentIsAnnounced /\ AnnouncedIsReal)
<1>1. FeedInv => FreshContentIsAnnounced /\ AnnouncedIsReal
  BY FeedPromises DEF FreshContentIsAnnounced, AnnouncedIsReal
<1> QED  BY <1>1, ImplementsFeed, FeedInvariant, PTL DEF FeedSpec

-----------------------------------------------------------------------------
(* What a sync has fetched, from the manifest to the commit.                *)
Fetched(p) == pc[p] \in {"files", "store", "commit"}

(* A schedule is whole if it is the published one or claims to be older; if *)
(* two may be published within a second, it just does not claim to be later.*)
Whole(v) ==
  /\ v.modified <= gcs.modified
  /\ "hurry" \notin Faults /\ v.modified = gcs.modified => v.data = gcs.data

WholeInv ==
  /\ \A k \in 1..Len(versions) : Whole(versions[k])
  /\ \A p \in Requests : Fetched(p) => Whole(new[p])

(* Only a manifest starts what is fetched, only files change what is in it. *)
LEMMA FetchedFrame ==
  ASSUME TypeOK, [Next]_vars, ~Publish,
         \A p \in Requests : ~FetchManifest(p) /\ ~Commit(p)
  PROVE  /\ gcs' = gcs /\ versions' = versions /\ changes' = changes
         /\ \A q \in Requests : Fetched(q)' =>
              /\ Fetched(q)
              /\ new'[q] = new[q] \/ FetchFiles(q)
              /\ new'[q].modified = new[q].modified
<1> USE DEF Goto
<1>0. /\ pc \in [Procs -> InTx \cup {"idle", "unguard"}]
      /\ new \in [Procs -> [modified : Times \cup {0}, data : Data]]
      /\ Requests \subseteq Procs
  BY DEF TypeOK, Procs
<1>a. ASSUME NEW p \in Procs, NEW l, pc' = [pc EXCEPT ![p] = l],
             l \notin {"files", "store", "commit"},
             \A q \in Procs : q # p => new'[q] = new[q]
      PROVE  \A q \in Requests : Fetched(q)' => Fetched(q) /\ new'[q] = new[q]
  BY <1>0, <1>a DEF Fetched
<1>1. gcs' = gcs /\ versions' = versions /\ changes' = changes
  BY DEF Next, Work, GetLatest, SyncStart, SyncRejected, SyncGuardError, CacheHit,
         CacheMiss, Query, Fill, FetchFiles, Store, Conflict, Abort, Crash,
         Unguard, EvictGuard, ExpireShard, store, vars
<1>2. ASSUME NEW p \in Requests,
             SyncStart(p) \/ Conflict(p) \/ Abort(p) \/ Crash(p)
      PROVE  \A q \in Requests : Fetched(q)' => Fetched(q) /\ new'[q] = new[q]
  <2>1. PICK l \in {"lookup", "unguard", "idle"} : pc' = [pc EXCEPT ![p] = l]
    BY <1>2 DEF SyncStart, Conflict, Abort, Crash, Begin, Leave
  <2>2. new' = [new EXCEPT ![p] = NoData]
    BY <1>2 DEF SyncStart, Conflict, Abort, Crash, Begin, Leave, Forget
  <2> QED  BY <1>0, <1>a, <2>1, <2>2
<1>3. ASSUME NEW p \in Procs,
             CacheHit(p) \/ CacheMiss(p) \/ Query(p) \/ Fill(p) \/ Unguard(p)
      PROVE  \A q \in Requests : Fetched(q)' => Fetched(q) /\ new'[q] = new[q]
  <2>1. PICK l \in {"lookup", "query", "fill", "manifest", "idle"} :
          pc' = [pc EXCEPT ![p] = l]
    BY <1>3 DEF CacheHit, CacheMiss, Query, Fill, Unguard, Got
  <2>2. new' = new
    BY <1>3 DEF CacheHit, CacheMiss, Query, Fill, Unguard
  <2> QED  BY <1>0, <1>a, <2>1, <2>2
<1>4. ASSUME NEW p \in Requests, Store(p)
      PROVE  \A q \in Requests : Fetched(q)' => Fetched(q) /\ new'[q] = new[q]
  BY <1>0, <1>4 DEF Store, Fetched
<1>5. ASSUME NEW p \in Requests, FetchFiles(p)
      PROVE  \A q \in Requests : Fetched(q)' =>
               /\ Fetched(q)
               /\ new'[q] = new[q] \/ FetchFiles(q)
               /\ new'[q].modified = new[q].modified
  <2>1. CASE Leave(p)
    <3>1. pc' = [pc EXCEPT ![p] = "unguard"] /\ new' = [new EXCEPT ![p] = NoData]
      BY <2>1 DEF Leave, Forget
    <3> QED  BY <1>0, <1>a, <3>1
  <2>2. CASE ~Leave(p)
    <3>1. PICK d : new' = [new EXCEPT ![p].data = d]
      BY <1>5, <2>2 DEF FetchFiles
    <3>2. pc[p] = "files" /\ pc' = [pc EXCEPT ![p] = "store"]
      BY <1>5, <2>2 DEF FetchFiles
    <3>3. \A q \in Procs : /\ q # p => new'[q] = new[q]
                           /\ new'[q].modified = new[q].modified
      BY <1>0, <3>1
    <3> QED  BY <1>0, <1>5, <3>2, <3>3 DEF Fetched
  <2> QED  BY <2>1, <2>2
<1>6. CASE UNCHANGED <<pc, new>>
  BY <1>1, <1>6 DEF Fetched
<1> QED
  BY <1>1, <1>2, <1>3, <1>4, <1>5, <1>6
  DEF Next, Work, GetLatest, SyncRejected, SyncGuardError, EvictGuard,
      ExpireShard, local, vars, Procs

(* Times are numbers.                                                       *)
LEMMA ModifiedNat ==
  /\ Times \subseteq Nat
  /\ \A v \in eventData : v.modified \in Nat
  /\ \A v \in [modified : Times \cup {0}, data : Data] : v.modified \in Nat
<1>1. Times \subseteq Nat
  BY ScheduleAssumption
<1>2. ASSUME NEW v \in eventData PROVE v.modified \in Nat
  BY <1>1 DEF eventData
<1>3. ASSUME NEW v \in [modified : Times \cup {0}, data : Data]
      PROVE  v.modified \in Nat
  <2>1. v.modified \in Times \/ v.modified = 0
    OBVIOUS
  <2>2. \A t \in Times : t \in Nat
    BY <1>1
  <2>3. CASE v.modified \in Times  BY <2>2, <2>3
  <2>4. CASE v.modified = 0  BY <2>4
  <2> QED  BY <2>1, <2>3, <2>4
<1> QED  BY <1>1, <1>2, <1>3

LEMMA WholeNext ==
  ASSUME "header" \notin Faults, TypeOK, WholeInv, [Next]_vars
  PROVE  WholeInv'
<1> USE DEF Goto
<1>0. /\ gcs \in eventData
      /\ versions \in Seq(eventData)
      /\ Len(versions) \in Nat
      /\ pc \in [Procs -> InTx \cup {"idle", "unguard"}]
      /\ new \in [Procs -> [modified : Times \cup {0}, data : Data]]
      /\ Requests \subseteq Procs
  BY DEF TypeOK, Procs
<1>1. CASE Publish
  <2>1. /\ gcs'.modified >= gcs.modified
        /\ "hurry" \notin Faults => gcs'.modified # gcs.modified
        /\ gcs'.modified \in Nat /\ gcs.modified \in Nat
    <3>1. PICK t \in Times, d \in Feeds :
            /\ t >= gcs.modified
            /\ t # gcs.modified \/ Fault("hurry")
            /\ gcs' = [modified |-> t, data |-> d]
      BY <1>1 DEF Publish, Now
    <3> QED  BY <1>0, <3>1, ModifiedNat DEF Fault
  <2>2. /\ \A k \in 1..Len(versions) : versions[k].modified \in Nat
        /\ \A p \in Requests : new[p].modified \in Nat
    BY <1>0, ModifiedNat
  <2>3. versions' = versions /\ new' = new /\ pc' = pc
    BY <1>1 DEF Publish, store, local
  <2> QED  BY <2>1, <2>2, <2>3 DEF WholeInv, Whole, Fetched
<1>2. ASSUME NEW p \in Requests, FetchManifest(p) PROVE WholeInv'
  <2>1. gcs' = gcs /\ versions' = versions
    BY <1>2 DEF FetchManifest, store
  <2>2. ASSUME NEW q \in Requests, Fetched(q)' PROVE Whole(new'[q])
    <3>1. CASE q = p
      <4>1. ~Leave(p)
        BY <1>0, <2>2, <3>1 DEF Leave, Fetched
      <4>2. new'[p] = gcs
        BY <1>0, <1>2, <4>1, FetchedTime DEF FetchManifest
      <4> QED  BY <1>0, <3>1, <4>2, ModifiedNat DEF Whole
    <3>2. CASE q # p
      BY <1>0, <1>2, <2>2, <3>2
      DEF FetchManifest, Leave, Forget, Fetched, WholeInv
    <3> QED  BY <3>1, <3>2
  <2> QED  BY <2>1, <2>2 DEF WholeInv, Whole
<1>3. ASSUME NEW p \in Requests, Commit(p) PROVE WholeInv'
  <2>1. /\ gcs' = gcs
        /\ versions' = Append(versions, new[p])
        /\ pc' = [pc EXCEPT ![p] = "unguard"]
        /\ new' = [new EXCEPT ![p] = NoData]
        /\ Fetched(p)
    BY <1>3 DEF Commit, Leave, Forget, Fetched
  <2>2. ASSUME NEW q \in Requests, Fetched(q)' PROVE Whole(new'[q])
    BY <1>0, <2>1, <2>2 DEF Fetched, WholeInv
  <2>3. ASSUME NEW k \in 1..Len(versions') PROVE Whole(versions'[k])
    BY <1>0, <2>1, <2>3 DEF WholeInv
  <2> QED  BY <2>1, <2>2, <2>3 DEF WholeInv, Whole
<1>4. CASE ~Publish /\ \A p \in Requests : ~FetchManifest(p) /\ ~Commit(p)
  <2>1. gcs' = gcs /\ versions' = versions
    BY <1>4, FetchedFrame
  <2>2. ASSUME NEW q \in Requests, Fetched(q)' PROVE Whole(new'[q])
    <3>1. Fetched(q) /\ Whole(new[q]) /\ new'[q].modified = new[q].modified
      BY <1>4, <2>2, FetchedFrame DEF WholeInv
    <3>2. CASE new'[q] = new[q]
      BY <3>1, <3>2
    <3>3. CASE FetchFiles(q)
      <4>1. ~Leave(q)
        BY <1>0, <2>2 DEF Leave, Fetched
      <4>2. PICK late \in SUBSET Sessions :
              new'[q].data = [s \in Sessions |-> IF s \in late THEN gcs.data[s]
                                                 ELSE new[q].data[s]]
        <5>1. q \in DOMAIN new /\ new[q] \in [modified : Times \cup {0}, data : Data]
          BY <1>0
        <5>2. PICK late \in SUBSET Sessions :
                new' = [new EXCEPT ![q].data = [s \in Sessions |-> IF s \in late THEN gcs.data[s]
                                                             ELSE new[q].data[s]]]
          BY <3>3, <4>1 DEF FetchFiles
        <5>3. new'[q].data = [s \in Sessions |-> IF s \in late THEN gcs.data[s]
                                                 ELSE new[q].data[s]]
          BY <5>1, <5>2
        <5> QED  BY <5>3
      <4>3. gcs.data \in Data
        BY <1>0 DEF eventData
      <4>4. new[q].data = gcs.data => new'[q].data = gcs.data
        BY <4>2, <4>3 DEF Data
      <4> QED  BY <3>1, <4>4 DEF Whole
    <3> QED  BY <1>4, <2>2, <3>2, <3>3, FetchedFrame
  <2> QED  BY <2>1, <2>2 DEF WholeInv, Whole
<1> QED  BY <1>1, <1>2, <1>3, <1>4

(* A version put together from the files of two schedules carries the time  *)
(* of the older one, so the next sync replaces it: whatever fails, and even *)
(* when the guard is lost and syncs overlap; if manifests carry the time of *)
(* their publication and no two are published within a second.              *)
THEOREM TornIsOlder ==
  ASSUME "hurry" \notin Faults, "header" \notin Faults
  PROVE  Spec => []NoTornVersion
<1>1. Init => WholeInv
  BY DEF Init, WholeInv, Fetched, Procs
<1>2. TypeOK /\ WholeInv /\ [Next]_vars => WholeInv'
  BY WholeNext
<1>3. WholeInv => NoTornVersion
  BY DEF WholeInv, Whole, NoTornVersion
<1>4. Spec => []WholeInv
  BY <1>1, <1>2, TypeCorrect, PTL DEF Spec
<1> QED  BY <1>3, <1>4, PTL

-----------------------------------------------------------------------------
(* What a sync has fetched is not older than any version.                   *)
OrderInv ==
  /\ VersionsInOrder
  /\ \A p \in Requests : Fetched(p) =>
       \A k \in 1..Len(versions) : versions[k].modified <= new[p].modified

(* No two requests are past the guard.                                      *)
LEMMA FetchedAlone ==
  ASSUME SyncExclusive, NEW p \in Requests, NEW q \in Requests, p # q,
         pc[p] # "idle"
  PROVE  pc[q] = "idle"
BY DEF SyncExclusive, Syncing

LEMMA OrderNext ==
  ASSUME "header" \notin Faults,
         TypeOK, SyncExclusive, WholeInv, OrderInv, [Next]_vars
  PROVE  OrderInv'
<1> USE DEF Goto
<1>0. /\ gcs \in eventData
      /\ versions \in Seq(eventData)
      /\ Len(versions) \in Nat
      /\ pc \in [Procs -> InTx \cup {"idle", "unguard"}]
      /\ new \in [Procs -> [modified : Times \cup {0}, data : Data]]
      /\ Requests \subseteq Procs
  BY DEF TypeOK, Procs
<1>1. CASE Publish
  BY <1>1 DEF Publish, store, local, OrderInv, VersionsInOrder, Fetched
<1>2. ASSUME NEW p \in Requests, FetchManifest(p) PROVE OrderInv'
  <2>1. versions' = versions
    BY <1>2 DEF FetchManifest, store
  <2>2. ASSUME NEW q \in Requests, Fetched(q)', NEW k \in 1..Len(versions)
        PROVE  versions[k].modified <= new'[q].modified
    <3>1. q = p
      BY <1>0, <1>2, <2>2, FetchedAlone DEF FetchManifest, Leave, Fetched
    <3>2. ~Leave(p)
      BY <1>0, <2>2, <3>1 DEF Leave, Fetched
    <3>3. new'[q] = gcs
      BY <1>0, <1>2, <3>1, <3>2, FetchedTime DEF FetchManifest
    <3> QED  BY <3>3 DEF WholeInv, Whole
  <2> QED  BY <2>1, <2>2 DEF OrderInv, VersionsInOrder
<1>3. ASSUME NEW p \in Requests, Commit(p) PROVE OrderInv'
  <2>1. /\ versions' = Append(versions, new[p])
        /\ pc' = [pc EXCEPT ![p] = "unguard"]
        /\ Fetched(p)
    BY <1>3 DEF Commit, Leave, Forget, Fetched
  <2>2. ASSUME NEW q \in Requests PROVE ~Fetched(q)'
    BY <1>0, <1>3, <2>1, FetchedAlone DEF Commit, Fetched
  <2>3. ASSUME NEW i \in 1..Len(versions'), NEW j \in 1..Len(versions'), i < j
        PROVE  versions'[i].modified <= versions'[j].modified
    <3>1. i \in 1..Len(versions) /\ versions'[i] = versions[i]
      BY <1>0, <2>1, <2>3
    <3>2. CASE j \in 1..Len(versions)
      BY <1>0, <2>1, <2>3, <3>1, <3>2 DEF OrderInv, VersionsInOrder
    <3>3. CASE j = Len(versions) + 1
      BY <1>0, <2>1, <3>1, <3>3 DEF OrderInv
    <3> QED  BY <1>0, <2>1, <3>2, <3>3
  <2> QED  BY <2>2, <2>3 DEF OrderInv, VersionsInOrder
<1>4. CASE ~Publish /\ \A p \in Requests : ~FetchManifest(p) /\ ~Commit(p)
  <2>1. /\ versions' = versions
        /\ \A q \in Requests : Fetched(q)' =>
             Fetched(q) /\ new'[q].modified = new[q].modified
    BY <1>4, FetchedFrame
  <2> QED  BY <2>1 DEF OrderInv, VersionsInOrder
<1> QED  BY <1>1, <1>2, <1>3, <1>4

(* A slow sync never stores an older schedule on top of a newer one, as     *)
(* long as memcache keeps the guard and manifests carry their time: the     *)
(* guard lets no other sync store between the manifest of a sync and its    *)
(* commit.                                                                  *)
THEOREM StoredInOrder ==
  ASSUME "evict" \notin Faults, "header" \notin Faults
  PROVE  Spec => []VersionsInOrder
<1>1. Init => WholeInv /\ OrderInv
  BY DEF Init, WholeInv, OrderInv, VersionsInOrder, Fetched, Procs
<1>2. TypeOK /\ WholeInv /\ [Next]_vars => WholeInv'
  BY WholeNext
<1>3. TypeOK /\ SyncExclusive /\ WholeInv /\ OrderInv /\ [Next]_vars => OrderInv'
  BY OrderNext
<1>4. OrderInv => VersionsInOrder
  BY DEF OrderInv
<1>5. Spec => []SyncExclusive
  BY GuardAdmitsOne
<1> QED  BY <1>1, <1>2, <1>3, <1>4, <1>5, TypeCorrect, PTL DEF Spec

-----------------------------------------------------------------------------
(* From the answer of the cache or the query to the commit.                 *)
Comparing(p) == pc[p] \in {"fill", "manifest", "files", "store", "commit"}

(* The cache holds the last version or nothing; a sync compares with the    *)
(* last version and has purged the cache when it commits the next.          *)
LastInv ==
  /\ \A c \in Shards : cache[c] \in {0, Len(versions)}
  /\ \A p \in Requests :
       /\ Comparing(p) => old[p] = Len(versions)
       /\ pc[p] = "commit" => \A c \in Shards : cache[c] = 0

(* Versions have ever later times, and the changes are those between one    *)
(* version and the next.                                                    *)
AnnouncedInv ==
  /\ \A i, j \in 1..Len(versions) :
       i < j => versions[i].modified < versions[j].modified
  /\ \A c \in changes : c.at \in 1..Len(versions)
  /\ EveryChangeIsAnnounced

(* A query for the last version finds it, if there is one.                  *)
LEMMA NewestIsLast ==
  ASSUME TypeOK, AnnouncedInv
  PROVE  Newest \subseteq {Len(versions)}
<1>1. versions \in Seq(eventData) /\ Len(versions) \in Nat
  BY DEF TypeOK
<1>2. \A k \in 1..Len(versions) : versions[k].modified \in Nat
  BY <1>1, ModifiedNat
<1> QED  BY <1>1, <1>2 DEF Newest, AnnouncedInv

(* A request that is past the guard moves alone.                            *)
LEMMA LastStep ==
  ASSUME TypeOK, SyncExclusive, LastInv, NEW p \in Requests, NEW l,
         pc[p] # "idle", pc' = [pc EXCEPT ![p] = l], versions' = versions,
         \A c \in Shards : cache'[c] \in {0, Len(versions)},
         Comparing(p)' => old'[p] = Len(versions),
         l = "commit" => \A c \in Shards : cache'[c] = 0
  PROVE  LastInv'
<1>1. ASSUME NEW q \in Requests, q # p PROVE pc'[q] = "idle"
  BY <1>1, FetchedAlone DEF TypeOK, Procs
<1>2. pc'[p] = l
  BY DEF TypeOK, Procs
<1> QED  BY <1>1, <1>2 DEF LastInv, Comparing

LEMMA LastFrame ==
  ASSUME TypeOK, LastInv, versions' = versions, cache' = cache,
         \A q \in Requests :
           (pc'[q] = pc[q] /\ old'[q] = old[q]) \/ ~Comparing(q)'
  PROVE  LastInv'
BY DEF LastInv, Comparing

LEMMA LastNext ==
  ASSUME "memcache" \notin Faults, Readers = {},
         TypeOK, CommitInv, SyncExclusive, LastInv, AnnouncedInv, [Next]_vars
  PROVE  LastInv'
<1> USE DEF Goto, Fault
<1>0. /\ Procs = Requests
      /\ versions \in Seq(eventData)
      /\ Len(versions) \in Nat
      /\ pc \in [Procs -> InTx \cup {"idle", "unguard"}]
      /\ old \in [Procs -> 0..Len(versions)]
      /\ shard \in [Procs -> Shards]
      /\ cache \in [Shards -> 0..Len(versions)]
      /\ \A c \in Shards : cache[c] \in {0, Len(versions)}
  BY DEF TypeOK, Procs, LastInv
<1>1. CASE UNCHANGED <<versions, cache, pc, old>>
  BY <1>1, LastFrame
<1>2. ASSUME NEW p \in Requests,
             \/ SyncStart(p) \/ Conflict(p) \/ Abort(p) \/ Crash(p)
             \/ Unguard(p) \/ CacheMiss(p)
             \/ Leave(p) /\ (FetchManifest(p) \/ FetchFiles(p))
      PROVE  LastInv'
  <2>1. PICK l \in {"lookup", "unguard", "idle", "query"} :
          pc' = [pc EXCEPT ![p] = l]
    BY <1>2
    DEF SyncStart, Conflict, Abort, Crash, Unguard, CacheMiss, Begin, Leave
  <2>2. \/ old' = old
        \/ old' = [old EXCEPT ![p] = 0]
    BY <1>2
    DEF SyncStart, Conflict, Abort, Crash, Unguard, CacheMiss, Begin, Leave, Forget
  <2>3. versions' = versions /\ cache' = cache
    BY <1>2
    DEF SyncStart, Conflict, Abort, Crash, Unguard, CacheMiss, FetchManifest,
        FetchFiles, store
  <2> QED  BY <1>0, <2>1, <2>2, <2>3, LastFrame DEF Comparing
<1>3. ASSUME NEW p \in Requests, CacheHit(p) PROVE LastInv'
  <2>1. /\ old'[p] = cache[shard[p]] /\ shard[p] \in Shards
        /\ cache[shard[p]] # 0
    BY <1>0, <1>3 DEF CacheHit
  <2>2. /\ pc[p] # "idle" /\ pc' = [pc EXCEPT ![p] = "manifest"]
        /\ versions' = versions /\ cache' = cache
    BY <1>3 DEF CacheHit, Got, store
  <2> QED  BY <1>0, <2>1, <2>2, LastStep
<1>4. ASSUME NEW p \in Requests, Query(p) PROVE LastInv'
  <2>1. pc[p] # "idle" /\ versions' = versions /\ cache' = cache
    BY <1>4 DEF Query, store
  <2>2. PICK l \in {"manifest", "fill"} : pc' = [pc EXCEPT ![p] = l]
    BY <1>4 DEF Query, Got
  <2>3. old'[p] = Len(versions)
    <3>1. CASE versions = <<>>
      BY <1>0, <1>4, <3>1 DEF Query
    <3>2. CASE versions # <<>>
      BY <1>0, <1>4, <3>2, NewestIsLast DEF Query
    <3> QED  BY <3>1, <3>2
  <2> QED  BY <1>0, <2>1, <2>2, <2>3, LastStep
<1>5. ASSUME NEW p \in Requests, Fill(p) PROVE LastInv'
  <2>1. old[p] = Len(versions)
    BY <1>5 DEF Fill, LastInv, Comparing
  <2>2. /\ cache' = [cache EXCEPT ![shard[p]] = old[p]]
        /\ p \notin Readers => old' = old
    BY <1>5 DEF Fill
  <2>3. /\ pc[p] # "idle" /\ pc' = [pc EXCEPT ![p] = "manifest"]
        /\ versions' = versions
    BY <1>5 DEF Fill, Got, store
  <2> QED  BY <1>0, <2>1, <2>2, <2>3, LastStep
<1>6. ASSUME NEW p \in Requests, ~Leave(p), FetchManifest(p) \/ FetchFiles(p)
      PROVE  LastInv'
  <2>1. old[p] = Len(versions) /\ old' = old /\ pc[p] # "idle"
    BY <1>6 DEF FetchManifest, FetchFiles, LastInv, Comparing
  <2>2. PICK l \in {"files", "store"} : pc' = [pc EXCEPT ![p] = l]
    BY <1>6 DEF FetchManifest, FetchFiles
  <2>3. versions' = versions /\ cache' = cache
    BY <1>6 DEF FetchManifest, FetchFiles, store
  <2> QED  BY <1>0, <2>1, <2>2, <2>3, LastStep
<1>7. ASSUME NEW p \in Requests, Store(p) PROVE LastInv'
  <2>1. old[p] = Len(versions) /\ old' = old /\ pc[p] # "idle"
    BY <1>7 DEF Store, LastInv, Comparing
  <2>2. /\ pc' = [pc EXCEPT ![p] = "commit"]
        /\ cache' = [c \in Shards |-> 0]
        /\ versions' = versions
    BY <1>7 DEF Store, store
  <2> QED  BY <1>0, <2>1, <2>2, LastStep
<1>8. ASSUME NEW p \in Requests, Commit(p) PROVE LastInv'
  <2>1. /\ pc[p] = "commit" /\ pc' = [pc EXCEPT ![p] = "unguard"]
        /\ cache' = cache
        /\ \A c \in Shards : cache[c] = 0
    BY <1>8 DEF Commit, Leave, LastInv
  <2>2. \A q \in Requests : pc'[q] \in {"idle", "unguard"}
    BY <1>0, <2>1, FetchedAlone
  <2> QED  BY <2>1, <2>2 DEF LastInv, Comparing
<1>9. ASSUME NEW c \in Shards, ExpireShard(c) PROVE LastInv'
  <2>1. /\ cache' = [cache EXCEPT ![c] = 0]
        /\ versions' = versions /\ pc' = pc /\ old' = old
    BY <1>9 DEF ExpireShard, store, local
  <2> QED  BY <1>0, <2>1 DEF LastInv, Comparing
<1>10. ASSUME \/ Publish \/ EvictGuard \/ UNCHANGED vars
              \/ \E p \in Requests : SyncRejected(p) \/ SyncGuardError(p)
       PROVE  UNCHANGED <<versions, cache, pc, old>>
  BY <1>10 DEF Publish, EvictGuard, SyncRejected, SyncGuardError, store, local, vars
<1> QED
  BY <1>0, <1>1, <1>2, <1>3, <1>4, <1>5, <1>6, <1>7, <1>8, <1>9, <1>10
  DEF Next, Work, GetLatest

LEMMA AnnouncedNext ==
  ASSUME TypeOK, CommitInv, LastInv, AnnouncedInv, [Next]_vars
  PROVE  AnnouncedInv'
<1>0. /\ versions \in Seq(eventData)
      /\ Len(versions) \in Nat
      /\ \A k \in 1..Len(versions) : versions[k].modified \in Nat
  BY ModifiedNat DEF TypeOK
<1>1. ASSUME NEW p \in Requests, Commit(p) PROVE AnnouncedInv'
  <2> DEFINE n == Len(versions)
             m == n + 1
             d == IF old[p] = 0 THEN {}
                  ELSE diffEventData(versions[old[p]].data, new[p].data)
  <2>1. /\ CommitReady(p) /\ pc[p] = "commit" /\ old[p] = n
        /\ versions' = Append(versions, new[p])
        /\ changes' = changes \cup Recorded(p)
    BY <1>1 DEF Commit, CommitInv, LastInv, Comparing
  <2>2. new[p] \in eventData /\ new[p].modified \in Nat
    BY <2>1, ModifiedNat DEF CommitReady
  <2>3. /\ Len(versions') = m /\ versions'[m] = new[p]
        /\ \A i \in 1..n : versions'[i] = versions[i]
    BY <1>0, <2>1, <2>2
  <2>4. \A i \in 1..n : versions[i].modified < new[p].modified
    <3>1. n # 0 => versions[n].modified < new[p].modified
      BY <1>0, <2>1, <2>2 DEF CommitReady
    <3> QED  BY <1>0, <2>2, <3>1 DEF AnnouncedInv
  <2>5. \A i, j \in 1..m : i < j => versions'[i].modified < versions'[j].modified
    BY <1>0, <2>3, <2>4 DEF AnnouncedInv
  <2>6. /\ Recorded(p) = IF d = {} THEN {}
                         ELSE {[at |-> m, ts |-> new[p].modified, sessions |-> d]}
        /\ d \subseteq Sessions => d = {s \in Sessions : s \in d}
    BY DEF Recorded
  <2>7. \A c \in Recorded(p) : c.at = m /\ c.sessions = d
    BY <2>6
  <2>8. \A c \in changes' : c.at \in 1..m
    BY <1>0, <2>1, <2>7 DEF AnnouncedInv
  <2>9. ASSUME NEW k \in 2..m
        PROVE  {s \in Sessions : \E c \in changes' : c.at = k /\ s \in c.sessions}
                 = diffEventData(versions'[k - 1].data, versions'[k].data)
    <3>1. CASE k \in 2..n
      <4>1. \A c \in Recorded(p) : c.at # k
        BY <1>0, <2>7, <3>1
      <4>2. versions'[k - 1] = versions[k - 1] /\ versions'[k] = versions[k]
        BY <1>0, <2>3, <3>1
      <4>3. {s \in Sessions : \E c \in changes : c.at = k /\ s \in c.sessions}
              = diffEventData(versions[k - 1].data, versions[k].data)
        BY <3>1 DEF AnnouncedInv, EveryChangeIsAnnounced
      <4>4. \A s : (\E c \in changes' : c.at = k /\ s \in c.sessions)
                     <=> (\E c \in changes : c.at = k /\ s \in c.sessions)
        BY <2>1, <4>1
      <4> QED  BY <4>2, <4>3, <4>4
    <3>2. CASE k = m
      <4>1. k - 1 = n /\ n \in 1..n /\ old[p] # 0
        BY <1>0, <2>1, <3>2
      <4>2. d = diffEventData(versions'[k - 1].data, versions'[k].data)
        BY <2>1, <2>3, <3>2, <4>1
      <4>3. d \subseteq Sessions
        BY <4>2 DEF diffEventData, Present
      <4>4. \A c \in changes : c.at # k
        BY <1>0, <3>2 DEF AnnouncedInv
      <4>5. \A s : (\E c \in changes' : c.at = k /\ s \in c.sessions) <=> s \in d
        <5>1. \A s : (\E c \in Recorded(p) : c.at = k /\ s \in c.sessions)
                       <=> s \in d
          <6>1. d # {} => \E c \in Recorded(p) : c.at = m /\ c.sessions = d
            <7> DEFINE r == [at |-> m, ts |-> new[p].modified, sessions |-> d]
            <7> HIDE DEF d, m
            <7>1. r.at = m /\ r.sessions = d
              OBVIOUS
            <7>2. d # {} => r \in Recorded(p)
              BY <2>6
            <7> QED  BY <7>1, <7>2
          <6> QED  BY <2>7, <3>2, <6>1
        <5> QED  BY <2>1, <4>4, <5>1
      <4> HIDE DEF d
      <4> QED  BY <4>2, <4>3, <4>5
    <3> QED  BY <1>0, <3>1, <3>2
  <2>10. EveryChangeIsAnnounced'
    BY <2>3, <2>9 DEF EveryChangeIsAnnounced, diffEventData, Present
  <2> QED  BY <2>3, <2>5, <2>8, <2>10 DEF AnnouncedInv
<1>2. CASE \A p \in Requests : ~Commit(p)
  <2>1. versions' = versions /\ changes' = changes
    BY <1>2
    DEF Next, Work, GetLatest, Publish, SyncStart, SyncRejected, SyncGuardError,
        CacheHit, CacheMiss, Query, Fill, FetchManifest, FetchFiles, Store,
        Conflict, Abort, Crash, Unguard, EvictGuard, ExpireShard, store, local,
        vars
  <2> QED  BY <2>1 DEF AnnouncedInv, EveryChangeIsAnnounced, diffEventData, Present
<1> QED  BY <1>1, <1>2

(* If memcache neither loses the guard nor fails a call, and only syncs     *)
(* fill the cache, then no change is missed, announced twice or announced   *)
(* late, whatever else fails: each version is compared with the one before. *)
THEOREM ChangesAreConsecutive ==
  ASSUME "evict" \notin Faults, "memcache" \notin Faults, Readers = {}
  PROVE  Spec => []EveryChangeIsAnnounced
<1>1. Init => LastInv /\ AnnouncedInv
  BY DEF Init, LastInv, AnnouncedInv, EveryChangeIsAnnounced, Comparing, Procs
<1>2. TypeOK /\ CommitInv /\ SyncExclusive /\ LastInv /\ AnnouncedInv /\ [Next]_vars
        => LastInv' /\ AnnouncedInv'
  BY LastNext, AnnouncedNext
<1>3. AnnouncedInv => EveryChangeIsAnnounced
  BY DEF AnnouncedInv
<1>4. Spec => []SyncExclusive
  BY GuardAdmitsOne
<1> QED  BY <1>1, <1>2, <1>3, <1>4, TypeCorrect, PTL DEF Spec
==============================================================================
