------------------------------ MODULE EventSync -------------------------------
(***************************************************************************)
(* How the backend mirrors the event schedule: syncEventData               *)
(* (backend/handler.go), the versioned store and its memcache front        *)
(* (backend/db_gae.go) and fetchEventData (backend/schedule.go).           *)
(*                                                                         *)
(* The schedule is published to a storage bucket (gcs).  A sync request    *)
(* passes a memcache counter that admits one sync at a time, then runs a   *)
(* datastore transaction: it reads the last stored version, perhaps from   *)
(* the cache, fetches the published one, stores it, and records and        *)
(* announces the difference.  Readers are the handlers that call           *)
(* getLatestEventData outside of a transaction and fill the same cache.    *)
(*                                                                         *)
(* Each RPC (memcache, datastore, storage bucket) is a step of its own, so *)
(* that requests interleave wherever the code waits for an answer.         *)
(***************************************************************************)
EXTENDS EventData, Integers

CONSTANTS Requests,      \* concurrent invocations of syncEventData
          Readers,       \* concurrent callers of getLatestEventData
          Shards,        \* allCachedEventDataKeys
          Feeds,         \* the schedules that get published
          Faults,        \* which of the faults below may happen
          GuardReset,    \* what syncEventData takes off the guard: 1000
          MaxAttempts,   \* attempts of RunInTransaction: 3
          MaxGuard,      \* BOUND: the guard is not counted beyond this
          MaxVersions    \* BOUND: no sync starts with so many versions stored

(* "evict": memcache drops the guard; "crash": an instance dies in the      *)
(* middle of a sync; "memcache", "rpc": a call fails; "hurry": two          *)
(* schedules are published within the second that is the resolution of the  *)
(* Last-Modified header; "header": that header is not there or cannot be    *)
(* parsed.                                                                  *)
AllFaults == {"evict", "crash", "memcache", "rpc", "hurry", "header"}

ASSUME SyncAssumption ==
  /\ Requests \cap Readers = {}
  /\ Feeds \subseteq Data
  /\ Faults \subseteq AllFaults
  /\ GuardReset \in Nat \ {0}
  /\ MaxAttempts \in Nat \ {0}
  /\ MaxGuard \in Nat \ {0}
  /\ MaxVersions \in Nat

Procs == Requests \cup Readers

VARIABLES
  gcs,        \* the published schedule
  versions,   \* kindEventData entities, in commit order; the index is the etag
  changes,    \* kindChanges entities
  tasks,      \* notify-subscribers tasks ever enqueued
  cache,      \* memcache: shard -> etag of the cached version, 0 for a miss
  guard,      \* memcache: counter under syncGCSCacheKey
  pc,         \* where each process waits
  shard,      \* cachedEventDataKey of the instance a process runs on
  old,        \* oldData: etag of the version a process got, 0 for none
  new,        \* newData of a request
  touched,    \* how many versions the transaction's snapshot has
  attempt     \* attempt of the transaction

store == <<versions, changes, tasks>>
local == <<pc, shard, old, new, touched, attempt>>
vars  == <<gcs, versions, changes, tasks, cache, guard, pc, shard, old, new,
           touched, attempt>>

-----------------------------------------------------------------------------
Untouched == -1

(* The zero eventData.                                                      *)
NoData == [modified |-> 0, data |-> [s \in Sessions |-> Absent]]

Fault(f) == f \in Faults

(* The stored versions that a query by descending timestamp may return.     *)
Newest == {k \in 1..Len(versions) :
             \A j \in 1..Len(versions) :
               versions[j].modified <= versions[k].modified}

Count(n) == IF n < MaxGuard THEN n + 1 ELSE n

(* Mutant: one rejected request more than the reset takes off.              *)
Reset_ByOne(n) == IF n > 1 THEN n - 1 ELSE 0

(* memcache counters do not fall below zero.                                *)
Reset(n) == IF n > GuardReset THEN n - GuardReset ELSE 0

InTx == {"lookup", "query", "fill", "manifest", "files", "store", "commit"}

Syncing(p) == p \in Requests /\ pc[p] # "idle"

Init ==
  /\ gcs \in {g \in eventData : g.data \in Feeds}
  /\ versions = <<>>
  /\ changes = {}
  /\ tasks = {}
  /\ cache = [c \in Shards |-> 0]
  /\ guard = 0
  /\ pc = [p \in Procs |-> IF p \in Requests THEN "idle" ELSE "lookup"]
  /\ shard \in [Procs -> Shards]
  /\ old = [p \in Procs |-> 0]
  /\ new = [p \in Procs |-> NoData]
  /\ touched = [p \in Procs |-> Untouched]
  /\ attempt = [p \in Procs |-> 0]

(* The clock shows no time that is earlier than one it has shown.           *)
Now(t) == /\ t >= gcs.modified
          /\ \A k \in 1..Len(versions) : t >= versions[k].modified
          /\ \A p \in Procs : t >= new[p].modified

(* External: a new schedule is uploaded to the bucket.                      *)
Publish ==
  /\ \E t \in Times, d \in Feeds :
       /\ Now(t)
       /\ t # gcs.modified \/ Fault("hurry")
       /\ d # gcs.data
       /\ gcs' = [modified |-> t, data |-> d]
  /\ UNCHANGED <<store, cache, guard, local>>

-----------------------------------------------------------------------------
(* syncEventData: the guard                                                 *)

Goto(p, label) == pc' = [pc EXCEPT ![p] = label]

(* The variables of the transaction's function live as long as an attempt.  *)
Forget(p, n) ==
  /\ old' = [old EXCEPT ![p] = 0]
  /\ new' = [new EXCEPT ![p] = NoData]
  /\ touched' = [touched EXCEPT ![p] = Untouched]
  /\ attempt' = [attempt EXCEPT ![p] = n]

(* Attempt n of the transaction begins; its snapshot is taken at its first  *)
(* datastore call.                                                          *)
Begin(p, n) == Goto(p, "lookup") /\ Forget(p, n)

(* The transaction ends, committed or not.                                  *)
Leave(p) == Goto(p, "unguard") /\ Forget(p, 0)

(* Mutant: the guard admits a second request (i > 2 for i > 1).             *)
SyncStart_Two(p) ==
  /\ pc[p] = "idle"
  /\ Len(versions) < MaxVersions
  /\ guard <= 1
  /\ guard' = Count(guard)
  /\ Begin(p, 1)
  /\ UNCHANGED <<gcs, store, cache, shard>>

(* The guard's new value is 1: this request runs the sync.                  *)
SyncStart(p) ==
  /\ pc[p] = "idle"
  /\ Len(versions) < MaxVersions
  /\ guard = 0
  /\ guard' = Count(guard)
  /\ Begin(p, 1)
  /\ UNCHANGED <<gcs, store, cache, shard>>

(* Mutant: a rejected request resets the guard too, as with a defer.        *)
SyncRejected_Resets(p) ==
  /\ pc[p] = "idle"
  /\ guard > 0
  /\ guard' = Reset(Count(guard))
  /\ UNCHANGED <<gcs, store, cache, local>>

(* The guard's new value is more than 1: "GCS sync: already running".       *)
SyncRejected(p) ==
  /\ pc[p] = "idle"
  /\ guard > 0
  /\ guard' = Count(guard)
  /\ UNCHANGED <<gcs, store, cache, local>>

(* The increment fails, or its answer is lost: the request ends.            *)
SyncGuardError(p) ==
  /\ pc[p] = "idle"
  /\ Fault("memcache")
  /\ guard' = Count(guard)
  /\ UNCHANGED <<gcs, store, cache, local>>

-----------------------------------------------------------------------------
(* getLatestEventData                                                       *)

(* Where a process goes once it has a version, or knows there is none: a    *)
(* reader answers and is ready to be called again.                          *)
Got(p) == IF p \in Requests THEN "manifest" ELSE "lookup"

(* A reader that finds the version in the cache changes nothing.            *)
CacheHit(p) ==
  /\ p \in Requests
  /\ pc[p] = "lookup"
  /\ cache[shard[p]] # 0
  /\ old' = [old EXCEPT ![p] = cache[shard[p]]]
  /\ Goto(p, Got(p))
  /\ UNCHANGED <<gcs, store, cache, guard, shard, new, touched, attempt>>

CacheMiss(p) ==
  /\ pc[p] = "lookup"
  /\ cache[shard[p]] = 0 \/ Fault("memcache")
  /\ Goto(p, "query")
  /\ UNCHANGED <<gcs, store, cache, guard, shard, old, new, touched, attempt>>

(* The query is the first datastore call of a transaction.                  *)
Query(p) ==
  /\ pc[p] = "query"
  /\ IF versions = <<>>
       THEN /\ Goto(p, Got(p))
            /\ old' = [old EXCEPT ![p] = 0]
       ELSE /\ Goto(p, "fill")
            /\ \E k \in Newest : old' = [old EXCEPT ![p] = k]
  /\ touched' = IF p \in Requests
                  THEN [touched EXCEPT ![p] = Len(versions)] ELSE touched
  /\ UNCHANGED <<gcs, store, cache, guard, shard, new, attempt>>

(* cacheEventData: its error is logged and ignored.                         *)
Fill(p) ==
  /\ pc[p] = "fill"
  /\ \/ cache' = [cache EXCEPT ![shard[p]] = old[p]]
     \/ Fault("memcache") /\ cache' = cache
  /\ Goto(p, Got(p))
  /\ old' = IF p \in Readers THEN [old EXCEPT ![p] = 0] ELSE old
  /\ UNCHANGED <<gcs, store, guard, shard, new, touched, attempt>>

-----------------------------------------------------------------------------
(* syncEventData: inside the transaction                                    *)

(* Mutant: the manifest is fetched unconditionally.                         *)
FetchManifest_Always(p) ==
  /\ pc[p] = "manifest"
  /\ Goto(p, "files")
  /\ new' = [new EXCEPT ![p] = gcs]
  /\ UNCHANGED <<old, touched, attempt, gcs, store, cache, guard, shard>>

(* Mutant: a schedule published within a second of the last one is missed.  *)
FetchManifest_Coarse(p) ==
  /\ pc[p] = "manifest"
  /\ IF old[p] # 0 /\ gcs.modified <= versions[old[p]].modified + 1
       THEN Leave(p)
       ELSE /\ Goto(p, "files")
            /\ new' = [new EXCEPT ![p] = gcs]
            /\ UNCHANGED <<old, touched, attempt>>
  /\ UNCHANGED <<gcs, store, cache, guard, shard>>

(* The time of the manifest: its Last-Modified header, or time.Now().       *)
Modified == {gcs.modified} \cup {t \in Times : Fault("header") /\ Now(t)}

(* fetchEventManifest: If-Modified-Since the old version.                   *)
FetchManifest(p) ==
  /\ pc[p] = "manifest"
  /\ IF old[p] # 0 /\ gcs.modified <= versions[old[p]].modified
       THEN Leave(p)
       ELSE /\ Goto(p, "files")
            /\ \E t \in Modified :
                 new' = [new EXCEPT ![p] = [modified |-> t, data |-> gcs.data]]
            /\ UNCHANGED <<old, touched, attempt>>
  /\ UNCHANGED <<gcs, store, cache, guard, shard>>

(* Mutant: the time of the version is that of the files, not the manifest.  *)
FetchFiles_LateTime(p) ==
  /\ pc[p] = "files"
  /\ \E late \in SUBSET Sessions :
       LET d == [s \in Sessions |-> IF s \in late THEN gcs.data[s]
                                    ELSE new[p].data[s]]
       IN IF isEmptyEventData(d)
            THEN Leave(p)
            ELSE /\ Goto(p, "store")
                 /\ new' = [new EXCEPT ![p] = [modified |-> gcs.modified, data |-> d]]
                 /\ UNCHANGED <<old, touched, attempt>>
  /\ UNCHANGED <<gcs, store, cache, guard, shard>>

(* The change entity of the transaction, if the diff is not empty; the same *)
(* is sent to the subscribers.                                              *)
Recorded(p) ==
  LET d == IF old[p] = 0 THEN {}
           ELSE diffEventData(versions[old[p]].data, new[p].data)
  IN IF d = {} THEN {}
     ELSE {[at |-> Len(versions) + 1, ts |-> new[p].modified, sessions |-> d]}

(* The files of the manifest are fetched after it and in parallel: each may *)
(* be of the schedule the manifest was read from or of a later one.         *)
FetchFiles(p) ==
  /\ pc[p] = "files"
  /\ \E late \in SUBSET Sessions :
       LET d == [s \in Sessions |-> IF s \in late THEN gcs.data[s]
                                    ELSE new[p].data[s]]
       IN IF isEmptyEventData(d)
            THEN Leave(p)
            ELSE /\ Goto(p, "store")
                 /\ new' = [new EXCEPT ![p].data = d]
                 /\ UNCHANGED <<old, touched, attempt>>
  /\ UNCHANGED <<gcs, store, cache, guard, shard>>

(* Mutant: the cache is left alone.                                         *)
Store_KeepsCache(p) ==
  /\ pc[p] = "store"
  /\ touched' = IF touched[p] = Untouched
                  THEN [touched EXCEPT ![p] = Len(versions)] ELSE touched
  /\ Goto(p, "commit")
  /\ UNCHANGED <<gcs, store, cache, guard, shard, old, new, attempt>>

(* storeEventData: the put waits for the commit, the cache is purged now.   *)
Store(p) ==
  /\ pc[p] = "store"
  /\ touched' = IF touched[p] = Untouched
                  THEN [touched EXCEPT ![p] = Len(versions)] ELSE touched
  /\ \/ cache' = [c \in Shards |-> 0]
     \/ Fault("memcache") /\ cache' = cache
  /\ Goto(p, "commit")
  /\ UNCHANGED <<gcs, store, guard, shard, old, new, attempt>>

(* The commit of the version, with what storeChanges and                    *)
(* notifySubscribersAsync added to the transaction.                         *)
Commit(p) ==
  /\ pc[p] = "commit"
  /\ touched[p] = Len(versions)
  /\ versions' = Append(versions, new[p])
  /\ changes' = changes \cup Recorded(p)
  /\ tasks' = tasks \cup Recorded(p)
  /\ Leave(p)
  /\ UNCHANGED <<gcs, cache, guard, shard>>

(* ErrConcurrentTransaction: the function runs again, from the cache on.    *)
Conflict(p) ==
  /\ pc[p] = "commit"
  /\ touched[p] # Len(versions)
  /\ IF attempt[p] < MaxAttempts
       THEN Begin(p, attempt[p] + 1)
       ELSE Leave(p)
  /\ UNCHANGED <<gcs, store, cache, guard, shard>>

(* A call fails and its error ends the transaction.                         *)
Abort(p) ==
  /\ p \in Requests
  /\ pc[p] \in {"query", "manifest", "files", "store", "commit"}
  /\ Fault("rpc")
  /\ Leave(p)
  /\ UNCHANGED <<gcs, store, cache, guard, shard>>

(* The request ends and takes GuardReset off the guard; if that call fails  *)
(* the error is only logged.                                                *)
Unguard(p) ==
  /\ pc[p] = "unguard"
  /\ \/ guard' = Reset(guard)
     \/ Fault("memcache") /\ guard' = guard
  /\ Goto(p, "idle")
  /\ UNCHANGED <<gcs, store, cache, shard, old, new, touched, attempt>>

-----------------------------------------------------------------------------
(* The environment                                                          *)

(* The instance dies or the request is cut off: the datastore rolls the     *)
(* transaction back, nobody resets the guard.                               *)
Crash(p) ==
  /\ Fault("crash")
  /\ pc[p] # "idle"
  /\ Goto(p, "idle")
  /\ Forget(p, 0)
  /\ UNCHANGED <<gcs, store, cache, guard, shard>>

EvictGuard ==
  /\ Fault("evict")
  /\ guard > 0
  /\ guard' = 0
  /\ UNCHANGED <<gcs, store, cache, local>>

(* A cached version lives an hour; memcache may drop it before.             *)
ExpireShard(c) ==
  /\ cache[c] # 0
  /\ cache' = [cache EXCEPT ![c] = 0]
  /\ UNCHANGED <<gcs, store, guard, local>>

-----------------------------------------------------------------------------
GetLatest(p) == CacheHit(p) \/ CacheMiss(p) \/ Query(p) \/ Fill(p)

Work(p) == \/ FetchManifest(p) \/ FetchFiles(p) \/ Store(p) \/ Commit(p)
           \/ Conflict(p) \/ Unguard(p)

Next ==
  \/ Publish
  \/ \E p \in Requests : \/ SyncStart(p) \/ SyncRejected(p) \/ SyncGuardError(p)
                         \/ Work(p) \/ Abort(p) \/ Crash(p)
  \/ \E p \in Procs : GetLatest(p)
  \/ EvictGuard
  \/ \E c \in Shards : ExpireShard(c)

Spec == Init /\ [][Next]_vars

(* A sync is requested again and again (storage notifications and cron), a  *)
(* request or a read that has begun gets its answers, a call that is made   *)
(* again and again does not fail for ever, and what memcache holds expires. *)
Fairness ==
  /\ WF_vars(\E p \in Requests : SyncStart(p))
  /\ \A p \in Procs : WF_vars(GetLatest(p))
  /\ \A p \in Requests :
       /\ WF_vars(Work(p))
       /\ SF_vars(Query(p)) /\ SF_vars(FetchManifest(p)) /\ SF_vars(FetchFiles(p))
       /\ SF_vars(Store(p)) /\ SF_vars(Commit(p))
  /\ \A c \in Shards : WF_vars(ExpireShard(c))

FairSpec == Spec /\ Fairness

-----------------------------------------------------------------------------
(* Type invariant.                                                          *)
TypeOK ==
  /\ gcs \in eventData
  /\ versions \in Seq(eventData)
  /\ changes \subseteq [at : Nat, ts : Times, sessions : SUBSET Sessions]
  /\ tasks \subseteq [at : Nat, ts : Times, sessions : SUBSET Sessions]
  /\ cache \in [Shards -> 0..Len(versions)]
  /\ guard \in 0..MaxGuard
  /\ pc \in [Procs -> InTx \cup {"idle", "unguard"}]
  /\ shard \in [Procs -> Shards]
  /\ old \in [Procs -> 0..Len(versions)]
  /\ new \in [Procs -> [modified : Times \cup {0}, data : Data]]
  /\ touched \in [Procs -> {Untouched} \cup 0..Len(versions)]
  /\ attempt \in [Procs -> 0..MaxAttempts]

(* One sync at a time gets past the guard of syncEventData, whatever        *)
(* crashes, fails or is rejected, as long as memcache does not lose it.     *)
SyncExclusive == \A p, q \in Requests : Syncing(p) /\ Syncing(q) => p = q

(* Versions are stored in the order in which they were published: a slow    *)
(* sync never puts an older schedule on top of a newer one.                 *)
VersionsInOrder ==
  \A i, j \in 1..Len(versions) :
    i < j => versions[i].modified <= versions[j].modified

(* A version that fetchEventData put together from files of two schedules   *)
(* is never taken for the newer of them, so the next sync replaces it.      *)
(* This needs the times of the manifests to tell the schedules apart.       *)
NoTornVersion ==
  \A k \in 1..Len(versions) :
    versions[k].modified = gcs.modified => versions[k].data = gcs.data

(* When no reader fills the cache, no change is missed, announced twice or  *)
(* announced late: each version is compared with the one before it.         *)
EveryChangeIsAnnounced ==
  \A k \in 2..Len(versions) :
    {s \in Sessions : \E c \in changes : c.at = k /\ s \in c.sessions} =
      diffEventData(versions[k - 1].data, versions[k].data)

(* storeEventData, storeChanges and notifySubscribersAsync, whatever runs   *)
(* next to them, implement the feed of ChangeFeed.                          *)
Feed == INSTANCE ChangeFeed

FeedSpec == Feed!Spec

(* No change between what is served and what is announced is lost, see      *)
(* ChangeFeed: also when the cache is stale, the guard is evicted, syncs    *)
(* overlap and transactions are retried.                                    *)
FreshContentIsAnnounced == Feed!FreshContentIsAnnounced

(* What is announced did change: no subscriber is woken for nothing.        *)
AnnouncedIsReal == Feed!AnnouncedIsReal

-----------------------------------------------------------------------------
(* What is published last is stored in the end, and stays stored: when no   *)
(* schedule follows another within a second, the header's resolution.       *)
PublishedIsStored == <>[](\E k \in 1..Len(versions) : versions[k] = gcs)

(* The guard does not stay closed.                                          *)
GuardReopens == []<>(guard = 0)
==============================================================================
