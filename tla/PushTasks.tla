------------------------------ MODULE PushTasks -------------------------------
(***************************************************************************)
(* How a change of the schedule becomes pings of devices: the handlers of  *)
(* the task queue notify-subscribers, ping-user and ping-device            *)
(* (backend/handler.go, backend/async_gae.go), the push configuration of   *)
(* users that they read and repair (backend/db_gae.go, backend/push.go)    *)
(* and patchUserNotifySettings, which changes it next to them.             *)
(*                                                                         *)
(* A task that is executing is a task with the local variables of its      *)
(* handler; each RPC is a step.  Equal tasks count as one: the queue may   *)
(* run a task more than once anyway, and a second equal one does nothing   *)
(* that the first run again does not.                                      *)
(*                                                                         *)
(* An endpoint is a number.  A GCM endpoint URL and the registration ID    *)
(* that ends it are the same number, see pushEndpointURL.                  *)
(***************************************************************************)
EXTENDS Slices, Integers

CONSTANTS Users,
          Regs,           \* GCM registration IDs
          Others,         \* endpoints of other push services
          Sessions,       \* session IDs
          Bookmarks,      \* what each user has bookmarked
          Starts,         \* push configurations a user may have to begin with
          Faults,         \* which of the faults below may happen
          MaxFaults,      \* BOUND: how many of them happen
          MaxTaskRetry,   \* maxTaskRetry: 10
          Schedules       \* attempts of handlePingUser to add tasks: nr + 1

(* "rpc": a datastore or Drive call fails; "crash": an instance dies while  *)
(* it runs a task; "part": the queue takes some tasks of a batch, "queue":  *)
(* it refuses the call; "add": it refuses a ping-user task; "down": the     *)
(* push service is unavailable; "refused": it answers with another error;   *)
(* "auth": the user's credentials are no good.                              *)
AllFaults == {"rpc", "crash", "part", "queue", "add", "down", "refused", "auth"}

Bare == 0   \* config.Google.GCM.Endpoint without a registration ID

Endpoints == {Bare} \cup Regs \cup Others

userPush == [on : BOOLEAN, urls : Seq(Endpoints), subs : Seq(Regs)]

ASSUME PushAssumption ==
  /\ Regs \cup Others \subseteq Nat \ {Bare}
  /\ Starts \subseteq userPush
  /\ Bookmarks \in [Users -> SUBSET Sessions]
  /\ Faults \subseteq AllFaults
  /\ MaxFaults \in Nat
  /\ MaxTaskRetry \in Nat
  /\ Schedules \in Nat \ {0}

VARIABLES
  info,     \* kindUserPush entities: Enabled, Endpoints, Subscribers
  index,    \* users that the query for Enabled entities finds
  tasks,    \* tasks in the queue, executing or not
  note,     \* what the subscribers are notified of
  pinged,   \* which device of which user has got the ping
  gone,     \* endpoints that the push service has dropped
  canon,    \* registration ID that GCM wants to be used for another
  faults    \* how many faults have happened

service == <<gone, canon>>
vars    == <<info, index, tasks, note, pinged, gone, canon, faults>>

(* The devices that a configuration stands for.                             *)
Devices(pi) == (ToSet(pi.urls) \cup ToSet(pi.subs)) \ {Bare}

(* What handlePingUser compares with the bookmarks of a user.               *)
Matches(u) == note.all \/ Bookmarks[u] \cap note.sessions # {}

Fault(f) == f \in Faults /\ faults < MaxFaults /\ faults' = faults + 1

NoFault == UNCHANGED faults

PingUser(u) == [kind |-> "ping-user", uid |-> u, n |-> 0]

PingDevice(u, e) == [kind |-> "ping-device", uid |-> u, url |-> e, n |-> 0]

Init ==
  /\ info \in [Users -> Starts]
  /\ index \in SUBSET Users
  /\ note \in [sessions : SUBSET Sessions, all : {FALSE}]
               \cup {[sessions |-> {}, all |-> TRUE]}
  /\ tasks = {[kind |-> "notify", n |-> 0]}
  /\ pinged = {}
  /\ gone = {}
  /\ canon = [r \in Regs |-> r]
  /\ faults = 0

-----------------------------------------------------------------------------
(* taskRetryCount and the task queue                                        *)

(* Mutant: the count of executions is taken for the count of retries.       *)
Due_Early(t) == t.n <= MaxTaskRetry

(* n executions came before this one, so n - 1 retries.                     *)
Due(t) == t.n - 1 <= MaxTaskRetry

Starting(t, kind) == t.kind = kind /\ Due(t)

(* The handler answers 200: the task is done, and more is perhaps queued.   *)
Done(t, more) == tasks' = (tasks \ {t}) \cup more

(* The task as it is queued, for the next execution.                        *)
Queued(t) ==
  CASE t.kind = "notify" -> [t EXCEPT !.n = @ + 1]
    [] t.kind \in {"ping-user", "match", "schedule"} ->
         [PingUser(t.uid) EXCEPT !.n = t.n + 1]
    [] t.kind \in {"ping-device", "update", "delete"} ->
         [PingDevice(t.uid, t.url) EXCEPT !.n = t.n + 1]

(* The handler answers 500, or the instance dies: the queue runs it again.  *)
Again(t) == Done(t, {Queued(t)})

(* Too many retries: the handler gives up.                                  *)
Drop(t) ==
  /\ t.kind \in {"notify", "ping-user", "ping-device"}
  /\ ~Due(t)
  /\ Done(t, {})
  /\ NoFault
  /\ UNCHANGED <<info, index, note, pinged, service>>

Crash(t) ==
  /\ t.kind \in {"match", "schedule", "update", "delete"}
  /\ Fault("crash")
  /\ Again(t)
  /\ UNCHANGED <<info, index, note, pinged, service>>

-----------------------------------------------------------------------------
(* handleNotifySubscribers: an error of pingUserAsync is only logged.       *)
NotifySubscribers(t) ==
  /\ Starting(t, "notify")
  /\ LET Pings(U) == {PingUser(u) : u \in U}
     IN \/ NoFault /\ Done(t, Pings(index))
        \/ Fault("add") /\ \E U \in SUBSET index : Done(t, Pings(U))
        \/ Fault("rpc") /\ Again(t)
        \/ /\ Fault("crash")
           /\ \E U \in SUBSET index : Done(t, Pings(U) \cup {Queued(t)})
  /\ UNCHANGED <<info, index, note, pinged, service>>

-----------------------------------------------------------------------------
(* handlePingUser                                                           *)

(* Mutant: the endpoints are replaced, not appended to.                     *)
upgradeSubscribers_Replace(subs, urls) == unique(subslice(subs, <<Bare>>))

upgradeSubscribers(subs, urls) == unique(subslice(urls \o subs, <<Bare>>))

(* Mutant: notifications that are off are not looked at.                    *)
ReadPushInfo_Anyway(t) ==
  /\ Starting(t, "ping-user")
  /\ Done(t, {[kind |-> "match", uid |-> t.uid, n |-> t.n, urls |-> info[t.uid].urls]})
  /\ NoFault
  /\ UNCHANGED <<info, index, note, pinged, service>>

(* The transaction that upgrades the configuration.                         *)
ReadPushInfo(t) ==
  /\ Starting(t, "ping-user")
  /\ LET pi == info[t.uid]
         up == IF pi.subs = <<>> THEN pi
               ELSE [pi EXCEPT !.urls = upgradeSubscribers(pi.subs, pi.urls),
                               !.subs = <<>>]
     IN \/ /\ NoFault
           /\ info' = [info EXCEPT ![t.uid] = up]
           /\ Done(t, IF up.on
                        THEN {[kind |-> "match", uid |-> t.uid, n |-> t.n,
                               urls |-> up.urls]}
                        ELSE {})
        \/ Fault("rpc") /\ Again(t) /\ UNCHANGED info
  /\ UNCHANGED <<index, note, pinged, service>>

(* The loop of handlePingUser: at attempt i these endpoints are left.       *)
Scheduling(t, rest, i) ==
  [kind |-> "schedule", uid |-> t.uid, n |-> t.n, rest |-> rest, i |-> i]

(* userSchedule, unless all are to be notified.                             *)
MatchBookmarks(t) ==
  /\ t.kind = "match"
  /\ \/ /\ NoFault
        /\ Done(t, IF Matches(t.uid)
                     THEN {Scheduling(t, ToSet(t.urls), 1)}
                     ELSE {})
     \/ ~note.all /\ Fault("rpc") /\ Again(t)
     \/ ~note.all /\ Fault("auth") /\ Done(t, {})
  /\ UNCHANGED <<info, index, note, pinged, service>>

(* pingDevicesAsync: the tasks of a batch that the queue does not take are  *)
(* tried again.  If it refuses the call there is no list of them, and the   *)
(* next attempt has nothing to add.                                         *)
SchedulePings(t) ==
  /\ t.kind = "schedule"
  /\ LET Pings(E) == {PingDevice(t.uid, e) : e \in E}
     IN \/ NoFault /\ Done(t, Pings(t.rest))
        \/ /\ Fault("part")
           /\ \E left \in SUBSET t.rest \ {{}} :
                Done(t, Pings(t.rest \ left) \cup
                        (IF t.i < Schedules
                           THEN {Scheduling(t, left, t.i + 1)}
                           ELSE {}))
        \/ Fault("queue") /\ Done(t, {})
  /\ UNCHANGED <<info, index, note, pinged, service>>

-----------------------------------------------------------------------------
(* handlePingDevice                                                         *)

(* Mutant: a device that is gone is tried again later.                      *)
Push_Insists(t) ==
  /\ Starting(t, "ping-device")
  /\ NoFault
  /\ IF t.url \in gone \cup {Bare}
       THEN Done(t, {PingDevice(t.uid, t.url)}) /\ UNCHANGED pinged
       ELSE Done(t, {}) /\ pinged' = pinged \cup {<<t.uid, t.url>>}
  /\ UNCHANGED <<info, index, note, service>>

(* pingDevice, pingGCM: what the push service answers.                      *)
Push(t) ==
  /\ Starting(t, "ping-device")
  /\ \/ /\ NoFault
        /\ t.url \in gone \cup {Bare}
        /\ Done(t, {[t EXCEPT !.kind = "delete"]})
        /\ UNCHANGED pinged
     \/ /\ NoFault
        /\ t.url \notin gone \cup {Bare}
        /\ pinged' = pinged \cup {<<t.uid, t.url>>}
        /\ Done(t, IF t.url \in Regs /\ canon[t.url] # t.url
                     THEN {[kind |-> "update", uid |-> t.uid, url |-> t.url,
                            n |-> t.n, nurl |-> canon[t.url]]}
                     ELSE {})
     \/ /\ Fault("refused")
        /\ Done(t, {})
        /\ UNCHANGED pinged
     \/ /\ Fault("down")
        /\ \/ Done(t, {PingDevice(t.uid, t.url)})
           \/ "queue" \in Faults /\ Again(t)
        /\ \/ UNCHANGED pinged
           \/ /\ t.url \notin gone \cup {Bare}
              /\ pinged' = pinged \cup {<<t.uid, t.url>>}
  /\ UNCHANGED <<info, index, note, service>>

(* updatePushEndpoint; its error is only logged.                            *)
UpdatePushEndpoint(t) ==
  /\ t.kind = "update"
  /\ LET urls == info[t.uid].urls
         i == SelectInSeq(urls, LAMBDA e : e = t.url)
     IN \/ /\ NoFault
           /\ info' = IF i = 0 THEN info
                      ELSE [info EXCEPT ![t.uid].urls = ReplaceAt(urls, i, t.nurl)]
        \/ Fault("rpc") /\ UNCHANGED info
  /\ Done(t, {})
  /\ UNCHANGED <<index, note, pinged, service>>

(* deletePushEndpoint, with the registration ID at the same position; its   *)
(* error is only logged.                                                    *)
DeletePushEndpoint(t) ==
  /\ t.kind = "delete"
  /\ LET pi == info[t.uid]
         i  == SelectInSeq(pi.urls, LAMBDA e : e = t.url)
     IN \/ /\ NoFault
           /\ info' =
                IF i = 0 THEN info
                ELSE [info EXCEPT ![t.uid] =
                        [on |-> pi.on, urls |-> RemoveAt(pi.urls, i),
                         subs |-> IF i <= Len(pi.subs) THEN RemoveAt(pi.subs, i)
                                  ELSE pi.subs]]
        \/ Fault("rpc") /\ UNCHANGED info
  /\ Done(t, {})
  /\ UNCHANGED <<index, note, pinged, service>>

-----------------------------------------------------------------------------
(* The users and the push services                                          *)

(* patchUserNotifySettings: an endpoint is added, notifications are turned  *)
(* on or off.                                                               *)
PatchNotifySettings(u) ==
  /\ \E on \in BOOLEAN, new \in {<<>>} \cup {<<e>> : e \in Endpoints \ (gone \cup {Bare})} :
       LET urls == info[u].urls
       IN info' = [info EXCEPT ![u] =
                     [on |-> on, subs |-> @.subs,
                      urls |-> IF ToSet(new) \subseteq ToSet(urls) THEN urls
                               ELSE urls \o new]]
  /\ UNCHANGED <<index, tasks, note, pinged, service, faults>>

(* The datastore's query is eventually consistent.                          *)
IndexCatchesUp(u) ==
  /\ index' = IF info[u].on THEN index \cup {u} ELSE index \ {u}
  /\ UNCHANGED <<info, tasks, note, pinged, service, faults>>

(* A device unsubscribes; GCM gives a device another registration ID.       *)
DeviceLeaves ==
  /\ \E e \in Endpoints \ {Bare} : gone' = gone \cup {e}
  /\ UNCHANGED <<info, index, tasks, note, pinged, canon, faults>>

DeviceMoves ==
  /\ \E r, s \in Regs :
       /\ r # s /\ canon[r] = r /\ canon[s] = s
       /\ canon' = [canon EXCEPT ![r] = s]
  /\ UNCHANGED <<info, index, tasks, note, pinged, gone, faults>>

-----------------------------------------------------------------------------
Run(t) == \/ Drop(t) \/ NotifySubscribers(t)
          \/ ReadPushInfo(t) \/ MatchBookmarks(t) \/ SchedulePings(t)
          \/ Push(t) \/ UpdatePushEndpoint(t) \/ DeletePushEndpoint(t)

Next ==
  \/ \E t \in tasks : Run(t) \/ Crash(t)
  \/ \E u \in Users : PatchNotifySettings(u) \/ IndexCatchesUp(u)
  \/ DeviceLeaves
  \/ DeviceMoves

Spec == Init /\ [][Next]_vars

(* The queue runs what is in it.                                            *)
FairSpec == Spec /\ WF_vars(\E t \in tasks : Run(t))

-----------------------------------------------------------------------------
Kinds == {"notify", "ping-user", "match", "schedule", "ping-device", "update",
          "delete"}

(* Type invariant.                                                          *)
TypeOK ==
  /\ info \in [Users -> userPush]
  /\ index \subseteq Users
  /\ \A t \in tasks : /\ t.kind \in Kinds
                      /\ t.n \in 0..faults
  /\ pinged \subseteq Users \X (Endpoints \ {Bare})
  /\ gone \subseteq Endpoints \ {Bare}
  /\ canon \in [Regs -> Regs]
  /\ faults \in 0..MaxFaults

(* A subscribed device stays subscribed, whatever pings, upgrades and       *)
(* patches overlap, until its push service has dropped it or has replaced   *)
(* its registration ID, and then the new one is there.                      *)
DevicesAreKept ==
  [][\A u \in Users : \A e \in Devices(info[u]) \ Devices(info'[u]) :
       \/ e \in gone
       \/ e \in Regs /\ canon[e] # e /\ canon[e] \in Devices(info'[u])]_vars

(* Who has notifications off all the time, or has bookmarked none of the    *)
(* sessions, is not pinged, also when the index still lists them.           *)
NobodyElseIsPinged ==
  \A u \in Users :
    [](~info[u].on \/ ~Matches(u)) => [](\A e \in Endpoints : <<u, e>> \notin pinged)

(* A device that is subscribed, of a user who wants to know, is pinged, or  *)
(* found gone, in spite of faults that the handlers retry.                  *)
EveryDeviceIsPinged ==
  \A u \in Users : \A e \in Endpoints :
    (/\ Matches(u)
     /\ [](info[u].on /\ u \in index /\ e \in Devices(info[u]) /\ e \notin gone))
      => <>(<<u, e>> \in pinged)

(* A notification is over at some time: no two handlers keep feeding each   *)
(* other tasks once the push service answers.                               *)
TasksDrain == <>[](tasks = {})
===============================================================================
