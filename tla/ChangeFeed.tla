----------------------------- MODULE ChangeFeed ------------------------------
(***************************************************************************)
(* What the schedule pipeline of the backend promises to its clients,      *)
(* whatever guard, cache or transaction the code uses to get there: the    *)
(* stored versions of the schedule grow one at a time, and together with a *)
(* version, in one step, goes the record of what changed and the task that *)
(* tells the subscribers.                                                  *)
(*                                                                         *)
(* The promise is weak in one respect that the code cannot avoid: the      *)
(* version a new one is compared with is SOME earlier version, not always  *)
(* the last (it may come from a stale cache).                              *)
(***************************************************************************)
EXTENDS EventData

VARIABLES versions,   \* kindEventData entities in the order they were committed
          changes,    \* kindChanges entities
          tasks       \* notify-subscribers tasks ever enqueued

vars == <<versions, changes, tasks>>

Change(k, new, d) == [at |-> k, ts |-> new.modified, sessions |-> d]

Init == /\ versions = <<>>
        /\ changes = {}
        /\ tasks = {}

(* Stores new, whose predecessor is taken to be version b (0: there is none). *)
Sync(b, new) ==
  /\ (b = 0) <=> (versions = <<>>)
  /\ b # 0 => new.modified > versions[b].modified
  /\ ~isEmptyEventData(new.data)
  /\ versions' = Append(versions, new)
  /\ LET d == IF b = 0 THEN {} ELSE diffEventData(versions[b].data, new.data)
         c == IF d = {} THEN {} ELSE {Change(Len(versions) + 1, new, d)}
     IN /\ changes' = changes \cup c
        /\ tasks' = tasks \cup c

Next == \E b \in 0..Len(versions), new \in eventData : Sync(b, new)

Spec == Init /\ [][Next]_vars

-----------------------------------------------------------------------------
TypeOK == /\ versions \in Seq(eventData)
          /\ changes \subseteq [at : Nat, ts : Times, sessions : SUBSET Sessions]
          /\ tasks \subseteq [at : Nat, ts : Times, sessions : SUBSET Sessions]

(* Was session s announced when version k was stored?                       *)
Announced(k, s) == \E c \in changes : c.at = k /\ s \in c.sessions

(* Content that no earlier version had, of a session that every earlier     *)
(* version had, is announced with the version that brings it: no change is  *)
(* lost between the schedule that clients read and the feed of updates.     *)
FreshContentIsAnnounced ==
  \A k \in 2..Len(versions) : \A s \in Present(versions[k].data) :
    (\A j \in 1..(k - 1) :
        versions[j].data[s] \notin {Absent, versions[k].data[s]})
      => Announced(k, s)

(* What is announced is a change: some earlier version had the session with *)
(* other content.                                                           *)
AnnouncedIsReal ==
  \A c \in changes :
    /\ c.at \in 2..Len(versions)
    /\ c.sessions # {}
    /\ \A s \in c.sessions :
         \E j \in 1..(c.at - 1) :
            s \in diffEventData(versions[j].data, versions[c.at].data)
==============================================================================
