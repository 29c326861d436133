----------------------------- MODULE UserUpdates ------------------------------
(***************************************************************************)
(* How a device learns what has changed: the push event of the service     *)
(* worker (app/scripts/shed/push-notifications.js) asks serveUserUpdates   *)
(* (backend/handler.go) for the changes since the time in its token        *)
(* (backend/push.go, getChangesSince in backend/db_gae.go), shows them and *)
(* saves the token of the answer.                                          *)
(*                                                                         *)
(* Time is counted in ticks, Second of them to a second.  A change carries *)
(* the time its source had, not the time it is committed at: of a sync the *)
(* Last-Modified of the published schedule, of the clock the time it began.*)
(* So a change may be committed behind others, and two may be of the same  *)
(* second, or of the same time.                                            *)
(*                                                                         *)
(* A change is of one session; a change of several is several changes,     *)
(* perhaps with something between them.                                    *)
(***************************************************************************)
EXTENDS Integers, Sequences, FiniteSets

CONSTANTS Events,       \* push events that the service worker may run at once
          Sessions,     \* session IDs
          Bookmarks,    \* the sessions that the user has bookmarked
          Second,       \* ticks in a second
          MaxLag,       \* how old a change may be when it is committed
          Limit,        \* changes in an answer: 1000
          Faults,       \* which of the faults below may happen
          MaxNow,       \* BOUND: time ends here
          MaxChanges    \* BOUND: so many changes are committed

(* A request for the updates, a notification, or the saving of a token may  *)
(* fail.                                                                    *)
AllFaults == {"fetch", "show", "save"}

ASSUME UpdatesAssumption ==
  /\ Bookmarks \subseteq Sessions
  /\ Second \in Nat \ {0}
  /\ MaxLag \in Nat
  /\ Limit \in Nat \ {0}
  /\ Faults \subseteq AllFaults
  /\ MaxNow \in Nat
  /\ MaxChanges \in Nat

VARIABLES
  now,        \* the time, which all parties agree on
  since,      \* when the device got its first token
  changes,    \* kindChanges entities, in the order they are committed
  pings,      \* pings that have not reached the service worker
  token,      \* the time in the token that is saved in IndexedDB
  pc,         \* where each event waits
  loaded,     \* the token an event has loaded
  items,      \* the changes in the answer an event has got
  next,       \* the token in that answer
  shown,      \* the changes that a notification has told of
  belated     \* the changes that were committed when some token had passed them

event == <<pc, loaded, items, next>>
vars  == <<now, since, changes, pings, token, pc, loaded, items, next, shown, belated>>

Change == [ts : Nat, sid : Sessions, survey : BOOLEAN]

Fault(f) == f \in Faults

(* encodeSWToken: whole seconds.                                            *)
Unix(t) == (t \div Second) * Second

Init ==
  /\ now \in 0..MaxNow
  /\ since = now
  /\ changes = <<>>
  /\ pings = 0
  /\ token = Unix(now)
  /\ pc = [e \in Events |-> "idle"]
  /\ loaded = [e \in Events |-> 0]
  /\ items = [e \in Events |-> {}]
  /\ next = [e \in Events |-> 0]
  /\ shown = {}
  /\ belated = {}

-----------------------------------------------------------------------------
Tick ==
  /\ now < MaxNow
  /\ now' = now + 1
  /\ UNCHANGED <<since, changes, pings, token, event, shown, belated>>

(* What may be committed now: the source is as old as MaxLag.               *)
Committable == [ts : ((now - MaxLag)..now) \cap Nat, sid : Sessions, survey : BOOLEAN]

(* Every token there is: saved, sent with a request, or got with an answer. *)
Tokens == {token} \cup {loaded[e] : e \in Events} \cup {next[e] : e \in Events}

(* storeChanges with the transaction that pings the device.                 *)
Commit ==
  /\ Len(changes) < MaxChanges
  /\ \E c \in Committable :
       /\ changes' = Append(changes, c)
       /\ belated' = IF \E t \in Tokens : c.ts <= t
                      THEN belated \cup {Len(changes) + 1} ELSE belated
  /\ pings' = pings + 1
  /\ UNCHANGED <<now, since, token, event, shown>>

-----------------------------------------------------------------------------
Goto(e, label) == pc' = [pc EXCEPT ![e] = label]

(* The event is over; its variables are gone.                               *)
Finish(e) ==
  /\ Goto(e, "idle")
  /\ loaded' = [loaded EXCEPT ![e] = 0]
  /\ items' = [items EXCEPT ![e] = {}]
  /\ next' = [next EXCEPT ![e] = 0]

(* loadToken                                                                *)
LoadToken(e) ==
  /\ pc[e] = "idle"
  /\ pings > 0
  /\ pings' = pings - 1
  /\ loaded' = [loaded EXCEPT ![e] = token]
  /\ Goto(e, "fetch")
  /\ UNCHANGED <<now, since, changes, token, items, next, shown, belated>>

Since(t) == {i \in 1..Len(changes) : changes[i].ts > t}

(* What getChangesSince may find: the first Limit changes by time.          *)
Found(t) ==
  {S \in SUBSET Since(t) :
     /\ Cardinality(S) <= Limit
     /\ S # Since(t) => Cardinality(S) = Limit
     /\ \A i \in S, j \in Since(t) \ S : changes[i].ts <= changes[j].ts}

(* Of the changes of a session the most recent one is in the answer.        *)
Newest(S, sid) ==
  {i \in S : /\ changes[i].sid = sid
             /\ \A j \in S : changes[j].sid = sid => changes[j].ts <= changes[i].ts}

(* The changes in S that are told of when merged are what is left of them:  *)
(* those of sessions that the user has bookmarked, and surveys.             *)
filterUserChanges(S, merged) ==
  {i \in S : changes[i].sid \in Bookmarks
             \/ \E m \in merged : changes[m].sid = changes[i].sid /\ changes[m].survey}

(* serveUserUpdates.  An answer without sessions is an error to the service *)
(* worker: it shows a notification of it and keeps its token.               *)
FetchUpdates(e) ==
  /\ pc[e] = "fetch"
  /\ \E S \in Found(loaded[e]) :
       \E merged \in SUBSET S :
         LET told == filterUserChanges(S, merged)
         IN /\ \A sid \in {changes[i].sid : i \in S} :
                 \E m \in Newest(S, sid) : {i \in merged : changes[i].sid = sid} = {m}
            /\ IF told = {}
                 THEN Finish(e)
                 ELSE \E last \in S :
                        /\ \A i \in S : changes[i].ts <= changes[last].ts
                        /\ items' = [items EXCEPT ![e] = told]
                        /\ next' = [next EXCEPT ![e] = Unix(changes[last].ts + Second)]
                        /\ Goto(e, "show")
                        /\ UNCHANGED loaded
  /\ UNCHANGED <<now, since, changes, pings, token, shown, belated>>

(* Mutant: the token is saved before the notifications are shown.           *)
ShowNotifications_Late(e) ==
  /\ pc[e] = "show"
  /\ token' = next[e]
  /\ Goto(e, "save")
  /\ UNCHANGED <<now, since, changes, pings, loaded, items, next, shown, belated>>

(* processResponse: showNotification.                                       *)
ShowNotifications(e) ==
  /\ pc[e] = "show"
  /\ shown' = shown \cup items[e]
  /\ Goto(e, "save")
  /\ UNCHANGED <<now, since, changes, pings, token, loaded, items, next, belated>>

(* saveToken                                                                *)
SaveToken(e) ==
  /\ pc[e] = "save"
  /\ token' = next[e]
  /\ Finish(e)
  /\ UNCHANGED <<now, since, changes, pings, shown, belated>>

(* A rejected promise: the event ends with a notification of the error.     *)
Fail(e) ==
  /\ pc[e] \in AllFaults
  /\ Fault(pc[e])
  /\ Finish(e)
  /\ UNCHANGED <<now, since, changes, pings, token, shown, belated>>

-----------------------------------------------------------------------------
Handle(e) == LoadToken(e) \/ FetchUpdates(e) \/ ShowNotifications(e) \/ SaveToken(e)

Next == \/ Tick
        \/ Commit
        \/ \E e \in Events : Handle(e) \/ Fail(e)

Spec == Init /\ [][Next]_vars

-----------------------------------------------------------------------------
(* Type invariant.                                                          *)
TypeOK ==
  /\ now \in Nat
  /\ since \in 0..now
  /\ changes \in Seq(Change)
  /\ pings \in 0..Len(changes)
  /\ token \in Nat
  /\ pc \in [Events -> {"idle", "fetch", "show", "save"}]
  /\ loaded \in [Events -> Nat]
  /\ items \in [Events -> SUBSET (1..Len(changes))]
  /\ next \in [Events -> Nat]
  /\ shown \subseteq 1..Len(changes)
  /\ belated \subseteq 1..Len(changes)

(* Is the user to be told of change i?  A survey of a session that is not   *)
(* bookmarked may be overwritten by a later change of it.                   *)
Wanted(i) ==
  \/ changes[i].sid \in Bookmarks
  \/ /\ changes[i].survey
     /\ \A j \in 1..Len(changes) :
          j # i /\ changes[j].sid = changes[i].sid => changes[j].ts < changes[i].ts

(* An answer may end before change i: as many as it holds are not later,    *)
(* and one of them is of the second before i, so that the next token is     *)
(* past i.                                                                  *)
CutOff(i) ==
  \E S \in SUBSET (1..Len(changes)) :
    /\ i \notin S /\ Cardinality(S) = Limit
    /\ \A j \in S : changes[j].ts <= changes[i].ts
    /\ \E j \in S : changes[i].ts <= Unix(changes[j].ts + Second)

(* "queries datastore for all changes occurred since time t"                *)
(* (getChangesSince): the token of a device does not pass a change that it  *)
(* wants and has not been told of, however events overlap and fail, unless  *)
(* the change was committed when a token had passed it, or was cut off from *)
(* an answer.  And a token passes what is still to be committed by less     *)
(* than a second after the changes there are.                               *)
NothingSkipped ==
  /\ \A i \in 1..Len(changes) :
       Wanted(i) /\ changes[i].ts <= token => i \in shown \cup belated \/ CutOff(i)
  /\ \A i \in belated :
       \/ changes[i].ts <= Unix(since)
       \/ \E j \in 1..(i - 1) : changes[i].ts <= Unix(changes[j].ts + Second)
===============================================================================
