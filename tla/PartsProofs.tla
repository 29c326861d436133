------------------------------ MODULE PartsProofs ------------------------------
(***************************************************************************)
(* The parts: what is proved of them, for every value of the constants.    *)
(*                                                                         *)
(*  - The user updates: a device is told of everything it wants to know,   *)
(*    whatever events of its service worker overlap and fail, but for what *)
(*    is committed behind a token or cut off from an answer.               *)
(*  - The instruments: what is saved of a view is what it plays.           *)
(*  - The credentials: the grant of the last sign-in is kept.              *)
(*  - The push subscription: it is that of the user who is signed in.      *)
(*  - What is under the hands of a visitor: strings and dots refer to each *)
(*    other, instruments sound while they are held, videos can be closed.  *)
(*  - The sound and its beats: it is on while the experiment plays, at the *)
(*    volumes of its channels, and every beat is handed out in time.       *)
(*  - The countdown: when its end is announced, and when it is missed.     *)
(*                                                                         *)
(* A behaviour is one of a single part, so that an invariant of the part   *)
(* is one of PartsSpec (PartSteps).                                        *)
(***************************************************************************)
EXTENDS Parts, TLAPS, SequenceTheorems, FiniteSetTheorems

------------------------------------------------------------------------------
(***************************************************************************)
(* The user updates: NothingSkipped                                        *)
(***************************************************************************)
(* A token is never later than the second after some change, or than the    *)
(* first token.                                                             *)
Bounded(t) ==
  t <= Unix(since) \/ \E k \in 1..Len(changes) : t <= Unix(changes[k].ts + Second)

TokensInv == \A t \in Tokens : Bounded(t)

(* What is committed behind a token is so by no more than that.             *)
BelatedInv ==
  \A i \in belated :
    \/ changes[i].ts <= Unix(since)
    \/ \E j \in 1..(i - 1) : changes[i].ts <= Unix(changes[j].ts + Second)

(* What a user wants to know up to t is in told, or excused.                *)
Told(t, told) ==
  \A i \in 1..Len(changes) :
    Wanted(i) /\ changes[i].ts <= t => i \in told \cup belated \/ CutOff(i)

(* Each token that is saved or on its way to be saved has been told up to.  *)
TokenInv ==
  /\ Told(token, shown)
  /\ \A e \in Events :
       /\ pc[e] = "fetch" => Told(loaded[e], shown)
       /\ pc[e] = "show"  => Told(next[e], shown \cup items[e])
       /\ pc[e] = "save"  => Told(next[e], shown)

(* Times are numbers.                                                       *)
LEMMA TimesNat ==
  ASSUME TypeOK, NEW i \in 1..Len(changes)
  PROVE  changes[i].ts \in Nat
<1>1. changes[i] \in Change
  BY DEF TypeOK
<1> QED  BY <1>1 DEF Change

(* A token is a whole second that is not later than the time it is made of. *)
LEMMA UnixBelow ==
  ASSUME NEW t \in Nat
  PROVE  Unix(t) \in Nat /\ Unix(t) <= t
<1>1. Second \in Nat /\ Second > 0
  BY UpdatesAssumption
<1>2. t \div Second \in Nat /\ (t \div Second) * Second <= t
  BY <1>1
<1> QED  BY <1>1, <1>2 DEF Unix

(* The event that is over, and the one that goes on.                        *)
LEMMA FinishType ==
  ASSUME TypeOK, NEW e \in Events, Finish(e)
  PROVE  /\ pc' \in [Events -> {"idle", "fetch", "show", "save"}]
         /\ loaded' \in [Events -> Nat]
         /\ items' \in [Events -> SUBSET (1..Len(changes))]
         /\ next' \in [Events -> Nat]
BY DEF TypeOK, Finish, Goto

(* What an event does with the changes S that were found.                   *)
Answer(e, S, merged, last) ==
  /\ pc[e] = "fetch"
  /\ \A sid \in {changes[i].sid : i \in S} :
       \E m \in Newest(S, sid) : {i \in merged : changes[i].sid = sid} = {m}
  /\ last \in S
  /\ \A i \in S : changes[i].ts <= changes[last].ts
  /\ items' = [items EXCEPT ![e] = filterUserChanges(S, merged)]
  /\ next' = [next EXCEPT ![e] = Unix(changes[last].ts + Second)]
  /\ pc' = [pc EXCEPT ![e] = "show"]
  /\ loaded' = loaded

LEMMA FetchAnswer ==
  ASSUME TypeOK, NEW e \in Events, FetchUpdates(e), ~Finish(e)
  PROVE  \E S \in Found(loaded[e]), merged \in SUBSET (1..Len(changes)),
            last \in 1..Len(changes) : Answer(e, S, merged, last)
<1>1. PICK S \in Found(loaded[e]), merged \in SUBSET (1..Len(changes)) :
        /\ merged \subseteq S
        /\ \A sid \in {changes[i].sid : i \in S} :
             \E m \in Newest(S, sid) :
               {i \in merged : changes[i].sid = sid} = {m}
        /\ \E last \in S :
             /\ \A i \in S : changes[i].ts <= changes[last].ts
             /\ items' = [items EXCEPT ![e] = filterUserChanges(S, merged)]
             /\ next' = [next EXCEPT ![e] = Unix(changes[last].ts + Second)]
             /\ pc' = [pc EXCEPT ![e] = "show"]
             /\ loaded' = loaded
  <2>1. \A S \in Found(loaded[e]) : S \subseteq 1..Len(changes)
    BY DEF Found, Since
  <2> QED  BY <2>1 DEF FetchUpdates, Goto
<1>2. S \subseteq 1..Len(changes)
  BY DEF Found, Since
<1>3. pc[e] = "fetch"
  BY DEF FetchUpdates
<1> QED  BY <1>1, <1>2, <1>3 DEF Answer

LEMMA TypeNext == TypeOK /\ [Next]_vars => TypeOK'
<1> SUFFICES ASSUME TypeOK, [Next]_vars PROVE TypeOK'
  OBVIOUS
<1> USE DEF Goto
<1>1. /\ now \in Nat /\ since \in 0..now
      /\ changes \in Seq(Change)
      /\ Len(changes) \in Nat
      /\ pings \in 0..Len(changes)
      /\ token \in Nat
      /\ Second \in Nat
  BY UpdatesAssumption DEF TypeOK
<1>2. CASE Tick
  BY <1>1, <1>2 DEF Tick, TypeOK, event
<1>3. CASE Commit
  <2>1. PICK c \in Committable :
          /\ changes' = Append(changes, c)
          /\ belated' \in {belated, belated \cup {Len(changes) + 1}}
    BY <1>3 DEF Commit
  <2>2. c \in Change
    BY DEF Committable, Change
  <2>3. /\ changes' \in Seq(Change)
        /\ Len(changes') = Len(changes) + 1
    BY <1>1, <2>1, <2>2
  <2>4. 1..Len(changes) \subseteq 1..Len(changes')
    BY <1>1, <2>3
  <2>5. /\ now' = now /\ since' = since /\ token' = token /\ shown' = shown
        /\ pc' = pc /\ loaded' = loaded /\ items' = items /\ next' = next
        /\ pings' = pings + 1
    BY <1>3 DEF Commit, event
  <2>6. items' \in [Events -> SUBSET (1..Len(changes'))]
    BY <2>4, <2>5 DEF TypeOK
  <2>7. belated' \subseteq 1..Len(changes')
    BY <1>1, <2>1, <2>3, <2>4 DEF TypeOK
  <2> QED  BY <1>1, <2>3, <2>4, <2>5, <2>6, <2>7 DEF TypeOK
<1>4. ASSUME NEW e \in Events, LoadToken(e) PROVE TypeOK'
  BY <1>1, <1>4 DEF LoadToken, TypeOK
<1>5. ASSUME NEW e \in Events, FetchUpdates(e) PROVE TypeOK'
  <2>1. CASE Finish(e)
    BY <1>5, <2>1, FinishType DEF FetchUpdates, TypeOK
  <2>2. CASE ~Finish(e)
    <3>1. PICK S \in Found(loaded[e]), merged \in SUBSET (1..Len(changes)),
               last \in 1..Len(changes) : Answer(e, S, merged, last)
      BY <1>5, <2>2, FetchAnswer
    <3>2. S \subseteq 1..Len(changes)
      BY DEF Found, Since
    <3>3. filterUserChanges(S, merged) \subseteq 1..Len(changes)
      BY <3>2 DEF filterUserChanges
    <3>4. changes[last].ts + Second \in Nat
      BY <1>1, TimesNat
    <3>5. next' \in [Events -> Nat]
      BY <3>1, <3>4, UnixBelow DEF Answer, TypeOK
    <3>6. items' \in [Events -> SUBSET (1..Len(changes))]
      BY <3>1, <3>3 DEF Answer, TypeOK
    <3> QED  BY <1>5, <3>1, <3>5, <3>6 DEF Answer, FetchUpdates, TypeOK
  <2> QED  BY <2>1, <2>2
<1>6. ASSUME NEW e \in Events, ShowNotifications(e) PROVE TypeOK'
  BY <1>1, <1>6 DEF ShowNotifications, TypeOK
<1>7. ASSUME NEW e \in Events, SaveToken(e) PROVE TypeOK'
  <2>1. token' \in Nat
    BY <1>7 DEF SaveToken, TypeOK
  <2> QED  BY <1>7, <2>1, FinishType DEF SaveToken, TypeOK
<1>8. ASSUME NEW e \in Events, Fail(e) PROVE TypeOK'
  BY <1>8, FinishType DEF Fail, TypeOK
<1>9. CASE UNCHANGED vars
  BY <1>9 DEF vars, TypeOK, event
<1> QED
  BY <1>2, <1>3, <1>4, <1>5, <1>6, <1>7, <1>8, <1>9 DEF Next, Handle

LEMMA TypeInit == Init => TypeOK
<1> SUFFICES ASSUME Init PROVE TypeOK
  OBVIOUS
<1>1. now \in Nat /\ since \in 0..now
  BY UpdatesAssumption DEF Init
<1>2. token \in Nat
  BY <1>1, UnixBelow DEF Init
<1> QED  BY <1>1, <1>2 DEF Init, TypeOK

(* Types of the updates of a device.                                        *)
THEOREM TypeCorrect == Spec => []TypeOK
BY TypeInit, TypeNext, PTL DEF Spec

-----------------------------------------------------------------------------
LEMMA Numbers ==
  ASSUME TypeOK
  PROVE  /\ now \in Nat /\ since \in 0..now
         /\ changes \in Seq(Change)
         /\ Len(changes) \in Nat
         /\ \A i \in 1..Len(changes) : changes[i].ts \in Nat
         /\ Second \in Nat /\ Limit \in Nat
         /\ \A i \in 1..Len(changes) : Unix(changes[i].ts + Second) \in Nat
         /\ Unix(since) \in Nat
<1>1. now \in Nat /\ since \in Nat /\ Second \in Nat /\ Limit \in Nat
  BY UpdatesAssumption DEF TypeOK
<1>2. \A i \in 1..Len(changes) : changes[i].ts \in Nat
  BY TimesNat
<1>3. \A i \in 1..Len(changes) : Unix(changes[i].ts + Second) \in Nat
  <2> TAKE i \in 1..Len(changes)
  <2>1. changes[i].ts + Second \in Nat
    BY <1>1, <1>2
  <2> QED
    BY <2>1, UnixBelow
<1>4. Unix(since) \in Nat
  BY <1>1, UnixBelow
<1>5. since \in 0..now /\ changes \in Seq(Change) /\ Len(changes) \in Nat
  BY DEF TypeOK
<1> QED
  BY <1>1, <1>2, <1>3, <1>4, <1>5

(* A change that is committed leaves the others as they are.                *)
LEMMA Committed ==
  ASSUME TypeOK, Commit
  PROVE  /\ Len(changes') = Len(changes) + 1
         /\ changes'[Len(changes) + 1].ts \in Nat
         /\ \A i \in 1..Len(changes) : changes'[i] = changes[i]
         /\ IF \E t \in Tokens : changes'[Len(changes) + 1].ts <= t
            THEN belated' = belated \cup {Len(changes) + 1} ELSE belated' = belated
         /\ since' = since /\ token' = token /\ shown' = shown
         /\ pc' = pc /\ loaded' = loaded /\ items' = items /\ next' = next
<1>1. PICK c \in Committable :
        /\ changes' = Append(changes, c)
        /\ belated' = IF \E t \in Tokens : c.ts <= t
                      THEN belated \cup {Len(changes) + 1} ELSE belated
  BY DEF Commit
<1>2. changes \in Seq(Change) /\ Len(changes) \in Nat /\ c \in Change
  BY DEF TypeOK, Committable, Change
<1>3. c.ts \in Nat
  BY <1>2 DEF Change
<1>4. /\ Len(changes') = Len(changes) + 1
      /\ changes'[Len(changes) + 1] = c
      /\ \A i \in 1..Len(changes) : changes'[i] = changes[i]
  BY <1>1, <1>2
<1> QED
  BY <1>1, <1>3, <1>4 DEF Commit, event

(* Tokens stay where they are bounded by; a new one is that of an answer,   *)
(* which is the second after the last change in it.                         *)
LEMMA BoundedStays ==
  ASSUME TypeOK, [Next]_vars, NEW t, Bounded(t)
  PROVE  Bounded(t)'
<1>1. CASE Commit
  <2>1. 1..Len(changes) \subseteq 1..Len(changes')
    BY <1>1, Committed, Numbers
  <2> QED
    BY <1>1, <2>1, Committed DEF Bounded, Unix
<1>2. CASE since' = since /\ changes' = changes
  BY <1>2 DEF Bounded, Unix
<1> QED
  BY <1>1, <1>2 DEF Next, Handle, Tick, LoadToken, FetchUpdates, ShowNotifications,
                    SaveToken, Fail, vars

LEMMA NewTokens ==
  ASSUME TypeOK, [Next]_vars, NEW t \in Tokens'
  PROVE  \/ t \in Tokens \/ t = 0
         \/ \E k \in 1..Len(changes) : t = Unix(changes[k].ts + Second)
<1> USE DEF Tokens
<1>1. loaded \in [Events -> Nat] /\ next \in [Events -> Nat]
  BY DEF TypeOK
<1>2. CASE token' = token /\ loaded' = loaded /\ next' = next
  BY <1>2
<1>3. ASSUME NEW e \in Events, LoadToken(e)
      PROVE  t \in Tokens
  BY <1>1, <1>3 DEF LoadToken
<1>4. ASSUME NEW e \in Events, Finish(e), token' \in Tokens
      PROVE  t \in Tokens \/ t = 0
  BY <1>1, <1>4 DEF Finish
<1>5. ASSUME NEW e \in Events, FetchUpdates(e), ~Finish(e)
      PROVE  t \in Tokens \/ \E k \in 1..Len(changes) : t = Unix(changes[k].ts + Second)
  <2>1. PICK last \in 1..Len(changes) :
          /\ next' = [next EXCEPT ![e] = Unix(changes[last].ts + Second)]
          /\ loaded' = loaded
    BY <1>5, FetchAnswer DEF Answer
  <2>2. token' = token
    BY <1>5 DEF FetchUpdates
  <2> QED
    BY <1>1, <2>1, <2>2
<1>6. ASSUME NEW e \in Events, FetchUpdates(e) \/ SaveToken(e) \/ Fail(e)
      PROVE  token' \in Tokens
  BY <1>6 DEF FetchUpdates, SaveToken, Fail
<1>7. ASSUME NEW e \in Events, SaveToken(e) \/ Fail(e)
      PROVE  Finish(e)
  BY <1>7 DEF SaveToken, Fail
<1>8. CASE Tick \/ Commit \/ UNCHANGED vars \/ \E e \in Events : ShowNotifications(e)
  BY <1>2, <1>8 DEF Tick, Commit, vars, event, ShowNotifications
<1> QED
  BY <1>3, <1>4, <1>5, <1>6, <1>7, <1>8 DEF Next, Handle

LEMMA TokensNext == TypeOK /\ TokensInv /\ [Next]_vars => TokensInv'
<1> SUFFICES ASSUME TypeOK, TokensInv, [Next]_vars, NEW t \in Tokens'
             PROVE  Bounded(t)'
  BY DEF TokensInv
<1>1. CASE t \in Tokens
  BY <1>1, BoundedStays DEF TokensInv
<1>2. CASE t = 0
  BY <1>2, Numbers, BoundedStays DEF Bounded
<1>3. CASE \E k \in 1..Len(changes) : t = Unix(changes[k].ts + Second)
  <2>1. Bounded(t)
    BY <1>3, Numbers DEF Bounded
  <2> QED
    BY <2>1, BoundedStays
<1> QED
  BY <1>1, <1>2, <1>3, NewTokens

LEMMA BelatedNext == TypeOK /\ TokensInv /\ BelatedInv /\ [Next]_vars => BelatedInv'
<1> SUFFICES ASSUME TypeOK, TokensInv, BelatedInv, [Next]_vars
             PROVE  BelatedInv'
  OBVIOUS
<1>1. belated \subseteq 1..Len(changes) /\ Len(changes) \in Nat
  BY DEF TypeOK
<1>2. CASE Commit
  <2> SUFFICES ASSUME NEW i \in belated'
               PROVE  \/ changes'[i].ts <= Unix(since)'
                      \/ \E j \in 1..(i - 1) : changes'[i].ts <= Unix(changes'[j].ts + Second)
    BY DEF BelatedInv, Unix
  <2>1. Unix(since)' = Unix(since)
    BY <1>2, Committed DEF Unix
  <2>2. CASE i \in belated
    <3>1. changes'[i] = changes[i] /\ \A j \in 1..(i - 1) : changes'[j] = changes[j]
      BY <1>1, <1>2, <2>2, Committed
    <3> QED
      BY <2>1, <2>2, <3>1 DEF BelatedInv
  <2>3. CASE i \notin belated
    <3>1. i = Len(changes) + 1 /\ \E t \in Tokens : changes'[i].ts <= t
      BY <1>2, <2>3, Committed
    <3>2. PICK t \in Tokens : changes'[i].ts <= t
      BY <3>1
    <3>3. t \in Nat /\ changes'[i].ts \in Nat /\ i - 1 = Len(changes)
      BY <1>1, <1>2, <3>1, Committed DEF TypeOK, Tokens
    <3>4. CASE t <= Unix(since)
      BY <2>1, <3>2, <3>3, <3>4, Numbers
    <3>5. CASE \E k \in 1..Len(changes) : t <= Unix(changes[k].ts + Second)
      <4>1. PICK k \in 1..Len(changes) : t <= Unix(changes[k].ts + Second)
        BY <3>5
      <4>2. changes'[k] = changes[k]
        BY <1>2, Committed
      <4>3. Unix(changes[k].ts + Second) \in Nat
        BY Numbers
      <4>4. changes'[i].ts <= Unix(changes[k].ts + Second)
        BY <3>2, <3>3, <4>1, <4>3
      <4>5. k \in 1..(i - 1) /\ changes'[i].ts <= Unix(changes'[k].ts + Second)
        BY <3>3, <4>2, <4>4
      <4> QED
        BY <4>5, Zenon
    <3> QED
      BY <3>4, <3>5 DEF TokensInv, Bounded
  <2> QED
    BY <2>2, <2>3
<1>3. CASE since' = since /\ changes' = changes /\ belated' = belated
  BY <1>3 DEF BelatedInv, Unix
<1> QED
  BY <1>2, <1>3 DEF Next, Handle, Tick, LoadToken, FetchUpdates, ShowNotifications,
                    SaveToken, Fail, vars

(* A change that is committed is later than a token, or belated; a survey   *)
(* that it overwrites is not wanted any more.                               *)
LEMMA ToldAfterCommit ==
  ASSUME TypeOK, Commit, NEW t \in Tokens, NEW told, Told(t, told)
  PROVE  Told(t, told)'
<1>1. /\ Len(changes) \in Nat
      /\ Len(changes') = Len(changes) + 1
      /\ \A i \in 1..Len(changes) : changes'[i] = changes[i]
      /\ belated \subseteq belated'
  BY Committed, Numbers
<1> SUFFICES ASSUME NEW i \in 1..Len(changes'), Wanted(i)', changes'[i].ts <= t
             PROVE  i \in told \cup belated' \/ CutOff(i)'
  BY DEF Told
<1>2. CASE i = Len(changes) + 1
  BY <1>2, Committed
<1>3. CASE i \in 1..Len(changes)
  <2>1. Wanted(i)
    BY <1>1, <1>3 DEF Wanted
  <2>2. CutOff(i) => CutOff(i)'
    <3> SUFFICES ASSUME CutOff(i) PROVE CutOff(i)'
      OBVIOUS
    <3>1. PICK S \in SUBSET (1..Len(changes)) :
            /\ i \notin S /\ Cardinality(S) = Limit
            /\ \A j \in S : changes[j].ts <= changes[i].ts
            /\ \E j \in S : changes[i].ts <= Unix(changes[j].ts + Second)
      BY DEF CutOff
    <3>2. S \in SUBSET (1..Len(changes')) /\ changes'[i] = changes[i]
          /\ \A j \in S : changes'[j] = changes[j]
      BY <1>1, <1>3
    <3>3. \E j \in S : changes'[i].ts <= Unix(changes'[j].ts + Second)
      BY <3>1, <3>2
    <3> QED
      BY <3>1, <3>2, <3>3 DEF CutOff, Unix
  <2> QED
    BY <1>1, <1>3, <2>1, <2>2 DEF Told
<1> QED
  BY <1>1, <1>2, <1>3

(* Nothing that is wanted is missing from an answer up to the token in it,  *)
(* but for what is cut off from it, given that nothing is missing up to the *)
(* token it was asked with.                                                 *)
LEMMA AnswerIsGood ==
  ASSUME TypeOK, NEW e \in Events, Told(loaded[e], shown),
         NEW S \in Found(loaded[e]), NEW merged \in SUBSET (1..Len(changes)),
         NEW last \in 1..Len(changes), Answer(e, S, merged, last)
  PROVE  Told(Unix(changes[last].ts + Second),
              shown \cup filterUserChanges(S, merged))
<1> DEFINE t == Unix(changes[last].ts + Second)
           told == shown \cup filterUserChanges(S, merged)
<1>1. /\ \A i \in 1..Len(changes) : changes[i].ts \in Nat
      /\ loaded[e] \in Nat
  BY Numbers DEF TypeOK
<1>2. S \subseteq 1..Len(changes)
  BY DEF Found, Since
<1> SUFFICES ASSUME NEW i \in 1..Len(changes), Wanted(i), changes[i].ts <= t
             PROVE  i \in told \cup belated \/ CutOff(i)
  BY DEF Told
<1>3. CASE changes[i].ts <= loaded[e]
  BY <1>3 DEF Told
<1>4. CASE changes[i].ts > loaded[e] /\ i \notin S
  <2>1. i \in Since(loaded[e]) \ S
    BY <1>4 DEF Since
  <2>2. Cardinality(S) = Limit /\ \A j \in S : changes[j].ts <= changes[i].ts
    BY <2>1 DEF Found
  <2>3. last \in S
    BY DEF Answer
  <2> QED
    BY <1>2, <1>4, <2>2, <2>3 DEF CutOff
<1>5. CASE i \in S
  <2>1. CASE changes[i].sid \in Bookmarks
    BY <1>5, <2>1 DEF filterUserChanges
  <2>2. CASE changes[i].sid \notin Bookmarks
    <3>1. /\ changes[i].survey
          /\ \A j \in 1..Len(changes) :
               j # i /\ changes[j].sid = changes[i].sid
                 => changes[j].ts < changes[i].ts
      BY <2>2 DEF Wanted
    <3>2. PICK m \in Newest(S, changes[i].sid) :
            {j \in merged : changes[j].sid = changes[i].sid} = {m}
      BY <1>5 DEF Answer
    <3>3. /\ m \in 1..Len(changes) /\ changes[m].sid = changes[i].sid
          /\ changes[i].ts <= changes[m].ts
      BY <1>2, <1>5 DEF Newest
    <3>4. m = i
      BY <1>1, <3>1, <3>3
    <3>5. i \in merged
      BY <3>2, <3>4
    <3> QED  BY <1>5, <3>1, <3>5 DEF filterUserChanges
  <2> QED  BY <2>1, <2>2
<1> QED
  BY <1>1, <1>3, <1>4, <1>5

(* What was told stays told when no change is committed, and when more is.  *)
LEMMA GoodFrame ==
  ASSUME changes' = changes, belated' = belated, NEW t, NEW told, NEW more,
         Told(t, told), told \subseteq more
  PROVE  Told(t, more)'
BY DEF Told, Wanted, CutOff, Unix

LEMMA TokenNext ==
  ASSUME TypeOK, TokenInv, [Next]_vars
  PROVE  TokenInv'
<1> USE DEF Goto
<1>1. /\ pc \in [Events -> {"idle", "fetch", "show", "save"}]
      /\ loaded \in [Events -> Nat]
      /\ items \in [Events -> SUBSET (1..Len(changes))]
      /\ next \in [Events -> Nat]
      /\ token \in Nat
  BY DEF TypeOK
<1>2. CASE Commit
  <2>1. /\ token' = token /\ shown' = shown /\ pc' = pc /\ loaded' = loaded
        /\ items' = items /\ next' = next
    BY <1>2 DEF Commit, event
  <2>2. Told(token, shown)'
    BY <1>2, <2>1, ToldAfterCommit DEF TokenInv, Tokens
  <2>3. ASSUME NEW e \in Events
        PROVE  /\ pc[e] = "fetch" => Told(loaded[e], shown)'
               /\ pc[e] = "show"  => Told(next[e], shown \cup items[e])'
               /\ pc[e] = "save"  => Told(next[e], shown)'
    <3>1. loaded[e] \in Tokens /\ next[e] \in Tokens
      BY DEF Tokens
    <3> QED  BY <1>2, <2>1, <3>1, ToldAfterCommit DEF TokenInv
  <2> QED  BY <2>1, <2>2, <2>3 DEF TokenInv
<1>3. CASE Tick \/ UNCHANGED vars
  <2>1. /\ token' = token /\ shown' = shown /\ pc' = pc /\ loaded' = loaded
        /\ items' = items /\ next' = next
        /\ changes' = changes /\ belated' = belated
    BY <1>3 DEF Tick, event, vars
  <2> QED  BY <2>1, GoodFrame DEF TokenInv
<1>4. ASSUME NEW e \in Events, LoadToken(e) PROVE TokenInv'
  <2>1. /\ token' = token /\ shown' = shown /\ items' = items /\ next' = next
        /\ changes' = changes /\ belated' = belated
        /\ pc' = [pc EXCEPT ![e] = "fetch"]
        /\ loaded' = [loaded EXCEPT ![e] = token]
    BY <1>4 DEF LoadToken
  <2>2. Told(token, shown)'
    BY <2>1, GoodFrame DEF TokenInv
  <2>3. ASSUME NEW f \in Events, f # e
        PROVE  /\ pc'[f] = pc[f] /\ loaded'[f] = loaded[f]
    BY <1>1, <2>1, <2>3
  <2>4. pc'[e] = "fetch" /\ loaded'[e] = token
    BY <1>1, <2>1
  <2> QED  BY <2>1, <2>2, <2>3, <2>4, GoodFrame DEF TokenInv
<1>5. ASSUME NEW e \in Events, Finish(e), changes' = changes, belated' = belated,
             shown' = shown, Told(token, shown)'
      PROVE  TokenInv'
  <2>1. \A f \in Events :
          f # e => /\ pc'[f] = pc[f] /\ loaded'[f] = loaded[f]
                   /\ items'[f] = items[f] /\ next'[f] = next[f]
    BY <1>1, <1>5 DEF Finish
  <2>2. pc'[e] = "idle"
    BY <1>1, <1>5 DEF Finish
  <2> QED  BY <1>5, <2>1, <2>2, GoodFrame DEF TokenInv
<1>6. ASSUME NEW e \in Events, FetchUpdates(e) PROVE TokenInv'
  <2>1. /\ token' = token /\ shown' = shown
        /\ changes' = changes /\ belated' = belated
    BY <1>6 DEF FetchUpdates
  <2>2. Told(token, shown)'
    BY <2>1, GoodFrame DEF TokenInv
  <2>3. CASE Finish(e)
    BY <1>5, <2>1, <2>2, <2>3
  <2>4. CASE ~Finish(e)
    <3>1. PICK S \in Found(loaded[e]), merged \in SUBSET (1..Len(changes)),
               last \in 1..Len(changes) : Answer(e, S, merged, last)
      BY <1>6, <2>4, FetchAnswer
    <3>2. Told(Unix(changes[last].ts + Second),
               shown \cup filterUserChanges(S, merged))
      BY <3>1, AnswerIsGood DEF Answer, TokenInv
    <3>3. /\ pc'[e] = "show"
          /\ items'[e] = filterUserChanges(S, merged)
          /\ next'[e] = Unix(changes[last].ts + Second)
      BY <1>1, <3>1 DEF Answer
    <3>4. Told(next[e], shown \cup items[e])'
      BY <2>1, <3>2, <3>3, GoodFrame
    <3>5. \A f \in Events :
            f # e => /\ pc'[f] = pc[f] /\ loaded'[f] = loaded[f]
                     /\ items'[f] = items[f] /\ next'[f] = next[f]
      BY <1>1, <3>1 DEF Answer
    <3> QED  BY <2>1, <2>2, <3>3, <3>4, <3>5, GoodFrame DEF TokenInv
  <2> QED  BY <2>3, <2>4
<1>7. ASSUME NEW e \in Events, ShowNotifications(e) PROVE TokenInv'
  <2>1. /\ pc[e] = "show" /\ pc' = [pc EXCEPT ![e] = "save"]
        /\ shown' = shown \cup items[e]
        /\ changes' = changes /\ belated' = belated /\ token' = token
        /\ loaded' = loaded /\ items' = items /\ next' = next
    BY <1>7 DEF ShowNotifications
  <2>2. Told(token, shown)'
    BY <2>1, GoodFrame DEF TokenInv
  <2>3. Told(next[e], shown)'
    BY <2>1, GoodFrame DEF TokenInv
  <2>4. ASSUME NEW f \in Events, f # e
        PROVE  /\ pc'[f] = "fetch" => Told(loaded[f], shown)'
               /\ pc'[f] = "show"  => Told(next[f], shown \cup items[f])'
               /\ pc'[f] = "save"  => Told(next[f], shown)'
    <3>1. pc'[f] = pc[f]
      BY <1>1, <2>1, <2>4
    <3>2. /\ shown \subseteq shown'
          /\ shown \cup items[f] \subseteq shown' \cup items[f]
      BY <2>1
    <3> QED  BY <2>1, <3>1, <3>2, GoodFrame DEF TokenInv
  <2>5. pc'[e] = "save"
    BY <1>1, <2>1
  <2> QED  BY <2>2, <2>3, <2>4, <2>5 DEF TokenInv
<1>8. ASSUME NEW e \in Events, SaveToken(e) PROVE TokenInv'
  <2>1. /\ pc[e] = "save" /\ token' = next[e] /\ Finish(e)
        /\ changes' = changes /\ belated' = belated /\ shown' = shown
    BY <1>8 DEF SaveToken
  <2>2. Told(token, shown)'
    BY <2>1, GoodFrame DEF TokenInv
  <2> QED  BY <1>5, <2>1, <2>2
<1>9. ASSUME NEW e \in Events, Fail(e) PROVE TokenInv'
  <2>1. /\ Finish(e) /\ token' = token
        /\ changes' = changes /\ belated' = belated /\ shown' = shown
    BY <1>9 DEF Fail
  <2>2. Told(token, shown)'
    BY <2>1, GoodFrame DEF TokenInv
  <2> QED  BY <1>5, <2>1, <2>2
<1> QED
  BY <1>2, <1>3, <1>4, <1>6, <1>7, <1>8, <1>9 DEF Next, Handle

(* "queries datastore for all changes occurred since time t"                *)
(* (getChangesSince): no device's token passes a change that it wants and   *)
(* has not been told of, however its events overlap, fail and are repeated, *)
(* however changes are dated, and however few an answer may have, but for   *)
(* two: those that were committed when a token was past them, which is by   *)
(* less than a second after another change, and those cut off from a full   *)
(* answer by less than that.                                                *)
THEOREM NoUpdateSkipped == Spec => []NothingSkipped
<1>1. Init => TokensInv /\ BelatedInv /\ TokenInv
  <2> SUFFICES ASSUME Init PROVE TokensInv /\ BelatedInv /\ TokenInv
    OBVIOUS
  <2>1. /\ Len(changes) = 0 /\ belated = {}
        /\ token = Unix(since) /\ Unix(since) \in Nat
        /\ \A e \in Events : pc[e] = "idle" /\ loaded[e] = 0 /\ next[e] = 0
    BY UnixBelow, UpdatesAssumption DEF Init
  <2>2. TokensInv
    BY <2>1 DEF TokensInv, Tokens, Bounded
  <2> QED  BY <2>1, <2>2 DEF BelatedInv, TokenInv, Told
<1>2. TypeOK /\ TokensInv /\ [Next]_vars => TokensInv'
  BY TokensNext
<1>3. TypeOK /\ TokensInv /\ BelatedInv /\ [Next]_vars => BelatedInv'
  BY BelatedNext
<1>4. TypeOK /\ TokenInv /\ [Next]_vars => TokenInv'
  BY TokenNext
<1>5. BelatedInv /\ TokenInv => NothingSkipped
  BY DEF BelatedInv, TokenInv, Told, NothingSkipped
<1> QED  BY <1>1, <1>2, <1>3, <1>4, <1>5, TypeCorrect, PTL DEF Spec

------------------------------------------------------------------------------
(* A behaviour stays with its part, whose steps are the only ones.          *)
LEMMA PartSteps ==
  ASSUME [PartsNext]_<<vars, part, state>>
  PROVE  /\ part' = part
         /\ \/ UNCHANGED state
            \/ part = "guitar"        /\ Guitars!Next
            \/ part = "arpeggiator"   /\ Arpeggiators!Next
            \/ part = "drum"          /\ DrumSets!Next
            \/ part = "hexagon"       /\ Hexagons!Next
            \/ part = "parallelogram" /\ Parallelograms!Next
            \/ part = "bus"           /\ Bus!Next
            \/ part = "sound"         /\ Sound!Next
            \/ part = "beats"         /\ Beats!Next
            \/ part = "subscription"  /\ SW!Next
            \/ part = "credentials"   /\ Creds!Next
            \/ part = "video"         /\ Videos!Next
            \/ part = "countdown"     /\ Countdown!Next
  BY DEF PartsNext, PartNext

------------------------------------------------------------------------------
(***************************************************************************)
(* The instruments: RecordedIsPlayed                                       *)
(***************************************************************************)
(* The first loadData.                                                      *)
LEMMA FreshPlays ==
  ASSUME NEW notes, Recorders!IsList(notes)
  PROVE  LET r == Recorders!Fresh(notes)
         IN  /\ Recorders!IsRecorder(r)
             /\ Recorders!PlaysItsTrack(r)
             /\ Recorders!SharesItsTrack(r)
  BY DEF Recorders!Fresh, Recorders!IsRecorder, Recorders!PlaysItsTrack,
         Recorders!SharesItsTrack

LEMMA TrackNotes ==
  ASSUME NEW r
  PROVE  Recorders!createRecordedTrack(r).notes = r.recorded
  BY DEF Recorders!createRecordedTrack

(* A list with another note is a list that begins, or ends, with it.        *)
LEMMA NotesGrow ==
  ASSUME NEW s, Recorders!IsList(s), NEW note
  PROVE  /\ Recorders!IsList(Append(s, note))
         /\ Recorders!IsList(<<note>> \o s)
PROOF
<1>1. PICK S : s \in Seq(S)
  BY DEF Recorders!IsList
<1>2. Append(s, note) \in Seq(S \cup {note}) /\ <<note>> \o s \in Seq(S \cup {note})
  BY <1>1
<1> QED
  BY <1>2 DEF Recorders!IsList

(* A track is left out of the sequencer before the next one is made, so no  *)
(* other is ever in it; only a recording that ends in a contracted view     *)
(* forgets it, and says so (left).                                          *)
LEMMA RecordsPlays ==
  ASSUME NEW r, NEW q, NEW writes,
         Recorders!IsRecorder(r), Recorders!Records(r, q, writes), Recorders!PlaysItsTrack(r)
  PROVE  Recorders!IsRecorder(q) /\ Recorders!PlaysItsTrack(q)
PROOF
<1> USE TrackNotes DEF Recorders!IsRecorder, Recorders!PlaysItsTrack
<1>1. CASE q = r
  BY <1>1
<1>2. CASE q = Recorders!Recording(r)
  <2>1. Recorders!IsList(<< >>)
    BY DEF Recorders!IsList
  <2> QED
    BY <1>2, <2>1 DEF Recorders!Recording
<1>3. CASE q = Recorders!Recorded(r)
  BY <1>3 DEF Recorders!Recorded
<1>4. ASSUME NEW note, q \in {Recorders!Note(r, note), Recorders!NoteBefore(r, note)}
      PROVE  Recorders!IsRecorder(q) /\ Recorders!PlaysItsTrack(q)
  <2>1. CASE q = Recorders!Note(r, note)
    BY <2>1, NotesGrow DEF Recorders!Note
  <2>2. CASE q = Recorders!NoteBefore(r, note)
    BY <2>2, NotesGrow DEF Recorders!NoteBefore
  <2> QED
    BY <1>4, <2>1, <2>2
<1>5. CASE r.state = "expand" /\ q = Recorders!Collapsed(r)
  BY <1>5 DEF Recorders!Collapsed, Recorders!addTrack
<1>6. CASE r.state = "collapsed" /\ q = Recorders!Expanded(r)
  BY <1>6 DEF Recorders!Expanded, Recorders!removeTrack
<1>7. ASSUME NEW notes, r.state = "collapsed", Recorders!IsList(notes),
             q = Recorders!Load(r, notes)
      PROVE  Recorders!IsRecorder(q) /\ Recorders!PlaysItsTrack(q)
  BY <1>7 DEF Recorders!Load, Recorders!addTrack, Recorders!removeTrack
<1> HIDE DEF Recorders!IsRecorder, Recorders!PlaysItsTrack
<1> QED
  BY <1>1, <1>2, <1>3, <1>4, <1>5, <1>6, <1>7 DEF Recorders!Records

(* What is saved is what the track plays again as soon as it is recorded.   *)
LEMMA RecordsShares ==
  ASSUME NEW r, NEW q,
         Recorders!IsRecorder(r), Recorders!Records(r, q, FALSE), Recorders!SharesItsTrack(r)
  PROVE  Recorders!SharesItsTrack(q)
PROOF
<1> USE TrackNotes DEF Recorders!IsRecorder, Recorders!SharesItsTrack
<1>1. CASE q = r \/ q = Recorders!Recording(r)
  BY <1>1 DEF Recorders!Recording
<1>2. CASE q = Recorders!Recorded(r)
  BY <1>2 DEF Recorders!Recorded
<1>3. ASSUME NEW note, r.isRecording,
             q \in {Recorders!Note(r, note), Recorders!NoteBefore(r, note)}
      PROVE  Recorders!SharesItsTrack(q)
  BY <1>3 DEF Recorders!Note, Recorders!NoteBefore
<1>4. CASE q \in {Recorders!Collapsed(r), Recorders!Expanded(r)}
  BY <1>4 DEF Recorders!Collapsed, Recorders!addTrack, Recorders!Expanded,
              Recorders!removeTrack
<1>5. ASSUME NEW notes, q = Recorders!Load(r, notes)
      PROVE  Recorders!SharesItsTrack(q)
  BY <1>5 DEF Recorders!Load, Recorders!addTrack, Recorders!removeTrack
<1> QED
  BY <1>1, <1>2, <1>3, <1>4, <1>5 DEF Recorders!Records

Begins(r) == r.isRecording \/ Hexagons!IsPrefix(r.currentTrack.notes, r.recorded)

LEMMA PrefixIs ==
  ASSUME NEW s, NEW t, Recorders!IsList(s), Recorders!IsList(t)
  PROVE  Hexagons!IsPrefix(s, t) <=> Len(s) <= Len(t) /\ \A k \in 1..Len(s) : s[k] = t[k]
PROOF
<1>1. PICK S : s \in Seq(S)
  BY DEF Recorders!IsList
<1>2. PICK T : t \in Seq(T)
  BY DEF Recorders!IsList
<1> QED
  BY <1>1, <1>2 DEF Hexagons!IsPrefix

(* And it goes on to begin with that, if notes are written all the time.    *)
LEMMA RecordsBegins ==
  ASSUME NEW r, NEW q,
         Recorders!IsRecorder(r), Recorders!Records(r, q, TRUE), Begins(r)
  PROVE  Begins(q)
PROOF
<1> USE TrackNotes, PrefixIs DEF Recorders!IsRecorder, Begins
<1>1. CASE q = r \/ q = Recorders!Recording(r)
  BY <1>1 DEF Recorders!Recording
<1>2. CASE q = Recorders!Recorded(r)
  <2>1. q.currentTrack.notes = r.recorded /\ q.recorded = r.recorded
    BY <1>2 DEF Recorders!Recorded
  <2> QED
    BY <2>1
<1>3. ASSUME NEW note, q = Recorders!Note(r, note)
      PROVE  Begins(q)
  <2>1. /\ q.isRecording = r.isRecording /\ q.currentTrack = r.currentTrack
        /\ q.recorded = Append(r.recorded, note)
    BY <1>3 DEF Recorders!Note
  <2>2. PICK S : r.recorded \in Seq(S)
    BY DEF Recorders!IsList
  <2>3. /\ Len(q.recorded) = Len(r.recorded) + 1
        /\ \A k \in 1..Len(r.recorded) : q.recorded[k] = r.recorded[k]
    BY <2>1, <2>2
  <2>4. PICK T : r.currentTrack.notes \in Seq(T)
    BY DEF Recorders!IsList
  <2>5. Recorders!IsList(q.recorded)
    BY <2>1, NotesGrow
  <2>6. Len(r.currentTrack.notes) \in Nat /\ Len(r.recorded) \in Nat
    BY <2>2, <2>4
  <2>7. ASSUME Hexagons!IsPrefix(r.currentTrack.notes, r.recorded)
        PROVE  Hexagons!IsPrefix(q.currentTrack.notes, q.recorded)
    <3>1. /\ Len(r.currentTrack.notes) <= Len(r.recorded)
          /\ \A k \in 1..Len(r.currentTrack.notes) : r.currentTrack.notes[k] = r.recorded[k]
      BY <2>7
    <3>2. /\ Len(q.currentTrack.notes) <= Len(q.recorded)
          /\ \A k \in 1..Len(q.currentTrack.notes) : q.currentTrack.notes[k] = q.recorded[k]
      BY <2>1, <2>3, <2>6, <3>1
    <3> QED
      BY <2>1, <2>5, <3>2
  <2> QED
    BY <2>1, <2>7
<1>4. ASSUME NEW note, r.isRecording, q = Recorders!NoteBefore(r, note)
      PROVE  Begins(q)
  BY <1>4 DEF Recorders!NoteBefore
<1>5. CASE q \in {Recorders!Collapsed(r), Recorders!Expanded(r)}
  BY <1>5 DEF Recorders!Collapsed, Recorders!addTrack, Recorders!Expanded,
              Recorders!removeTrack
<1>6. ASSUME NEW notes, Recorders!IsList(notes), q = Recorders!Load(r, notes)
      PROVE  Begins(q)
  <2>1. q.currentTrack.notes = notes /\ q.recorded = notes
    BY <1>6 DEF Recorders!Load, Recorders!addTrack, Recorders!removeTrack
  <2> QED
    BY <1>6, <2>1
<1> QED
  BY <1>1, <1>2, <1>3, <1>4, <1>5, <1>6 DEF Recorders!Records

(* Each instrument's track is the recorder's.                               *)
LEMMA SameTrack ==
  ASSUME NEW r
  PROVE  /\ Guitars!R!createRecordedTrack(r) = Recorders!createRecordedTrack(r)
         /\ Arpeggiators!R!createRecordedTrack(r) = Recorders!createRecordedTrack(r)
         /\ DrumSets!R!createRecordedTrack(r) = Recorders!createRecordedTrack(r)
         /\ Hexagons!R!createRecordedTrack(r) = Recorders!createRecordedTrack(r)
         /\ Parallelograms!R!createRecordedTrack(r) = Recorders!createRecordedTrack(r)
  BY DEF Recorders!createRecordedTrack, Recorders!Cardinality,
         Guitars!R!createRecordedTrack, Guitars!R!Cardinality,
         Arpeggiators!R!createRecordedTrack, Arpeggiators!R!Cardinality,
         DrumSets!R!createRecordedTrack, DrumSets!R!Cardinality,
         Hexagons!R!createRecordedTrack, Hexagons!R!Cardinality,
         Parallelograms!R!createRecordedTrack, Parallelograms!R!Cardinality

(* The notes of the compositions are lists.                                 *)
LEMMA NotesAreLists ==
  /\ Recorders!IsList(Guitars!Notes)  /\ Recorders!IsList(Arpeggiators!Notes)
  /\ Recorders!IsList(DrumSets!Notes) /\ Recorders!IsList(Hexagons!Notes)
  /\ Recorders!IsList(Parallelograms!Notes)
PROOF
<1>1. ASSUME NEW a, NEW b
      PROVE  Recorders!IsList(<<a>>) /\ Recorders!IsList(<<a, b>>)
  <2>1. <<a>> \in Seq({a, b}) /\ <<a, b>> \in Seq({a, b})
    OBVIOUS
  <2> QED
    BY <2>1 DEF Recorders!IsList
<1> QED
  BY <1>1 DEF Guitars!Notes, Arpeggiators!Notes, DrumSets!Notes, Hexagons!Notes,
              Parallelograms!Notes

LEMMA GuitarRecords == Guitars!Next => Recorders!Records(v1, v1', FALSE)
PROOF
<1> SUFFICES ASSUME Guitars!Next
             PROVE  Recorders!Records(v1, v1', FALSE)
  OBVIOUS
<1> USE DEF Recorders!Records
<1>1. ASSUME NEW d \in Dots, Guitars!activateDot(d)
      PROVE  v1' = v1
  BY <1>1 DEF Guitars!activateDot
<1>2. CASE Guitars!Drag \/ Guitars!Release \/ Guitars!startCountdown
  BY <1>2 DEF Guitars!Drag, Guitars!Release, Guitars!startCountdown
<1>3. ASSUME NEW p, Guitars!Struck(p)
      PROVE  Recorders!Records(v1, v1', FALSE)
  BY <1>3
     DEF Guitars!Struck, Guitars!dragMouseCollisionCheck,
         Guitars!onGuitarKeyUp, Guitars!activate, Guitars!addRecordedItem,
         Guitars!R!Note, Recorders!Note
<1>4. CASE Guitars!startRecording \/ Guitars!stopRecording
  BY <1>4, SameTrack
     DEF Guitars!startRecording, Guitars!stopRecording, Guitars!R!Recording,
         Guitars!R!Recorded, Recorders!Recording, Recorders!Recorded
<1>5. CASE Guitars!animationExpanded \/ Guitars!animationCollapsed
  BY <1>5
     DEF Guitars!animationExpanded, Guitars!animationCollapsed,
         Guitars!R!Expanded, Guitars!R!Collapsed, Guitars!R!addTrack,
         Guitars!R!removeTrack, Recorders!Expanded, Recorders!Collapsed,
         Recorders!addTrack, Recorders!removeTrack
<1>6. CASE Guitars!Reset
  <2>1. v1.state = "collapsed" /\ v1' = Guitars!R!Load(v1, Guitars!Notes)
    BY <1>6 DEF Guitars!Reset, Guitars!loadData
  <2>2. v1' = Recorders!Load(v1, Guitars!Notes)
    BY <2>1, SameTrack
       DEF Guitars!R!Load, Guitars!R!addTrack, Guitars!R!removeTrack,
           Recorders!Load, Recorders!addTrack, Recorders!removeTrack
  <2> QED
    BY <2>1, <2>2, NotesAreLists
<1> QED
  BY <1>1, <1>2, <1>3, <1>4, <1>5, <1>6 DEF Guitars!Next

LEMMA ArpeggiatorRecords == Arpeggiators!Next => Recorders!Records(v1, v1', FALSE)
PROOF
<1> SUFFICES ASSUME Arpeggiators!Next
             PROVE  Recorders!Records(v1, v1', FALSE)
  OBVIOUS
<1> USE DEF Recorders!Records
<1>1. ASSUME NEW q, Arpeggiators!animateCursorToQuadrant(q) \/ Arpeggiators!onArpKeyDown(q)
      PROVE  v1' = v1
  BY <1>1 DEF Arpeggiators!animateCursorToQuadrant, Arpeggiators!onArpKeyDown
<1>2. ASSUME NEW p, Arpeggiators!Move(p)
      PROVE  v1' = v1
  BY <1>2 DEF Arpeggiators!Move
<1>3. CASE Arpeggiators!Press \/ Arpeggiators!Release \/ Arpeggiators!onArpKeyUp
  BY <1>3 DEF Arpeggiators!Press, Arpeggiators!Release,
              Arpeggiators!onArpKeyUp
<1>4. CASE Arpeggiators!renderCollapsed \/ Arpeggiators!disable \/ Arpeggiators!enable
  BY <1>4 DEF Arpeggiators!renderCollapsed, Arpeggiators!disable,
              Arpeggiators!enable
<1>5. CASE Arpeggiators!playLoop
  BY <1>5 DEF Arpeggiators!playLoop, Arpeggiators!R!Note, Recorders!Note
<1>6. CASE Arpeggiators!startRecording \/ Arpeggiators!stopRecording
  BY <1>6, SameTrack
     DEF Arpeggiators!startRecording, Arpeggiators!stopRecording,
         Arpeggiators!R!Recording, Arpeggiators!R!Recorded,
         Recorders!Recording, Recorders!Recorded
<1>7. CASE Arpeggiators!animationExpanded \/ Arpeggiators!animationCollapsed
  BY <1>7
     DEF Arpeggiators!animationExpanded, Arpeggiators!animationCollapsed,
         Arpeggiators!R!Expanded, Arpeggiators!R!Collapsed,
         Arpeggiators!R!addTrack, Arpeggiators!R!removeTrack,
         Recorders!Expanded, Recorders!Collapsed, Recorders!addTrack,
         Recorders!removeTrack
<1>8. CASE Arpeggiators!loadData
  <2>1. v1.state = "collapsed" /\ v1' = Arpeggiators!R!Load(v1, Arpeggiators!Notes)
    BY <1>8 DEF Arpeggiators!loadData
  <2>2. v1' = Recorders!Load(v1, Arpeggiators!Notes)
    BY <2>1, SameTrack
       DEF Arpeggiators!R!Load, Arpeggiators!R!addTrack,
           Arpeggiators!R!removeTrack, Recorders!Load, Recorders!addTrack,
           Recorders!removeTrack
  <2> QED
    BY <2>1, <2>2, NotesAreLists
<1> QED
  BY <1>1, <1>2, <1>3, <1>4, <1>5, <1>6, <1>7, <1>8 DEF Arpeggiators!Next

LEMMA DrumRecords == DrumSets!Next => Recorders!Records(v1, v1', FALSE)
PROOF
<1> SUFFICES ASSUME DrumSets!Next
             PROVE  Recorders!Records(v1, v1', FALSE)
  OBVIOUS
<1> USE DEF Recorders!Records
<1>1. CASE DrumSets!onBeat
  BY <1>1 DEF DrumSets!onBeat
<1>2. ASSUME NEW b, DrumSets!collisionStart(b) \/ DrumSets!Timeout(b)
      PROVE  v1' = v1
  BY <1>2 DEF DrumSets!collisionStart, DrumSets!Timeout
<1>3. ASSUME NEW d, DrumSets!Touch(d) \/ DrumSets!Release(d)
      PROVE  v1' = v1
  BY <1>3 DEF DrumSets!Touch, DrumSets!Release
<1>4. ASSUME NEW b, NEW d, DrumSets!onCollision(b, d)
      PROVE  Recorders!Records(v1, v1', FALSE)
  BY <1>4 DEF DrumSets!onCollision, DrumSets!recordSound, DrumSets!R!Note,
              Recorders!Note
<1>5. ASSUME NEW d, DrumSets!onDrumKeyUp(d)
      PROVE  Recorders!Records(v1, v1', FALSE)
  BY <1>5 DEF DrumSets!onDrumKeyUp, DrumSets!recordSound, DrumSets!R!Note,
              Recorders!Note
<1>6. CASE DrumSets!startRecording \/ DrumSets!stopRecording
  BY <1>6, SameTrack
     DEF DrumSets!startRecording, DrumSets!stopRecording,
         DrumSets!R!Recording, DrumSets!R!Recorded, Recorders!Recording,
         Recorders!Recorded
<1>7. CASE DrumSets!animationExpanded \/ DrumSets!animationCollapsed
  BY <1>7
     DEF DrumSets!animationExpanded, DrumSets!animationCollapsed,
         DrumSets!R!Expanded, DrumSets!R!Collapsed, DrumSets!R!addTrack,
         DrumSets!R!removeTrack, Recorders!Expanded, Recorders!Collapsed,
         Recorders!addTrack, Recorders!removeTrack
<1>8. CASE DrumSets!loadData
  <2>1. v1.state = "collapsed" /\ v1' = DrumSets!R!Load(v1, DrumSets!Notes)
    BY <1>8 DEF DrumSets!loadData
  <2>2. v1' = Recorders!Load(v1, DrumSets!Notes)
    BY <2>1, SameTrack
       DEF DrumSets!R!Load, DrumSets!R!addTrack, DrumSets!R!removeTrack,
           Recorders!Load, Recorders!addTrack, Recorders!removeTrack
  <2> QED
    BY <2>1, <2>2, NotesAreLists
<1> QED
  BY <1>1, <1>2, <1>3, <1>4, <1>5, <1>6, <1>7, <1>8 DEF DrumSets!Next

LEMMA HexagonRecords == Hexagons!Next => Recorders!Records(v1, v1', TRUE)
PROOF
<1> SUFFICES ASSUME Hexagons!Next
             PROVE  Recorders!Records(v1, v1', TRUE)
  OBVIOUS
<1> USE DEF Recorders!Records
<1>1. ASSUME NEW size, Hexagons!resize(size)
      PROVE  v1' = v1
  BY <1>1 DEF Hexagons!resize
<1>2. CASE Hexagons!onPlayback
  BY <1>2 DEF Hexagons!onPlayback, Hexagons!activateHexagon
<1>3. CASE Hexagons!render \/ Hexagons!disable \/ Hexagons!enable
  BY <1>3 DEF Hexagons!render, Hexagons!disable, Hexagons!enable
<1>4. ASSUME NEW c, Hexagons!Click(c) \/ Hexagons!onHexagonKeyUp(c)
      PROVE  Recorders!Records(v1, v1', TRUE)
  BY <1>4
     DEF Hexagons!Click, Hexagons!onHexagonKeyUp, Hexagons!activateHexagon,
         Hexagons!R!Note, Recorders!Note
<1>5. CASE Hexagons!startRecording \/ Hexagons!stopRecording
  BY <1>5, SameTrack
     DEF Hexagons!startRecording, Hexagons!stopRecording,
         Hexagons!R!Recording, Hexagons!R!Recorded, Recorders!Recording,
         Recorders!Recorded
<1>6. CASE Hexagons!animationExpanded \/ Hexagons!animationCollapsed
  BY <1>6
     DEF Hexagons!animationExpanded, Hexagons!animationCollapsed,
         Hexagons!R!Expanded, Hexagons!R!Collapsed, Hexagons!R!addTrack,
         Hexagons!R!removeTrack, Recorders!Expanded, Recorders!Collapsed,
         Recorders!addTrack, Recorders!removeTrack
<1>7. CASE Hexagons!loadData
  <2>1. v1.state = "collapsed" /\ v1' = Hexagons!R!Load(v1, Hexagons!Notes)
    BY <1>7 DEF Hexagons!loadData
  <2>2. v1' = Recorders!Load(v1, Hexagons!Notes)
    BY <2>1, SameTrack
       DEF Hexagons!R!Load, Hexagons!R!addTrack, Hexagons!R!removeTrack,
           Recorders!Load, Recorders!addTrack, Recorders!removeTrack
  <2> QED
    BY <2>1, <2>2, NotesAreLists
<1> QED
  BY <1>1, <1>2, <1>3, <1>4, <1>5, <1>6, <1>7 DEF Hexagons!Next

LEMMA ParallelogramRecords == Parallelograms!Next => Recorders!Records(v1, v1', FALSE)
PROOF
<1> SUFFICES ASSUME Parallelograms!Next
             PROVE  Recorders!Records(v1, v1', FALSE)
  OBVIOUS
<1> USE DEF Recorders!Records
<1>1. ASSUME NEW p, \/ Parallelograms!onPlayback(p) \/ Parallelograms!Timeout(p)
                    \/ Parallelograms!onActivate(p)
      PROVE  v1' = v1
  BY <1>1 DEF Parallelograms!onPlayback, Parallelograms!Timeout,
              Parallelograms!onActivate
<1>2. CASE \/ Parallelograms!Schedule \/ Parallelograms!disable
           \/ Parallelograms!enable \/ Parallelograms!resize
  BY <1>2 DEF Parallelograms!Schedule, Parallelograms!disable,
              Parallelograms!enable, Parallelograms!resize
<1>3. ASSUME NEW p, Parallelograms!onDeactivate(p)
      PROVE  Recorders!Records(v1, v1', FALSE)
  BY <1>3 DEF Parallelograms!onDeactivate, Parallelograms!recordNote,
              Recorders!NoteBefore
<1>4. CASE Parallelograms!startRecording \/ Parallelograms!stopRecording
  BY <1>4, SameTrack
     DEF Parallelograms!startRecording, Parallelograms!stopRecording,
         Parallelograms!R!Recording, Parallelograms!R!Recorded,
         Recorders!Recording, Recorders!Recorded
<1>5. CASE Parallelograms!animationExpanded \/ Parallelograms!animationCollapsed
  BY <1>5
     DEF Parallelograms!animationExpanded, Parallelograms!animationCollapsed,
         Parallelograms!R!Expanded, Parallelograms!R!Collapsed,
         Parallelograms!R!addTrack, Parallelograms!R!removeTrack,
         Recorders!Expanded, Recorders!Collapsed, Recorders!addTrack,
         Recorders!removeTrack
<1>6. CASE Parallelograms!loadData
  <2>1. v1.state = "collapsed" /\ v1' = Parallelograms!R!Load(v1, Parallelograms!Notes)
    BY <1>6 DEF Parallelograms!loadData
  <2>2. v1' = Recorders!Load(v1, Parallelograms!Notes)
    BY <2>1, SameTrack
       DEF Parallelograms!R!Load, Parallelograms!R!addTrack,
           Parallelograms!R!removeTrack, Recorders!Load, Recorders!addTrack,
           Recorders!removeTrack
  <2> QED
    BY <2>1, <2>2, NotesAreLists
<1> QED
  BY <1>1, <1>2, <1>3, <1>4, <1>5, <1>6 DEF Parallelograms!Next

RecorderInv ==
  /\ part \in Instruments => Recorders!IsRecorder(v1) /\ Recorders!PlaysItsTrack(v1)
  /\ part \in Instruments \ {"hexagon"} => Recorders!SharesItsTrack(v1)
  /\ part = "hexagon" => Begins(v1)

LEMMA RecorderInit == PartsInit => RecorderInv
PROOF
<1> SUFFICES ASSUME PartsInit, part \in Instruments
             PROVE  RecorderInv
  BY DEF RecorderInv, Instruments
<1>1. PICK notes : Recorders!IsList(notes) /\ v1 = Recorders!Fresh(notes)
  BY NotesAreLists
     DEF PartsInit, PartInit, Instruments, Recorders!Fresh,
         Guitars!Init, Guitars!R!Fresh, Arpeggiators!Init, Arpeggiators!R!Fresh,
         DrumSets!Init, DrumSets!R!Fresh, Hexagons!Init, Hexagons!R!Fresh,
         Parallelograms!Init, Parallelograms!R!Fresh
<1>2. /\ Recorders!IsRecorder(v1)
      /\ Recorders!PlaysItsTrack(v1)
      /\ Recorders!SharesItsTrack(v1)
  BY <1>1, FreshPlays
<1>3. Begins(v1)
  BY <1>2, PrefixIs DEF Recorders!IsRecorder, Recorders!SharesItsTrack, Begins
<1> QED
  BY <1>2, <1>3 DEF RecorderInv

LEMMA RecorderNext == RecorderInv /\ [PartsNext]_<<vars, part, state>> => RecorderInv'
PROOF
<1> SUFFICES ASSUME RecorderInv, [PartsNext]_<<vars, part, state>>
             PROVE  RecorderInv'
  OBVIOUS
<1>1. part' = part
  BY PartSteps
<1>2. part \in Instruments => Recorders!Records(v1, v1', part = "hexagon")
  BY PartSteps, GuitarRecords, ArpeggiatorRecords, DrumRecords, HexagonRecords,
     ParallelogramRecords
     DEF Instruments, state, Recorders!Records
<1>3. CASE part \notin Instruments
  BY <1>1, <1>3 DEF RecorderInv, Instruments
<1>4. CASE part \in Instruments \ {"hexagon"}
  BY <1>1, <1>2, <1>4, RecordsPlays, RecordsShares DEF RecorderInv
<1>5. CASE part = "hexagon"
  BY <1>1, <1>2, <1>5, RecordsPlays, RecordsBegins DEF RecorderInv, Instruments
<1> QED
  BY <1>3, <1>4, <1>5

(* A contracted instrument plays its track and no other, an expanded one    *)
(* none; what is saved of it is what is played, and a hexagon's composition *)
(* begins with it: however the views expand and contract, record, are       *)
(* played, and are loaded again.                                            *)
THEOREM PlaysWhatIsSaved == PartsSpec => []RecordedIsPlayed
PROOF
<1>1. RecorderInv => RecordedIsPlayed
  BY DEF RecorderInv, RecordedIsPlayed, Begins, Hexagons!BeginsWithItsTrack
<1> QED
  BY RecorderInit, RecorderNext, <1>1, PTL DEF PartsSpec

------------------------------------------------------------------------------
(***************************************************************************)
(* The credentials: GrantIsKept.  v2 is what is stored, v5 and v6 are the  *)
(* steps and drafts of the sign-ins, v8 and v9 the calls and their copies. *)
(***************************************************************************)
LEMMA CredsInit == Creds!Init => Creds!KeptInv
  BY DEF Creds!Init, Creds!KeptInv, Creds!CredentialsTypeOK, Creds!DraftsOK,
         Creds!CopiesOK, Creds!Kept, Creds!GrantIsKept,
         Creds!Tokens

(* Every step keeps the types.                                              *)
LEMMA CredsTypes == Creds!CredentialsTypeOK /\ [Creds!Next]_Creds!vars => Creds!CredentialsTypeOK'
PROOF
<1> SUFFICES ASSUME Creds!CredentialsTypeOK, [Creds!Next]_Creds!vars
             PROVE  Creds!CredentialsTypeOK'
  OBVIOUS
<1> USE DEF Creds!CredentialsTypeOK, Creds!Tokens, Creds!entity, Creds!signin, Creds!calls
<1>1. ASSUME NEW p \in SignIns, Creds!Begin(p)
      PROVE  Creds!CredentialsTypeOK'
  BY <1>1 DEF Creds!Begin
<1>2. ASSUME NEW p \in SignIns, Creds!Exchange(p)
      PROVE  Creds!CredentialsTypeOK'
  BY <1>2 DEF Creds!Exchange, Creds!fetchCredentials
<1>3. ASSUME NEW p \in SignIns, Creds!Reject(p)
      PROVE  Creds!CredentialsTypeOK'
  BY <1>3 DEF Creds!Reject
<1>4. ASSUME NEW p \in SignIns, Creds!Commit(p)
      PROVE  Creds!CredentialsTypeOK'
  BY <1>4 DEF Creds!Commit, Creds!Put
<1>5. ASSUME NEW p \in SignIns, Creds!Conflict(p)
      PROVE  Creds!CredentialsTypeOK'
  BY <1>5 DEF Creds!Conflict
<1>6. ASSUME NEW p \in SignIns, Creds!Revoke(p)
      PROVE  Creds!CredentialsTypeOK'
  BY <1>6 DEF Creds!Revoke
<1>7. ASSUME NEW c \in Calls, Creds!Read(c)
      PROVE  Creds!CredentialsTypeOK'
  BY <1>7 DEF Creds!Read, Creds!Goto
<1>8. ASSUME NEW c \in Calls, Creds!End(c) \/ Creds!Missing(c)
      PROVE  Creds!CredentialsTypeOK'
  BY <1>8 DEF Creds!End, Creds!Missing, Creds!Goto
<1>9. ASSUME NEW c \in Calls, Creds!Refresh(c) \/ Creds!InvalidGrant(c)
      PROVE  Creds!CredentialsTypeOK'
  BY <1>9 DEF Creds!Refresh, Creds!InvalidGrant, Creds!Goto
<1>10. ASSUME NEW c \in Calls, Creds!updateCredentials(c)
       PROVE  Creds!CredentialsTypeOK'
  BY <1>10 DEF Creds!updateCredentials, Creds!Put, Creds!Answered, Creds!Goto
<1>11. ASSUME NEW c \in Calls, Creds!UpdateFails(c)
       PROVE  Creds!CredentialsTypeOK'
  BY <1>11 DEF Creds!UpdateFails, Creds!Answered, Creds!Goto
<1>12. CASE UNCHANGED Creds!vars
  BY <1>12 DEF Creds!vars
<1> QED
  BY <1>1, <1>2, <1>3, <1>4, <1>5, <1>6, <1>7, <1>8, <1>9, <1>10, <1>11, <1>12
     DEF Creds!Next

(* A sign-in that has stored a refresh token of its own makes every copy    *)
(* stale; one that has not, stores the one there is.                        *)
LEMMA CredsCommit ==
  ASSUME Creds!KeptInv, NEW p \in SignIns, Creds!Commit(p)
  PROVE  (Creds!DraftsOK /\ Creds!CopiesOK /\ Creds!GrantIsKept)'
PROOF
<1> USE DEF Creds!KeptInv, Creds!CredentialsTypeOK, Creds!Commit, Creds!Put, Creds!calls
<1>1. Creds!DraftsOK'
  BY DEF Creds!DraftsOK
<1>2. v6[p] \in {p, v2}
  BY DEF Creds!DraftsOK
<1>3. CASE v6[p] = p
  BY <1>1, <1>3 DEF Creds!CopiesOK, Creds!GrantIsKept, Creds!Kept
<1>4. CASE v6[p] # p
  BY <1>1, <1>2, <1>4 DEF Creds!CopiesOK, Creds!GrantIsKept, Creds!Kept
<1> QED
  BY <1>3, <1>4

(* The steps of a sign-in before that, and the end of a permission.         *)
LEMMA CredsSignIn ==
  ASSUME Creds!KeptInv, NEW p \in SignIns,
         \/ Creds!Begin(p) \/ Creds!Exchange(p) \/ Creds!Reject(p) 
         \/ Creds!Conflict(p) \/ Creds!Revoke(p)
  PROVE  (Creds!DraftsOK /\ Creds!CopiesOK /\ Creds!GrantIsKept)'
PROOF
<1> USE DEF Creds!KeptInv, Creds!CredentialsTypeOK, Creds!entity, Creds!signin,
            Creds!calls
<1>1. UNCHANGED <<v2, v8, v9, v10, v11, v12>> /\ v4 \subseteq v4'
  BY DEF Creds!Begin, Creds!Exchange, Creds!Reject, Creds!Conflict, Creds!Revoke
<1>2. Creds!CopiesOK' /\ Creds!GrantIsKept'
  BY <1>1 DEF Creds!CopiesOK, Creds!GrantIsKept, Creds!Kept
<1>3. Creds!DraftsOK'
  <2>1. CASE Creds!Begin(p)
    BY <2>1 DEF Creds!Begin, Creds!DraftsOK
  <2>2. CASE Creds!Exchange(p)
    BY <2>2 DEF Creds!Exchange, Creds!fetchCredentials, Creds!DraftsOK
  <2>3. CASE Creds!Reject(p) 
         \/ Creds!Conflict(p) \/ Creds!Revoke(p)
    BY <2>3 DEF Creds!Reject, Creds!Conflict, Creds!Revoke, Creds!DraftsOK
  <2> QED
    BY <2>1, <2>2, <2>3
<1> QED
  BY <1>2, <1>3

(* A call reads what is kept, and is refused only if nothing is.            *)
LEMMA CredsCall ==
  ASSUME Creds!KeptInv, NEW c \in Calls,
         \/ Creds!Read(c) \/ Creds!End(c) \/ Creds!Missing(c) \/ Creds!Refresh(c)
         \/ Creds!InvalidGrant(c) \/ Creds!UpdateFails(c)
  PROVE  (Creds!DraftsOK /\ Creds!CopiesOK /\ Creds!GrantIsKept)'
PROOF
<1> USE DEF Creds!KeptInv, Creds!CredentialsTypeOK, Creds!entity, Creds!signin, Creds!Goto
<1>1. UNCHANGED <<v2, v4, v5, v6, v7, v11, v12>>
  BY DEF Creds!Read, Creds!End, Creds!Missing, Creds!Refresh, Creds!InvalidGrant,
         Creds!UpdateFails
<1>2. Creds!DraftsOK'
  BY <1>1 DEF Creds!DraftsOK
<1>3. CASE Creds!Read(c)
  BY <1>2, <1>3 DEF Creds!Read, Creds!CopiesOK, Creds!GrantIsKept, Creds!Kept
<1>4. CASE Creds!End(c)
  BY <1>2, <1>4 DEF Creds!End, Creds!CopiesOK, Creds!GrantIsKept, Creds!Kept
<1>5. CASE Creds!Missing(c)
  BY <1>2, <1>5 DEF Creds!Missing, Creds!CopiesOK, Creds!GrantIsKept, Creds!Kept
<1>6. CASE Creds!Refresh(c)
  BY <1>2, <1>6 DEF Creds!Refresh, Creds!CopiesOK, Creds!GrantIsKept, Creds!Kept
<1>7. CASE Creds!InvalidGrant(c)
  BY <1>2, <1>7 DEF Creds!InvalidGrant, Creds!CopiesOK, Creds!GrantIsKept, Creds!Kept
<1>8. CASE Creds!UpdateFails(c)
  BY <1>2, <1>8 DEF Creds!UpdateFails, Creds!Answered, Creds!CopiesOK, Creds!GrantIsKept,
                    Creds!Kept
<1> QED
  BY <1>3, <1>4, <1>5, <1>6, <1>7, <1>8

(* An update of a copy that is not stale writes what is kept; one of a      *)
(* stale copy ends what is promised.  Either moves the entity under every   *)
(* transaction.                                                             *)
LEMMA CredsUpdate ==
  ASSUME Creds!KeptInv, NEW c \in Calls, Creds!updateCredentials(c)
  PROVE  (Creds!DraftsOK /\ Creds!CopiesOK /\ Creds!GrantIsKept)'
PROOF
<1> USE DEF Creds!KeptInv, Creds!CredentialsTypeOK, Creds!signin,
            Creds!updateCredentials, Creds!Put, Creds!Answered, Creds!Goto
<1>1. Creds!DraftsOK'
  BY DEF Creds!DraftsOK
<1>2. CASE c \in v10 \/ v12
  BY <1>1, <1>2 DEF Creds!CopiesOK, Creds!GrantIsKept
<1>3. CASE c \notin v10 /\ ~v12
  BY <1>1, <1>3 DEF Creds!CopiesOK, Creds!GrantIsKept, Creds!Kept
<1> QED
  BY <1>2, <1>3

LEMMA CredsNext == Creds!KeptInv /\ [Creds!Next]_Creds!vars => Creds!KeptInv'
PROOF
<1> SUFFICES ASSUME Creds!KeptInv, [Creds!Next]_Creds!vars
             PROVE  Creds!KeptInv'
  OBVIOUS
<1>1. Creds!CredentialsTypeOK'
  BY CredsTypes DEF Creds!KeptInv
<1>2. (Creds!DraftsOK /\ Creds!CopiesOK /\ Creds!GrantIsKept)'
  <2>1. CASE Creds!Next
    BY <2>1, CredsCommit, CredsSignIn, CredsCall, CredsUpdate DEF Creds!Next
  <2>2. CASE UNCHANGED Creds!vars
    BY <2>2 DEF Creds!vars, Creds!entity, Creds!signin, Creds!calls, Creds!KeptInv,
                Creds!DraftsOK, Creds!CopiesOK, Creds!GrantIsKept, Creds!Kept
  <2> QED
    BY <2>1, <2>2
<1> QED
  BY <1>1, <1>2 DEF Creds!KeptInv

LEMMA CredentialsInit == PartsInit => (part = "credentials" => Creds!KeptInv)
  BY CredsInit DEF PartsInit, PartInit

LEMMA CredentialsStep ==
  ASSUME part = "credentials" => Creds!KeptInv, [PartsNext]_<<vars, part, state>>
  PROVE  (part = "credentials" => Creds!KeptInv)'
PROOF
<1>1. part' = part
  BY PartSteps
<1> SUFFICES ASSUME part = "credentials", Creds!KeptInv
             PROVE  Creds!KeptInv'
  BY <1>1
<1>2. Creds!Next \/ UNCHANGED state
  BY PartSteps
<1>3. CASE UNCHANGED state
  <2>1. UNCHANGED Creds!vars
    BY <1>3 DEF state, Creds!vars, Creds!entity, Creds!signin, Creds!calls
  <2> QED
    BY <2>1, CredsNext
<1> QED
  BY <1>2, <1>3, CredsNext

(* The refresh token of the last sign-in is kept, and calls are refused     *)
(* only when it is revoked, as long as no call overwrites it with a copy    *)
(* from before that sign-in.                                                *)
THEOREM GrantKept == PartsSpec => []GrantIsKept
PROOF
<1>1. (part = "credentials" => Creds!KeptInv) => GrantIsKept
  BY DEF Creds!KeptInv, GrantIsKept
<1> QED
  BY CredentialsInit, CredentialsStep, <1>1, PTL DEF PartsSpec

------------------------------------------------------------------------------
(***************************************************************************)
(* The push subscription: SubscriptionFollowsUser.  v1 is the account, v2  *)
(* the subscription, v4 the token, v6 what is registered on the server, v8 *)
(* the chains, and v11 whether something has disturbed them.               *)
(***************************************************************************)
LEMMA KindsAre ==
  ASSUME NEW at, NEW why
  PROVE  <<at, why>> \in SW!Kinds <=>
           \/ at = "code" /\ why = "signin"
           \/ at \in {"get", "updates", "set"} /\ why = "ensure"
           \/ at \in {"enabled?", "existing?"} /\ why = "auto"
           \/ at \in {"subscribe", "enable"} /\ why \in {"auto", "bookmark", "panel"}
           \/ at = "unsubscribe" /\ why \in {"disable", "clear"}
           \/ at = "disable" /\ why = "disable"
           \/ at = "clear" /\ why = "clear"
           \/ at \in SW!InWorker /\ why = "push"
  BY DEF SW!Kinds

(* New chains are of one of the kinds there are.                            *)
LEMMA NewChain ==
  ASSUME NEW at, NEW of \in Users \cup {Nobody}, NEW why, NEW endpoint \in Nat,
         <<at, why>> \in SW!Kinds, at \in SW!OfSomebody => of \in Users,
         at = "enable" => endpoint # 0
  PROVE  SW!ChainOK([at |-> at, of |-> of, why |-> why, endpoint |-> endpoint])
  BY DEF SW!ChainOK

LEMMA AnyChain ==
  ASSUME NEW at, NEW of \in Users \cup {Nobody}, NEW why,
         <<at, why>> \in SW!Kinds, at \in SW!OfSomebody => of \in Users,
         at # "enable"
  PROVE  SW!ChainOK(SW!Chain(at, of, why))
  BY NewChain DEF SW!Chain

LEMMA OtherChains ==
  /\ SW!ChainOK(SW!Chain("existing?", Nobody, "auto"))
  /\ SW!ChainOK(SW!Chain("unsubscribe", Nobody, "disable"))
  /\ SW!ChainOK(SW!Chain("unsubscribe", Nobody, "clear"))
  /\ SW!ChainOK(SW!Chain("clear", Nobody, "clear"))
  /\ SW!ChainOK(SW!Chain("load", Nobody, "push"))
  /\ SW!ChainOK(SW!Chain("get", Nobody, "ensure"))
  /\ \A u \in Users : /\ SW!ChainOK(SW!Chain("code", u, "signin"))
                      /\ SW!ChainOK(SW!Chain("enabled?", u, "auto"))
                      /\ SW!ChainOK(SW!Chain("updates", u, "ensure"))
                      /\ SW!ChainOK(SW!Chain("disable", u, "disable"))
                      /\ SW!ChainOK(SW!Chain("fetch", u, "push"))
<1>1. ASSUME NEW at, NEW of \in Users \cup {Nobody}, NEW why,
             <<at, why>> \in SW!Kinds, at # "enable",
             at \notin SW!OfSomebody \/ of \in Users
      PROVE  SW!ChainOK(SW!Chain(at, of, why))
  BY <1>1, AnyChain
<1>2. /\ <<"existing?", "auto">> \in SW!Kinds
      /\ <<"unsubscribe", "disable">> \in SW!Kinds
      /\ <<"unsubscribe", "clear">> \in SW!Kinds
      /\ <<"clear", "clear">> \in SW!Kinds
      /\ <<"load", "push">> \in SW!Kinds
      /\ <<"get", "ensure">> \in SW!Kinds
  BY KindsAre DEF SW!InWorker
<1>3. /\ <<"code", "signin">> \in SW!Kinds
      /\ <<"enabled?", "auto">> \in SW!Kinds
      /\ <<"updates", "ensure">> \in SW!Kinds
      /\ <<"disable", "disable">> \in SW!Kinds
      /\ <<"fetch", "push">> \in SW!Kinds
  BY KindsAre DEF SW!InWorker
<1>4. {"existing?", "unsubscribe", "clear", "load", "get"} \cap SW!OfSomebody = {}
  BY DEF SW!OfSomebody
<1>5. /\ SW!ChainOK(SW!Chain("existing?", Nobody, "auto"))
      /\ SW!ChainOK(SW!Chain("unsubscribe", Nobody, "disable"))
      /\ SW!ChainOK(SW!Chain("unsubscribe", Nobody, "clear"))
  BY <1>1, <1>2, <1>4
<1>6. /\ SW!ChainOK(SW!Chain("clear", Nobody, "clear"))
      /\ SW!ChainOK(SW!Chain("load", Nobody, "push"))
      /\ SW!ChainOK(SW!Chain("get", Nobody, "ensure"))
  BY <1>1, <1>2, <1>4
<1>7. ASSUME NEW u \in Users
      PROVE  /\ SW!ChainOK(SW!Chain("code", u, "signin"))
             /\ SW!ChainOK(SW!Chain("enabled?", u, "auto"))
             /\ SW!ChainOK(SW!Chain("updates", u, "ensure"))
             /\ SW!ChainOK(SW!Chain("disable", u, "disable"))
             /\ SW!ChainOK(SW!Chain("fetch", u, "push"))
  BY <1>1, <1>3
<1> QED
  BY <1>5, <1>6, <1>7

LEMMA SigninChains ==
  ASSUME NEW who \in Users \cup {Nobody}, NEW signedIn \in BOOLEAN
  PROVE  \A c \in SW!signinChange(signedIn, who) : SW!ChainOK(c)
  BY OtherChains DEF SW!signinChange, SW!Request

LEMMA SubscribeChains ==
  ASSUME NEW why \in {"auto", "bookmark", "panel"}
  PROVE  \A c \in SW!subscribe(why) : SW!ChainOK(c)
PROOF
<1>1. <<"subscribe", why>> \in SW!Kinds
  BY KindsAre
<1> QED
  BY <1>1, AnyChain DEF SW!subscribe, SW!OfSomebody

LEMMA RequestChains ==
  ASSUME NEW who \in Users \cup {Nobody}
  PROVE  /\ \A c \in SW!Request(who, "updates", "ensure") : SW!ChainOK(c)
         /\ \A c \in SW!Request(who, "disable", "disable") : SW!ChainOK(c)
         /\ \A c \in SW!Request(who, "fetch", "push") : SW!ChainOK(c)
  BY OtherChains DEF SW!Request

LEMMA EnableChains ==
  ASSUME NEW who \in Users \cup {Nobody}, NEW why \in {"auto", "bookmark", "panel"},
         NEW endpoint \in Nat \ {0}
  PROVE  \A r \in SW!Request(who, "enable", why) : SW!ChainOK([r EXCEPT !.endpoint = endpoint])
PROOF
<1> SUFFICES ASSUME who \in Users
             PROVE  SW!ChainOK([SW!Chain("enable", who, why) EXCEPT !.endpoint = endpoint])
  BY DEF SW!Request
<1>1. [SW!Chain("enable", who, why) EXCEPT !.endpoint = endpoint]
        = [at |-> "enable", of |-> who, why |-> why, endpoint |-> endpoint]
  BY DEF SW!Chain
<1>2. <<"enable", why>> \in SW!Kinds
  BY KindsAre
<1> QED
  BY <1>1, <1>2, NewChain

(* A chain that goes on, as what it is.                                     *)
LEMMA NextChain ==
  ASSUME NEW c, SW!ChainOK(c), NEW at, at # "enable", <<at, c.why>> \in SW!Kinds,
         at \in SW!OfSomebody => c.at \in SW!OfSomebody
  PROVE  SW!ChainOK([c EXCEPT !.at = at])
PROOF
<1>1. [c EXCEPT !.at = at]
        = [at |-> at, of |-> c.of, why |-> c.why, endpoint |-> c.endpoint]
  BY DEF SW!ChainOK
<1> QED
  BY <1>1, NewChain DEF SW!ChainOK

LEMMA InputTypes ==
  ASSUME SW!SWTokenTypeOK,
         (\E u \in Users : SW!SignIn(u)) \/ SW!SignOut \/ SW!Reload \/ SW!bookmarkSessionNotification
         \/ SW!updateNotifyUser \/ SW!Push
  PROVE  SW!SWTokenTypeOK'
PROOF
<1> USE DEF SW!SWTokenTypeOK, SW!browser, SW!server
<1>1. ASSUME NEW u \in Users, SW!SignIn(u)
      PROVE  SW!SWTokenTypeOK'
  BY <1>1, SigninChains, OtherChains DEF SW!SignIn
<1>2. CASE SW!SignOut
  BY <1>2, SigninChains DEF SW!SignOut
<1>3. CASE SW!Reload
  BY <1>3, SigninChains DEF SW!Reload, SW!Sent
<1>4. CASE SW!bookmarkSessionNotification
  BY <1>4, SubscribeChains DEF SW!bookmarkSessionNotification
<1>5. CASE SW!updateNotifyUser
  BY <1>5, SubscribeChains, OtherChains DEF SW!updateNotifyUser
<1>6. CASE SW!Push
  BY <1>6, OtherChains DEF SW!Push
<1> QED
  BY <1>1, <1>2, <1>3, <1>4, <1>5, <1>6

LEMMA StepTypes ==
  ASSUME SW!SWTokenTypeOK, NEW c \in v8,
         \/ SW!sendCodeToServer(c) \/ SW!ensureSWToken(c) \/ SW!clearSWToken(c)
         \/ SW!isNotifyEnabled(c) \/ SW!isExistingSubscription(c)
         \/ SW!subscribePromise(c) \/ SW!enableNotifications(c)
         \/ SW!unsubscribe(c) \/ SW!disableNotifications(c) \/ SW!onPush(c) \/ SW!Fail(c)
  PROVE  SW!SWTokenTypeOK'
PROOF
<1> USE DEF SW!SWTokenTypeOK, SW!browser, SW!server, SW!Continue
<1>c. SW!ChainOK(c)
  OBVIOUS
<1>1. CASE SW!sendCodeToServer(c)
  BY <1>1, SigninChains DEF SW!sendCodeToServer
<1>2. CASE SW!ensureSWToken(c)
  <2>1. c.at = "set" => c.of \in Users
    BY <1>c DEF SW!ChainOK, SW!OfSomebody
  <2>2. c.at = "updates" => SW!ChainOK([c EXCEPT !.at = "set"])
    BY <1>2, <1>c, NextChain, KindsAre DEF SW!ensureSWToken, SW!OfSomebody
  <2> QED
    BY <1>2, <2>1, <2>2, RequestChains DEF SW!ensureSWToken
<1>3. CASE SW!clearSWToken(c)
  BY <1>3 DEF SW!clearSWToken
<1>4. CASE SW!isNotifyEnabled(c)
  BY <1>4, OtherChains DEF SW!isNotifyEnabled
<1>5. CASE SW!isExistingSubscription(c)
  BY <1>5, SubscribeChains DEF SW!isExistingSubscription
<1>6. CASE SW!subscribePromise(c)
  <2>1. c.why \in {"auto", "bookmark", "panel"}
    BY <1>6, <1>c, KindsAre DEF SW!subscribePromise, SW!ChainOK, SW!InWorker
  <2>2. v2' \in Nat \ {0} /\ v3' \in Nat
    BY <1>6 DEF SW!subscribePromise
  <2> QED
    BY <1>6, <2>1, <2>2, EnableChains DEF SW!subscribePromise
<1>7. CASE SW!enableNotifications(c)
  <2>1. c.of \in Users /\ c.endpoint \in Nat \ {0}
    BY <1>7, <1>c DEF SW!enableNotifications, SW!ChainOK, SW!OfSomebody
  <2> QED
    BY <1>7, <2>1 DEF SW!enableNotifications
<1>8. CASE SW!unsubscribe(c)
  BY <1>8, RequestChains, OtherChains DEF SW!unsubscribe
<1>9. CASE SW!disableNotifications(c)
  BY <1>9 DEF SW!disableNotifications
<1>10. CASE SW!onPush(c)
  <2>1. c.at = "save" => c.of \in Users
    BY <1>c DEF SW!ChainOK, SW!OfSomebody
  <2>2. /\ c.at = "fetch" => SW!ChainOK([c EXCEPT !.at = "show"])
        /\ c.at = "show"  => SW!ChainOK([c EXCEPT !.at = "save"])
    <3>1. c.at \in {"fetch", "show"} => c.why = "push"
      BY <1>c, KindsAre DEF SW!ChainOK
    <3> QED
      BY <3>1, <1>c, NextChain, KindsAre DEF SW!OfSomebody, SW!InWorker
  <2>3. c.at \in {"load", "fetch", "show", "save"}
    BY <1>10 DEF SW!onPush, SW!InWorker
  <2> QED
    BY <1>10, <2>1, <2>2, <2>3, RequestChains DEF SW!onPush
<1>11. CASE SW!Fail(c)
  BY <1>11, SubscribeChains DEF SW!Fail
<1> QED
  BY <1>1, <1>2, <1>3, <1>4, <1>5, <1>6, <1>7, <1>8, <1>9, <1>10, <1>11

LEMMA Fields ==
  ASSUME NEW at, NEW of, NEW why
  PROVE  /\ SW!Chain(at, of, why).at = at
         /\ SW!Chain(at, of, why).of = of
         /\ SW!Chain(at, of, why).why = why
  BY DEF SW!Chain

(* What a sign-in and a sign-out begin.                                     *)
LEMMA Signs ==
  ASSUME NEW signedIn \in BOOLEAN
  PROVE  /\ SW!signinChange(signedIn, Nobody) = {SW!Chain("unsubscribe", Nobody, "clear")}
         /\ \A u \in Users :
              /\ \A c \in SW!signinChange(signedIn, u) :
                   c.why \in {"ensure", "auto"} /\ c.of \in {Nobody, u} /\ c.at # "enable"
              /\ \E c \in SW!signinChange(signedIn, u) : c.why = "ensure"
PROOF
<1>1. SW!signinChange(signedIn, Nobody) = {SW!Chain("unsubscribe", Nobody, "clear")}
  BY DEF SW!signinChange, SW!Request
<1>2. ASSUME NEW u \in Users
      PROVE  /\ \A c \in SW!signinChange(signedIn, u) :
                   c.why \in {"ensure", "auto"} /\ c.of \in {Nobody, u} /\ c.at # "enable"
             /\ \E c \in SW!signinChange(signedIn, u) : c.why = "ensure"
  <2>1. /\ SW!Chain("get", Nobody, "ensure") \in SW!signinChange(signedIn, u)
        /\ SW!signinChange(signedIn, u)
             \subseteq {SW!Chain("get", Nobody, "ensure"), SW!Chain("enabled?", u, "auto")}
    BY PartsAssumption DEF SW!signinChange, SW!Request
  <2> QED
    BY <2>1 DEF SW!Chain
<1> QED
  BY <1>1, <1>2

LEMMA KindOf ==
  ASSUME NEW c, SW!ChainOK(c)
  PROVE  \/ c.at = "code" /\ c.why = "signin"
         \/ c.at \in {"get", "updates", "set"} /\ c.why = "ensure"
         \/ c.at \in {"enabled?", "existing?"} /\ c.why = "auto"
         \/ c.at \in {"subscribe", "enable"} /\ c.why \in {"auto", "bookmark", "panel"}
         \/ c.at = "unsubscribe" /\ c.why \in {"disable", "clear"}
         \/ c.at = "disable" /\ c.why = "disable"
         \/ c.at = "clear" /\ c.why = "clear"
         \/ c.at \in {"load", "fetch", "show", "save"} /\ c.why = "push"
PROOF
<1>1. <<c.at, c.why>> \in SW!Kinds
  BY DEF SW!ChainOK
<1> QED
  BY <1>1, KindsAre DEF SW!InWorker

LEMMA SignInFollows ==
  ASSUME SW!FollowsInv, ~v11', NEW u \in Users, SW!SignIn(u)
  PROVE  (SW!SignedOut /\ SW!SignedIn)'
PROOF
<1>1. ~v11 /\ v1 = Nobody /\ SW!Leaves = {} /\ v1' = u /\ u # Nobody
  BY PartsAssumption DEF SW!SignIn, SW!FollowsInv, SW!SWTokenTypeOK
<1>2. v4 = Nobody /\ v2 = 0 /\ SW!Enters = {}
  BY <1>1 DEF SW!FollowsInv, SW!SignedOut
<1>3. UNCHANGED <<v4, v2>> /\ v8 \subseteq v8'
  BY DEF SW!SignIn, SW!browser
<1>4. /\ \A c \in v8' \ v8 :
           c.why \in {"signin", "ensure", "auto"} /\ c.of \in {Nobody, u}
      /\ \E c \in v8' : c.why \in {"signin", "ensure"}
  <2>1. CASE v8' = v8 \cup {SW!Chain("code", u, "signin")}
    BY <2>1, Fields
  <2>2. CASE v8' = v8 \cup SW!signinChange(TRUE, u)
    <3>1. \A c \in v8' \ v8 : c \in SW!signinChange(TRUE, u)
      BY <2>2
    <3>2. PICK c \in SW!signinChange(TRUE, u) : c.why = "ensure"
      BY Signs
    <3>3. c \in v8'
      BY <2>2
    <3> QED
      BY <3>1, <3>2, <3>3, Signs
  <2> QED
    BY <2>1, <2>2 DEF SW!SignIn
<1>5. SW!Leaves' = {} /\ \A c \in SW!Enters' : c.of \in {Nobody, u}
  BY <1>1, <1>2, <1>4 DEF SW!Leaves, SW!Enters
<1> QED
  BY <1>1, <1>2, <1>3, <1>4, <1>5 DEF SW!SignedOut, SW!SignedIn

LEMMA SignOutFollows ==
  ASSUME SW!FollowsInv, ~v11', SW!SignOut
  PROVE  (SW!SignedOut /\ SW!SignedIn)'
PROOF
<1>1. ~v11 /\ v1 # Nobody /\ SW!Enters = {} /\ v1' = Nobody
  BY DEF SW!SignOut, SW!FollowsInv, SW!SWTokenTypeOK
<1>2. v8' = v8 \cup {SW!Chain("unsubscribe", Nobody, "clear")}
  BY Signs DEF SW!SignOut
<1>3. SW!Enters' = {}
  BY <1>1, <1>2 DEF SW!Enters, SW!Chain, SW!InWorker
<1>4. \E c \in SW!Leaves' : c.at = "unsubscribe"
  BY <1>2, Fields DEF SW!Leaves
<1> QED
  BY <1>1, <1>3, <1>4 DEF SW!SignedOut, SW!SignedIn

LEMMA ReloadFollows ==
  ASSUME SW!FollowsInv, ~v11', SW!Reload
  PROVE  (SW!SignedOut /\ SW!SignedIn)'
PROOF
<1>1. UNCHANGED <<v1, v4, v2, v6>>
  BY DEF SW!Reload, SW!browser, SW!server
<1>2. PICK arrives \in SUBSET SW!Sent :
        /\ v8' = {c \in v8 : c.at \in SW!InWorker} \cup arrives
                     \cup (IF v1 = Nobody THEN {} ELSE SW!signinChange(TRUE, v1))
        /\ ~v11 /\ SW!Leaves = {} /\ \A c \in SW!Sent \ arrives : c.at # "enable"
  BY DEF SW!Reload, SW!FollowsInv, SW!SWTokenTypeOK
<1>3. \A c \in SW!Sent : c.at \in {"enable", "disable"} /\ c \in v8
  BY DEF SW!Sent
<1>4. CASE v1 = Nobody
  <2>1. v8' \subseteq v8
    BY <1>2, <1>3, <1>4
  <2>2. SW!Enters = {} /\ v4 = Nobody /\ v2 = 0
    BY <1>2, <1>4 DEF SW!FollowsInv, SW!SignedOut
  <2>3. SW!Enters' = {}
    BY <2>1, <2>2 DEF SW!Enters
  <2> QED
    BY <1>1, <1>4, <2>2, <2>3 DEF SW!SignedOut, SW!SignedIn
<1>5. CASE v1 # Nobody
  <2>1. v1 \in Users
    BY <1>5 DEF SW!FollowsInv, SW!SWTokenTypeOK
  <2>2. SW!SignedIn
    BY <1>2 DEF SW!FollowsInv
  <2>3. /\ \A c \in v8' \ v8 :
             c.why \in {"ensure", "auto"} /\ c.of \in {Nobody, v1}
        /\ \E c \in v8' : c.why = "ensure"
        /\ \A c \in v8 : c.at = "enable" => c \in v8'
    <3>1. \A c \in v8' \ v8 : c \in SW!signinChange(TRUE, v1)
      BY <1>2, <1>3, <1>5
    <3>2. PICK c \in SW!signinChange(TRUE, v1) : c.why = "ensure"
      BY <2>1, Signs
    <3>3. c \in v8'
      BY <1>2, <1>5
    <3>4. \A e \in v8 : e.at = "enable" => e \in v8'
      BY <1>2 DEF SW!Sent
    <3> QED
      BY <2>1, <3>1, <3>2, <3>3, <3>4, Signs
  <2>4. SW!Leaves' = {} /\ \A c \in SW!Enters' : c.of \in {Nobody, v1}
    BY <1>2, <1>5, <2>2, <2>3 DEF SW!SignedIn, SW!Leaves, SW!Enters
  <2> QED
    BY <1>1, <1>5, <2>2, <2>3, <2>4 DEF SW!SignedOut, SW!SignedIn
<1> QED
  BY <1>4, <1>5

(* The other inputs add a chain of the page, or of the worker.              *)
LEMMA InputFollows ==
  ASSUME SW!FollowsInv, ~v11',
         SW!bookmarkSessionNotification \/ SW!updateNotifyUser \/ SW!Push
  PROVE  (SW!SignedOut /\ SW!SignedIn)'
PROOF
<1> USE DEF SW!FollowsInv, SW!SWTokenTypeOK, SW!browser, SW!server, SW!SignedOut,
            SW!SignedIn, SW!Enters, SW!Leaves
<1>1. CASE SW!bookmarkSessionNotification
  BY <1>1 DEF SW!bookmarkSessionNotification, SW!subscribe, SW!Chain, SW!InWorker
<1>2. CASE SW!updateNotifyUser
  BY <1>2 DEF SW!updateNotifyUser, SW!subscribe, SW!Chain, SW!InWorker
<1>3. CASE SW!Push
  BY <1>3 DEF SW!Push, SW!Chain, SW!InWorker
<1> QED
  BY <1>1, <1>2, <1>3

(* A chain of a user is of the user who is signed in.                       *)
LEMMA Entering ==
  ASSUME SW!FollowsInv, ~v11, NEW c \in v8,
         c.at \in SW!InWorker \cup {"updates", "set", "enabled?", "existing?", "subscribe"}
  PROVE  /\ v1 \in Users /\ v1 # Nobody /\ SW!SignedIn
         /\ c.of \in {Nobody, v1}
         /\ c.at \in SW!OfSomebody => c.of = v1
         /\ c.why # "clear"
PROOF
<1>1. c \in SW!Enters
  BY DEF SW!Enters
<1>2. v1 \in Users /\ v1 # Nobody /\ SW!SignedIn
  BY <1>1 DEF SW!FollowsInv, SW!SWTokenTypeOK, SW!SignedOut
<1>3. SW!ChainOK(c)
  BY DEF SW!FollowsInv, SW!SWTokenTypeOK
<1>4. c.why # "clear"
  BY <1>3, KindsAre DEF SW!ChainOK, SW!InWorker
<1> QED
  BY <1>1, <1>2, <1>3, <1>4, PartsAssumption DEF SW!SignedIn, SW!ChainOK

(* A step of a chain that changes neither the account nor what the browser  *)
(* and the server have, and that goes on with what is of the user.          *)
LEMMA GoesOn ==
  ASSUME SW!FollowsInv, ~v11, NEW c \in v8, NEW further, v1 # Nobody,
         v8' = (v8 \ {c}) \cup further,
         UNCHANGED <<v1, v4, v2, v6>>,
         c.at # "enable",
         \A d \in further : d.why # "clear" /\ d.of \in {Nobody, v1},
         v4 = Nobody /\ c.why \in {"signin", "ensure"} =>
           \E d \in further : d.why \in {"signin", "ensure"}
  PROVE  (SW!SignedOut /\ SW!SignedIn)'
PROOF
<1>1. SW!SignedIn
  BY DEF SW!FollowsInv
<1>2. /\ SW!Leaves' = {}
      /\ \A d \in SW!Enters' : d.of \in {Nobody, v1}
  BY <1>1 DEF SW!SignedIn, SW!Leaves, SW!Enters
<1>3. v4 = Nobody => \E d \in v8' : d.why \in {"signin", "ensure"}
  BY <1>1 DEF SW!SignedIn
<1>4. \A d \in v8 : d.at = "enable" => d \in v8'
  OBVIOUS
<1> QED
  BY <1>1, <1>2, <1>3, <1>4 DEF SW!SignedOut, SW!SignedIn

LEMMA CodeFollows ==
  ASSUME SW!FollowsInv, ~v11', NEW c \in v8, SW!sendCodeToServer(c)
  PROVE  (SW!SignedOut /\ SW!SignedIn)'
PROOF
<1>1. c.at = "code" /\ c.why # "clear" /\ v1 \in Users \cup {Nobody} /\ ~v11
  <2>1. SW!ChainOK(c) /\ v1 \in Users \cup {Nobody} /\ v11 \in BOOLEAN
    BY DEF SW!FollowsInv, SW!SWTokenTypeOK
  <2>2. c.at = "code" /\ ~v11
    BY <2>1 DEF SW!sendCodeToServer
  <2> QED
    BY <2>1, <2>2, KindOf
<1>2. UNCHANGED <<v4, v2, v6>>
  BY DEF SW!sendCodeToServer, SW!browser, SW!server
<1>3. CASE v1 = Nobody /\ v1' = Nobody
  <2>1. \/ v8' = v8 \ {c}
        \/ v8' = (v8 \ {c}) \cup {SW!Chain("unsubscribe", Nobody, "clear")}
    BY <1>3, Signs DEF SW!sendCodeToServer, SW!Continue
  <2>2. SW!Enters' = {}
    BY <1>1, <1>3, <2>1, Fields DEF SW!FollowsInv, SW!SignedOut, SW!Enters, SW!InWorker
  <2>3. SW!Leaves \subseteq SW!Leaves'
    BY <1>1, <2>1 DEF SW!Leaves
  <2> QED
    BY <1>1, <1>2, <1>3, <2>2, <2>3 DEF SW!FollowsInv, SW!SignedOut, SW!SignedIn
<1>4. CASE v1 # Nobody /\ v1' = Nobody
  <2>1. /\ v8' = (v8 \ {c}) \cup {SW!Chain("unsubscribe", Nobody, "clear")}
        /\ SW!Enters = {}
    BY <1>1, <1>4, Signs DEF SW!sendCodeToServer, SW!Continue
  <2>2. SW!Enters' = {}
    BY <2>1, Fields DEF SW!Enters, SW!InWorker
  <2>3. \E d \in SW!Leaves' : d.at = "unsubscribe"
    BY <2>1, Fields DEF SW!Leaves
  <2> QED
    BY <1>4, <2>2, <2>3 DEF SW!SignedOut, SW!SignedIn
<1>5. CASE v1 # Nobody /\ v1' # Nobody
  <2>1. v8' = (v8 \ {c}) \cup SW!signinChange(TRUE, v1) /\ v1' = v1
    BY <1>5 DEF SW!sendCodeToServer, SW!Continue
  <2>2. v1 \in Users
    BY <1>1, <1>5
  <2>3. /\ \A d \in SW!signinChange(TRUE, v1) : d.why # "clear" /\ d.of \in {Nobody, v1}
        /\ \E d \in SW!signinChange(TRUE, v1) : d.why \in {"signin", "ensure"}
    <3>1. \A d \in SW!signinChange(TRUE, v1) :
            d.why \in {"ensure", "auto"} /\ d.of \in {Nobody, v1}
      BY <2>2, Signs
    <3>2. PICK d \in SW!signinChange(TRUE, v1) : d.why = "ensure"
      BY <2>2, Signs
    <3> QED
      BY <3>1, <3>2
  <2>4. c.at # "enable"
    BY <1>1
  <2> QED
    BY <1>1, <1>2, <1>5, <2>1, <2>3, <2>4, GoesOn
<1> QED
  BY <1>3, <1>4, <1>5 DEF SW!sendCodeToServer

LEMMA EnsureFollows ==
  ASSUME SW!FollowsInv, ~v11', NEW c \in v8, SW!ensureSWToken(c)
  PROVE  (SW!SignedOut /\ SW!SignedIn)'
PROOF
<1>1. /\ c.at \in {"get", "updates", "set"} /\ c.why = "ensure"
      /\ v1 \in Users \cup {Nobody} /\ ~v11
  <2>1. SW!ChainOK(c) /\ v1 \in Users \cup {Nobody} /\ v11 \in BOOLEAN
    BY DEF SW!FollowsInv, SW!SWTokenTypeOK
  <2>2. c.why = "ensure" /\ ~v11
    BY <2>1 DEF SW!ensureSWToken
  <2> QED
    BY <2>1, <2>2, KindOf
<1>2. UNCHANGED <<v1, v2, v6>>
  BY DEF SW!ensureSWToken, SW!server
<1>3. CASE c.at = "get" /\ v1 = Nobody
  <2>1. v8' = v8 \ {c} /\ UNCHANGED v4
    BY <1>3 DEF SW!ensureSWToken, SW!Continue, SW!Request
  <2>2. SW!Enters' \subseteq SW!Enters /\ SW!Leaves' = SW!Leaves
    BY <1>1, <2>1 DEF SW!Enters, SW!Leaves
  <2> QED
    BY <1>1, <1>2, <1>3, <2>1, <2>2 DEF SW!FollowsInv, SW!SignedOut, SW!SignedIn
<1>4. CASE c.at = "get" /\ v1 # Nobody
  <2>1. PICK further : /\ v8' = (v8 \ {c}) \cup further
                       /\ further = IF v4 = Nobody THEN {SW!Chain("updates", v1, "ensure")} ELSE {}
    BY <1>4 DEF SW!ensureSWToken, SW!Continue, SW!Request
  <2>2. UNCHANGED v4
    BY <1>4 DEF SW!ensureSWToken
  <2>3. /\ \A d \in further : d.why # "clear" /\ d.of \in {Nobody, v1}
        /\ v4 = Nobody => \E d \in further : d.why \in {"signin", "ensure"}
    BY <2>1, Fields
  <2> QED
    BY <1>1, <1>2, <1>4, <2>1, <2>2, <2>3, GoesOn
<1>5. CASE c.at = "updates"
  <2>1. /\ v8' = (v8 \ {c}) \cup {[c EXCEPT !.at = "set"]} /\ UNCHANGED v4
        /\ v1 # Nobody /\ c.of = v1
    BY <1>1, <1>5, Entering DEF SW!ensureSWToken, SW!Continue, SW!OfSomebody
  <2>2. [c EXCEPT !.at = "set"].of = v1 /\ [c EXCEPT !.at = "set"].why = "ensure"
    BY <1>1, <2>1 DEF SW!FollowsInv, SW!SWTokenTypeOK, SW!ChainOK
  <2>3. PICK further : /\ v8' = (v8 \ {c}) \cup further
                       /\ further = {[c EXCEPT !.at = "set"]}
    BY <2>1
  <2>4. /\ \A d \in further : d.why # "clear" /\ d.of \in {Nobody, v1}
        /\ \E d \in further : d.why \in {"signin", "ensure"}
    BY <2>2, <2>3
  <2>5. c.at # "enable" /\ UNCHANGED <<v1, v4, v2, v6>>
    BY <1>2, <1>5, <2>1
  <2> QED
    BY <1>1, <2>1, <2>3, <2>4, <2>5, GoesOn
<1>6. CASE c.at = "set"
  <2>1. /\ v8' = v8 \ {c} /\ v4' = c.of
        /\ v1 # Nobody /\ c.of = v1 /\ SW!SignedIn
    BY <1>1, <1>6, Entering DEF SW!ensureSWToken, SW!Continue, SW!OfSomebody
  <2>2. SW!Leaves' = {} /\ SW!Enters' \subseteq SW!Enters
    BY <2>1 DEF SW!SignedIn, SW!Leaves, SW!Enters
  <2> QED
    BY <1>2, <1>6, <2>1, <2>2 DEF SW!SignedOut, SW!SignedIn
<1> QED
  BY <1>1, <1>3, <1>4, <1>5, <1>6

LEMMA ClearFollows ==
  ASSUME SW!FollowsInv, ~v11', NEW c \in v8, SW!clearSWToken(c)
  PROVE  (SW!SignedOut /\ SW!SignedIn)'
PROOF
<1>1. /\ SW!ChainOK(c) /\ ~v11 /\ c.at = "clear"
      /\ v8' = v8 \ {c} /\ v4' = Nobody
      /\ UNCHANGED <<v1, v2>>
  BY DEF SW!clearSWToken, SW!Continue, SW!FollowsInv, SW!SWTokenTypeOK
<1>2. c \in SW!Leaves
  BY <1>1, KindOf DEF SW!Leaves
<1>3. v1 = Nobody /\ SW!SignedOut
  BY <1>1, <1>2 DEF SW!FollowsInv, SW!SignedIn
<1>4. SW!Enters' = {} /\ \A d \in SW!Leaves : d.at = "unsubscribe" => d \in SW!Leaves'
  BY <1>1, <1>3 DEF SW!SignedOut, SW!Enters, SW!Leaves
<1> QED
  BY <1>1, <1>3, <1>4 DEF SW!SignedOut, SW!SignedIn

(* The steps that see whether a browser is to be subscribed on sign-in.     *)
LEMMA AutoFollows ==
  ASSUME SW!FollowsInv, ~v11', NEW c \in v8,
         SW!isNotifyEnabled(c) \/ SW!isExistingSubscription(c)
  PROVE  (SW!SignedOut /\ SW!SignedIn)'
PROOF
<1>1. /\ ~v11 /\ c.at \in {"enabled?", "existing?"} /\ SW!ChainOK(c)
      /\ UNCHANGED <<v1, v4, v2, v6>>
  BY DEF SW!isNotifyEnabled, SW!isExistingSubscription, SW!browser, SW!server,
         SW!FollowsInv, SW!SWTokenTypeOK
<1>2. v1 # Nobody
  BY <1>1, Entering
<1>3. c.why = "auto"
  BY <1>1, KindOf
<1>4. PICK further \in SUBSET {SW!Chain("existing?", Nobody, "auto"), SW!Chain("subscribe", Nobody, "auto")} :
        v8' = (v8 \ {c}) \cup further
  BY DEF SW!isNotifyEnabled, SW!isExistingSubscription, SW!Continue, SW!subscribe
<1>5. \A d \in further : d.why # "clear" /\ d.of \in {Nobody, v1}
  BY <1>4, Fields
<1> QED
  BY <1>1, <1>2, <1>3, <1>4, <1>5, GoesOn

LEMMA SubscribeFollows ==
  ASSUME SW!FollowsInv, ~v11', NEW c \in v8, SW!subscribePromise(c)
  PROVE  (SW!SignedOut /\ SW!SignedIn)'
PROOF
<1>1. /\ ~v11 /\ c.at = "subscribe" /\ SW!ChainOK(c)
      /\ UNCHANGED <<v1, v4, v6>>
  BY DEF SW!subscribePromise, SW!server, SW!FollowsInv, SW!SWTokenTypeOK
<1>2. v1 \in Users /\ v1 # Nobody /\ SW!SignedIn
  BY <1>1, Entering
<1>3. c.why \in {"auto", "bookmark", "panel"}
  BY <1>1, KindOf
<1>4. PICK r : /\ r = [SW!Chain("enable", v1, c.why) EXCEPT !.endpoint = v2']
               /\ v8' = (v8 \ {c}) \cup {r}
  <2>1. SW!Request(v1, "enable", c.why) = {SW!Chain("enable", v1, c.why)}
    BY <1>2 DEF SW!Request
  <2>2. {[r EXCEPT !.endpoint = v2'] : r \in SW!Request(v1, "enable", c.why)}
          = {[SW!Chain("enable", v1, c.why) EXCEPT !.endpoint = v2']}
    BY <2>1
  <2> QED
    BY <2>2 DEF SW!subscribePromise, SW!Continue
<1>5. /\ r.at = "enable" /\ r.of = v1 /\ r.why = c.why
      /\ r.endpoint = v2'
  BY <1>4 DEF SW!Chain
<1>6. SW!Leaves' = {} /\ SW!Enters' \subseteq SW!Enters
  BY <1>2, <1>3, <1>4, <1>5 DEF SW!SignedIn, SW!Leaves, SW!Enters, SW!InWorker
<1>7. v4 = Nobody => \E d \in v8' : d.why \in {"signin", "ensure"}
  BY <1>2, <1>3, <1>4 DEF SW!SignedIn
<1>8. r \in v8'
  BY <1>4
<1> QED
  BY <1>1, <1>2, <1>5, <1>6, <1>7, <1>8 DEF SW!SignedOut, SW!SignedIn

LEMMA EnableFollows ==
  ASSUME SW!FollowsInv, ~v11', NEW c \in v8, SW!enableNotifications(c)
  PROVE  (SW!SignedOut /\ SW!SignedIn)'
PROOF
<1>1. /\ ~v11 /\ c.at = "enable" /\ SW!ChainOK(c)
      /\ v6' = [v6 EXCEPT ![c.of] = @ \cup {c.endpoint}]
      /\ v8' = v8 \ {c}
      /\ UNCHANGED <<v1, v4, v2>>
  BY DEF SW!enableNotifications, SW!Continue, SW!browser, SW!FollowsInv, SW!SWTokenTypeOK
<1>2. c.why \in {"auto", "bookmark", "panel"}
  BY <1>1, KindOf
<1>3. SW!Enters' \subseteq SW!Enters /\ SW!Leaves' = SW!Leaves
  BY <1>1, <1>2 DEF SW!Enters, SW!Leaves
<1>4. CASE v1 = Nobody
  BY <1>1, <1>3, <1>4 DEF SW!FollowsInv, SW!SignedOut, SW!SignedIn
<1>5. CASE v1 # Nobody
  <2>1. SW!SignedIn /\ v1 \in Users /\ v6 \in [Users -> SUBSET (Nat \ {0})]
    BY <1>1, <1>5 DEF SW!FollowsInv, SW!SWTokenTypeOK
  <2>2. v4 = Nobody => \E d \in v8' : d.why \in {"signin", "ensure"}
    BY <1>1, <1>2, <1>5, <2>1 DEF SW!SignedIn
  <2>3. /\ v6[v1] \subseteq v6'[v1]
        /\ c.of = v1 => c.endpoint \in v6'[v1]
    BY <1>1, <2>1
  <2>4. v2 # 0 =>
          \/ v2 \in v6'[v1]
          \/ \E d \in v8' : d.at = "enable" /\ d.of = v1 /\ d.endpoint = v2
    BY <1>1, <1>5, <2>1, <2>3 DEF SW!SignedIn
  <2> QED
    BY <1>1, <1>3, <1>5, <2>1, <2>2, <2>4 DEF SW!SignedOut, SW!SignedIn
<1> QED
  BY <1>4, <1>5

LEMMA UnsubscribeFollows ==
  ASSUME SW!FollowsInv, ~v11', NEW c \in v8, SW!unsubscribe(c)
  PROVE  (SW!SignedOut /\ SW!SignedIn)'
PROOF
<1>1. /\ ~v11 /\ c.at = "unsubscribe" /\ SW!ChainOK(c) /\ v1 \in Users \cup {Nobody}
      /\ v2' = 0 /\ UNCHANGED <<v1, v4>>
  BY DEF SW!unsubscribe, SW!FollowsInv, SW!SWTokenTypeOK
<1>2. c.why \in {"disable", "clear"}
  BY <1>1, KindOf
<1>3. CASE c.why = "clear"
  <2>1. v8' = (v8 \ {c}) \cup {SW!Chain("clear", Nobody, "clear")}
    BY <1>3 DEF SW!unsubscribe, SW!Continue
  <2>2. v1 = Nobody /\ SW!Enters = {}
    BY <1>1, <1>3 DEF SW!FollowsInv, SW!SignedIn, SW!SignedOut, SW!Leaves
  <2>3. SW!Enters' = {} /\ SW!Leaves' # {}
    BY <2>1, <2>2, Fields DEF SW!Enters, SW!Leaves, SW!InWorker
  <2> QED
    BY <1>1, <2>2, <2>3 DEF SW!SignedOut, SW!SignedIn
<1>4. CASE c.why = "disable"
  <2>1. PICK further \in SUBSET {SW!Chain("disable", v1, "disable")} :
          v8' = (v8 \ {c}) \cup further
    BY <1>4 DEF SW!unsubscribe, SW!Continue, SW!Request
  <2>2. /\ \A d \in further : d.why = "disable" /\ d.at = "disable"
        /\ \A d \in v8 : d.why # "disable" => d \in v8'
    BY <1>4, <2>1, Fields
  <2>3. SW!Enters' \subseteq SW!Enters /\ SW!Leaves' = SW!Leaves
    BY <1>4, <2>1, <2>2 DEF SW!Enters, SW!Leaves, SW!InWorker
  <2>4. v1 # Nobody /\ v4 = Nobody => \E d \in v8' : d.why \in {"signin", "ensure"}
    BY <1>1, <2>2 DEF SW!FollowsInv, SW!SignedIn
  <2> QED
    BY <1>1, <2>3, <2>4 DEF SW!FollowsInv, SW!SignedOut, SW!SignedIn
<1> QED
  BY <1>2, <1>3, <1>4

LEMMA DisableFollows ==
  ASSUME SW!FollowsInv, ~v11', NEW c \in v8, SW!disableNotifications(c)
  PROVE  (SW!SignedOut /\ SW!SignedIn)'
PROOF
<1>1. /\ ~v11 /\ c.at = "disable" /\ SW!ChainOK(c) /\ v8' = v8 \ {c}
      /\ UNCHANGED <<v1, v4, v2, v6>>
  BY DEF SW!disableNotifications, SW!Continue, SW!browser, SW!FollowsInv, SW!SWTokenTypeOK
<1>2. c.why = "disable"
  BY <1>1, KindOf
<1>3. SW!Enters' \subseteq SW!Enters /\ SW!Leaves' = SW!Leaves
  BY <1>1, <1>2 DEF SW!Enters, SW!Leaves
<1>4. \A d \in v8 : d.why \in {"signin", "ensure"} \/ d.at = "enable" => d \in v8'
  BY <1>1, <1>2
<1> QED
  BY <1>1, <1>3, <1>4 DEF SW!FollowsInv, SW!SignedOut, SW!SignedIn

LEMMA PushFollows ==
  ASSUME SW!FollowsInv, ~v11', NEW c \in v8, SW!onPush(c)
  PROVE  (SW!SignedOut /\ SW!SignedIn)'
PROOF
<1>1. /\ ~v11 /\ c.at \in {"load", "fetch", "show", "save"} /\ SW!ChainOK(c)
      /\ v4 \in Users \cup {Nobody}
      /\ UNCHANGED <<v1, v2, v6>>
  BY DEF SW!onPush, SW!InWorker, SW!server, SW!FollowsInv, SW!SWTokenTypeOK
<1>2. /\ v1 # Nobody /\ SW!SignedIn /\ c.of \in {Nobody, v1}
      /\ c.at \in SW!OfSomebody => c.of = v1
  BY <1>1, Entering DEF SW!InWorker
<1>3. c.why = "push"
  BY <1>1, KindOf
<1>4. PICK further : /\ v8' = (v8 \ {c}) \cup further
                     /\ c.at = "load" => further \subseteq {SW!Chain("fetch", v1, "push")}
                     /\ c.at = "fetch" => further = {[c EXCEPT !.at = "show"]}
                     /\ c.at = "show" => further = {[c EXCEPT !.at = "save"]}
                     /\ c.at = "save" => further = {}
  <2>1. v4 \in {Nobody, v1}
    BY <1>2 DEF SW!SignedIn
  <2> QED
    BY <1>1, <2>1 DEF SW!onPush, SW!Continue, SW!Request
<1>5. \A d \in further : d.why # "clear" /\ d.of \in {Nobody, v1}
  BY <1>1, <1>2, <1>3, <1>4, Fields DEF SW!ChainOK
<1>6. CASE c.at = "save"
  <2>1. v8' = v8 \ {c} /\ v4' = v1
    BY <1>2, <1>4, <1>6 DEF SW!onPush, SW!OfSomebody
  <2>2. SW!Leaves' = {} /\ SW!Enters' \subseteq SW!Enters
    BY <1>2, <2>1 DEF SW!SignedIn, SW!Leaves, SW!Enters
  <2> QED
    BY <1>1, <1>2, <1>6, <2>1, <2>2 DEF SW!SignedOut, SW!SignedIn
<1>7. CASE c.at # "save"
  <2>1. UNCHANGED v4
    BY <1>7 DEF SW!onPush
  <2> QED
    BY <1>1, <1>2, <1>3, <1>4, <1>5, <2>1, GoesOn
<1> QED
  BY <1>6, <1>7

(* A call that fails and does not disturb is not one that is counted on.    *)
LEMMA FailFollows ==
  ASSUME SW!FollowsInv, ~v11', NEW c \in v8, SW!Fail(c)
  PROVE  (SW!SignedOut /\ SW!SignedIn)'
PROOF
<1>1. /\ ~v11 /\ c.why \notin {"signin", "ensure", "clear"} /\ c.at # "enable"
      /\ UNCHANGED <<v1, v4, v2, v6>>
  BY DEF SW!Fail, SW!browser, SW!server, SW!FollowsInv, SW!SWTokenTypeOK
<1>2. CASE c.at # "existing?"
  <2>1. v8' = v8 \ {c}
    BY <1>2 DEF SW!Fail
  <2>2. SW!Enters' \subseteq SW!Enters /\ SW!Leaves' = SW!Leaves
    BY <1>1, <2>1 DEF SW!Enters, SW!Leaves
  <2>3. \A d \in v8 : d.why \in {"signin", "ensure"} \/ d.at = "enable" => d \in v8'
    BY <1>1, <2>1
  <2> QED
    BY <1>1, <2>2, <2>3 DEF SW!FollowsInv, SW!SignedOut, SW!SignedIn
<1>3. CASE c.at = "existing?"
  <2>1. PICK further \in SUBSET {SW!Chain("subscribe", Nobody, "auto")} :
          v8' = (v8 \ {c}) \cup further
    BY <1>3 DEF SW!Fail, SW!subscribe
  <2>2. v1 # Nobody
    BY <1>1, <1>3, Entering
  <2>3. \A d \in further : d.why # "clear" /\ d.of \in {Nobody, v1}
    BY <2>1, Fields
  <2> QED
    BY <1>1, <2>1, <2>2, <2>3, GoesOn
<1> QED
  BY <1>2, <1>3

LEMMA FollowsInit == SW!Init => SW!FollowsInv
PROOF
<1> SUFFICES ASSUME SW!Init
             PROVE  SW!FollowsInv
  OBVIOUS
<1>1. v6 \in [Users -> SUBSET (Nat \ {0})]
  BY DEF SW!Init
<1>2. SW!SWTokenTypeOK
  BY <1>1 DEF SW!Init, SW!SWTokenTypeOK
<1>3. SW!SignedOut /\ SW!SignedIn
  BY DEF SW!Init, SW!SignedOut, SW!SignedIn, SW!Enters
<1> QED
  BY <1>2, <1>3 DEF SW!FollowsInv

LEMMA FollowsStep ==
  ASSUME SW!FollowsInv, [SW!Next]_SW!vars
  PROVE  SW!FollowsInv'
PROOF
<1>1. CASE UNCHANGED SW!vars
  BY <1>1 DEF SW!vars, SW!FollowsInv, SW!SWTokenTypeOK, SW!SignedOut, SW!SignedIn,
              SW!Enters, SW!Leaves
<1>2. SW!SWTokenTypeOK
  BY DEF SW!FollowsInv
<1>3. CASE (\E u \in Users : SW!SignIn(u)) \/ SW!SignOut \/ SW!Reload \/ SW!bookmarkSessionNotification
           \/ SW!updateNotifyUser \/ SW!Push
  BY <1>2, <1>3, InputTypes, SignInFollows, SignOutFollows, ReloadFollows, InputFollows
     DEF SW!FollowsInv
<1>4. ASSUME NEW c \in v8,
             \/ SW!sendCodeToServer(c) \/ SW!ensureSWToken(c) \/ SW!clearSWToken(c)
             \/ SW!isNotifyEnabled(c) \/ SW!isExistingSubscription(c)
             \/ SW!subscribePromise(c) \/ SW!enableNotifications(c)
             \/ SW!unsubscribe(c) \/ SW!disableNotifications(c) \/ SW!onPush(c) \/ SW!Fail(c)
      PROVE  SW!FollowsInv'
  BY <1>2, <1>4, StepTypes, CodeFollows, EnsureFollows, ClearFollows, AutoFollows,
     SubscribeFollows, EnableFollows, UnsubscribeFollows, DisableFollows, PushFollows,
     FailFollows DEF SW!FollowsInv
<1> QED
  BY <1>1, <1>3, <1>4 DEF SW!Next

LEMMA FollowsImplied == SW!FollowsInv => SW!SubscriptionFollowsUser
PROOF
<1> SUFFICES ASSUME SW!FollowsInv, ~v11
             PROVE  /\ \A c \in v8 : c.at = "show" => c.of = v1
                    /\ v8 = {} =>
                         /\ v4 = v1
                         /\ v1 = Nobody => v2 = 0
                         /\ (v1 # Nobody /\ v2 # 0 /\ v5[v1]) =>
                              v2 \in v6[v1]
  BY DEF SW!SubscriptionFollowsUser
<1>1. ASSUME NEW c \in v8, c.at = "show"
      PROVE  c.of = v1
  BY <1>1, Entering DEF SW!InWorker, SW!OfSomebody
<1>2. CASE v8 = {}
  BY <1>2 DEF SW!FollowsInv, SW!SignedOut, SW!SignedIn, SW!Leaves
<1> QED
  BY <1>1, <1>2

LEMMA SubscriptionInit == PartsInit => (part = "subscription" => SW!FollowsInv)
  BY FollowsInit DEF PartsInit, PartInit

LEMMA SubscriptionStep ==
  ASSUME part = "subscription" => SW!FollowsInv, [PartsNext]_<<vars, part, state>>
  PROVE  (part = "subscription" => SW!FollowsInv)'
PROOF
<1>1. part' = part
  BY PartSteps
<1> SUFFICES ASSUME part = "subscription", SW!FollowsInv
             PROVE  SW!FollowsInv'
  BY <1>1
<1>2. SW!Next \/ UNCHANGED state
  BY PartSteps
<1>3. CASE UNCHANGED state
  <2>1. UNCHANGED SW!vars
    BY <1>3 DEF state, SW!vars
  <2> QED
    BY <2>1, FollowsStep
<1> QED
  BY <1>2, <1>3, FollowsStep

(* However a user signs in and out, turns notifications on and off and      *)
(* reloads the page, and however the requests of the page and of its        *)
(* service worker overlap, the browser is subscribed for, and asks for the  *)
(* updates of, the user who is signed in - unless a call on which that      *)
(* depends has failed, or the account has changed in the middle of one.     *)
THEOREM SubscriptionFollows == PartsSpec => []SubscriptionFollowsUser
PROOF
<1>1. (part = "subscription" => SW!FollowsInv) => SubscriptionFollowsUser
  BY FollowsImplied DEF SubscriptionFollowsUser
<1> QED
  BY SubscriptionInit, SubscriptionStep, <1>1, PTL DEF PartsSpec

------------------------------------------------------------------------------
(***************************************************************************)
(* The guitar.  v3 are the strings by pid, v4 the strings of the dots, v5  *)
(* the strings, v6 the pool of pids, v7, v8 and v9 the one that is drawn.  *)
(***************************************************************************)
LEMMA SameCardinality ==
  ASSUME NEW S
  PROVE  /\ Guitars!Cardinality(S) = Cardinality(S)
         /\ Guitars!IsFiniteSet(S) <=> IsFiniteSet(S)
  BY DEF Guitars!Cardinality, Guitars!IsFiniteSet, Cardinality, IsFiniteSet

LEMMA NewStringIsNew ==
  ASSUME Guitars!PoolInv, Guitars!StringsInv, NEW n \in Nat, n \notin DOMAIN v3
  PROVE  /\ Guitars!NewString(n)[1] = n /\ Guitars!NewString(n) # Guitars!Free
         /\ Guitars!NewString(n) \notin DOMAIN v5
PROOF
<1> DEFINE size == Cardinality(DOMAIN v5)
           K    == {k \in 1..(size + 1) : <<n, k>> \notin DOMAIN v5}
<1>1. \A i \in DOMAIN v5 : i[1] # n
  BY DEF Guitars!StringsInv
<1>2. size \in Nat
  <2>1. DOMAIN v5 = {v3[p] : p \in DOMAIN v3}
    BY DEF Guitars!StringsInv
  <2>2. [p \in DOMAIN v3 |-> v3[p]]
          \in Surjection(DOMAIN v3, DOMAIN v5)
    BY <2>1 DEF Surjection
  <2>3. IsFiniteSet(DOMAIN v3)
    BY SameCardinality DEF Guitars!PoolInv
  <2>4. IsFiniteSet(DOMAIN v5)
    BY <2>2, <2>3, FS_Surjection
  <2> QED
    BY <2>4, FS_CardinalityType
<1>3. 1 \in K
  BY <1>1, <1>2
<1>4. Guitars!NewString(n) = <<n, CHOOSE k \in K : TRUE>>
  BY SameCardinality DEF Guitars!NewString
<1>5. PICK k \in K : Guitars!NewString(n) = <<n, k>>
  BY <1>3, <1>4
<1> QED
  BY <1>1, <1>2, <1>5 DEF Guitars!Free

LEMMA KeptAll ==
  ASSUME NEW os, NEW map, NEW ds,
         os = [i \in {map[p] : p \in DOMAIN map} |-> os[i]]
  PROVE  Guitars!Kept(os, map, ds) = os
PROOF
<1>1. {j \in DOMAIN os : (\E p \in DOMAIN map : map[p] = j) \/ \E d \in Dots : ds[d] = j}
        = {map[p] : p \in DOMAIN map}
  OBVIOUS
<1>2. Guitars!Kept(os, map, ds) = [i \in {map[p] : p \in DOMAIN map} |-> os[i]]
  BY <1>1 DEF Guitars!Kept
<1> QED
  BY <1>2

(* While no string is drawn and there is a dot without one, there is a pid  *)
(* left: of the strings that use them up, each has two dots.                *)
LEMMA PoolLasts ==
  ASSUME Guitars!PoolInv, Guitars!StringsInv, Guitars!DrawInv, ~v7, ~v8,
         NEW d \in Dots, v4[d] = Guitars!Free
  PROVE  v6 # << >>
PROOF
<1> SUFFICES ASSUME v6 = << >>
             PROVE  FALSE
  OBVIOUS
<1> DEFINE size == Cardinality(Dots)
           m == Guitars!maxStrings
<1>1. size \in Nat /\ m \in Nat /\ 2 * m >= size
  <2>1. size \in Nat
    BY GuitarAssumption, FS_CardinalityType
  <2>2. m = (size + 1) \div 2
    BY SameCardinality DEF Guitars!maxStrings
  <2> HIDE DEF size, m
  <2> QED
    BY <2>1, <2>2
<1> HIDE DEF m
<1>2. \A n \in 0..(m - 1) : n \in DOMAIN v3
  BY DEF Guitars!PoolInv, m
<1>3. \A n \in 0..(m - 1) : /\ Guitars!String(n).first \in Dots \ {d} /\ Guitars!String(n).second \in Dots \ {d}
                            /\ Guitars!String(n).first # Guitars!String(n).second
  <2> TAKE n \in 0..(m - 1)
  <2>1. n \in DOMAIN v3
    BY <1>2
  <2>2. v3[n] # Guitars!Free /\ Guitars!String(n).second # Guitars!None
    BY <2>1 DEF Guitars!StringsInv, Guitars!DrawInv
  <2> QED
    BY <2>1, <2>2 DEF Guitars!StringsInv
<1>4. ASSUME NEW n \in 0..(m - 1), NEW k \in 0..(m - 1), n # k
      PROVE  {Guitars!String(n).first, Guitars!String(n).second} \cap {Guitars!String(k).first, Guitars!String(k).second} = {}
  <2>1. n \in DOMAIN v3 /\ k \in DOMAIN v3
    BY <1>2
  <2>2. v3[n] # v3[k]
    BY <2>1, <1>4 DEF Guitars!StringsInv
  <2>3. \A e \in {Guitars!String(n).first, Guitars!String(n).second} : e \in Dots /\ v4[e] = v3[n]
    BY <1>3, <2>1 DEF Guitars!StringsInv
  <2>4. \A e \in {Guitars!String(k).first, Guitars!String(k).second} : e \in Dots /\ v4[e] = v3[k]
    BY <1>3, <2>1 DEF Guitars!StringsInv
  <2> QED
    BY <2>2, <2>3, <2>4
<1> DEFINE end(k) == IF k <= m THEN Guitars!String(k - 1).first ELSE Guitars!String(k - m - 1).second
           f == [k \in 1..(2 * m) |-> end(k)]
<1>5. f \in [1..(2 * m) -> Dots \ {d}]
  <2>1. \A k \in 1..(2 * m) : end(k) \in Dots \ {d}
    <3> TAKE k \in 1..(2 * m)
    <3>1. CASE k <= m
      <4>1. k - 1 \in 0..(m - 1)
        BY <1>1, <3>1
      <4> QED
        BY <1>3, <3>1, <4>1
    <3>2. CASE ~(k <= m)
      <4>1. k - m - 1 \in 0..(m - 1)
        BY <1>1, <3>2
      <4> QED
        BY <1>3, <3>2, <4>1
    <3> QED
      BY <3>1, <3>2
  <2> HIDE DEF end
  <2> QED
    BY <2>1
<1>6. \A j, k \in 1..(2 * m) : end(j) = end(k) => j = k
  <2> SUFFICES ASSUME NEW j \in 1..(2 * m), NEW k \in 1..(2 * m), end(j) = end(k)
               PROVE  j = k
    OBVIOUS
  <2> DEFINE of(x) == IF x <= m THEN x - 1 ELSE x - m - 1
  <2>1. ASSUME NEW x \in 1..(2 * m)
        PROVE  of(x) \in 0..(m - 1) /\ end(x) \in {Guitars!String(of(x)).first, Guitars!String(of(x)).second}
    <3>1. of(x) \in 0..(m - 1)
      BY <1>1
    <3>2. CASE x <= m
      BY <3>1, <3>2
    <3>3. CASE ~(x <= m)
      BY <3>1, <3>3
    <3> QED
      BY <3>1, <3>2, <3>3
  <2>2. of(j) = of(k)
    <3> HIDE DEF end, of
    <3> QED
      BY <1>4, <2>1
  <2>3. j <= m <=> k <= m
    <3>1. Guitars!String(of(j)).first # Guitars!String(of(j)).second
      BY <1>3, <2>1
    <3>2. CASE j <= m /\ ~(k <= m)
      <4>1. end(j) = Guitars!String(of(j)).first /\ end(k) = Guitars!String(of(k)).second
        BY <3>2
      <4> QED
        BY <2>2, <3>1, <4>1
    <3>3. CASE ~(j <= m) /\ k <= m
      <4>1. end(j) = Guitars!String(of(j)).second /\ end(k) = Guitars!String(of(k)).first
        BY <3>3
      <4> QED
        BY <2>2, <3>1, <4>1
    <3> QED
      BY <3>2, <3>3
  <2> QED
    BY <1>1, <2>2, <2>3
<1> HIDE DEF end
<1>7. f \in Injection(1..(2 * m), Dots \ {d})
  BY <1>5, <1>6 DEF Injection, IsInjective
<1>8. IsFiniteSet(Dots \ {d}) /\ Cardinality(Dots \ {d}) = size - 1
  BY GuitarAssumption, FS_RemoveElement
<1>9. Cardinality(1..(2 * m)) = 2 * m
  <2> HIDE DEF f
  <2> QED
    BY <1>1, FS_Interval
<1>10. Cardinality(1..(2 * m)) <= Cardinality(Dots \ {d})
  <2> HIDE DEF f
  <2> QED
    BY <1>7, <1>8, FS_Injection
<1> HIDE DEF size
<1> QED
  BY <1>1, <1>8, <1>9, <1>10

LEMMA StringStarts ==
  ASSUME Guitars!PoolInv, Guitars!StringsInv, Guitars!DrawInv, NEW d \in Dots,
         v4[d] = Guitars!Free,
         ~v7, ~v8, Guitars!startString(d)
  PROVE  (Guitars!PoolInv /\ Guitars!StringsInv /\ Guitars!DrawInv)'
PROOF
<1> DEFINE T == [n : Nat, text : {FALSE}]
           len == Len(v6)
           pid == v6[len]
           n == pid.n
           id == Guitars!NewString(n)
           new == [pid |-> pid, first |-> d, second |-> Guitars!None, tornDown |-> FALSE]
           os == Guitars!Put(v5, id, new)
           map == Guitars!Put(v3, n, id)
           ds == [v4 EXCEPT ![d] = id]
<1>1. v6 # << >> /\ v6 \in Seq(T)
  BY PoolLasts DEF Guitars!PoolInv
<1>2. len \in Nat /\ len > 0 /\ len \in DOMAIN v6 /\ pid \in T
  <2> HIDE DEF T
  <2>1. len \in Nat /\ len # 0
    BY <1>1, EmptySeq
  <2> QED
    BY <1>1, <2>1, ElementOfSeq
<1>3. n \in Nat /\ pid = Guitars!Pid(n) /\ n \notin DOMAIN v3
  <2>1. n \in Nat /\ pid = Guitars!Pid(n)
    <3> HIDE DEF pid
    <3> QED
      BY <1>2 DEF Guitars!Pid
  <2> QED
    BY <1>2, <2>1 DEF Guitars!PoolInv
<1>4. id[1] = n /\ id # Guitars!Free /\ id \notin DOMAIN v5
  <2> HIDE DEF n
  <2> QED
    BY <1>3, NewStringIsNew
<1>5. Guitars!Last(v6) = pid /\ Guitars!Front(v6) = SubSeq(v6, 1, len - 1)
  BY DEF Guitars!Last, Guitars!Front
<1> HIDE DEF len, pid, T
<1>6. /\ v6' = SubSeq(v6, 1, len - 1)
      /\ v9' = n /\ v7' = TRUE /\ v8' = v8
      /\ v3' = map /\ v4' = ds /\ v5' = Guitars!Kept(os, map, ds)
  BY <1>1, <1>5 DEF Guitars!startString, Guitars!setString
<1> HIDE DEF n
<1>7. DOMAIN map = DOMAIN v3 \cup {n} /\ map[n] = id
      /\ \A p \in DOMAIN v3 : map[p] = v3[p]
  BY <1>3 DEF Guitars!Put
<1> HIDE DEF id
<1>8. DOMAIN os = DOMAIN v5 \cup {id} /\ os[id] = new
      /\ \A i \in DOMAIN v5 : os[i] = v5[i]
  BY <1>4 DEF Guitars!Put
<1>9. v5' = os
  <2>1. DOMAIN v5 = {v3[p] : p \in DOMAIN v3}
    BY DEF Guitars!StringsInv
  <2>2. DOMAIN os = {map[p] : p \in DOMAIN map}
    <3> HIDE DEF os, map
    <3> QED
      BY <1>7, <1>8, <2>1
  <2>3. os = [i \in DOMAIN os |-> os[i]]
    BY DEF Guitars!Put
  <2> HIDE DEF os, map, ds
  <2> QED
    BY <1>6, <2>2, <2>3, KeptAll
<1>10. Guitars!PoolInv'
  <2>1. /\ SubSeq(v6, 1, len - 1) \in Seq(T)
        /\ Len(SubSeq(v6, 1, len - 1)) = len - 1
        /\ \A k \in 1..(len - 1) : SubSeq(v6, 1, len - 1)[k] = v6[k]
    <3>1. \A k \in 1..(len - 1) : v6[k] \in T
      BY <1>1, <1>2, ElementOfSeq DEF len
    <3> QED
      BY <1>2, <3>1, SubSeqProperties
  <2>2. DOMAIN v6 = 1..len /\ DOMAIN (v6') = 1..(len - 1)
        /\ \A k \in 1..(len - 1) : v6'[k] = v6[k]
    BY <1>1, <1>2, <1>6, <2>1 DEF len
  <2>3. v6' \in Seq(T)
    BY <1>6, <2>1
  <2>4. Guitars!IsInjective(v6)'
    BY <1>2, <2>2 DEF Guitars!IsInjective, Guitars!PoolInv
  <2>5. \A k \in DOMAIN (v6') : v6'[k].n \notin DOMAIN map
    <3> TAKE k \in DOMAIN (v6')
    <3>1. k \in 1..len /\ k # len /\ v6'[k] = v6[k]
      BY <1>2, <2>2
    <3>2. v6[k] # pid
      BY <1>2, <2>2, <3>1 DEF Guitars!IsInjective, Guitars!PoolInv, pid
    <3>3. v6[k] \in T
      BY <1>1, <3>1, ElementOfSeq DEF len
    <3>4. v6[k] = Guitars!Pid(v6[k].n)
      BY <3>3 DEF Guitars!Pid, T
    <3>5. v6[k].n # n
      BY <1>3, <3>2, <3>4
    <3>6. v6[k].n \notin DOMAIN v3
      BY <2>2, <3>1 DEF Guitars!PoolInv
    <3> QED
      BY <1>7, <3>1, <3>5, <3>6
  <2>6. ASSUME NEW j \in 0..(Guitars!maxStrings - 1)
        PROVE  j \in DOMAIN map \/ \E k \in DOMAIN (v6') : v6'[k] = Guitars!Pid(j)
    <3>1. CASE j \in DOMAIN v3
      BY <1>7, <3>1
    <3>2. CASE j \notin DOMAIN v3
      <4>1. PICK k \in DOMAIN v6 : v6[k] = Guitars!Pid(j)
        BY <3>2 DEF Guitars!PoolInv
      <4>2. CASE k = len
        <5>1. Guitars!Pid(j) = Guitars!Pid(n)
          BY <1>3, <4>1, <4>2 DEF pid
        <5>2. j = n
          BY <5>1 DEF Guitars!Pid
        <5> QED
          BY <1>7, <5>2
      <4>3. CASE k # len
        <5>1. k \in 1..(len - 1)
          BY <1>2, <2>2, <4>3
        <5> QED
          BY <2>2, <4>1, <5>1
      <4> QED
        BY <4>2, <4>3
    <3> QED
      BY <3>1, <3>2
  <2>7. DOMAIN map \subseteq Nat /\ IsFiniteSet(DOMAIN map)
    <3>1. IsFiniteSet(DOMAIN v3) /\ DOMAIN v3 \subseteq Nat
      BY SameCardinality DEF Guitars!PoolInv
    <3> QED
      BY <1>3, <1>7, <3>1, FS_AddElement
  <2>8. Guitars!IsFiniteSet(DOMAIN map)
    BY <2>7, SameCardinality
  <2> HIDE DEF map
  <2> QED
    BY <1>6, <2>3, <2>4, <2>5, <2>6, <2>7, <2>8 DEF Guitars!PoolInv, T
<1>11. /\ \A p \in DOMAIN v3 : os[map[p]] = Guitars!String(p) /\ map[p] \in DOMAIN v5
       /\ os[map[n]] = new
  <2>1. \A p \in DOMAIN v3 : v3[p] \in DOMAIN v5 /\ v5[v3[p]] = Guitars!String(p)
    BY DEF Guitars!String, Guitars!StringsInv
  <2>2. ASSUME NEW p \in DOMAIN v3
        PROVE  os[map[p]] = Guitars!String(p) /\ map[p] \in DOMAIN v5
    <3>1. map[p] = v3[p]
      BY <1>7
    <3>2. os[v3[p]] = v5[v3[p]]
      BY <1>8, <2>1
    <3> QED
      BY <2>1, <3>1, <3>2
  <2>3. os[map[n]] = new
    BY <1>7, <1>8
  <2> QED
    BY <2>2, <2>3
<1> HIDE DEF map, os
<1>12. Guitars!StringsInv'
  <2>1. \A p \in DOMAIN map : map[p][1] = p /\ map[p] # Guitars!Free
    BY <1>4, <1>7 DEF Guitars!StringsInv
  <2>2. DOMAIN v5 = {v3[p] : p \in DOMAIN v3}
    BY DEF Guitars!StringsInv
  <2>3. DOMAIN os = {map[p] : p \in DOMAIN map} /\ os = [i \in DOMAIN os |-> os[i]]
    <3>1. DOMAIN os = {map[p] : p \in DOMAIN map}
      BY <1>7, <1>8, <2>2
    <3> QED
      BY <3>1 DEF os, Guitars!Put
  <2>4. ds \in [Dots -> DOMAIN os \cup {Guitars!Free}] /\ ds[d] = id
        /\ \A e \in Dots \ {d} : ds[e] = v4[e]
    BY <1>8 DEF Guitars!StringsInv
  <2>5. ASSUME NEW p \in DOMAIN map
        PROVE  /\ os[map[p]] \in [pid : {Guitars!Pid(p)}, first : Dots, second : Dots \cup {Guitars!None},
                                  tornDown : BOOLEAN]
               /\ os[map[p]].first # os[map[p]].second
               /\ \A e \in Dots : ds[e] = map[p]
                                    <=> e \in {os[map[p]].first, os[map[p]].second}
    <3>1. CASE p = n
      <4>1. os[map[p]] = new /\ map[p] = id
        BY <1>7, <1>11, <3>1
      <4>2. Guitars!None \notin Dots
        BY PartsAssumption DEF Guitars!None
      <4>3. \A e \in Dots \ {d} : v4[e] # id
        BY <1>4 DEF Guitars!StringsInv
      <4> QED
        BY <1>3, <2>4, <3>1, <4>1, <4>2, <4>3
    <3>2. CASE p # n
      <4>1. p \in DOMAIN v3
        BY <1>7, <3>2
      <4>2. os[map[p]] = Guitars!String(p) /\ map[p] = v3[p] /\ map[p] # id
        BY <1>4, <1>7, <1>11, <4>1
      <4>3. d \notin {Guitars!String(p).first, Guitars!String(p).second}
        BY <4>1 DEF Guitars!StringsInv
      <4> QED
        BY <2>4, <4>1, <4>2, <4>3 DEF Guitars!StringsInv
    <3> QED
      BY <3>1, <3>2
  <2> HIDE DEF ds
  <2> QED
    BY <1>6, <1>9, <2>1, <2>3, <2>4, <2>5 DEF Guitars!StringsInv, Guitars!String
<1>13. Guitars!DrawInv'
  <2>1. \A p \in DOMAIN map : os[map[p]].second = Guitars!None <=> p = n
    <3>1. \A p \in DOMAIN v3 : Guitars!String(p).second # Guitars!None
      BY DEF Guitars!DrawInv
    <3> QED
      BY <1>3, <1>7, <1>11, <3>1
  <2> QED
    BY <1>6, <1>7, <1>9, <2>1 DEF Guitars!DrawInv, Guitars!String
<1> QED
  BY <1>10, <1>12, <1>13
LEMMA PidsDiffer ==
  ASSUME Guitars!StringsInv, NEW p \in DOMAIN v3, NEW q \in DOMAIN v3, p # q
  PROVE  v3[p] # v3[q] /\ v3[p] # Guitars!Free
  BY DEF Guitars!StringsInv

(* What StringsInv says of the strings, the objects and the dots to come.   *)
LEMMA StringsFollow ==
  ASSUME NEW map, v3' = map,
         \A p \in DOMAIN map : map[p][1] = p /\ map[p] # Guitars!Free,
         DOMAIN v5' = {map[p] : p \in DOMAIN map},
         v5' = [i \in DOMAIN v5' |-> v5'[i]],
         v4' \in [Dots -> DOMAIN v5' \cup {Guitars!Free}],
         \A p \in DOMAIN map :
           /\ v5'[map[p]] \in [pid : {Guitars!Pid(p)}, first : Dots, second : Dots \cup {Guitars!None},
                                    tornDown : BOOLEAN]
           /\ v5'[map[p]].first # v5'[map[p]].second
           /\ \A e \in Dots : v4'[e] = map[p]
                                <=> e \in {v5'[map[p]].first, v5'[map[p]].second}
  PROVE  Guitars!StringsInv'
PROOF
<1>1. (\A p \in DOMAIN v3 : v3[p][1] = p /\ v3[p] # Guitars!Free)'
  OBVIOUS
<1>2. (v5 = [i \in {v3[p] : p \in DOMAIN v3} |-> v5[i]])'
  OBVIOUS
<1>3. (v4 \in [Dots -> DOMAIN v5 \cup {Guitars!Free}])'
  OBVIOUS
<1>4. (\A p \in DOMAIN v3 :
        LET s == v5[v3[p]]
        IN  /\ s \in [pid : {Guitars!Pid(p)}, first : Dots, second : Dots \cup {Guitars!None},
                      tornDown : BOOLEAN]
            /\ s.first # s.second
            /\ \A e \in Dots : v4[e] = v3[p] <=> e \in {s.first, s.second})'
  OBVIOUS
<1> QED
  BY <1>1, <1>2, <1>3, <1>4 DEF Guitars!StringsInv, Guitars!String

(* A string and the object that changes.                                    *)
LEMMA ObjectChanges ==
  ASSUME Guitars!StringsInv, NEW q \in DOMAIN v3, NEW o, NEW ds,
         v5' = Guitars!Kept([v5 EXCEPT ![v3[q]] = o], v3, ds),
         UNCHANGED v3
  PROVE  /\ DOMAIN v5' = {v3[p] : p \in DOMAIN v3}
         /\ v5' = [i \in DOMAIN v5' |-> v5'[i]]
         /\ v5'[v3[q]] = o
         /\ \A p \in DOMAIN v3 : p # q => v5'[v3[p]] = Guitars!String(p)
PROOF
<1> DEFINE os == [v5 EXCEPT ![v3[q]] = o]
           is == {v3[p] : p \in DOMAIN v3}
<1>1. v5 = [i \in is |-> v5[i]] /\ v3[q] \in is
  BY DEF Guitars!StringsInv
<1>2. os = [i \in is |-> os[i]]
  BY <1>1
<1>3. v5' = os
  <2>1. v5' = Guitars!Kept(os, v3, ds)
    OBVIOUS
  <2> HIDE DEF os
  <2> QED
    BY <1>2, <2>1, KeptAll
<1>4. \A p \in DOMAIN v3 :
        p # q => v3[p] # v3[q] /\ v3[p] \in is
  BY DEF Guitars!StringsInv
<1>5. os[v3[q]] = o /\ \A p \in DOMAIN v3 : p # q => os[v3[p]] = Guitars!String(p)
  BY <1>1, <1>4 DEF Guitars!String
<1> HIDE DEF os
<1>6. DOMAIN os = is /\ os = [i \in DOMAIN os |-> os[i]]
  BY <1>2
<1> QED
  BY <1>3, <1>5, <1>6

LEMMA PoolStands ==
  ASSUME Guitars!PoolInv, UNCHANGED <<v6, v3>>
  PROVE  Guitars!PoolInv'
  BY DEF Guitars!PoolInv

LEMMA StringEnds ==
  ASSUME Guitars!PoolInv, Guitars!StringsInv, Guitars!DrawInv, NEW d \in Dots,
         v4[d] = Guitars!Free,
         v7 # v8, Guitars!endString(d)
  PROVE  (Guitars!PoolInv /\ Guitars!StringsInv /\ Guitars!DrawInv)'
PROOF
<1> DEFINE q == v9
           s == Guitars!String(q)
           o == Guitars!setSecondDot(s, d)
           ds == [v4 EXCEPT ![d] = v3[q]]
<1>1. q \in DOMAIN v3 /\ (v7 \/ v8)
  BY DEF Guitars!DrawInv
<1>2. /\ v7' = FALSE /\ v8' = FALSE
      /\ UNCHANGED <<v3, v6, v9>>
      /\ v4' = ds
      /\ v5' = Guitars!Kept([v5 EXCEPT ![v3[q]] = o], v3, ds)
  BY <1>1 DEF Guitars!endString, Guitars!setString, Guitars!setSecondDot, Guitars!String
<1>3. /\ s \in [pid : {Guitars!Pid(q)}, first : Dots, second : Dots \cup {Guitars!None},
                tornDown : BOOLEAN]
      /\ s.second = Guitars!None /\ \A e \in Dots : v4[e] = v3[q] <=> e = s.first
  <2>1. s.second = Guitars!None /\ Guitars!None \notin Dots
    BY <1>1, PartsAssumption DEF Guitars!DrawInv, Guitars!None
  <2> QED
    BY <1>1, <2>1 DEF Guitars!StringsInv
<1>4. o.pid = s.pid /\ o.first = s.first /\ o.second = d /\ s.first # d
      /\ o \in [pid : {Guitars!Pid(q)}, first : Dots, second : Dots \cup {Guitars!None},
                tornDown : BOOLEAN]
  <2>1. v3[q] # Guitars!Free
    BY <1>1 DEF Guitars!StringsInv
  <2> QED
    BY <1>3, <2>1 DEF Guitars!setSecondDot
<1> HIDE DEF q, s, o
<1>5. /\ DOMAIN v5' = {v3[p] : p \in DOMAIN v3}
      /\ v5' = [i \in DOMAIN v5' |-> v5'[i]]
      /\ v5'[v3[q]] = o
      /\ \A p \in DOMAIN v3 : p # q => v5'[v3[p]] = Guitars!String(p)
  <2> HIDE DEF ds
  <2> QED
    BY <1>1, <1>2, ObjectChanges
<1>6. /\ \A e \in Dots : v4'[e] = v3[q] <=> e \in {o.first, o.second}
      /\ v4' \in [Dots -> DOMAIN v5' \cup {Guitars!Free}]
  <2>1. /\ v4 \in [Dots -> DOMAIN v5 \cup {Guitars!Free}]
        /\ v3[q] \in DOMAIN v5 /\ DOMAIN v5' = DOMAIN v5
    BY <1>1, <1>5 DEF Guitars!StringsInv
  <2> QED
    BY <1>2, <1>3, <1>4, <2>1
<1>7. ASSUME NEW p \in DOMAIN v3, p # q
      PROVE  \A e \in Dots : v4'[e] = v3[p] <=> v4[e] = v3[p]
  <2>1. v3[p] # v3[q] /\ v3[p] # Guitars!Free
    BY <1>1, <1>7, PidsDiffer
  <2> QED
    BY <1>2, <2>1 DEF Guitars!StringsInv
<1> HIDE DEF ds
<1>8. Guitars!StringsInv'
  <2>1. \A p \in DOMAIN v3 : v3[p][1] = p /\ v3[p] # Guitars!Free
    BY DEF Guitars!StringsInv
  <2>2. \A p \in DOMAIN v3 :
          /\ v5'[v3[p]] \in [pid : {Guitars!Pid(p)}, first : Dots,
                                             second : Dots \cup {Guitars!None}, tornDown : BOOLEAN]
          /\ v5'[v3[p]].first # v5'[v3[p]].second
          /\ \A e \in Dots : v4'[e] = v3[p]
                 <=> e \in {v5'[v3[p]].first, v5'[v3[p]].second}
    <3> TAKE p \in DOMAIN v3
    <3>1. CASE p = q
      BY <1>4, <1>5, <1>6, <3>1
    <3>2. CASE p # q
      BY <1>5, <1>7, <3>2 DEF Guitars!StringsInv
    <3> QED
      BY <3>1, <3>2
  <2> QED
    BY <1>2, <1>5, <1>6, <2>1, <2>2, StringsFollow
<1>9. Guitars!DrawInv'
  <2>1. \A p \in DOMAIN v3 : v5'[v3[p]].second # Guitars!None
    <3>1. d # Guitars!None
      BY PartsAssumption DEF Guitars!None
    <3> QED
      BY <1>1, <1>4, <1>5, <3>1 DEF Guitars!DrawInv, q
  <2> QED
    BY <1>1, <1>2, <2>1 DEF Guitars!DrawInv, Guitars!String
<1> QED
  BY <1>2, <1>8, <1>9, PoolStands

LEMMA StringRestarts ==
  ASSUME Guitars!PoolInv, Guitars!StringsInv, Guitars!DrawInv, NEW d \in Dots,
         v4[d] # Guitars!Free,
         ~v7, ~v8, Guitars!restartString(d)
  PROVE  (Guitars!PoolInv /\ Guitars!StringsInv /\ Guitars!DrawInv)'
PROOF
<1>1. PICK q \in DOMAIN v3 : v4[d] = v3[q]
  BY DEF Guitars!StringsInv
<1> DEFINE s == Guitars!String(q)
           moved == IF s.first = d THEN Guitars!setFirstDot(s, s.second) ELSE s
           o == Guitars!setSecondDot(moved, Guitars!None)
           ds == [v4 EXCEPT ![d] = Guitars!Free]
<1>2. s \in [pid : {Guitars!Pid(q)}, first : Dots, second : Dots \cup {Guitars!None},
             tornDown : BOOLEAN]
      /\ s.first # s.second /\ s.second # Guitars!None /\ d \in {s.first, s.second}
  BY <1>1 DEF Guitars!StringsInv, Guitars!DrawInv
<1>3. /\ v7' = v7 /\ v8' = TRUE /\ v9' = q
      /\ UNCHANGED <<v3, v6>>
      /\ v4' = ds
      /\ v5' = Guitars!Kept([v5 EXCEPT ![v3[q]] = o], v3, ds)
  <2>1. v5[v4[d]] = s /\ s.pid.n = q
    BY <1>1, <1>2 DEF Guitars!String, Guitars!Pid
  <2> QED
    BY <1>1, <2>1 DEF Guitars!restartString, Guitars!setString, Guitars!getFirstDot
<1>4. /\ o \in [pid : {Guitars!Pid(q)}, first : Dots, second : {Guitars!None},
                tornDown : BOOLEAN]
      /\ o.second = Guitars!None /\ o.first # d /\ {s.first, s.second} = {o.first, d}
  <2>1. CASE s.first = d
    BY <1>2, <2>1 DEF Guitars!setSecondDot, Guitars!setFirstDot
  <2>2. CASE s.first # d
    BY <1>2, <2>2 DEF Guitars!setSecondDot, Guitars!setFirstDot
  <2> QED
    BY <2>1, <2>2
<1>5. \A e \in Dots : v4[e] = v3[q] <=> e \in {o.first, d}
  BY <1>1, <1>4 DEF Guitars!StringsInv
<1> HIDE DEF s, o
<1>6. /\ DOMAIN v5' = {v3[p] : p \in DOMAIN v3}
      /\ v5' = [i \in DOMAIN v5' |-> v5'[i]]
      /\ v5'[v3[q]] = o
      /\ \A p \in DOMAIN v3 : p # q => v5'[v3[p]] = Guitars!String(p)
  <2> HIDE DEF ds
  <2> QED
    BY <1>3, ObjectChanges
<1>7. Guitars!None \notin Dots
  BY PartsAssumption DEF Guitars!None
<1>8. /\ \A e \in Dots : v4'[e] = v3[q] <=> e \in {o.first, o.second}
      /\ v4' \in [Dots -> DOMAIN v5' \cup {Guitars!Free}]
  <2>1. /\ v4 \in [Dots -> DOMAIN v5 \cup {Guitars!Free}]
        /\ v3[q] # Guitars!Free /\ DOMAIN v5' = DOMAIN v5
    BY <1>6 DEF Guitars!StringsInv
  <2> QED
    BY <1>3, <1>4, <1>5, <1>7, <2>1
<1>9. ASSUME NEW p \in DOMAIN v3, p # q
      PROVE  \A e \in Dots : v4'[e] = v3[p] <=> v4[e] = v3[p]
  <2>1. v3[p] # v3[q] /\ v3[p] # Guitars!Free
    BY <1>9, PidsDiffer
  <2> QED
    BY <1>1, <1>3, <2>1 DEF Guitars!StringsInv
<1> HIDE DEF ds
<1>10. Guitars!StringsInv'
  <2>1. \A p \in DOMAIN v3 : v3[p][1] = p /\ v3[p] # Guitars!Free
    BY DEF Guitars!StringsInv
  <2>2. \A p \in DOMAIN v3 :
          /\ v5'[v3[p]] \in [pid : {Guitars!Pid(p)}, first : Dots,
                                             second : Dots \cup {Guitars!None}, tornDown : BOOLEAN]
          /\ v5'[v3[p]].first # v5'[v3[p]].second
          /\ \A e \in Dots : v4'[e] = v3[p]
                 <=> e \in {v5'[v3[p]].first, v5'[v3[p]].second}
    <3> TAKE p \in DOMAIN v3
    <3>1. CASE p = q
      BY <1>4, <1>6, <1>7, <1>8, <3>1
    <3>2. CASE p # q
      BY <1>6, <1>9, <3>2 DEF Guitars!StringsInv
    <3> QED
      BY <3>1, <3>2
  <2> QED
    BY <1>3, <1>6, <1>8, <2>1, <2>2, StringsFollow
<1>11. Guitars!DrawInv'
  <2>1. \A p \in DOMAIN v3 : v5'[v3[p]].second = Guitars!None <=> p = q
    BY <1>4, <1>6 DEF Guitars!DrawInv
  <2> QED
    BY <1>2, <1>3, <2>1 DEF Guitars!DrawInv, Guitars!String
<1> QED
  BY <1>3, <1>10, <1>11, PoolStands

LEMMA StringIsDestroyed ==
  ASSUME Guitars!PoolInv, Guitars!StringsInv, Guitars!DrawInv, NEW d \in Dots,
         v4[d] # Guitars!Free,
         v7 \/ v8, Guitars!IsFirstDot(d), Guitars!destroyString(d)
  PROVE  (Guitars!PoolInv /\ Guitars!StringsInv /\ Guitars!DrawInv)'
PROOF
<1> DEFINE T == [n : Nat, text : {FALSE}]
           q == v9
           map == Guitars!Without(v3, q)
           ds == [v4 EXCEPT ![d] = Guitars!Free]
           os == [i \in {map[p] : p \in DOMAIN map} |-> v5[i]]
<1>1. /\ q \in DOMAIN v3 /\ q \in Nat /\ Guitars!String(q).pid = Guitars!Pid(q)
      /\ \A e \in Dots : v4[e] = v3[q] <=> e = d
  <2>1. q \in DOMAIN v3 /\ Guitars!String(q).second = Guitars!None /\ Guitars!None \notin Dots
    BY PartsAssumption DEF Guitars!DrawInv, Guitars!None
  <2>2. Guitars!String(q).first = d
    BY DEF Guitars!IsFirstDot, Guitars!getFirstDot, Guitars!String
  <2> QED
    BY <2>1, <2>2 DEF Guitars!StringsInv, Guitars!PoolInv
<1>2. v4[d] = v3[q] /\ v5[v4[d]].pid = Guitars!Pid(q) /\ Guitars!Pid(q).n = q
  BY <1>1 DEF Guitars!String, Guitars!Pid
<1>3. /\ v7' = FALSE /\ v8' = FALSE /\ UNCHANGED v9
      /\ v3' = map /\ v4' = ds
      /\ v6' = Append(v6, Guitars!Pid(q)) /\ v5' = Guitars!Kept(v5, map, ds)
  BY <1>2 DEF Guitars!destroyString, Guitars!setString
<1> HIDE DEF q
<1>4. DOMAIN map = DOMAIN v3 \ {q}
      /\ \A p \in DOMAIN map : map[p] = v3[p]
  BY DEF Guitars!Without
<1> HIDE DEF map
<1>5. DOMAIN v5 = {v3[p] : p \in DOMAIN v3}
      /\ v5 = [i \in DOMAIN v5 |-> v5[i]]
  BY DEF Guitars!StringsInv
<1>6. v5' = os
  <2>1. {j \in DOMAIN v5 : (\E p \in DOMAIN map : map[p] = j) \/ \E e \in Dots : ds[e] = j}
          = {map[p] : p \in DOMAIN map}
    <3>1. \A p \in DOMAIN map : map[p] \in DOMAIN v5
      BY <1>4, <1>5
    <3>2. ASSUME NEW j \in DOMAIN v5, NEW e \in Dots, ds[e] = j
          PROVE  \E p \in DOMAIN map : map[p] = j
      <4>1. PICK p \in DOMAIN v3 : j = v3[p]
        BY <1>5
      <4>2. j # Guitars!Free
        BY <4>1 DEF Guitars!StringsInv
      <4>3. e # d /\ v4[e] = j
        BY <3>2, <4>2 DEF Guitars!StringsInv
      <4>4. p # q
        BY <1>1, <4>1, <4>3
      <4> QED
        BY <1>4, <4>1, <4>4
    <3> QED
      BY <3>1, <3>2
  <2> HIDE DEF ds
  <2> QED
    BY <1>3, <2>1 DEF Guitars!Kept
<1>7. Guitars!PoolInv'
  <2>1. v6 \in Seq(T) /\ Guitars!Pid(q) \in T
    BY <1>1 DEF Guitars!PoolInv, Guitars!Pid
  <2> HIDE DEF T
  <2>2. /\ v6' \in Seq(T) /\ Len(v6) \in Nat
        /\ DOMAIN v6 = 1..Len(v6) /\ DOMAIN v6' = 1..(Len(v6) + 1)
        /\ v6'[Len(v6) + 1] = Guitars!Pid(q)
        /\ \A k \in 1..Len(v6) : v6'[k] = v6[k]
    BY <1>3, <2>1, AppendProperties
  <2>3. \A k \in DOMAIN v6 : v6[k] # Guitars!Pid(q)
    BY <1>1, <1>2 DEF Guitars!PoolInv
  <2>4. Guitars!IsInjective(v6)'
    <3> SUFFICES ASSUME NEW j \in DOMAIN v6', NEW k \in DOMAIN v6',
                        v6'[j] = v6'[k]
                 PROVE  j = k
      BY DEF Guitars!IsInjective
    <3>1. CASE j \in DOMAIN v6 /\ k \in DOMAIN v6
      BY <2>2, <3>1 DEF Guitars!PoolInv, Guitars!IsInjective
    <3>2. CASE j \notin DOMAIN v6 /\ k \notin DOMAIN v6
      BY <2>2, <3>2
    <3>3. CASE j \in DOMAIN v6 /\ k \notin DOMAIN v6
      <4>1. k = Len(v6) + 1
        BY <2>2, <3>3
      <4> QED
        BY <2>2, <2>3, <3>3, <4>1
    <3>4. CASE j \notin DOMAIN v6 /\ k \in DOMAIN v6
      <4>1. j = Len(v6) + 1
        BY <2>2, <3>4
      <4> QED
        BY <2>2, <2>3, <3>4, <4>1
    <3> QED
      BY <3>1, <3>2, <3>3, <3>4
  <2>5. \A k \in DOMAIN v6' : v6'[k].n \notin DOMAIN map
    <3> TAKE k \in DOMAIN v6'
    <3>1. CASE k \in DOMAIN v6
      BY <1>4, <2>2, <3>1 DEF Guitars!PoolInv
    <3>2. CASE k \notin DOMAIN v6
      <4>1. k = Len(v6) + 1
        BY <2>2, <3>2
      <4> QED
        BY <1>2, <1>4, <2>2, <4>1
    <3> QED
      BY <3>1, <3>2
  <2>6. ASSUME NEW j \in 0..(Guitars!maxStrings - 1)
        PROVE  j \in DOMAIN map \/ \E k \in DOMAIN v6' : v6'[k] = Guitars!Pid(j)
    <3>1. CASE j = q
      <4>1. Len(v6) + 1 \in DOMAIN v6'
        BY <2>2
      <4> QED
        BY <2>2, <3>1, <4>1
    <3>2. CASE j \in DOMAIN v3 /\ j # q
      BY <1>4, <3>2
    <3>3. CASE j \notin DOMAIN v3
      <4>1. PICK k \in DOMAIN v6 : v6[k] = Guitars!Pid(j)
        BY <3>3 DEF Guitars!PoolInv
      <4>2. k \in DOMAIN v6' /\ v6'[k] = Guitars!Pid(j)
        BY <2>2, <4>1
      <4> QED
        BY <4>2
    <3> QED
      BY <3>1, <3>2, <3>3
  <2>7. DOMAIN map \subseteq Nat /\ IsFiniteSet(DOMAIN map)
    <3>1. IsFiniteSet(DOMAIN v3) /\ DOMAIN v3 \subseteq Nat
      BY SameCardinality DEF Guitars!PoolInv
    <3> QED
      BY <1>4, <3>1, FS_RemoveElement
  <2>8. Guitars!IsFiniteSet(DOMAIN map)
    BY <2>7, SameCardinality
  <2> QED
    BY <1>3, <2>2, <2>4, <2>5, <2>6, <2>7, <2>8 DEF Guitars!PoolInv, T
<1>8. \A p \in DOMAIN map : p \in DOMAIN v3 /\ p # q
                           /\ map[p] = v3[p] /\ os[map[p]] = Guitars!String(p)
  BY <1>4 DEF Guitars!String
<1>9. ASSUME NEW p \in DOMAIN map
      PROVE  \A e \in Dots : ds[e] = map[p] <=> v4[e] = v3[p]
  <2>1. v3[p] # Guitars!Free /\ v3[p] # v3[q]
    BY <1>1, <1>8, PidsDiffer
  <2> QED
    BY <1>2, <1>8, <2>1 DEF Guitars!StringsInv
<1>10. ds \in [Dots -> DOMAIN os \cup {Guitars!Free}]
  <2>1. ASSUME NEW e \in Dots
        PROVE  ds[e] \in DOMAIN os \cup {Guitars!Free}
    <3>1. CASE e = d \/ v4[e] = Guitars!Free
      BY <3>1 DEF Guitars!StringsInv
    <3>2. CASE e # d /\ v4[e] # Guitars!Free
      <4>1. PICK p \in DOMAIN v3 : v4[e] = v3[p]
        BY <1>5, <3>2 DEF Guitars!StringsInv
      <4>2. p \in DOMAIN map
        BY <1>1, <1>4, <3>2, <4>1
      <4>3. ds[e] = map[p]
        BY <1>8, <3>2, <4>1, <4>2 DEF Guitars!StringsInv
      <4> QED
        BY <4>2, <4>3
    <3> QED
      BY <3>1, <3>2
  <2>2. ds = [e \in Dots |-> ds[e]]
    BY DEF Guitars!StringsInv
  <2> HIDE DEF ds, os
  <2> QED
    BY <2>1, <2>2
<1>11. DOMAIN os = {map[p] : p \in DOMAIN map} /\ os = [i \in DOMAIN os |-> os[i]]
  OBVIOUS
<1> HIDE DEF ds, os
<1>12. Guitars!StringsInv'
  <2>1. \A p \in DOMAIN map : map[p][1] = p /\ map[p] # Guitars!Free
    BY <1>8 DEF Guitars!StringsInv
  <2>2. \A p \in DOMAIN map :
          /\ os[map[p]] \in [pid : {Guitars!Pid(p)}, first : Dots, second : Dots \cup {Guitars!None},
                             tornDown : BOOLEAN]
          /\ os[map[p]].first # os[map[p]].second
          /\ \A e \in Dots : ds[e] = map[p] <=> e \in {os[map[p]].first, os[map[p]].second}
    BY <1>8, <1>9 DEF Guitars!StringsInv
  <2> HIDE DEF T
  <2> QED
    BY <1>3, <1>6, <1>10, <1>11, <2>1, <2>2, StringsFollow
<1>13. Guitars!DrawInv'
  <2>1. \A p \in DOMAIN map : os[map[p]].second # Guitars!None
    BY <1>8 DEF Guitars!DrawInv, q
  <2> QED
    BY <1>3, <1>6, <2>1 DEF Guitars!DrawInv, Guitars!String
<1> QED
  BY <1>7, <1>12, <1>13

(* What is not touched stays as it is.                                      *)
LEMMA StringsStay ==
  ASSUME Guitars!StringsInv, UNCHANGED <<v3, v4, v5>>
  PROVE  Guitars!StringsInv'
PROOF
<1>1. UNCHANGED v3 /\ UNCHANGED v4 /\ UNCHANGED v5
  OBVIOUS
<1>2. (\A p \in DOMAIN v3 : v3[p][1] = p /\ v3[p] # Guitars!Free)'
  BY <1>1 DEF Guitars!StringsInv, Guitars!Free
<1>3. (v5 = [i \in {v3[p] : p \in DOMAIN v3} |-> v5[i]])'
  BY <1>1 DEF Guitars!StringsInv
<1>4. (v4 \in [Dots -> DOMAIN v5 \cup {Guitars!Free}])'
  BY <1>1 DEF Guitars!StringsInv, Guitars!Free
<1>5. ASSUME NEW p \in DOMAIN v3'
      PROVE  (/\ Guitars!String(p) \in [pid : {Guitars!Pid(p)}, first : Dots, second : Dots \cup {Guitars!None},
                                 tornDown : BOOLEAN]
              /\ Guitars!String(p).first # Guitars!String(p).second
              /\ \A d \in Dots : v4[d] = v3[p]
                                   <=> d \in {Guitars!String(p).first, Guitars!String(p).second})'
  <2>1. Guitars!String(p)' = Guitars!String(p) /\ p \in DOMAIN v3
    BY <1>1 DEF Guitars!String
  <2> QED
    BY <1>1, <2>1 DEF Guitars!StringsInv, Guitars!Pid, Guitars!None
<1> QED
  BY <1>2, <1>3, <1>4, <1>5 DEF Guitars!StringsInv

LEMMA GuitarNext ==
  ASSUME Guitars!GuitarInv, [Guitars!Next]_Guitars!vars
  PROVE  Guitars!GuitarInv'
PROOF
<1> SUFFICES ASSUME Guitars!Next
             PROVE  Guitars!GuitarInv'
  <2>1. CASE UNCHANGED Guitars!vars
    <3>1. UNCHANGED <<v3, v4, v5, v6, v7, v8,
                      v9, v2>>
      BY <2>1 DEF Guitars!vars, Guitars!strung, Guitars!drawing
    <3>2. Guitars!PoolInv => Guitars!PoolInv'
      BY <3>1 DEF Guitars!PoolInv
    <3>3. Guitars!StringsInv => Guitars!StringsInv'
      BY <3>1, StringsStay
    <3>4. Guitars!DrawInv => Guitars!DrawInv'
      BY <3>1 DEF Guitars!DrawInv, Guitars!String
    <3> QED
      BY <3>1, <3>2, <3>3, <3>4 DEF Guitars!GuitarInv
  <2> QED
    BY <2>1
<1>1. v2 \in Nat /\ (v2 = 0 => Guitars!PoolInv /\ Guitars!StringsInv /\ Guitars!DrawInv)
  BY DEF Guitars!GuitarInv
<1>2. ASSUME NEW d \in Dots, Guitars!activateDot(d)
      PROVE  Guitars!GuitarInv'
  <2>1. UNCHANGED v2
    BY <1>2 DEF Guitars!activateDot
  <2> SUFFICES ASSUME Guitars!PoolInv, Guitars!StringsInv, Guitars!DrawInv
               PROVE  (Guitars!PoolInv /\ Guitars!StringsInv /\ Guitars!DrawInv)'
    BY <1>1, <2>1 DEF Guitars!GuitarInv
  <2>2. CASE v4[d] = Guitars!Free /\ ~v7 /\ ~v8 /\ Guitars!startString(d)
    BY <2>2, StringStarts
  <2>3. CASE v4[d] = Guitars!Free /\ v7 # v8 /\ Guitars!endString(d)
    BY <2>3, StringEnds
  <2>4. CASE v4[d] # Guitars!Free /\ ~v7 /\ ~v8 /\ Guitars!restartString(d)
    BY <2>4, StringRestarts
  <2>5. CASE v4[d] # Guitars!Free /\ (v7 \/ v8) /\ Guitars!IsFirstDot(d) /\ Guitars!destroyString(d)
    BY <2>5, StringIsDestroyed
  <2> QED
    BY <1>2, <2>2, <2>3, <2>4, <2>5 DEF Guitars!activateDot
<1>3. CASE UNCHANGED <<Guitars!strung, v2>>
  <2>1. UNCHANGED <<v3, v4, v5, v6, v7, v8,
                    v9, v2>>
    BY <1>3 DEF Guitars!strung, Guitars!drawing
  <2>2. Guitars!PoolInv => Guitars!PoolInv'
    BY <2>1 DEF Guitars!PoolInv
  <2>3. Guitars!StringsInv => Guitars!StringsInv'
    BY <2>1, StringsStay
  <2>4. Guitars!DrawInv => Guitars!DrawInv'
    BY <2>1 DEF Guitars!DrawInv, Guitars!String
  <2> QED
    BY <1>1, <2>1, <2>2, <2>3, <2>4 DEF Guitars!GuitarInv
<1>4. CASE Guitars!Reset
  BY <1>1, <1>4 DEF Guitars!Reset, Guitars!GuitarInv
<1>5. ASSUME NEW p, Guitars!Struck(p)
      PROVE  UNCHANGED <<Guitars!strung, v2>>
  BY <1>5 DEF Guitars!Struck, Guitars!dragMouseCollisionCheck, Guitars!onGuitarKeyUp,
              Guitars!activate
<1>6. CASE Guitars!Drag \/ Guitars!Release \/ Guitars!startCountdown \/ Guitars!startRecording \/ Guitars!stopRecording
           \/ Guitars!animationExpanded \/ Guitars!animationCollapsed
  BY <1>3, <1>6 DEF Guitars!Drag, Guitars!Release, Guitars!startCountdown,
                    Guitars!startRecording, Guitars!stopRecording,
                    Guitars!animationExpanded, Guitars!animationCollapsed
<1> QED
  BY <1>2, <1>3, <1>4, <1>5, <1>6 DEF Guitars!Next

LEMMA StringsMeet == Guitars!GuitarInv => Guitars!StringsMeetDots
PROOF
<1> SUFFICES ASSUME Guitars!GuitarInv, v2 = 0
             PROVE  Guitars!StringsMeetDots
  BY DEF Guitars!StringsMeetDots
<1>1. Guitars!PoolInv /\ Guitars!StringsInv /\ Guitars!DrawInv /\ Guitars!None \notin Dots
  BY PartsAssumption DEF Guitars!GuitarInv, Guitars!None
<1>2. ASSUME NEW p \in DOMAIN v3
      PROVE  LET s == v5[v3[p]]
             IN  /\ s.pid = Guitars!Pid(p)
                 /\ s.pid \notin Guitars!ToSet(v6)
                 /\ {d \in Dots : v4[d] = v3[p]} = {s.first, s.second} \ {Guitars!None}
                 /\ s.first # Guitars!None /\ s.first # s.second
                 /\ (s.second = Guitars!None)
                      <=> ((v7 \/ v8) /\ p = v9)
  <2> DEFINE s == v5[v3[p]]
  <2>1. /\ s \in [pid : {Guitars!Pid(p)}, first : Dots, second : Dots \cup {Guitars!None},
                  tornDown : BOOLEAN]
        /\ s.first # s.second
        /\ \A d \in Dots : v4[d] = v3[p] <=> d \in {s.first, s.second}
        /\ s.second = Guitars!None <=> ((v7 \/ v8) /\ p = v9)
    BY <1>1 DEF Guitars!StringsInv, Guitars!DrawInv, Guitars!String
  <2>2. \A k \in DOMAIN v6 : v6[k] # Guitars!Pid(p)
    BY <1>1 DEF Guitars!PoolInv, Guitars!Pid
  <2>3. s.pid \notin Guitars!ToSet(v6)
    BY <2>1, <2>2 DEF Guitars!ToSet
  <2> HIDE DEF s
  <2>4. {d \in Dots : v4[d] = v3[p]} = {s.first, s.second} \ {Guitars!None}
    BY <1>1, <2>1
  <2> QED
    BY <1>1, <2>1, <2>3, <2>4 DEF s
<1>3. \A d \in Dots : v4[d] # Guitars!Free => \E p \in DOMAIN v3 : v3[p] = v4[d]
  BY <1>1 DEF Guitars!StringsInv
<1> QED
  BY <1>1, <1>2, <1>3 DEF Guitars!StringsMeetDots, Guitars!PoolInv

(* The pids that are not those of the composition, all of them and once.    *)
LEMMA PoolStarts ==
  ASSUME NEW P,
         NEW q \in Guitars!PoolsOf({Guitars!Pid(n) : n \in (0..(Guitars!maxStrings - 1)) \ P})
  PROVE  /\ q \in Seq([n : Nat, text : {FALSE}]) /\ Guitars!IsInjective(q)
         /\ \A k \in DOMAIN q : q[k].n \notin P
         /\ \A n \in 0..(Guitars!maxStrings - 1) : n \in P \/ \E k \in DOMAIN q : q[k] = Guitars!Pid(n)
PROOF
<1> DEFINE T == [n : Nat, text : {FALSE}]
           A == (0..(Guitars!maxStrings - 1)) \ P
           S == {Guitars!Pid(n) : n \in A}
           size == Cardinality(S)
<1>1. Guitars!maxStrings \in Nat
  <2>1. Cardinality(Dots) \in Nat
    BY GuitarAssumption, FS_CardinalityType
  <2>2. Guitars!maxStrings = (Cardinality(Dots) + 1) \div 2
    BY SameCardinality DEF Guitars!maxStrings
  <2> QED
    BY <2>1, <2>2
<1>2. IsFiniteSet(S) /\ size \in Nat
  <2>1. IsFiniteSet(0..(Guitars!maxStrings - 1))
    BY <1>1, FS_Interval
  <2>2. IsFiniteSet(A)
    BY <2>1, FS_Subset
  <2>3. [n \in A |-> Guitars!Pid(n)] \in Surjection(A, S)
    BY DEF Surjection
  <2> HIDE DEF A, S
  <2>4. IsFiniteSet(S)
    BY <2>2, <2>3, FS_Surjection
  <2> QED
    BY <2>4, FS_CardinalityType
<1>3. \A e \in S : e \in T /\ e.n \in A /\ e = Guitars!Pid(e.n)
  <2> TAKE e \in S
  <2>1. PICK n \in A : e = Guitars!Pid(n)
    OBVIOUS
  <2>2. A \subseteq Nat
    BY <1>1
  <2> HIDE DEF A, S
  <2> QED
    BY <2>1, <2>2 DEF Guitars!Pid
<1>4. q \in [1..size -> S] /\ \A j, k \in DOMAIN q : j < k => q[j].n < q[k].n
  BY SameCardinality DEF Guitars!PoolsOf
<1> A \subseteq Nat
  BY <1>1
<1> HIDE DEF S, size, A
<1>5. \A j, k \in 1..size : q[j] = q[k] => j = k
  <2> SUFFICES ASSUME NEW j \in 1..size, NEW k \in 1..size, q[j] = q[k], j # k
               PROVE  FALSE
    OBVIOUS
  <2>1. q[j].n < q[k].n \/ q[k].n < q[j].n
    BY <1>2, <1>4
  <2>2. q[j].n \in Nat /\ q[j].n = q[k].n
    BY <1>3, <1>4
  <2> QED
    BY <2>1, <2>2
<1>6. q \in Injection(1..size, S)
  BY <1>4, <1>5 DEF Injection, IsInjective
<1>7. Cardinality(1..size) = Cardinality(S)
  BY <1>2, FS_Interval DEF size
<1>8. q \in Surjection(1..size, S)
  BY <1>2, <1>6, <1>7, FS_Injection
<1>9. q \in Seq(T)
  <2>1. \A e \in S : e \in T
    BY <1>3
  <2> HIDE DEF T
  <2>2. \A n \in Nat : \A f \in [1..n -> T] : f \in Seq(T)
    OBVIOUS
  <2>3. q \in [1..size -> T]
    BY <2>1, <1>4
  <2> QED
    BY <1>2, <2>2, <2>3
<1>10. Guitars!IsInjective(q)
  BY <1>4, <1>5 DEF Guitars!IsInjective
<1>11. \A k \in DOMAIN q : q[k].n \notin P
  BY <1>3, <1>4 DEF A
<1>12. ASSUME NEW n \in 0..(Guitars!maxStrings - 1), n \notin P
       PROVE  \E k \in DOMAIN q : q[k] = Guitars!Pid(n)
  <2>1. Guitars!Pid(n) \in S
    BY <1>12 DEF S, A
  <2> QED
    BY <1>4, <1>8, <2>1 DEF Surjection
<1> QED
  BY <1>9, <1>10, <1>11, <1>12

LEMMA GuitarInit == Guitars!Init => Guitars!GuitarInv
PROOF
<1> SUFFICES ASSUME Guitars!Init
             PROVE  Guitars!GuitarInv
  OBVIOUS
<1> DEFINE pids == {s.pid : s \in LoadedStrings}
           Of(p) == CHOOSE s \in LoadedStrings : s.pid = p
<1>1. /\ v3 = [p \in pids |-> <<p, 1>>]
      /\ v4 = Guitars!createDotGrid(v3)
      /\ v5 = [i \in {v3[p] : p \in DOMAIN v3}
                      |-> Guitars!createStringFromModel(Of(i[1]))]
      /\ v6 \in Guitars!PoolsOf({Guitars!Pid(n) : n \in (0..(Guitars!maxStrings - 1)) \ pids})
      /\ v7 = FALSE /\ v8 = FALSE /\ v2 = 0
  BY DEF Guitars!Init
<1>2. \A p \in pids : Of(p) \in LoadedStrings /\ Of(p).pid = p
  OBVIOUS
<1>3. Guitars!PoolInv
  <2>1. pids \subseteq Nat
    BY GuitarAssumption
  <2>2. [s \in LoadedStrings |-> s.pid] \in Surjection(LoadedStrings, pids)
    BY DEF Surjection
  <2> HIDE DEF pids
  <2>3. IsFiniteSet(pids)
    BY <2>2, GuitarAssumption, FS_Surjection
  <2>4. Guitars!IsFiniteSet(pids)
    BY <2>3, SameCardinality
  <2>5. DOMAIN v3 = pids
    BY <1>1
  <2>6. /\ v6 \in Seq([n : Nat, text : {FALSE}]) /\ Guitars!IsInjective(v6)
        /\ \A k \in DOMAIN v6 : v6[k].n \notin pids
        /\ \A n \in 0..(Guitars!maxStrings - 1) :
             n \in pids \/ \E k \in DOMAIN v6 : v6[k] = Guitars!Pid(n)
    BY <1>1, PoolStarts
  <2> QED
    BY <2>1, <2>4, <2>5, <2>6 DEF Guitars!PoolInv
<1>4. ASSUME NEW p \in pids
      PROVE  /\ v3[p] = <<p, 1>>
             /\ v5[v3[p]] = Guitars!createStringFromModel(Of(p))
  BY <1>1
<1>5. ASSUME NEW d \in Dots
      PROVE  \/ /\ \A s \in LoadedStrings : d \notin {s.pointA, s.pointB}
                /\ v4[d] = Guitars!Free
             \/ \E s \in LoadedStrings : d \in {s.pointA, s.pointB} /\ v4[d] = <<s.pid, 1>>
  <2>1. CASE \A s \in LoadedStrings : d \notin {s.pointA, s.pointB}
    BY <1>1, <2>1 DEF Guitars!createDotGrid
  <2>2. CASE \E s \in LoadedStrings : d \in {s.pointA, s.pointB}
    <3> DEFINE s == CHOOSE s \in LoadedStrings : d \in {s.pointA, s.pointB}
    <3>1. s \in LoadedStrings /\ d \in {s.pointA, s.pointB}
      BY <2>2
    <3>2. v4[d] = v3[s.pid]
      BY <1>1, <2>2 DEF Guitars!createDotGrid
    <3> HIDE DEF s
    <3> QED
      BY <1>4, <3>1, <3>2
  <2> QED
    BY <2>1, <2>2
<1>6. ASSUME NEW p \in pids, NEW d \in Dots
      PROVE  v4[d] = v3[p] <=> d \in {Of(p).pointA, Of(p).pointB}
  <2> HIDE DEF Of
  <2>1. ASSUME v4[d] = v3[p]
        PROVE  d \in {Of(p).pointA, Of(p).pointB}
    <3>1. PICK s \in LoadedStrings : d \in {s.pointA, s.pointB} /\ v4[d] = <<s.pid, 1>>
      BY <1>4, <1>5, <2>1 DEF Guitars!Free
    <3> DEFINE n == s.pid
    <3>2. <<n, 1>> = <<p, 1>>
      BY <1>4, <2>1, <3>1
    <3> HIDE DEF n
    <3>3. n = p
      BY <3>2
    <3>4. s.pid = Of(p).pid
      BY <1>2, <3>3 DEF n
    <3>5. s = Of(p)
      BY <1>2, <3>4, GuitarAssumption
    <3> QED
      BY <3>1, <3>5
  <2>2. ASSUME d \in {Of(p).pointA, Of(p).pointB}
        PROVE  v4[d] = v3[p]
    <3>1. PICK s \in LoadedStrings : d \in {s.pointA, s.pointB} /\ v4[d] = <<s.pid, 1>>
      BY <1>2, <1>5, <2>2
    <3>2. s = Of(p)
      BY <1>2, <2>2, <3>1, GuitarAssumption
    <3> QED
      BY <1>2, <1>4, <3>1, <3>2
  <2> QED
    BY <2>1, <2>2
<1>7. ASSUME NEW p \in pids
      PROVE  /\ Guitars!String(p) \in [pid : {Guitars!Pid(p)}, first : Dots, second : Dots,
                                       tornDown : BOOLEAN]
             /\ Guitars!String(p).first = Of(p).pointA /\ Guitars!String(p).second = Of(p).pointB
             /\ Of(p).pointA # Of(p).pointB
  <2>1. /\ Of(p) \in [pid : Nat, pointA : Dots, pointB : Dots] /\ Of(p).pid = p
        /\ Of(p).pointA # Of(p).pointB
    BY <1>2, GuitarAssumption
  <2> DEFINE o == Of(p)
  <2>2. Guitars!String(p) = [pid |-> Guitars!Pid(p), first |-> o.pointA, second |-> o.pointB,
                     tornDown |-> FALSE]
    <3> HIDE DEF Of
    <3> QED
      BY <1>4, <2>1 DEF Guitars!String, Guitars!createStringFromModel
  <2>3. o.pointA \in Dots /\ o.pointB \in Dots /\ o.pointA # o.pointB
    BY <2>1
  <2> HIDE DEF o
  <2>4. Guitars!String(p) \in [pid : {Guitars!Pid(p)}, first : Dots, second : Dots,
                               tornDown : BOOLEAN]
    BY <2>2, <2>3
  <2>5. Guitars!String(p).first = o.pointA /\ Guitars!String(p).second = o.pointB
    BY <2>2
  <2> QED
    BY <2>3, <2>4, <2>5 DEF o
<1> HIDE DEF Of
<1>8. DOMAIN v3 = pids
  BY <1>1
<1>9. v4 \in [Dots -> DOMAIN v5 \cup {Guitars!Free}]
  <2>1. DOMAIN v5 = {v3[p] : p \in pids}
    BY <1>1, <1>8
  <2>2. \A d \in Dots : v4[d] \in DOMAIN v5 \cup {Guitars!Free}
    <3> TAKE d \in Dots
    <3>1. CASE v4[d] = Guitars!Free
      BY <3>1
    <3>2. CASE v4[d] # Guitars!Free
      <4>1. PICK s \in LoadedStrings : v4[d] = <<s.pid, 1>>
        BY <1>5, <3>2
      <4>2. v4[d] = v3[s.pid] /\ s.pid \in pids
        BY <1>4, <4>1
      <4> QED
        BY <2>1, <4>2
    <3> QED
      BY <3>1, <3>2
  <2>3. v4 = [d \in Dots |-> v4[d]]
    BY <1>1 DEF Guitars!createDotGrid
  <2> HIDE DEF pids
  <2> QED
    BY <2>2, <2>3
<1> HIDE DEF pids
<1>10. Guitars!StringsInv
  <2>1. \A p \in pids : v3[p][1] = p /\ v3[p] # Guitars!Free
    BY <1>4 DEF Guitars!Free
  <2>2. v5 = [i \in {v3[p] : p \in DOMAIN v3} |-> v5[i]]
    BY <1>1
  <2>3. \A p \in pids :
          /\ Guitars!String(p) \in [pid : {Guitars!Pid(p)}, first : Dots, second : Dots \cup {Guitars!None},
                            tornDown : BOOLEAN]
          /\ Guitars!String(p).first # Guitars!String(p).second
          /\ \A d \in Dots : v4[d] = v3[p]
                               <=> d \in {Guitars!String(p).first, Guitars!String(p).second}
    BY <1>6, <1>7
  <2> QED
    BY <1>8, <1>9, <2>1, <2>2, <2>3 DEF Guitars!StringsInv
<1>11. Guitars!DrawInv
  <2>1. \A p \in pids : Guitars!String(p).second # Guitars!None
    BY <1>7, PartsAssumption DEF Guitars!None
  <2> QED
    BY <1>1, <1>8, <2>1 DEF Guitars!DrawInv
<1> QED
  BY <1>1, <1>3, <1>10, <1>11 DEF Guitars!GuitarInv

------------------------------------------------------------------------------
(***************************************************************************)
(* The arpeggiator.  v6 is isDragging, v9 and v10 are held and stuck.      *)
(***************************************************************************)
LEMMA ArpeggiatorState ==
  ASSUME Recorders!IsRecorder(v1)
  PROVE  /\ Arpeggiators!R!Note(v1, v3).state = v1.state
         /\ Arpeggiators!R!Load(v1, Arpeggiators!Notes).state = v1.state
         /\ Arpeggiators!R!Recording(v1).state = v1.state
         /\ Arpeggiators!R!Recorded(v1).state = v1.state
         /\ Arpeggiators!R!Collapsed(v1).state = "collapsed"
         /\ Arpeggiators!R!Expanded(v1).state = "expand"
  BY DEF Recorders!IsRecorder, Arpeggiators!R!Note, Arpeggiators!R!Load,
         Arpeggiators!R!Recording, Arpeggiators!R!Recorded, Arpeggiators!R!Collapsed,
         Arpeggiators!R!Expanded, Arpeggiators!R!addTrack, Arpeggiators!R!removeTrack

LEMMA ArpeggiatorHeld ==
  ASSUME Recorders!IsRecorder(v1), Arpeggiators!HeldInv,
         [Arpeggiators!Next]_Arpeggiators!vars
  PROVE  Arpeggiators!HeldInv'
PROOF
<1> USE DEF Arpeggiators!HeldInv, Arpeggiators!puck
<1>1. CASE UNCHANGED Arpeggiators!vars
  BY <1>1 DEF Arpeggiators!vars
<1>2. ASSUME NEW q, Arpeggiators!animateCursorToQuadrant(q) \/ Arpeggiators!onArpKeyDown(q)
      PROVE  Arpeggiators!HeldInv'
  <2>1. CASE Arpeggiators!animateCursorToQuadrant(q)
    BY <2>1 DEF Arpeggiators!animateCursorToQuadrant
  <2>2. CASE Arpeggiators!onArpKeyDown(q)
    <3>1. /\ v9' # {} /\ UNCHANGED v1 /\ v6' \in BOOLEAN
          /\ v10' = (v10 \/ v1.state = "collapsed")
      BY <2>2 DEF Arpeggiators!onArpKeyDown
    <3> QED
      BY <3>1
  <2> QED
    BY <1>2, <2>1, <2>2
<1>3. ASSUME NEW p, Arpeggiators!Move(p)
      PROVE  Arpeggiators!HeldInv'
  BY <1>3 DEF Arpeggiators!Move
<1>4. CASE Arpeggiators!Press \/ Arpeggiators!Release \/ Arpeggiators!onArpKeyUp
  BY <1>4, ArpeggiatorState DEF Arpeggiators!Press, Arpeggiators!Release,
                                Arpeggiators!onArpKeyUp, Recorders!IsRecorder
<1>5. CASE Arpeggiators!renderCollapsed \/ Arpeggiators!disable \/ Arpeggiators!enable
  BY <1>5 DEF Arpeggiators!renderCollapsed, Arpeggiators!disable, Arpeggiators!enable
<1>6. CASE Arpeggiators!playLoop \/ Arpeggiators!startRecording \/ Arpeggiators!stopRecording \/ Arpeggiators!loadData
  BY <1>6, ArpeggiatorState DEF Arpeggiators!playLoop, Arpeggiators!startRecording,
                                Arpeggiators!stopRecording, Arpeggiators!loadData
<1>7. CASE Arpeggiators!animationExpanded \/ Arpeggiators!animationCollapsed
  <2>1. CASE Arpeggiators!animationExpanded
    BY <2>1, ArpeggiatorState DEF Arpeggiators!animationExpanded
  <2>2. CASE Arpeggiators!animationCollapsed
    <3>1. v10' = (v10 \/ v9 # {}) /\ UNCHANGED <<v9, v6>>
      BY <2>2 DEF Arpeggiators!animationCollapsed
    <3> QED
      BY <3>1
  <2> QED
    BY <1>7, <2>1, <2>2
<1> QED
  BY <1>1, <1>2, <1>3, <1>4, <1>5, <1>6, <1>7 DEF Arpeggiators!Next

------------------------------------------------------------------------------
(***************************************************************************)
(* The drums.  v3 and v4 are the balls, v7 and v8 the drum that is         *)
(* dragged, v9 and v10 held and stuck.                                     *)
(***************************************************************************)
LEMMA DrumState ==
  ASSUME Recorders!IsRecorder(v1), NEW d
  PROVE  /\ DrumSets!R!Note(v1, d).state = v1.state
         /\ DrumSets!R!Load(v1, DrumSets!Notes).state = v1.state
         /\ DrumSets!R!Recording(v1).state = v1.state
         /\ DrumSets!R!Recorded(v1).state = v1.state
         /\ DrumSets!R!Collapsed(v1).state = "collapsed"
         /\ DrumSets!R!Expanded(v1).state = "expand"
  BY DEF Recorders!IsRecorder, DrumSets!R!Note, DrumSets!R!Load, DrumSets!R!Recording,
         DrumSets!R!Recorded, DrumSets!R!Collapsed,
         DrumSets!R!Expanded, DrumSets!R!addTrack, DrumSets!R!removeTrack

LEMMA DrumsDragged ==
  ASSUME Recorders!IsRecorder(v1), DrumSets!DragInv, [DrumSets!Next]_DrumSets!vars
  PROVE  DrumSets!DragInv'
PROOF
<1> USE DEF DrumSets!DragInv, DrumSets!OneDrumAtATime, DrumSets!balls, DrumSets!drag,
            DrumSets!destroy
<1>1. CASE UNCHANGED DrumSets!vars
  BY <1>1 DEF DrumSets!vars
<1>2. CASE DrumSets!onBeat
  BY <1>2 DEF DrumSets!onBeat
<1>3. ASSUME NEW b \in Balls, NEW d \in Drums, DrumSets!onCollision(b,
             d) \/ DrumSets!onDrumKeyUp(d)
      PROVE  DrumSets!DragInv'
  <2>1. v1'.state = v1.state
    BY <1>3, DrumState DEF DrumSets!onCollision, DrumSets!onDrumKeyUp,
                           DrumSets!recordSound
  <2> QED
    BY <1>3, <2>1 DEF DrumSets!onCollision, DrumSets!onDrumKeyUp
<1>4. ASSUME NEW b \in Balls, DrumSets!collisionStart(b) \/ DrumSets!Timeout(b)
      PROVE  DrumSets!DragInv'
  BY <1>4 DEF DrumSets!collisionStart, DrumSets!Timeout
<1>5. ASSUME NEW d \in Drums, DrumSets!onDrumKeyUp(d)
      PROVE  DrumSets!DragInv'
  <2>1. v1'.state = v1.state
    BY <1>5, DrumState DEF DrumSets!onDrumKeyUp, DrumSets!recordSound
  <2> QED
    BY <1>5, <2>1 DEF DrumSets!onDrumKeyUp
<1>6. ASSUME NEW d \in Drums, DrumSets!Touch(d)
      PROVE  DrumSets!DragInv'
  BY <1>6, PartsAssumption DEF DrumSets!Touch, DrumSets!onDragStart, DrumSets!None
<1>7. ASSUME NEW d \in Drums, DrumSets!Release(d)
      PROVE  DrumSets!DragInv'
  BY <1>7, PartsAssumption DEF DrumSets!Release, DrumSets!onDragEnd, DrumSets!None,
                               Recorders!IsRecorder
<1>8. CASE DrumSets!startRecording \/ DrumSets!stopRecording
  BY <1>8, DrumState DEF DrumSets!startRecording, DrumSets!stopRecording
<1>9. CASE DrumSets!loadData
  BY <1>9, DrumState DEF DrumSets!loadData
<1>10. CASE DrumSets!animationExpanded \/ DrumSets!animationCollapsed
  BY <1>10, DrumState DEF DrumSets!animationExpanded, DrumSets!animationCollapsed,
                         DrumSets!cleanupDots
<1> QED
  BY <1>1, <1>2, <1>3, <1>4, <1>5, <1>6, <1>7, <1>8, <1>9, <1>10 DEF DrumSets!Next

------------------------------------------------------------------------------
(***************************************************************************)
(* The parallelograms.  v4, v5 and v6 are the notes that sound, since      *)
(* when, and their timeouts, v10, v11 and v12 held, stuck and unheard.     *)
(***************************************************************************)
LEMMA ParallelogramNotes ==
  ASSUME Recorders!IsRecorder(v1)
  PROVE  /\ Parallelograms!R!Load(v1, Parallelograms!Notes).recorded = Parallelograms!Notes
         /\ Parallelograms!R!Recording(v1).recorded = << >>
         /\ Parallelograms!R!Recorded(v1).recorded = v1.recorded
         /\ Parallelograms!R!Collapsed(v1).recorded = v1.recorded
         /\ Parallelograms!R!Expanded(v1).recorded = v1.recorded
  BY DEF Recorders!IsRecorder, Parallelograms!R!Load, Parallelograms!R!Recording,
         Parallelograms!R!Recorded, Parallelograms!R!Collapsed,
         Parallelograms!R!Expanded, Parallelograms!R!addTrack, Parallelograms!R!removeTrack

LEMMA ParallelogramRecorded ==
  ASSUME Recorders!IsRecorder(v1), NEW p, p \in v5,
         \A k \in DOMAIN v1.recorded : v1.recorded[k].timed
  PROVE  \A k \in DOMAIN Parallelograms!recordNote(p).recorded : Parallelograms!recordNote(p).recorded[k].timed
PROOF
<1>1. PICK S : v1.recorded \in Seq(S)
  BY DEF Recorders!IsRecorder, Recorders!IsList
<1>2. Parallelograms!recordNote(p).recorded = <<[pid |-> p, timed |-> p \in v5]>> \o v1.recorded
  BY DEF Parallelograms!recordNote, Recorders!IsRecorder
<1> DEFINE note == [pid |-> p, timed |-> p \in v5]
<1>3. note.timed
  OBVIOUS
<1>4. /\ DOMAIN (<<note>> \o v1.recorded) = 1..(Len(v1.recorded) + 1)
      /\ (<<note>> \o v1.recorded)[1] = note
      /\ \A k \in 2..(Len(v1.recorded) + 1) :
           (<<note>> \o v1.recorded)[k] = v1.recorded[k - 1]
      /\ DOMAIN v1.recorded = 1..Len(v1.recorded) /\ Len(v1.recorded) \in Nat
  <2> HIDE DEF note
  <2> QED
    BY <1>1
<1> HIDE DEF note
<1>5. ASSUME NEW k \in 1..(Len(v1.recorded) + 1)
      PROVE  (<<note>> \o v1.recorded)[k].timed
  <2>1. CASE k = 1
    BY <1>3, <1>4, <2>1
  <2>2. CASE k # 1
    <3>1. k \in 2..(Len(v1.recorded) + 1) /\ k - 1 \in DOMAIN v1.recorded
      BY <1>4, <2>2
    <3> QED
      BY <1>4, <3>1
  <2> QED
    BY <2>1, <2>2
<1> QED
  BY <1>2, <1>4, <1>5 DEF note

LEMMA ParallelogramEnds ==
  ASSUME Recorders!IsRecorder(v1), Parallelograms!NotesInv,
         [Parallelograms!Next]_Parallelograms!vars
  PROVE  Parallelograms!NotesInv'
PROOF
<1> USE DEF Parallelograms!NotesInv, Parallelograms!tones, Parallelograms!hands,
            Parallelograms!popUp, Parallelograms!popDown
<1>1. CASE UNCHANGED Parallelograms!vars
  BY <1>1 DEF Parallelograms!vars
<1>2. CASE Parallelograms!Schedule \/ Parallelograms!disable \/ Parallelograms!enable \/ Parallelograms!resize
  BY <1>2 DEF Parallelograms!Schedule, Parallelograms!disable, Parallelograms!enable,
              Parallelograms!resize
<1>3. ASSUME NEW p \in Pids, Parallelograms!onPlayback(p)
      PROVE  Parallelograms!NotesInv'
  BY <1>3 DEF Parallelograms!onPlayback
<1>4. ASSUME NEW p \in Pids, Parallelograms!Timeout(p)
      PROVE  Parallelograms!NotesInv'
  BY <1>4 DEF Parallelograms!Timeout
<1>5. ASSUME NEW p \in Pids, Parallelograms!onActivate(p)
      PROVE  Parallelograms!NotesInv'
  BY <1>5 DEF Parallelograms!onActivate
<1>6. ASSUME NEW p \in Pids, Parallelograms!onDeactivate(p)
      PROVE  Parallelograms!NotesInv'
  <2>1. /\ UNCHANGED <<v5, v6, v7, v12>> /\ v10' = v10 \ {p} /\ p \in v10
        /\ v7 => v4' = v4 \ {p} /\ v11' = v11 \ {p}
        /\ ~v7 => UNCHANGED <<v4, v11>>
        /\ UNCHANGED v1 \/ v1' = Parallelograms!recordNote(p)
    BY <1>6 DEF Parallelograms!onDeactivate
  <2>2. ~v12 => \A k \in DOMAIN v1'.recorded : v1'.recorded[k].timed
    BY <2>1, ParallelogramRecorded
  <2> QED
    BY <2>1, <2>2
<1>7. CASE Parallelograms!startRecording \/ Parallelograms!stopRecording
  <2>1. UNCHANGED <<Parallelograms!tones, v7, Parallelograms!hands>>
    BY <1>7 DEF Parallelograms!startRecording, Parallelograms!stopRecording
  <2>2. v1'.recorded \in {<< >>, v1.recorded}
    BY <1>7, ParallelogramNotes DEF Parallelograms!startRecording,
                                    Parallelograms!stopRecording
  <2> QED
    BY <2>1, <2>2
<1>8. CASE Parallelograms!animationExpanded
  BY <1>8, ParallelogramNotes DEF Parallelograms!animationExpanded
<1>9. CASE Parallelograms!animationCollapsed
  BY <1>9, ParallelogramNotes DEF Parallelograms!animationCollapsed
<1>10. CASE Parallelograms!loadData
  <2>1. v1'.recorded = Parallelograms!Notes /\ v4' = {} /\ v6' = [p \in Pids |-> 0]
    BY <1>10, ParallelogramNotes DEF Parallelograms!loadData
  <2>2. /\ UNCHANGED <<v7, v10>>
        /\ v12' = (v12 \/ v10 # {})
    BY <1>10 DEF Parallelograms!loadData
  <2>3. \A k \in DOMAIN Parallelograms!Notes : Parallelograms!Notes[k].timed
    BY DEF Parallelograms!Notes
  <2> QED
    BY <2>1, <2>2, <2>3
<1> QED
  BY <1>1, <1>2, <1>3, <1>4, <1>5, <1>6, <1>7, <1>8, <1>9, <1>10 DEF Parallelograms!Next

------------------------------------------------------------------------------
(***************************************************************************)
(* The hexagons.  v3 are the hexagons, v4 and v5 those that listen.        *)
(***************************************************************************)
LEMMA HexagonState ==
  ASSUME Recorders!IsRecorder(v1), NEW c
  PROVE  /\ Hexagons!R!Note(v1, c).state = v1.state
         /\ Hexagons!R!Load(v1, Hexagons!Notes).state = v1.state
         /\ Hexagons!R!Recording(v1).state = v1.state
         /\ Hexagons!R!Recorded(v1).state = v1.state
         /\ Hexagons!R!Collapsed(v1).state = "collapsed"
         /\ Hexagons!R!Expanded(v1).state = "expand"
  BY DEF Recorders!IsRecorder, Hexagons!R!Note, Hexagons!R!Load, Hexagons!R!Recording,
         Hexagons!R!Recorded, Hexagons!R!Collapsed,
         Hexagons!R!Expanded, Hexagons!R!addTrack, Hexagons!R!removeTrack

LEMMA HexagonListens ==
  ASSUME Recorders!IsRecorder(v1), Hexagons!ListenInv, [Hexagons!Next]_Hexagons!vars
  PROVE  Hexagons!ListenInv'
PROOF
<1>1. CASE UNCHANGED Hexagons!vars
  BY <1>1 DEF Hexagons!vars, Hexagons!grid, Hexagons!ListenInv, Hexagons!HexagonsListen
<1>2. ASSUME NEW c, NEW dontRecord \in BOOLEAN, Hexagons!activateHexagon(c, dontRecord)
      PROVE  UNCHANGED Hexagons!grid /\ v1'.state = v1.state
  BY <1>2, HexagonState DEF Hexagons!activateHexagon
<1>3. ASSUME UNCHANGED Hexagons!grid, v1'.state = v1.state
      PROVE  Hexagons!ListenInv'
  BY <1>3 DEF Hexagons!grid, Hexagons!ListenInv, Hexagons!HexagonsListen
<1>4. ASSUME NEW c, Hexagons!Click(c) \/ Hexagons!onHexagonKeyUp(c)
      PROVE  Hexagons!ListenInv'
  BY <1>2, <1>3, <1>4 DEF Hexagons!Click, Hexagons!onHexagonKeyUp
<1>5. CASE Hexagons!onPlayback
  BY <1>2, <1>3, <1>5 DEF Hexagons!onPlayback
<1>6. CASE Hexagons!render \/ Hexagons!disable \/ Hexagons!enable
  BY <1>3, <1>6 DEF Hexagons!render, Hexagons!disable, Hexagons!enable
<1>7. CASE Hexagons!startRecording \/ Hexagons!stopRecording \/ Hexagons!loadData
  BY <1>3, <1>7, HexagonState DEF Hexagons!startRecording, Hexagons!stopRecording,
                                  Hexagons!loadData
<1>8. CASE Hexagons!animationExpanded \/ Hexagons!animationCollapsed
  BY <1>8, HexagonState
     DEF Hexagons!animationExpanded, Hexagons!animationCollapsed,
         Hexagons!addEventListeners, Hexagons!removeEventListeners,
         Hexagons!ListenInv, Hexagons!HexagonsListen
<1>9. ASSUME NEW size, Hexagons!resize(size)
      PROVE  Hexagons!ListenInv'
  BY <1>9 DEF Hexagons!resize, Hexagons!ListenInv, Hexagons!HexagonsListen
<1> QED
  BY <1>1, <1>4, <1>5, <1>6, <1>7, <1>8, <1>9 DEF Hexagons!Next

------------------------------------------------------------------------------
(***************************************************************************)
(* The videos.  v3 is fullscreenVideoActive, v4 the bar, v6 the player, v7 *)
(* the takeovers, and v9 whether the visitor has crossed one.              *)
(***************************************************************************)
LEMMA TakeoversGrow ==
  ASSUME NEW r \in BOOLEAN, Videos!VideoTypeOK
  PROVE  LET s == Append(v7, Videos!cardVideoTakeover(r))
         IN  /\ s \in Seq([reverse : BOOLEAN, faded : BOOLEAN])
             /\ Len(s) = Len(v7) + 1
             /\ s[Len(v7) + 1].reverse = r
             /\ \A k \in 1..Len(v7) : s[k] = v7[k]
  BY DEF Videos!VideoTypeOK, Videos!cardVideoTakeover

LEMMA TakeoversStart ==
  ASSUME Videos!VideoTypeOK
  PROVE  LET n == v6.listeners
             s == v7 \o [k \in 1..n |-> Videos!cardVideoTakeover(FALSE)]
         IN  /\ s \in Seq([reverse : BOOLEAN, faded : BOOLEAN])
             /\ Len(s) = Len(v7) + n
             /\ \A k \in 1..n : s[Len(v7) + k].reverse = FALSE
PROOF
<1> DEFINE T == [reverse : BOOLEAN, faded : BOOLEAN]
           t == [k \in 1..v6.listeners |-> Videos!cardVideoTakeover(FALSE)]
<1>1. v6.listeners \in Nat /\ v7 \in Seq(T)
  BY DEF Videos!VideoTypeOK
<1>2. Videos!cardVideoTakeover(FALSE) \in T /\ Videos!cardVideoTakeover(FALSE).reverse = FALSE
  BY DEF Videos!cardVideoTakeover
<1>3. t \in [1..v6.listeners -> T]
  BY <1>2
<1>4. \A k \in 1..v6.listeners : t[k].reverse = FALSE
  BY <1>2
<1> HIDE DEF t, T
<1>5. t \in Seq(T) /\ Len(t) = v6.listeners
  <2>1. \A n \in Nat : \A f \in [1..n -> T] : f \in Seq(T)
    OBVIOUS
  <2>2. t \in Seq(T)
    BY <1>1, <1>3, <2>1, Zenon
  <2>3. DOMAIN t = 1..v6.listeners /\ DOMAIN t = 1..Len(t) /\ Len(t) \in Nat
    BY <1>3, <2>2
  <2> QED
    BY <1>1, <2>2, <2>3
<1>6. /\ v7 \o t \in Seq(T)
      /\ Len(v7 \o t) = Len(v7) + v6.listeners
      /\ \A k \in 1..v6.listeners : (v7 \o t)[Len(v7) + k] = t[k]
  BY <1>1, <1>5, ConcatProperties
<1> QED
  BY <1>4, <1>6 DEF t, T

LEMMA TakeoverFades ==
  ASSUME Videos!VideoTypeOK, NEW i \in DOMAIN v7
  PROVE  LET s == [v7 EXCEPT ![i].faded = TRUE]
         IN  /\ s \in Seq([reverse : BOOLEAN, faded : BOOLEAN])
             /\ Len(s) = Len(v7)
             /\ \A k \in 1..Len(v7) : s[k].reverse = v7[k].reverse
PROOF
<1> DEFINE T == [reverse : BOOLEAN, faded : BOOLEAN]
           e == [v7[i] EXCEPT !.faded = TRUE]
<1>1. v7 \in Seq(T) /\ i \in 1..Len(v7) /\ v7[i] \in T
  <2>1. v7 \in Seq(T)
    BY DEF Videos!VideoTypeOK
  <2> HIDE DEF T
  <2> QED
    BY <2>1, ElementOfSeq
<1>2. e \in T /\ e.reverse = v7[i].reverse
  BY <1>1
<1>3. [v7 EXCEPT ![i].faded = TRUE] = [v7 EXCEPT ![i] = e]
  OBVIOUS
<1> HIDE DEF e, T
<1>4. LET s == [v7 EXCEPT ![i] = e]
      IN  /\ s \in Seq(T)
          /\ Len(s) = Len(v7)
          /\ \A k \in 1..Len(v7) : s[k] = IF k = i THEN e ELSE v7[k]
  BY <1>1, <1>2, ExceptSeq
<1> QED
  BY <1>2, <1>3, <1>4 DEF T

LEMMA TakeoverEnds ==
  ASSUME Videos!VideoTypeOK, v7 # << >>
  PROVE  /\ Tail(v7) \in Seq([reverse : BOOLEAN, faded : BOOLEAN])
         /\ Len(Tail(v7)) = Len(v7) - 1
         /\ \A k \in 1..(Len(v7) - 1) : Tail(v7)[k] = v7[k + 1]
         /\ Head(v7) = v7[1] /\ Len(v7) \in Nat /\ Len(v7) > 0
         /\ Head(v7).reverse \in BOOLEAN
PROOF
<1> DEFINE T == [reverse : BOOLEAN, faded : BOOLEAN]
<1>1. v7 \in Seq(T)
  BY DEF Videos!VideoTypeOK
<1> HIDE DEF T
<1>2. /\ Tail(v7) \in Seq(T) /\ Head(v7) \in T
      /\ Len(Tail(v7)) = Len(v7) - 1
      /\ \A k \in 1..Len(Tail(v7)) : Tail(v7)[k] = v7[k + 1]
  BY <1>1, HeadTailProperties
<1>3. Len(v7) \in Nat /\ Len(v7) # 0 /\ Head(v7) = v7[1]
  BY <1>1, EmptySeq
<1> QED
  BY <1>2, <1>3 DEF T

LEMMA VideoHasType ==
  ASSUME Videos!VideoTypeOK, [Videos!Next]_Videos!vars
  PROVE  Videos!VideoTypeOK'
PROOF
<1> DEFINE T == [reverse : BOOLEAN, faded : BOOLEAN]
<1>1. CASE UNCHANGED Videos!vars
  BY <1>1 DEF Videos!vars, Videos!VideoTypeOK
<1>2. ASSUME NEW card \in Cards, Videos!openVideo(card)
      PROVE  Videos!VideoTypeOK'
  <2>1. v6' \in [ready : BOOLEAN, listeners : Nat]
    BY <1>2 DEF Videos!openVideo, Videos!VideoTypeOK, Videos!Stamped
  <2>2. v5' \in Nat /\ v3' \in BOOLEAN /\ v9' \in BOOLEAN
    BY <1>2 DEF Videos!openVideo, Videos!VideoTypeOK
  <2> QED
    BY <1>2, <2>1, <2>2 DEF Videos!openVideo, Videos!VideoTypeOK
<1>3. CASE Videos!Frame
  <2>1. v5' \in Nat /\ UNCHANGED <<v1, v3, v4, v9>>
    BY <1>3 DEF Videos!Frame, Videos!VideoTypeOK
  <2>2. v6' \in [ready : BOOLEAN, listeners : Nat]
    <3>1. v6' = v6 \/ v6' = [v6 EXCEPT !.listeners = @ + 1]
      BY <1>3 DEF Videos!Frame
    <3> QED
      BY <3>1 DEF Videos!VideoTypeOK
  <2>3. v7' \in Seq(T)
    BY <1>3, TakeoversGrow DEF Videos!Frame, Videos!VideoTypeOK
  <2> QED
    BY <2>1, <2>2, <2>3 DEF Videos!VideoTypeOK
<1>4. CASE Videos!Ready
  <2>1. v7' \in Seq(T)
    BY <1>4, TakeoversStart DEF Videos!Ready, Videos!VideoTypeOK
  <2>2. v6' \in [ready : BOOLEAN, listeners : Nat]
    BY <1>4 DEF Videos!Ready, Videos!VideoTypeOK
  <2> QED
    BY <1>4, <2>1, <2>2 DEF Videos!Ready, Videos!VideoTypeOK
<1>5. CASE Videos!closeVideoCard
  <2>1. v7' \in Seq(T)
    BY <1>5, TakeoversGrow DEF Videos!closeVideoCard, Videos!VideoTypeOK
  <2>2. v4' \in BOOLEAN /\ v9' \in BOOLEAN
    BY <1>5 DEF Videos!closeVideoCard, Videos!toggleVideoOverlayNav, Videos!VideoTypeOK
  <2> QED
    BY <1>5, <2>1, <2>2 DEF Videos!closeVideoCard, Videos!VideoTypeOK
<1>6. ASSUME NEW k \in DOMAIN v7, Videos!Fade(k)
      PROVE  Videos!VideoTypeOK'
  <2>1. v7' \in Seq(T)
    BY <1>6, TakeoverFades DEF Videos!Fade
  <2> QED
    BY <1>6, <2>1 DEF Videos!Fade, Videos!VideoTypeOK
<1>7. CASE Videos!Finish
  <2>1. v7' \in Seq(T)
    BY <1>7, TakeoverEnds DEF Videos!Finish
  <2>2. v4' \in BOOLEAN /\ v3' \in BOOLEAN
    BY <1>7 DEF Videos!Finish, Videos!toggleVideoOverlayNav, Videos!VideoTypeOK
  <2> QED
    BY <1>7, <2>1, <2>2 DEF Videos!Finish, Videos!VideoTypeOK
<1>8. CASE Videos!Leave
  BY <1>8 DEF Videos!Leave, Videos!VideoTypeOK, Videos!Stamped
<1> QED
  BY <1>1, <1>2, <1>3, <1>4, <1>5, <1>6, <1>7, <1>8 DEF Videos!Next

(* openVideo lets it wait, and the frame or the player open it; it was      *)
(* closed before that.                                                      *)
LEMMA VideoOpens ==
  ASSUME Videos!VideoInv, Videos!VideoTypeOK', ~v9',
         (\E card \in Cards : Videos!openVideo(card)) \/ Videos!Frame \/ Videos!Ready
  PROVE  (Videos!Waits \/ Videos!Opened)'
PROOF
<1>1. Videos!VideoTypeOK /\ v9 \in BOOLEAN /\ ~v9 /\ (Videos!Closed \/ Videos!Waits \/ Videos!Opened)
  BY DEF Videos!openVideo, Videos!Frame, Videos!Ready, Videos!VideoInv, Videos!VideoTypeOK
<1>2. ASSUME NEW card \in Cards, Videos!openVideo(card)
      PROVE  Videos!Waits'
  <2>1. ~v3
    BY <1>1, <1>2 DEF Videos!openVideo
  <2>2. Videos!Closed
    BY <1>1, <2>1 DEF Videos!Waits, Videos!Opened
  <2>3. card # Nobody
    BY PartsAssumption
  <2> QED
    BY <1>2, <2>1, <2>2, <2>3 DEF Videos!Closed, Videos!Waits, Videos!openVideo
<1>3. CASE Videos!Frame
  <2>1. Videos!Waits /\ v5 = 1 /\ v6 = Videos!Stamped
    BY <1>1, <1>3 DEF Videos!Frame, Videos!Closed, Videos!Waits, Videos!Opened
  <2>2. v3 /\ v2 # Nobody /\ ~v4 /\ v7 = << >>
    BY <2>1 DEF Videos!Waits
  <2>3. UNCHANGED <<v1, v2, v3, v4>> /\ v5' = 0
    BY <1>3, <2>1 DEF Videos!Frame
  <2>4. CASE v1 = "about"
    <3>1. v7' = Append(v7, Videos!cardVideoTakeover(FALSE))
      BY <1>3, <2>2, <2>4 DEF Videos!Frame, Videos!CanTakeOver
    <3>2. Len(v7') = 1 /\ v7'[1].reverse = FALSE
      <4>1. /\ Len(v7') = Len(v7) + 1
            /\ v7'[Len(v7) + 1].reverse = FALSE
        BY <1>1, <3>1, TakeoversGrow
      <4> QED
        BY <2>2, <4>1
    <3>3. Videos!Opens'
      BY <2>2, <2>3, <3>2 DEF Videos!Opens
    <3> QED
      BY <2>2, <2>3, <2>4, <3>3 DEF Videos!Opened
  <2>5. CASE v1 # "about"
    <3>1. v6' = [v6 EXCEPT !.listeners = @ + 1] /\ UNCHANGED v7
      BY <1>3, <2>2, <2>5 DEF Videos!Frame
    <3>2. v6'.listeners = 1 /\ ~v6'.ready
      BY <2>1, <3>1 DEF Videos!Stamped
    <3>3. v1 = "videos"
      BY <1>1, <2>5 DEF Videos!VideoTypeOK
    <3> QED
      BY <2>2, <2>3, <3>1, <3>2, <3>3 DEF Videos!Waits
  <2> QED
    BY <2>4, <2>5
<1>4. CASE Videos!Ready
  <2>1. Videos!Waits /\ v5 = 0 /\ v6.listeners = 1
    BY <1>1, <1>4 DEF Videos!Ready, Videos!Closed, Videos!Waits, Videos!Opened
  <2>2. v3 /\ v2 # Nobody /\ ~v4 /\ v7 = << >>
    BY <2>1 DEF Videos!Waits
  <2>3. /\ UNCHANGED <<v1, v2, v3, v4, v5>>
        /\ v6' = [v6 EXCEPT !.ready = TRUE]
    BY <1>4 DEF Videos!Ready
  <2>4. v7' = v7 \o [k \in 1..v6.listeners |-> Videos!cardVideoTakeover(FALSE)]
    BY <1>4, <2>2 DEF Videos!Ready, Videos!CanTakeOver
  <2>5. Len(v7') = 1 /\ v7'[1].reverse = FALSE
    <3>1. /\ Len(v7') = Len(v7) + v6.listeners
          /\ \A k \in 1..v6.listeners : v7'[Len(v7) + k].reverse = FALSE
      BY <1>1, <2>4, TakeoversStart
    <3>2. Len(v7) = 0 /\ v6.listeners = 1
      BY <2>1, <2>2
    <3>3. 1 \in 1..v6.listeners /\ Len(v7) + 1 = 1
      BY <3>2
    <3> QED
      BY <3>1, <3>2, <3>3
  <2>6. Videos!Opens'
    BY <2>2, <2>3, <2>5 DEF Videos!Opens
  <2>7. v6'.ready
    BY <1>1, <2>3 DEF Videos!VideoTypeOK
  <2> QED
    BY <2>1, <2>2, <2>3, <2>6, <2>7 DEF Videos!Opened
<1> QED
  BY <1>2, <1>3, <1>4

LEMMA VideoCloses ==
  ASSUME Videos!VideoInv, Videos!VideoTypeOK', ~v9', Videos!closeVideoCard
  PROVE  Videos!Opened'
PROOF
<1>1. Videos!VideoTypeOK /\ v4 \in BOOLEAN /\ ~v9 /\ (Videos!Closed \/ Videos!Waits \/ Videos!Opened)
  BY DEF Videos!closeVideoCard, Videos!VideoInv, Videos!VideoTypeOK
<1>2. ~Videos!Closed /\ ~Videos!Waits /\ \A k \in DOMAIN v7 : ~v7[k].reverse
  BY <1>1 DEF Videos!closeVideoCard, Videos!Closed, Videos!Waits
<1>3. Videos!Opened
  BY <1>1, <1>2
<1>4. /\ UNCHANGED <<v1, v2, v3, v5, v6>>
      /\ v4' = ~v4
      /\ v7' = Append(v7, Videos!cardVideoTakeover(TRUE))
  BY <1>3 DEF Videos!closeVideoCard, Videos!Opened, Videos!CanTakeOver,
              Videos!toggleVideoOverlayNav
<1>5. /\ Len(v7') = Len(v7) + 1
      /\ v7'[Len(v7) + 1].reverse = TRUE
      /\ \A k \in 1..Len(v7) : v7'[k] = v7[k]
  BY <1>1, <1>4, TakeoversGrow
<1>6. DOMAIN v7 = 1..Len(v7)
  BY <1>1 DEF Videos!VideoTypeOK
<1>7. Videos!Opens \/ Videos!Open
  BY <1>2, <1>3, <1>6 DEF Videos!Opened, Videos!Crosses, Videos!Closes
<1>8. Videos!Crosses' \/ Videos!Closes'
  <2>1. CASE Videos!Opens
    <3>1. v4'
      BY <1>4, <2>1 DEF Videos!Opens
    <3>2. Len(v7') = 2
      BY <1>5, <2>1 DEF Videos!Opens
    <3>3. v7'[1] = v7[1] /\ v7'[2].reverse
      BY <1>5, <2>1 DEF Videos!Opens
    <3> QED
      BY <2>1, <3>1, <3>2, <3>3 DEF Videos!Opens, Videos!Crosses
  <2>2. CASE Videos!Open
    <3>1. ~v4' /\ Len(v7) = 0
      BY <1>1, <1>4, <2>2 DEF Videos!Open
    <3> QED
      BY <1>5, <3>1 DEF Videos!Closes
  <2> QED
    BY <1>7, <2>1, <2>2
<1> QED
  BY <1>3, <1>4, <1>8 DEF Videos!Opened

LEMMA VideoMoves ==
  ASSUME Videos!VideoInv, Videos!VideoTypeOK', ~v9',
         (\E k \in DOMAIN v7 : Videos!Fade(k)) \/ Videos!Finish
  PROVE  (Videos!Closed \/ Videos!Opened)'
PROOF
<1>1. Videos!VideoTypeOK /\ v4 \in BOOLEAN /\ ~v9 /\ (Videos!Closed \/ Videos!Waits \/ Videos!Opened)
  BY DEF Videos!Fade, Videos!Finish, Videos!VideoInv, Videos!VideoTypeOK
<1>2. v7 # << >>
  BY <1>1 DEF Videos!Fade, Videos!Finish, Videos!VideoTypeOK
<1>3. Videos!Opened
  BY <1>1, <1>2 DEF Videos!Closed, Videos!Waits
<1>4. ASSUME NEW k \in DOMAIN v7, Videos!Fade(k)
      PROVE  Videos!Opened'
  <2>1. UNCHANGED <<v1, v2, v3, v4, v5, v6>>
    BY <1>4 DEF Videos!Fade
  <2>2. /\ Len(v7') = Len(v7)
        /\ \A j \in 1..Len(v7) : v7'[j].reverse = v7[j].reverse
    BY <1>1, <1>4, TakeoverFades DEF Videos!Fade
  <2>3. Len(v7) \in Nat /\ (v7' = << >> <=> v7 = << >>)
    BY <1>1, <1>2, <2>2, TakeoverFades, <1>4 DEF Videos!Fade, Videos!VideoTypeOK
  <2>4. (Videos!Opens \/ Videos!Open \/ Videos!Crosses \/ Videos!Closes)'
    BY <1>3, <2>1, <2>2, <2>3 DEF Videos!Opened, Videos!Opens, Videos!Open,
                                  Videos!Crosses, Videos!Closes
  <2> QED
    BY <1>3, <2>1, <2>4 DEF Videos!Opened
<1>5. CASE Videos!Finish
  <2>1. /\ v7' = Tail(v7)
        /\ UNCHANGED <<v1, v5, v6>>
    BY <1>5 DEF Videos!Finish
  <2>2. /\ Len(v7') = Len(v7) - 1
        /\ \A j \in 1..(Len(v7) - 1) : v7'[j] = v7[j + 1]
        /\ Head(v7) = v7[1] /\ Len(v7) \in Nat /\ Len(v7) > 0
    BY <1>1, <1>2, <2>1, TakeoverEnds
  <2>3. CASE v7[1].reverse = FALSE
    <3>1. v4' = ~v4 /\ UNCHANGED <<v2, v3>>
      BY <1>5, <2>2, <2>3 DEF Videos!Finish, Videos!toggleVideoOverlayNav
    <3>2. Videos!Opens \/ Videos!Crosses
      BY <1>2, <1>3, <2>3 DEF Videos!Opened, Videos!Open, Videos!Closes
    <3>3. ASSUME Videos!Opens
          PROVE  Videos!Open'
      <4>1. Len(v7') = 0 /\ v7' \in Seq([reverse : BOOLEAN, faded : BOOLEAN])
        BY <1>1, <1>2, <2>1, <2>2, <3>3, TakeoverEnds DEF Videos!Opens
      <4>2. v7' = << >>
        BY <4>1, EmptySeq
      <4> QED
        BY <3>1, <3>3, <4>2, Zenon DEF Videos!Opens, Videos!Open
    <3>4. ASSUME Videos!Crosses
          PROVE  Videos!Closes'
      <4>1. ~v4'
        BY <3>1, <3>4, Zenon DEF Videos!Crosses
      <4>2. Len(v7') = 1 /\ v7'[1] = v7[2]
        BY <2>2, <3>4 DEF Videos!Crosses
      <4> QED
        BY <3>4, <4>1, <4>2 DEF Videos!Crosses, Videos!Closes
    <3>5. (Videos!Open \/ Videos!Closes)'
      BY <3>2, <3>3, <3>4
    <3> QED
      BY <1>3, <2>1, <3>1, <3>5 DEF Videos!Opened
  <2>4. CASE v7[1].reverse = TRUE
    <3>1. ~v4 /\ Len(v7) = 1
      BY <1>2, <1>3, <2>4 DEF Videos!Opened, Videos!Opens, Videos!Open, Videos!Crosses,
                              Videos!Closes
    <3>2. ~v3' /\ ~v4' /\ v5' = 0
      BY <1>3, <1>5, <2>2, <2>4, <3>1 DEF Videos!Finish, Videos!Opened
    <3>3. v7' = << >>
      BY <1>1, <1>2, <2>1, <2>2, <3>1, TakeoverEnds, EmptySeq
    <3> QED
      BY <3>2, <3>3 DEF Videos!Closed
  <2>5. v7[1].reverse \in BOOLEAN
    BY <1>1, <1>2, TakeoverEnds
  <2> QED
    BY <2>3, <2>4, <2>5
<1> QED
  BY <1>4, <1>5

LEMMA VideoNext ==
  ASSUME Videos!VideoInv, [Videos!Next]_Videos!vars
  PROVE  Videos!VideoInv'
PROOF
<1>1. Videos!VideoTypeOK'
  BY VideoHasType DEF Videos!VideoInv
<1> SUFFICES ASSUME ~v9'
             PROVE  (Videos!Closed \/ Videos!Waits \/ Videos!Opened)'
  BY <1>1 DEF Videos!VideoInv
<1>2. CASE UNCHANGED Videos!vars
  BY <1>2 DEF Videos!vars, Videos!VideoInv, Videos!Closed, Videos!Waits, Videos!Opened,
              Videos!Opens, Videos!Open, Videos!Crosses, Videos!Closes,
              Videos!Stamped
<1>3. CASE Videos!Leave
  <2>1. v5 \in Nat /\ ~(v5 > 0) /\ v7 = << >>
    BY <1>3 DEF Videos!Leave, Videos!VideoInv, Videos!VideoTypeOK
  <2> QED
    BY <1>3, <2>1 DEF Videos!Leave, Videos!Closed
<1> QED
  BY <1>1, <1>2, <1>3, VideoOpens, VideoCloses, VideoMoves DEF Videos!Next

------------------------------------------------------------------------------
(***************************************************************************)
(* The parts that follow the hands of a visitor: FollowsTheHands           *)
(***************************************************************************)
HandsInv ==
  /\ part = "guitar"        => Guitars!GuitarInv
  /\ part = "arpeggiator"   => Arpeggiators!HeldInv
  /\ part = "drum"          => DrumSets!DragInv
  /\ part = "parallelogram" => Parallelograms!NotesInv
  /\ part = "hexagon"       => Hexagons!ListenInv
  /\ part = "video"         => Videos!VideoInv

LEMMA HandsInit == PartsInit => HandsInv
PROOF
<1>1. Arpeggiators!Init => Arpeggiators!HeldInv
  BY DEF Arpeggiators!Init, Arpeggiators!HeldInv
<1>2. DrumSets!Init => DrumSets!DragInv
  BY DEF DrumSets!Init, DrumSets!DragInv, DrumSets!OneDrumAtATime
<1>3. Hexagons!Init => Hexagons!ListenInv
  <2> SUFFICES ASSUME Hexagons!Init
               PROVE  Hexagons!ListenInv
    OBVIOUS
  <2>1. v1.state = "collapsed"
    BY DEF Hexagons!Init, Hexagons!R!Fresh
  <2>2. v4 = {} /\ v5 = FALSE
    BY DEF Hexagons!Init
  <2> QED
    BY <2>1, <2>2 DEF Hexagons!ListenInv, Hexagons!HexagonsListen
<1>4. Parallelograms!Init => Parallelograms!NotesInv
  <2> SUFFICES ASSUME Parallelograms!Init
               PROVE  Parallelograms!NotesInv
    OBVIOUS
  <2>1. v1.recorded = Parallelograms!Notes
    BY DEF Parallelograms!Init, Parallelograms!R!Fresh
  <2>2. \A k \in DOMAIN v1.recorded : v1.recorded[k].timed
    BY <2>1 DEF Parallelograms!Notes
  <2> QED
    BY <2>2 DEF Parallelograms!Init, Parallelograms!NotesInv
<1>5. Videos!Init => Videos!VideoInv
  <2> SUFFICES ASSUME Videos!Init
               PROVE  Videos!VideoInv
    OBVIOUS
  <2>1. v7 \in Seq([reverse : BOOLEAN, faded : BOOLEAN])
    BY DEF Videos!Init
  <2>2. Videos!VideoTypeOK
    BY <2>1 DEF Videos!Init, Videos!VideoTypeOK, Videos!Stamped
  <2> QED
    BY <2>2 DEF Videos!Init, Videos!VideoInv, Videos!Closed
<1> QED
  BY <1>1, <1>2, <1>3, <1>4, <1>5, GuitarInit DEF PartsInit, PartInit, HandsInv

LEMMA HandsNext ==
  RecorderInv /\ HandsInv /\ [PartsNext]_<<vars, part, state>> => HandsInv'
PROOF
<1> SUFFICES ASSUME RecorderInv, HandsInv, [PartsNext]_<<vars, part, state>>
             PROVE  HandsInv'
  OBVIOUS
<1>1. part' = part
  BY PartSteps
<1>2. part \in Instruments => Recorders!IsRecorder(v1)
  BY DEF RecorderInv
<1>3. CASE part = "guitar"
  <2>1. [Guitars!Next]_Guitars!vars
    BY <1>3, PartSteps
       DEF state, Guitars!vars, Guitars!strung, Guitars!drawing
  <2> QED
    BY <1>1, <1>3, <2>1, GuitarNext DEF HandsInv
<1>4. CASE part = "arpeggiator"
  <2>1. [Arpeggiators!Next]_Arpeggiators!vars
    BY <1>4, PartSteps DEF state, Arpeggiators!vars, Arpeggiators!puck
  <2> QED
    BY <1>1, <1>2, <1>4, <2>1, ArpeggiatorHeld DEF HandsInv, Instruments
<1>5. CASE part = "drum"
  <2>1. [DrumSets!Next]_DrumSets!vars
    BY <1>5, PartSteps DEF state, DrumSets!vars, DrumSets!balls, DrumSets!drag
  <2> QED
    BY <1>1, <1>2, <1>5, <2>1, DrumsDragged DEF HandsInv, Instruments
<1>6. CASE part = "hexagon"
  <2>1. [Hexagons!Next]_Hexagons!vars
    BY <1>6, PartSteps DEF state, Hexagons!vars, Hexagons!grid
  <2> QED
    BY <1>1, <1>2, <1>6, <2>1, HexagonListens DEF HandsInv, Instruments
<1>7. CASE part = "parallelogram"
  <2>1. [Parallelograms!Next]_Parallelograms!vars
    BY <1>7, PartSteps DEF state, Parallelograms!vars, Parallelograms!tones,
       Parallelograms!hands
  <2> QED
    BY <1>1, <1>2, <1>7, <2>1, ParallelogramEnds DEF HandsInv, Instruments
<1>8. CASE part = "video"
  <2>1. [Videos!Next]_Videos!vars
    BY <1>8, PartSteps DEF state, Videos!vars
  <2> QED
    BY <1>1, <1>8, <2>1, VideoNext DEF HandsInv
<1> QED
  BY <1>1, <1>3, <1>4, <1>5, <1>6, <1>7, <1>8 DEF HandsInv

(* A string in the map is strung between two dots that know it, whichever   *)
(* strings are drawn, drawn again and destroyed; an instrument sounds, and a *)
(* drum is dragged, only while it is held; hexagons can be clicked; and the *)
(* bar is down just when a video has the screen.                            *)
THEOREM HandsAreFollowed == PartsSpec => []FollowsTheHands
PROOF
<1>1. HandsInv => FollowsTheHands
  <2>1. Parallelograms!NotesInv => Parallelograms!NotesEnd
    BY DEF Parallelograms!NotesInv, Parallelograms!NotesEnd
  <2>2. Videos!VideoInv => Videos!BarIsThere
    BY DEF Videos!VideoInv, Videos!VideoTypeOK, Videos!BarIsThere, Videos!AtRest,
           Videos!Closed, Videos!Waits, Videos!Opened, Videos!Opens, Videos!Open,
           Videos!Crosses, Videos!Closes, Videos!Stamped
  <2> QED
    BY <2>1, <2>2, StringsMeet
       DEF HandsInv, FollowsTheHands, Arpeggiators!HeldInv, Arpeggiators!OnlyWhileHeld,
           DrumSets!DragInv, Hexagons!ListenInv
<1> QED
  BY RecorderInit, RecorderNext, HandsInit, HandsNext, <1>1, PTL DEF PartsSpec

------------------------------------------------------------------------------
(***************************************************************************)
(* The sound.  v1 is playmode, v2 hidden, v3 isRunning, v4 the sequencer,  *)
(* v5 its timers, v6 who listens, v8 the volumes, v9 mutes, v11 the fades. *)
(***************************************************************************)
LEMMA SoundCardinality ==
  ASSUME NEW S
  PROVE  /\ Sound!Cardinality(S) = Cardinality(S)
         /\ Sound!IsFiniteSet(S) <=> IsFiniteSet(S)
  BY DEF Sound!Cardinality, Sound!IsFiniteSet, Cardinality, IsFiniteSet

(* Some of a sequence, in their order.                                      *)
Selects(fs, K, n, at) ==
  /\ n \in Nat /\ at \in [1..n -> K]
  /\ \A i, j \in 1..n : i < j => at[i] < at[j]
  /\ \A k \in K : \E i \in 1..n : at[i] = k
  /\ Len(Sound!Only(fs, K)) = n
  /\ \A i \in 1..n : Sound!Only(fs, K)[i] = fs[at[i]]

LEMMA OnlyKeeps ==
  ASSUME NEW T, NEW fs \in Seq(T), NEW K \in SUBSET DOMAIN fs
  PROVE  Sound!Only(fs, K) \in Seq(T) /\ \E n, at : Selects(fs, K, n, at)
PROOF
<1> DEFINE n == Cardinality(K)
           Below(k) == {j \in K : j <= k}
           rank == [k \in K |-> Cardinality(Below(k))]
           at == [i \in 1..n |-> Sound!Nth(K, i)]
<1>1. K \subseteq Nat /\ IsFiniteSet(K) /\ n \in Nat
  <2>1. DOMAIN fs = 1..Len(fs) /\ Len(fs) \in Nat
    OBVIOUS
  <2>2. IsFiniteSet(1..Len(fs))
    BY <2>1, FS_Interval
  <2>3. IsFiniteSet(K)
    BY <2>1, <2>2, FS_Subset
  <2> QED
    BY <2>1, <2>3, FS_CardinalityType
<1>2. ASSUME NEW k \in K
      PROVE  IsFiniteSet(Below(k)) /\ rank[k] \in 1..n
  <2>1. Below(k) \in SUBSET K /\ k \in Below(k)
    BY <1>1
  <2> HIDE DEF Below
  <2>2. IsFiniteSet(Below(k)) /\ Cardinality(Below(k)) <= n
    BY <1>1, <2>1, FS_Subset
  <2>3. Cardinality(Below(k)) \in Nat /\ Cardinality(Below(k)) # 0
    BY <2>1, <2>2, FS_CardinalityType, FS_EmptySet
  <2> HIDE DEF n
  <2> QED
    BY <1>1, <2>2, <2>3
<1>3. \A k \in K : rank[k] \in Nat
  <2> HIDE DEF Below, rank, n
  <2> TAKE k \in K
  <2>1. rank[k] \in 1..n
    BY <1>2
  <2> QED
    BY <1>1, <2>1
<1>4. ASSUME NEW j \in K, NEW k \in K, j < k
      PROVE  rank[j] < rank[k]
  <2>1. Below(j) \in SUBSET Below(k) /\ k \in Below(k) /\ k \notin Below(j)
    BY <1>1, <1>4
  <2>2. Cardinality(Below(j)) <= Cardinality(Below(k))
        /\ (Cardinality(Below(k)) = Cardinality(Below(j)) => Below(k) = Below(j))
    <3> HIDE DEF Below
    <3> QED
      BY <1>2, <2>1, FS_Subset
  <2>3. rank[j] = Cardinality(Below(j)) /\ rank[k] = Cardinality(Below(k))
    OBVIOUS
  <2>4. rank[j] \in Nat /\ rank[k] \in Nat
    BY <1>3
  <2> HIDE DEF Below, rank
  <2> QED
    BY <2>1, <2>2, <2>3, <2>4
<1>5. rank \in Surjection(K, 1..n)
  <2>1. rank \in [K -> 1..n]
    BY <1>2
  <2>2. \A j, k \in K : rank[j] = rank[k] => j = k
    <3> HIDE DEF rank, n
    <3> TAKE j, k \in K
    <3>1. j \in Nat /\ k \in Nat /\ rank[j] \in Nat /\ rank[k] \in Nat
      BY <1>1, <1>3
    <3>2. j < k \/ k < j \/ j = k
      BY <3>1
    <3> QED
      BY <1>4, <3>1, <3>2
  <2> HIDE DEF rank
  <2>3. rank \in Injection(K, 1..n)
    BY <2>1, <2>2 DEF Injection, IsInjective
  <2>4. IsFiniteSet(1..n) /\ Cardinality(1..n) = n
    <3> HIDE DEF n
    <3> QED
      BY <1>1, FS_Interval
  <2> QED
    BY <2>3, <2>4, FS_Injection
<1>6. ASSUME NEW i \in 1..n
      PROVE  at[i] \in K /\ rank[at[i]] = i
  <2>1. PICK l \in K : rank[l] = i
    BY <1>5 DEF Surjection
  <2>2. \E k \in K : Cardinality({j \in K : j <= k}) = i
    BY <2>1
  <2>3. at[i] = CHOOSE k \in K : Cardinality({j \in K : j <= k}) = i
    BY SoundCardinality DEF Sound!Nth
  <2>4. at[i] \in K /\ Cardinality({j \in K : j <= at[i]}) = i
    <3> HIDE DEF at
    <3> QED
      BY <2>2, <2>3
  <2> HIDE DEF at
  <2> QED
    BY <2>4
<1>7. at \in [1..n -> K]
  <2>1. at = [i \in 1..n |-> at[i]]
    OBVIOUS
  <2> HIDE DEF at, rank, n
  <2> QED
    BY <1>6, <2>1
<1>8. Sound!Only(fs, K) = [i \in 1..n |-> fs[at[i]]]
  BY SoundCardinality DEF Sound!Only
<1> HIDE DEF at, rank, n
<1>9. \A i, j \in 1..n : i < j => at[i] < at[j]
  <2> SUFFICES ASSUME NEW i \in 1..n, NEW j \in 1..n, i < j, ~(at[i] < at[j])
               PROVE  FALSE
    OBVIOUS
  <2>1. at[i] \in Nat /\ at[j] \in Nat
    BY <1>1, <1>6
  <2>2. at[i] = at[j] \/ at[j] < at[i]
    BY <2>1
  <2> QED
    BY <1>1, <1>4, <1>6, <2>2
<1>10. \A k \in K : \E i \in 1..n : at[i] = k
  <2> TAKE k \in K
  <2>1. rank[k] \in 1..n /\ rank[at[rank[k]]] = rank[k] /\ at[rank[k]] \in K
    BY <1>2, <1>6
  <2>2. at[rank[k]] = k
    <3>1. at[rank[k]] < k \/ k < at[rank[k]] \/ at[rank[k]] = k
      BY <1>1, <2>1
    <3>2. rank[k] \in Nat
      BY <1>1, <2>1
    <3> QED
      BY <1>4, <2>1, <3>1, <3>2
  <2> QED
    BY <2>1, <2>2
<1>11. /\ Sound!Only(fs, K) \in Seq(T) /\ Len(Sound!Only(fs, K)) = n
       /\ \A i \in 1..n : Sound!Only(fs, K)[i] = fs[at[i]]
  <2>1. \A i \in 1..n : fs[at[i]] \in T
    BY <1>7
  <2>2. Sound!Only(fs, K) \in [1..n -> T]
    BY <1>8, <2>1
  <2>3. \A f \in [1..n -> T] : f \in Seq(T) /\ Len(f) = n
    BY <1>1
  <2> QED
    BY <1>8, <2>2, <2>3
<1> QED
  <2>1. Selects(fs, K, n, at)
    BY <1>1, <1>7, <1>9, <1>10, <1>11 DEF Selects
  <2> QED
    BY <1>11, <2>1

(***************************************************************************)
(* The manager is started and stopped                                      *)
(***************************************************************************)
Having(a, t, v, l) ==
  [isRunning |-> a, timers |-> t, volume |-> v, listeners |-> l]

OneMore(a, t) == IF a THEN t ELSE [t EXCEPT ![v4'] = @ + 1]
OneLess(a, t) == IF a THEN [t EXCEPT ![v4] = IF @ = 0 THEN 0 ELSE @ - 1] ELSE t
Lowered(a, v) == IF a THEN v ELSE [v EXCEPT ![Main] = Sound!Low]

LEMMA ManagerHas == Sound!Manager = Having(v3, v5, v8, v6)
  BY DEF Sound!Manager, Having

LEMMA BecomesHaving ==
  ASSUME NEW a, NEW t, NEW v, NEW l, Sound!Becomes(Having(a, t, v, l))
  PROVE  v3' = a /\ v5' = t /\ v8' = v /\ v6' = l
  BY DEF Sound!Becomes, Having

LEMMA Started ==
  ASSUME v3 \in BOOLEAN, NEW l
  PROVE  Sound!start(Having(v3, v5, v8, l))
           = Having(TRUE, OneMore(v3, v5), Lowered(v3, v8), l)
  BY DEF Sound!start, Sound!setVolume, Having, OneMore, Lowered

LEMMA Opened ==
  [Sound!Manager EXCEPT !.listeners = @ \cup {v4'}]
    = Having(v3, v5, v8, v6 \cup {v4'})
  BY DEF Sound!Manager, Having

LEMMA HasLast ==
  ASSUME NEW n \in Nat, NEW K \in SUBSET (1..n), K # {}
  PROVE  \E k \in K : \A j \in K : j <= k
PROOF
<1> DEFINE fs == [k \in 1..n |-> k]
<1>1. fs \in Seq(Nat) /\ DOMAIN fs = 1..n
  BY IsASeq
<1> HIDE DEF fs
<1>2. K \in SUBSET DOMAIN fs
  BY <1>1
<1>3. \A k \in K : k \in Nat
  OBVIOUS
<1>4. PICK m, at : Selects(fs, K, m, at)
  BY <1>1, <1>2, OnlyKeeps
<1>5. /\ m \in Nat /\ at \in [1..m -> K]
      /\ \A i, j \in 1..m : i < j => at[i] < at[j]
      /\ \A k \in K : \E i \in 1..m : at[i] = k
  BY <1>4 DEF Selects
<1>6. m \in 1..m
  <2>1. PICK l \in K : TRUE
    OBVIOUS
  <2>2. PICK i \in 1..m : at[i] = l
    BY <1>5
  <2> QED
    BY <1>5, <2>2
<1>7. at[m] \in K
  BY <1>5, <1>6
<1>8. ASSUME NEW j \in K
      PROVE  j <= at[m]
  <2>1. PICK i \in 1..m : at[i] = j
    BY <1>5
  <2>2. i = m \/ i < m
    BY <1>5
  <2>3. j \in Nat /\ at[m] \in Nat
    BY <1>7, <1>3
  <2> QED
    BY <1>5, <1>6, <2>1, <2>2, <2>3
<1> QED
  BY <1>7, <1>8

(***************************************************************************)
(* Fades: those of a kind, those of a channel, the one that leads          *)
(***************************************************************************)
Runs(fs, of, then) == \E k \in DOMAIN fs : fs[k].of = of /\ fs[k].then = then

NoFade(fs, c) == \A k \in DOMAIN fs : fs[k].of # c

Leads(fs, c, to) ==
  \E last \in DOMAIN fs :
    /\ fs[last].of = c /\ fs[last].to = to
    /\ \A k \in DOMAIN fs : fs[k].of = c => k <= last /\ fs[k].left <= fs[last].left

AreFades(fs) == fs \in Seq(Sound!FadeType) /\ \A k \in DOMAIN fs : Sound!IsFade(fs[k])

LEMMA FadesRun ==
  /\ \A of, then : Sound!Fades(of, then) # {} <=> Runs(v11, of, then)
  /\ Sound!FadingOut <=> Runs(v11, Main, "stop") \/ Runs(v11, Main, "tearDown")
  BY DEF Sound!Fades, Sound!FadingOut, Runs

LEMMA FadesRunNext ==
  /\ \A of, then : (Sound!Fades(of, then) # {})' <=> Runs(v11', of, then)
  /\ Sound!FadingOut' <=> Runs(v11', Main, "stop") \/ Runs(v11', Main, "tearDown")
  BY DEF Sound!Fades, Sound!FadingOut, Runs

LEMMA ChannelsAre ==
  /\ Sound!ChannelInv <=> \A c \in Channels :
                       \/ NoFade(v11, c) /\ v8[c] = Sound!Target(c)
                       \/ Leads(v11, c, Sound!Target(c))
  /\ Sound!ChannelInv' <=> \A c \in Channels :
                        \/ NoFade(v11', c) /\ (v8[c] = Sound!Target(c))'
                        \/ Leads(v11', c, Sound!Target(c)')
PROOF
<1>1. \A c : Sound!OfChannel(c) = {} <=> NoFade(v11, c)
  BY DEF Sound!OfChannel, NoFade
<1>2. \A c : Sound!OfChannel(c)' = {} <=> NoFade(v11', c)
  BY DEF Sound!OfChannel, NoFade
<1>3. \A c, to : (\E last \in Sound!OfChannel(c) :
                    /\ v11[last].to = to
                    /\ \A k \in Sound!OfChannel(c) : k <= last /\ v11[k].left <= v11[last].left)
                 <=> Leads(v11, c, to)
  BY DEF Sound!OfChannel, Leads
<1>4. \A c, to : (\E last \in Sound!OfChannel(c)' :
                    /\ v11'[last].to = to
                    /\ \A k \in Sound!OfChannel(c)' : k <= last /\ v11'[k].left <= v11'[last].left)
                 <=> Leads(v11', c, to)
  BY DEF Sound!OfChannel, Leads
<1> QED
  BY <1>1, <1>2, <1>3, <1>4 DEF Sound!ChannelInv

LEMMA FadesFollow ==
  ASSUME NEW s, NEW t, AreFades(s), AreFades(t)
  PROVE  /\ AreFades(s \o t)
         /\ \A of, then : Runs(s \o t, of, then) <=> Runs(s, of, then) \/ Runs(t, of, then)
         /\ \A c : NoFade(s, c) /\ NoFade(t, c) => NoFade(s \o t, c)
         /\ \A c, to : Leads(s, c, to) /\ NoFade(t, c) => Leads(s \o t, c, to)
         /\ \A c, to :
              /\ Leads(t, c, to)
              /\ \A k \in DOMAIN s, j \in DOMAIN t :
                   s[k].of = c /\ t[j].of = c => s[k].left <= t[j].left
              => Leads(s \o t, c, to)
PROOF
<1> DEFINE m == Len(s)
           n == Len(t)
           u == s \o t
<1>1. s \in Seq(Sound!FadeType) /\ t \in Seq(Sound!FadeType)
  BY DEF AreFades
<1>2. /\ m \in Nat /\ n \in Nat /\ DOMAIN s = 1..m /\ DOMAIN t = 1..n
      /\ u \in Seq(Sound!FadeType) /\ DOMAIN u = 1..(m + n)
      /\ \A k \in 1..m : u[k] = s[k]
      /\ \A k \in 1..n : u[m + k] = t[k]
  <2> HIDE DEF Sound!FadeType
  <2>1. \A T : \A a, b \in Seq(T) :
          /\ Len(a) \in Nat /\ Len(b) \in Nat /\ DOMAIN a = 1..Len(a) /\ DOMAIN b = 1..Len(b)
          /\ a \o b \in Seq(T) /\ DOMAIN (a \o b) = 1..(Len(a) + Len(b))
          /\ \A k \in 1..Len(a) : (a \o b)[k] = a[k]
          /\ \A k \in 1..Len(b) : (a \o b)[Len(a) + k] = b[k]
    OBVIOUS
  <2> QED
    BY <1>1, <2>1
<1> HIDE DEF u, m, n
<1>3. ASSUME NEW k \in 1..(m + n)
      PROVE  \/ k \in 1..m /\ u[k] = s[k]
             \/ k - m \in 1..n /\ u[k] = t[k - m] /\ k = m + (k - m)
  <2>1. k \in 1..m \/ (k - m \in 1..n /\ k = m + (k - m))
    BY <1>2
  <2>2. k - m \in 1..n /\ k = m + (k - m) => u[k] = t[k - m]
    BY <1>2
  <2> QED
    BY <1>2, <2>1, <2>2
<1>4. (\A k \in 1..m : k \in 1..(m + n)) /\ \A k \in 1..n : m + k \in 1..(m + n)
  BY <1>2
<1>5. AreFades(u)
  BY <1>2, <1>3 DEF AreFades
<1>6. \A of, then : Runs(u, of, then) <=> Runs(s, of, then) \/ Runs(t, of, then)
  <2> TAKE of, then
  <2>1. ASSUME Runs(u, of, then)
        PROVE  Runs(s, of, then) \/ Runs(t, of, then)
    <3>1. PICK k \in 1..(m + n) : u[k].of = of /\ u[k].then = then
      BY <1>2, <2>1 DEF Runs
    <3> QED
      BY <1>2, <1>3, <3>1 DEF Runs
  <2>2. ASSUME Runs(s, of, then)
        PROVE  Runs(u, of, then)
    BY <1>2, <1>4, <2>2 DEF Runs
  <2>3. ASSUME Runs(t, of, then)
        PROVE  Runs(u, of, then)
    <3>1. PICK k \in 1..n : t[k].of = of /\ t[k].then = then
      BY <1>2, <2>3 DEF Runs
    <3>2. m + k \in DOMAIN u /\ u[m + k] = t[k]
      BY <1>2, <1>4
    <3>3. u[m + k].of = of /\ u[m + k].then = then
      BY <3>1, <3>2
    <3> QED
      BY <3>2, <3>3 DEF Runs
  <2> QED
    BY <2>1, <2>2, <2>3
<1>7. ASSUME NEW c, NoFade(s, c), NoFade(t, c)
      PROVE  NoFade(u, c)
  <2> SUFFICES ASSUME NEW k \in 1..(m + n)
               PROVE  u[k].of # c
    BY <1>2 DEF NoFade
  <2>1. CASE k \in 1..m /\ u[k] = s[k]
    BY <1>2, <1>7, <2>1 DEF NoFade
  <2>2. CASE k - m \in 1..n /\ u[k] = t[k - m]
    BY <1>2, <1>7, <2>2 DEF NoFade
  <2> QED
    BY <1>3, <2>1, <2>2
<1>8. ASSUME NEW c, NEW to, Leads(s, c, to), NoFade(t, c)
      PROVE  Leads(u, c, to)
  <2>1. PICK last \in 1..m :
          /\ s[last].of = c /\ s[last].to = to
          /\ \A k \in 1..m : s[k].of = c => k <= last /\ s[k].left <= s[last].left
    BY <1>2, <1>8 DEF Leads
  <2>2. \A k \in 1..(m + n) : u[k].of = c => k <= last /\ u[k].left <= u[last].left
    <3> SUFFICES ASSUME NEW k \in 1..(m + n), u[k].of = c
                 PROVE  k <= last /\ u[k].left <= u[last].left
      OBVIOUS
    <3>1. k \in 1..m /\ u[k] = s[k]
      <4>1. ~(k - m \in 1..n /\ u[k] = t[k - m])
        BY <1>2, <1>8 DEF NoFade
      <4> QED
        BY <1>3, <4>1
    <3>2. u[last] = s[last]
      BY <1>2
    <3> QED
      BY <2>1, <3>1, <3>2
  <2>3. last \in 1..(m + n) /\ u[last] = s[last]
    BY <1>2, <1>4
  <2> QED
    BY <1>2, <2>1, <2>2, <2>3 DEF Leads
<1>9. ASSUME NEW c, NEW to, Leads(t, c, to),
             \A k \in DOMAIN s, j \in DOMAIN t :
               s[k].of = c /\ t[j].of = c => s[k].left <= t[j].left
      PROVE  Leads(u, c, to)
  <2>1. PICK last \in 1..n :
          /\ t[last].of = c /\ t[last].to = to
          /\ \A k \in 1..n : t[k].of = c => k <= last /\ t[k].left <= t[last].left
    BY <1>2, <1>9 DEF Leads
  <2>2. m + last \in 1..(m + n) /\ u[m + last] = t[last]
    BY <1>2, <1>4
  <2>3. ASSUME NEW k \in 1..(m + n), u[k].of = c
        PROVE  k <= m + last /\ u[k].left <= u[m + last].left
    <3>1. CASE k \in 1..m /\ u[k] = s[k]
      <4>1. k <= m + last
        BY <1>2, <3>1
      <4>2. s[k].left <= t[last].left
        BY <1>2, <1>9, <2>1, <2>3, <3>1
      <4> QED
        BY <2>2, <3>1, <4>1, <4>2
    <3>2. CASE k - m \in 1..n /\ u[k] = t[k - m] /\ k = m + (k - m)
      <4>1. k - m <= last /\ t[k - m].left <= t[last].left
        BY <2>1, <2>3, <3>2
      <4>2. k <= m + last
        BY <1>2, <4>1
      <4> QED
        BY <2>2, <3>2, <4>1, <4>2
    <3> QED
      BY <1>3, <3>1, <3>2
  <2> QED
    BY <1>2, <2>1, <2>2, <2>3 DEF Leads
<1>10. /\ AreFades(u)
       /\ \A of, then : Runs(u, of, then) <=> Runs(s, of, then) \/ Runs(t, of, then)
       /\ \A c : NoFade(s, c) /\ NoFade(t, c) => NoFade(u, c)
       /\ \A c, to : Leads(s, c, to) /\ NoFade(t, c) => Leads(u, c, to)
       /\ \A c, to :
            /\ Leads(t, c, to)
            /\ \A k \in DOMAIN s, j \in DOMAIN t :
                 s[k].of = c /\ t[j].of = c => s[k].left <= t[j].left
            => Leads(u, c, to)
  BY <1>5, <1>6, <1>7, <1>8, <1>9
<1> QED
  BY <1>10 DEF u
LEMMA OnlyFades ==
  ASSUME NEW T, NEW fs \in Seq(T), NEW K \in SUBSET DOMAIN fs,
         \A k \in K : fs[k] \in Sound!FadeType /\ Sound!IsFade(fs[k])
  PROVE  /\ AreFades(Sound!Only(fs, K))
         /\ \A of, then : Runs(Sound!Only(fs, K), of, then)
                          <=> \E k \in K : fs[k].of = of /\ fs[k].then = then
         /\ \A c : NoFade(Sound!Only(fs, K), c) <=> \A k \in K : fs[k].of # c
         /\ \A c, to :
              (\E last \in K :
                 /\ fs[last].of = c /\ fs[last].to = to
                 /\ \A k \in K : fs[k].of = c => k <= last /\ fs[k].left <= fs[last].left)
              => Leads(Sound!Only(fs, K), c, to)
PROOF
<1> DEFINE u == Sound!Only(fs, K)
<1>1. u \in Seq(T) /\ \E n, at : Selects(fs, K, n, at)
  BY OnlyKeeps
<1>2. PICK n, at : Selects(fs, K, n, at)
  BY <1>1
<1>3. /\ n \in Nat /\ at \in [1..n -> K]
      /\ \A i, j \in 1..n : i < j => at[i] < at[j]
      /\ \A k \in K : \E i \in 1..n : at[i] = k
      /\ Len(u) = n
      /\ \A i \in 1..n : u[i] = fs[at[i]]
  BY <1>2 DEF Selects
<1>4. DOMAIN u = 1..n
  <2>1. \A S : \A s \in Seq(S) : DOMAIN s = 1..Len(s)
    OBVIOUS
  <2> HIDE DEF u
  <2> QED
    BY <1>1, <1>3, <2>1
<1>5. \A i \in 1..n : at[i] \in K
  BY <1>3
<1>6. \A k \in K : k \in Nat /\ k \in DOMAIN fs
  OBVIOUS
<1> HIDE DEF u
<1>7. AreFades(u)
  <2>1. \A i \in 1..n : u[i] \in Sound!FadeType /\ Sound!IsFade(u[i])
    BY <1>3, <1>5
  <2>2. u \in Seq(Sound!FadeType)
    <3>1. \A S : \A s \in Seq(T) : (\A i \in 1..Len(s) : s[i] \in S) => s \in Seq(S)
      OBVIOUS
    <3> HIDE DEF Sound!FadeType
    <3> QED
      BY <1>1, <1>3, <2>1, <3>1
  <2> QED
    BY <1>4, <2>1, <2>2 DEF AreFades
<1>8. \A of, then : Runs(u, of, then) <=> \E k \in K : fs[k].of = of /\ fs[k].then = then
  <2> TAKE of, then
  <2>1. ASSUME NEW k \in K, fs[k].of = of, fs[k].then = then
        PROVE  Runs(u, of, then)
    <3>1. PICK i \in 1..n : at[i] = k
      BY <1>3
    <3>2. i \in DOMAIN u /\ u[i] = fs[k]
      BY <1>3, <1>4, <3>1
    <3> QED
      BY <2>1, <3>2 DEF Runs
  <2>2. ASSUME Runs(u, of, then)
        PROVE  \E k \in K : fs[k].of = of /\ fs[k].then = then
    <3>1. PICK i \in 1..n : u[i].of = of /\ u[i].then = then
      BY <1>4, <2>2 DEF Runs
    <3>2. at[i] \in K /\ u[i] = fs[at[i]]
      BY <1>3, <1>5
    <3> QED
      BY <3>1, <3>2
  <2> QED
    BY <2>1, <2>2
<1>9. \A c : NoFade(u, c) <=> \A k \in K : fs[k].of # c
  BY <1>3, <1>4, <1>5 DEF NoFade
<1>10. ASSUME NEW c, NEW to, NEW last \in K,
              fs[last].of = c, fs[last].to = to,
              \A k \in K : fs[k].of = c => k <= last /\ fs[k].left <= fs[last].left
       PROVE  Leads(u, c, to)
  <2>1. PICK l \in 1..n : at[l] = last
    BY <1>3
  <2>2. u[l] = fs[last] /\ l \in DOMAIN u
    BY <1>3, <1>4, <2>1
  <2>3. ASSUME NEW i \in DOMAIN u, u[i].of = c
        PROVE  i <= l /\ u[i].left <= u[l].left
    <3>1. i \in 1..n /\ at[i] \in K /\ u[i] = fs[at[i]]
      BY <1>3, <1>4, <1>5, <2>3
    <3>2. at[i] <= last /\ fs[at[i]].left <= fs[last].left
      BY <1>10, <2>3, <3>1
    <3>3. l < i => at[l] < at[i]
      BY <1>3, <3>1
    <3>4. at[i] \in Nat /\ at[l] \in Nat
      BY <1>6, <2>1, <3>1
    <3> QED
      BY <1>3, <2>1, <2>2, <3>1, <3>2, <3>3, <3>4
  <2> QED
    BY <1>10, <2>2, <2>3 DEF Leads
<1> QED
  BY <1>7, <1>8, <1>9, <1>10 DEF u

(* The fades of some channels, in whichever order.                          *)
InOrder(order, d, to) ==
  [k \in DOMAIN order |-> Sound!Fade(order[k], 0, d, to, "nothing")]

LEMMA FadesOfChannels ==
  ASSUME NEW cs \in SUBSET Channels, NEW order \in [1..Sound!Cardinality(cs) -> cs],
         \A c \in cs : \E k \in DOMAIN order : order[k] = c,
         NEW d \in 1..FADE_IN_DURATION, NEW to \in {Sound!Low, Sound!Full},
         NEW t, t = InOrder(order, d, to)
  PROVE  /\ AreFades(t)
         /\ \A then : ~Runs(t, Main, then)
         /\ \A c : c \notin cs => NoFade(t, c)
         /\ \A c \in cs : Leads(t, c, to)
PROOF
<1> DEFINE n == Sound!Cardinality(cs)
<1> USE SoundAssumption
<1>1. n \in Nat /\ DOMAIN order = 1..n
  <2>1. IsFiniteSet(cs)
    BY FS_Subset
  <2> QED
    BY <2>1, FS_CardinalityType, SoundCardinality
<1> HIDE DEF n
<1>2. \A k \in 1..n : order[k] \in cs
  BY <1>1
<1>3. \A k \in 1..n : t[k] = Sound!Fade(order[k], 0, d, to, "nothing")
  BY <1>1 DEF InOrder
<1>4. DOMAIN t = 1..n
  BY <1>1 DEF InOrder
<1>5. ASSUME NEW k \in 1..n
      PROVE  /\ t[k] \in Sound!FadeType /\ Sound!IsFade(t[k])
             /\ t[k].of = order[k] /\ t[k].left = d /\ t[k].to = to
  <2>1. order[k] \in Channels /\ order[k] # Main
    BY <1>2
  <2>2. t[k] = [of |-> order[k], delay |-> 0, left |-> d, to |-> to, then |-> "nothing"]
    BY <1>3 DEF Sound!Fade
  <2>3. d \in Nat \ {0} /\ d <= FADE_IN_DURATION
    OBVIOUS
  <2>4. t[k] \in Sound!FadeType
    BY <2>1, <2>2, <2>3 DEF Sound!FadeType
  <2>5. /\ t[k].of = order[k] /\ t[k].left = d /\ t[k].to = to
        /\ t[k].then = "nothing" /\ t[k].delay = 0
    BY <2>2
  <2> QED
    BY <2>1, <2>4, <2>5, <2>3 DEF Sound!IsFade
<1>6. \A k \in DOMAIN t : t[k].of \in cs /\ t[k].left = d
  BY <1>2, <1>4, <1>5
<1>7. AreFades(t)
  <2>1. t \in [1..n -> Sound!FadeType]
    <3>1. t = [k \in 1..n |-> t[k]]
      BY <1>1 DEF InOrder
    <3> HIDE DEF Sound!FadeType
    <3> QED
      BY <1>5, <3>1
  <2>2. t \in Seq(Sound!FadeType)
    <3>1. \A T : \A f \in [1..n -> T] : f \in Seq(T)
      BY <1>1
    <3> HIDE DEF Sound!FadeType
    <3> QED
      BY <2>1, <3>1
  <2> QED
    BY <1>4, <1>5, <2>2 DEF AreFades
<1>8. \A c : c \notin cs => NoFade(t, c)
  BY <1>6 DEF NoFade
<1>9. \A then : ~Runs(t, Main, then)
  BY <1>2, <1>4, <1>5 DEF Runs
<1>10. ASSUME NEW c \in cs
       PROVE  Leads(t, c, to)
  <2> DEFINE K == {k \in 1..n : order[k] = c}
  <2>1. K \in SUBSET (1..n) /\ K # {}
    BY <1>1
  <2>2. \E k \in K : \A j \in K : j <= k
    <3> HIDE DEF K
    <3> QED
      BY <1>1, <2>1, HasLast
  <2>3. PICK k \in 1..n : order[k] = c /\ \A j \in 1..n : order[j] = c => j <= k
    BY <2>2
  <2>4. t[k].of = c /\ t[k].to = to
    BY <1>5, <2>3
  <2>5. ASSUME NEW j \in DOMAIN t, t[j].of = c
        PROVE  j <= k /\ t[j].left <= t[k].left
    <3>1. order[j] = c /\ t[j].left = d /\ t[k].left = d
      BY <1>4, <1>5, <2>5
    <3>2. j <= k
      BY <1>4, <2>3, <2>5, <3>1
    <3>3. t[j].left <= t[k].left
      BY <3>1
    <3> QED
      BY <3>2, <3>3
  <2> QED
    BY <1>4, <2>4, <2>5 DEF Leads
<1> QED
  BY <1>7, <1>8, <1>9, <1>10, <1>6
(* One more fade of the volume of all.                                      *)
LEMMA FadeOfAll ==
  ASSUME NEW s, AreFades(s), NEW delay \in Nat, NEW time \in Nat \ {0},
         NEW to \in {Sound!Low, Sound!Full}, NEW then \in {"nothing", "stop", "tearDown"},
         then = "nothing" <=> to = Sound!Full
  PROVE  LET more == Append(s, Sound!Fade(Main, delay, time, to, then))
         IN  /\ AreFades(more)
             /\ \A of, what : Runs(more, of, what)
                              <=> Runs(s, of, what) \/ (of = Main /\ what = then)
             /\ \A c \in Channels : NoFade(s, c) => NoFade(more, c)
             /\ \A c \in Channels : \A v : Leads(s, c, v) => Leads(more, c, v)
PROOF
<1> DEFINE f == Sound!Fade(Main, delay, time, to, then)
<1> USE SoundAssumption
<1>1. f = [of |-> Main, delay |-> delay, left |-> time, to |-> to, then |-> then]
  BY DEF Sound!Fade
<1> HIDE DEF f
<1>2. f \in Sound!FadeType /\ f.of = Main /\ f.then = then /\ f.to = to
  BY <1>1 DEF Sound!FadeType
<1>3. Sound!IsFade(f)
  BY <1>2 DEF Sound!IsFade
<1>4. s \in Seq(Sound!FadeType)
  BY DEF AreFades
<1>5. Append(s, f) = s \o <<f>>
  <2>1. \A T : \A a \in Seq(T), e \in T : Append(a, e) = a \o <<e>>
    OBVIOUS
  <2> HIDE DEF Sound!FadeType
  <2> QED
    BY <1>2, <1>4, <2>1
<1>6. DOMAIN <<f>> = {1} /\ <<f>>[1] = f
  OBVIOUS
<1>7. AreFades(<<f>>)
  <2>1. <<f>> \in Seq(Sound!FadeType)
    <3> HIDE DEF Sound!FadeType
    <3> QED
      BY <1>2
  <2> QED
    BY <1>3, <1>6, <2>1 DEF AreFades
<1>8. \A of, what : Runs(<<f>>, of, what) <=> of = Main /\ what = then
  BY <1>2, <1>6 DEF Runs
<1>9. \A c \in Channels : NoFade(<<f>>, c)
  BY <1>2, <1>6 DEF NoFade
<1>10. /\ AreFades(Append(s, f))
       /\ \A of, what : Runs(Append(s, f), of, what)
                        <=> Runs(s, of, what) \/ (of = Main /\ what = then)
       /\ \A c \in Channels : NoFade(s, c) => NoFade(Append(s, f), c)
       /\ \A c \in Channels : \A v : Leads(s, c, v) => Leads(Append(s, f), c, v)
  BY <1>5, <1>7, <1>8, <1>9, FadesFollow
<1> QED
  BY <1>10 DEF f

(***************************************************************************)
(* The parts of the invariant                                              *)
(***************************************************************************)
Kinds ==
  /\ v1 \in {"off", "playing", "paused"}
  /\ v2 \in BOOLEAN /\ v3 \in BOOLEAN /\ v13 \in BOOLEAN /\ v14 \in BOOLEAN
  /\ v12 \in 0..(MaxInputs + 1) /\ v4 \in 0..v12
  /\ v5 \in [0..(MaxInputs + 1) -> Nat]
  /\ v8 \in [Channels \cup {Main} -> {Sound!Low, Sound!Between, Sound!Full}]
  /\ v9 \subseteq Channels

LEMMA SoundTypes ==
  (Sound!SoundTypeOK <=> Kinds /\ AreFades(v11)) /\ (Sound!SoundTypeOK' <=> Kinds' /\ AreFades(v11'))
  BY DEF Sound!SoundTypeOK, Kinds, AreFades

LEMMA SoundKeeps ==
  ASSUME Sound!SoundInv, UNCHANGED Sound!vars
  PROVE  Sound!SoundInv'
  BY DEF Sound!vars, Sound!SoundInv, Sound!SoundTypeOK, Sound!SoloInv, Sound!MainInv,
         Sound!ChannelInv, Sound!FadingOut, Sound!Fades,
         Sound!OfChannel, Sound!Target

(* pause and tearDown: the volume is faded out.                             *)
LEMMA FadesOut ==
  ASSUME Sound!SoundInv, v1 # "off", v10 = Main, v12' \in 0..(MaxInputs + 1), v12 <= v12',
         NEW then \in {"stop", "tearDown"}, NEW time \in Nat \ {0}, Sound!fadeOut(time, then),
         v1' = IF then = "stop" THEN "paused" ELSE "off",
         then = "stop" => v1 = "playing",
         UNCHANGED <<v2, v3, v4, v5, v6, v7, v8, v9,
                     v10, v13, v14>>
  PROVE  Sound!SoundInv'
PROOF
<1> USE SoundAssumption
<1>1. Kinds /\ AreFades(v11)
  BY SoundTypes DEF Sound!SoundInv
<1>2. /\ AreFades(v11')
      /\ \A of, what : Runs(v11', of, what)
                       <=> Runs(v11, of, what) \/ (of = Main /\ what = then)
      /\ \A c \in Channels : NoFade(v11, c) => NoFade(v11', c)
      /\ \A c \in Channels : \A v : Leads(v11, c, v) => Leads(v11', c, v)
  <2>1. Sound!Low \in {Sound!Low, Sound!Full} /\ Sound!Low # Sound!Full
    BY DEF Sound!Low, Sound!Full
  <2>2. v11' = Append(v11, Sound!Fade(Main, 0, time, Sound!Low, then))
    BY DEF Sound!fadeOut
  <2>3. then \in {"nothing", "stop", "tearDown"} /\ (then = "nothing" <=> Sound!Low = Sound!Full) /\ 0 \in Nat
    BY <2>1
  <2> DEFINE more == Append(v11, Sound!Fade(Main, 0, time, Sound!Low, then))
  <2>4. /\ AreFades(more)
        /\ \A of, what : Runs(more, of, what)
                         <=> Runs(v11, of, what) \/ (of = Main /\ what = then)
        /\ \A c \in Channels : NoFade(v11, c) => NoFade(more, c)
        /\ \A c \in Channels : \A v : Leads(v11, c, v) => Leads(more, c, v)
    BY <1>1, <2>1, <2>3, FadeOfAll
  <2> QED
    BY <2>2, <2>4
<1>3. Kinds'
  BY <1>1 DEF Kinds
<1>4. Sound!SoloInv'
  BY DEF Sound!SoundInv, Sound!SoloInv
<1>5. ~v13' => Sound!MainInv'
  <2> SUFFICES ASSUME ~v13
               PROVE  Sound!MainInv'
    OBVIOUS
  <2>1. Sound!MainInv
    BY DEF Sound!SoundInv
  <2>2. /\ (Sound!Fades(Main, "nothing") # {})' <=> Sound!Fades(Main, "nothing") # {}
        /\ (Sound!Fades(Main, "tearDown") # {})'
              <=> Sound!Fades(Main, "tearDown") # {} \/ then = "tearDown"
        /\ Sound!FadingOut'
    BY <1>2, FadesRun, FadesRunNext
  <2>3. (v5 = [s \in DOMAIN v5 |-> IF v3 /\ s = v4 THEN 1 ELSE 0])'
    BY <2>1 DEF Sound!MainInv
  <2> QED
    BY <2>1, <2>2, <2>3 DEF Sound!MainInv
<1>6. (~v14 /\ v4 > 0)' => Sound!ChannelInv'
  BY <1>2, ChannelsAre DEF Sound!SoundInv, Sound!Target
<1> QED
  BY <1>1, <1>2, <1>3, <1>4, <1>5, <1>6, SoundTypes DEF Sound!SoundInv
(* play, and the tab that is shown again: the volume is faded in.           *)
LEMMA FadesIn ==
  ASSUME Sound!SoundInv, v12' \in 0..(MaxInputs + 1), v12 <= v12', v4' = v4,
         NEW delay \in Nat, NEW time \in Nat \ {0}, Sound!fadeIn(Sound!Manager, time, delay),
         \/ v1 = "paused" /\ v1' = "playing" /\ ~v2
         \/ v1' = v1 /\ v2 /\ v6 # {},
         v2' = FALSE, UNCHANGED <<v7, v9, v10, v14>>
  PROVE  Sound!SoundInv'
PROOF
<1> USE SoundAssumption
<1>1. Kinds /\ AreFades(v11)
  BY SoundTypes DEF Sound!SoundInv
<1>2. /\ AreFades(v11')
      /\ \A of, what : Runs(v11', of, what)
                       <=> Runs(v11, of, what) \/ (of = Main /\ what = "nothing")
      /\ \A c \in Channels : NoFade(v11, c) => NoFade(v11', c)
      /\ \A c \in Channels : \A v : Leads(v11, c, v) => Leads(v11', c, v)
  <2>1. Sound!Full \in {Sound!Low, Sound!Full}
    BY DEF Sound!Low, Sound!Full
  <2>2. v11' = Append(v11, Sound!Fade(Main, delay, time, Sound!Full, "nothing"))
    BY DEF Sound!fadeIn
  <2> QED
    BY <1>1, <2>1, <2>2, FadeOfAll
<1>3. /\ v3' = TRUE /\ v6' = v6
      /\ v5' = OneMore(v3, v5) /\ v8' = Lowered(v3, v8)
  <2>1. Sound!Becomes(Sound!start(Having(v3, v5, v8, v6)))
    BY ManagerHas DEF Sound!fadeIn
  <2>2. v3 \in BOOLEAN
    BY <1>1 DEF Kinds
  <2>3. Sound!Becomes(Having(TRUE, OneMore(v3, v5), Lowered(v3, v8),
                       v6))
    BY <2>1, <2>2, Started
  <2> QED
    BY <2>3, BecomesHaving
<1>4. v13' \in BOOLEAN
      /\ (~v13' => ~v13 /\ ~Sound!FadingOut /\ ~(v1 = "paused" /\ v1' = "paused"))
  BY <1>1 DEF Sound!fadeIn, Kinds, Sound!FadingOut
<1>5. Kinds'
  <2>1. v4 \in 0..(MaxInputs + 1)
    BY <1>1 DEF Kinds
  <2>2. v5' \in [0..(MaxInputs + 1) -> Nat]
    BY <1>1, <1>3, <2>1 DEF Kinds, OneMore
  <2>3. v8' \in [Channels \cup {Main} -> {Sound!Low, Sound!Between, Sound!Full}]
    BY <1>1, <1>3 DEF Kinds, Lowered
  <2>4. v4' \in 0..v12'
    BY <1>1 DEF Kinds
  <2> QED
    BY <1>1, <1>3, <1>4, <2>2, <2>3, <2>4 DEF Kinds
<1>6. Sound!SoloInv'
  BY DEF Sound!SoundInv, Sound!SoloInv
<1>7. ~v13' => Sound!MainInv'
  <2> SUFFICES ASSUME ~v13'
               PROVE  Sound!MainInv'
    OBVIOUS
  <2>1. Sound!MainInv /\ ~Sound!FadingOut
    BY <1>4 DEF Sound!SoundInv
  <2>2. /\ (Sound!Fades(Main, "nothing") # {})'
        /\ Sound!Fades(Main, "tearDown") = {} /\ Sound!Fades(Main, "tearDown")' = {}
        /\ ~Sound!FadingOut'
    BY <1>2, <2>1, FadesRun, FadesRunNext
  <2>3. ~v3 /\ v6 = {v4} /\ v1' = "playing"
    BY <1>1, <1>4, <2>1, <2>2 DEF Sound!MainInv, Kinds
  <2>4. (v5 = [s \in DOMAIN v5 |-> IF v3 /\ s = v4 THEN 1 ELSE 0])'
    <3>1. v5 = [s \in DOMAIN v5 |-> 0] /\ v4 \in DOMAIN v5
      BY <1>1, <2>1, <2>3 DEF Sound!MainInv, Kinds
    <3>2. v5' = [v5 EXCEPT ![v4] = 1]
      <4>1. v5' = [v5 EXCEPT ![v4] = v5[v4] + 1]
        BY <1>3, <2>3 DEF OneMore
      <4>2. v5[v4] = 0
        BY <3>1
      <4> QED
        BY <4>1, <4>2
    <3>3. v5' = [s \in DOMAIN v5' |-> IF s = v4 THEN 1 ELSE 0]
      BY <3>1, <3>2
    <3> QED
      BY <1>3, <3>3
  <2> QED
    BY <1>3, <2>1, <2>2, <2>3, <2>4 DEF Sound!MainInv
<1>8. (~v14 /\ v4 > 0)' => Sound!ChannelInv'
  <2>1. \A c \in Channels : v8'[c] = v8[c]
    BY <1>1, <1>3 DEF Kinds, Lowered
  <2> QED
    BY <1>2, <2>1, ChannelsAre DEF Sound!SoundInv, Sound!Target
<1> QED
  BY <1>2, <1>5, <1>6, <1>7, <1>8, SoundTypes DEF Sound!SoundInv

(* The tab is hidden, or nobody listens whether it is.                      *)
LEMMA VisibilityChanges ==
  ASSUME Sound!SoundInv, Sound!onVisibilityChange
  PROVE  Sound!SoundInv'
PROOF
<1> USE SoundAssumption
<1>1. Kinds /\ AreFades(v11)
  BY SoundTypes DEF Sound!SoundInv
<1>2. v12' \in 0..(MaxInputs + 1) /\ v12 <= v12'
  BY <1>1 DEF Sound!onVisibilityChange, Sound!Input, Kinds
<1>3. v2' = ~v2 /\ UNCHANGED <<v1, v4, v7, v9, v10, v14>>
  BY DEF Sound!onVisibilityChange
<1>4. Sound!SoloInv'
  BY <1>3 DEF Sound!SoundInv, Sound!SoloInv
<1>5. CASE v6 # {} /\ v2
  <2>1. Sound!fadeIn(Sound!Manager, FadeInTime, FadeInDelay)
    BY <1>3, <1>5 DEF Sound!onVisibilityChange
  <2>2. v2' = FALSE
    BY <1>3, <1>5
  <2> QED
    BY <1>2, <1>3, <1>5, <2>1, <2>2, FadesIn
<1>6. CASE v6 # {} /\ ~v2
  <2>1. UNCHANGED <<v11, v13>>
        /\ Sound!Becomes(Sound!stop(Having(v3, v5, v8, v6)))
    BY <1>3, <1>6, ManagerHas DEF Sound!onVisibilityChange
  <2>2. v3 \in BOOLEAN
    BY <1>1 DEF Kinds
  <2>3. Sound!Becomes(Having(FALSE, OneLess(v3, v5), v8, v6))
    <3>1. Sound!stop(Having(v3, v5, v8, v6)) = Having(FALSE, OneLess(v3, v5), v8, v6)
      <4>1. CASE v3
        BY <4>1 DEF Sound!stop, Having, OneLess
      <4>2. CASE ~v3
        <5>1. v3 = FALSE
          BY <2>2, <4>2
        <5> QED
          BY <5>1 DEF Sound!stop, Having, OneLess
      <4> QED
        BY <4>1, <4>2
    <3> QED
      BY <2>1, <3>1
  <2>4. /\ v3' = FALSE /\ v8' = v8 /\ v6' = v6
        /\ v5' = OneLess(v3, v5)
    BY <2>3, BecomesHaving
  <2>5. Kinds'
    <3>1. v5' \in [0..(MaxInputs + 1) -> Nat]
      <4>1. v4 \in 0..(MaxInputs + 1) /\ v5 \in [0..(MaxInputs + 1) -> Nat]
        BY <1>1 DEF Kinds
      <4>2. (IF v5[v4] = 0 THEN 0 ELSE v5[v4] - 1) \in Nat
        BY <4>1
      <4> QED
        BY <2>4, <4>1, <4>2 DEF OneLess
    <3>2. v2' \in BOOLEAN /\ v3' \in BOOLEAN
      BY <1>3, <2>4
    <3>3. v4' \in 0..v12'
      BY <1>1, <1>2, <1>3 DEF Kinds
    <3> QED
      BY <1>1, <1>2, <1>3, <2>1, <2>4, <3>1, <3>2, <3>3 DEF Kinds
  <2>6. ~v13' => Sound!MainInv'
    <3> SUFFICES ASSUME ~v13
                 PROVE  Sound!MainInv'
      BY <2>1
    <3>1. Sound!MainInv
      BY DEF Sound!SoundInv
    <3>2. Sound!FadingOut' = Sound!FadingOut /\ \A then : Sound!Fades(Main, then)' = Sound!Fades(Main, then)
      BY <2>1 DEF Sound!FadingOut, Sound!Fades
    <3>3. (v5 = [s \in DOMAIN v5 |-> IF v3 /\ s = v4 THEN 1 ELSE 0])'
      <4>1. v4 \in DOMAIN v5
        BY <1>1 DEF Kinds
      <4>2. v5 = [s \in DOMAIN v5 |-> IF v3 /\ s = v4 THEN 1 ELSE 0]
        BY <3>1 DEF Sound!MainInv
      <4>3. v5' = [s \in DOMAIN v5 |-> 0] /\ DOMAIN v5' = DOMAIN v5
        BY <2>4, <4>1, <4>2 DEF OneLess
      <4> QED
        BY <2>4, <4>3
    <3> QED
      BY <1>3, <1>6, <2>4, <3>1, <3>2, <3>3 DEF Sound!MainInv
  <2>7. (~v14 /\ v4 > 0)' => Sound!ChannelInv'
    BY <1>3, <2>1, <2>4 DEF Sound!SoundInv, Sound!ChannelInv, Sound!OfChannel,
                            Sound!Target
  <2> QED
    BY <1>1, <1>4, <2>1, <2>5, <2>6, <2>7, SoundTypes DEF Sound!SoundInv
<1>7. CASE v6 = {}
  <2>1. UNCHANGED <<v11, v3, v5, v8, v6, v13>>
    BY <1>7 DEF Sound!onVisibilityChange
  <2>2. Kinds'
    BY <1>1, <1>2, <1>3, <2>1 DEF Kinds
  <2>3. ~v13' => Sound!MainInv'
    <3> SUFFICES ASSUME ~v13
                 PROVE  Sound!MainInv'
      BY <2>1
    <3>1. Sound!MainInv
      BY DEF Sound!SoundInv
    <3>2. Sound!FadingOut' = Sound!FadingOut /\ \A then : Sound!Fades(Main, then)' = Sound!Fades(Main, then)
      BY <2>1 DEF Sound!FadingOut, Sound!Fades
    <3>3. v1 = "off" /\ ~v3
      BY <1>1, <1>7, <3>1 DEF Sound!MainInv, Kinds
    <3>4. (v5 = [s \in DOMAIN v5 |-> IF v3 /\ s = v4 THEN 1 ELSE 0])'
      BY <1>3, <2>1, <3>1 DEF Sound!MainInv
    <3> QED
      BY <1>3, <1>7, <2>1, <3>1, <3>2, <3>3, <3>4 DEF Sound!MainInv
  <2>4. (~v14 /\ v4 > 0)' => Sound!ChannelInv'
    BY <1>3, <2>1 DEF Sound!SoundInv, Sound!ChannelInv, Sound!OfChannel, Sound!Target
  <2> QED
    BY <1>1, <1>4, <2>1, <2>2, <2>3, <2>4, SoundTypes DEF Sound!SoundInv
<1> QED
  BY <1>1, <1>5, <1>6, <1>7 DEF Kinds
(* An instrument is opened: the others are muted.                           *)
LEMMA ViewOpens ==
  ASSUME Sound!SoundInv, NEW view \in Channels, Sound!openView(view)
  PROVE  Sound!SoundInv'
PROOF
<1> DEFINE cs == (Channels \ {view}) \ v9
<1> USE SoundAssumption
<1>1. Kinds /\ AreFades(v11)
  BY SoundTypes DEF Sound!SoundInv
<1>2. /\ v1 = "playing" /\ ~v2 /\ v10 = Main /\ v10' = view /\ v9' = v9 \cup cs
      /\ v12' \in 0..(MaxInputs + 1) /\ v12 <= v12'
      /\ v14' = (v14 \/ \E c \in cs : Sound!Fades(c, "nothing") # {})
      /\ UNCHANGED <<v1, v2, v3, v4, v5, v6, v7, v8,
                     v13>>
  BY <1>1 DEF Sound!openView, Sound!muteAllExcept, Sound!Input, Kinds
<1>3. v9 = {}
  BY <1>2 DEF Sound!SoundInv, Sound!SoloInv
<1>4. PICK order \in [1..Sound!Cardinality(cs) -> cs] :
        /\ \A c \in cs : \E k \in DOMAIN order : order[k] = c
        /\ v11' = v11 \o InOrder(order, FADE_OUT_DURATION, Sound!Low)
  BY DEF Sound!openView, Sound!muteAllExcept, Sound!Faded, InOrder
<1> DEFINE t == InOrder(order, FADE_OUT_DURATION, Sound!Low)
<1>5. /\ AreFades(t)
      /\ \A then : ~Runs(t, Main, then)
      /\ \A c : c \notin cs => NoFade(t, c)
      /\ \A c \in cs : Leads(t, c, Sound!Low)
  <2>1. cs \in SUBSET Channels /\ Sound!Low \in {Sound!Low, Sound!Full}
    OBVIOUS
  <2>2. FADE_OUT_DURATION \in 1..FADE_IN_DURATION
    OBVIOUS
  <2> HIDE DEF cs, t
  <2>3. t = InOrder(order, FADE_OUT_DURATION, Sound!Low)
    BY DEF t
  <2> QED
    BY <1>4, <2>1, <2>3, <2>2, FadesOfChannels
<1> HIDE DEF t, cs
<1>6. /\ AreFades(v11')
      /\ \A of, then : Runs(v11', of, then) <=> Runs(v11, of, then) \/ Runs(t, of, then)
      /\ \A c : NoFade(v11, c) /\ NoFade(t, c) => NoFade(v11', c)
      /\ \A c, to : Leads(v11, c, to) /\ NoFade(t, c) => Leads(v11', c, to)
      /\ \A c, to :
           /\ Leads(t, c, to)
           /\ \A k \in DOMAIN v11, j \in DOMAIN t :
                v11[k].of = c /\ t[j].of = c => v11[k].left <= t[j].left
           => Leads(v11', c, to)
  <2>1. v11' = v11 \o t
    BY <1>4 DEF t
  <2> QED
    BY <1>1, <1>5, <2>1, FadesFollow
<1>7. Kinds'
  BY <1>1, <1>2 DEF Kinds, cs
<1>8. Sound!SoloInv'
  BY <1>2, <1>3 DEF Sound!SoloInv, cs
<1>9. ~v13' => Sound!MainInv'
  <2> SUFFICES ASSUME ~v13
               PROVE  Sound!MainInv'
    BY <1>2
  <2>1. Sound!MainInv
    BY DEF Sound!SoundInv
  <2>2. Sound!FadingOut' <=> Sound!FadingOut
    BY <1>5, <1>6, FadesRun, FadesRunNext
  <2>3. \A then : (Sound!Fades(Main, then) # {})' <=> Sound!Fades(Main, then) # {}
    BY <1>5, <1>6, FadesRun, FadesRunNext
  <2>4. (v5 = [s \in DOMAIN v5 |-> IF v3 /\ s = v4 THEN 1 ELSE 0])'
    BY <1>2, <2>1 DEF Sound!MainInv
  <2> QED
    BY <1>2, <2>1, <2>2, <2>3, <2>4 DEF Sound!MainInv
<1>10. (~v14 /\ v4 > 0)' => Sound!ChannelInv'
  <2> SUFFICES ASSUME ~v14', v4 > 0
               PROVE  Sound!ChannelInv'
    BY <1>2
  <2>1. ~v14 /\ \A c \in cs : Sound!Fades(c, "nothing") = {}
    BY <1>1, <1>2 DEF Kinds
  <2>2. Sound!ChannelInv
    BY <2>1 DEF Sound!SoundInv
  <2>3. ASSUME NEW c \in cs
        PROVE  Leads(v11', c, Sound!Target(c)')
    <3>1. c \in Channels /\ c # Main
      BY DEF cs
    <3>2. NoFade(v11, c)
      <4>1. \A k \in DOMAIN v11 : v11[k].of = c => v11[k].then = "nothing"
        BY <1>1, <3>1 DEF AreFades, Sound!IsFade
      <4> QED
        BY <2>1, <4>1 DEF NoFade, Sound!Fades
    <3>3. Leads(v11', c, Sound!Low)
      BY <1>5, <1>6, <3>2 DEF NoFade
    <3>4. Sound!Target(c)' = Sound!Low
      BY <1>2 DEF Sound!Target
    <3> QED
      BY <3>3, <3>4
  <2>4. ASSUME NEW c \in Channels, c \notin cs
        PROVE  \/ NoFade(v11', c) /\ (v8[c] = Sound!Target(c))'
               \/ Leads(v11', c, Sound!Target(c)')
    <3>1. Sound!Target(c)' = Sound!Target(c) /\ v8'[c] = v8[c]
      BY <1>2, <2>4 DEF Sound!Target
    <3> QED
      BY <1>5, <1>6, <2>2, <2>4, <3>1, ChannelsAre
  <2> QED
    BY <2>3, <2>4, ChannelsAre
<1> QED
  BY <1>6, <1>7, <1>8, <1>9, <1>10, SoundTypes DEF Sound!SoundInv

(* An instrument is closed: the others are unmuted.                         *)
LEMMA ViewCloses ==
  ASSUME Sound!SoundInv, Sound!closeView
  PROVE  Sound!SoundInv'
PROOF
<1> DEFINE cs == v9 \ {v10}
<1> USE SoundAssumption
<1>1. Kinds /\ AreFades(v11)
  BY SoundTypes DEF Sound!SoundInv
<1>2. /\ v10 # Main /\ ~v2 /\ v10' = Main /\ v9' = v9 \ cs
      /\ v12' \in 0..(MaxInputs + 1) /\ v12 <= v12'
      /\ v8' = [c \in DOMAIN v8 |-> IF c \in cs THEN Sound!Low ELSE v8[c]]
      /\ UNCHANGED <<v1, v2, v3, v4, v5, v6, v7, v13,
                     v14>>
  BY <1>1 DEF Sound!closeView, Sound!unmuteAllExcept, Sound!Input, Kinds
<1>3. /\ v9 = Channels \ {v10} /\ v10 \in Channels /\ v1 = "playing"
      /\ cs = v9 /\ v9' = {}
  BY <1>2 DEF Sound!SoundInv, Sound!SoloInv
<1>4. PICK order \in [1..Sound!Cardinality(cs) -> cs] :
        /\ \A c \in cs : \E k \in DOMAIN order : order[k] = c
        /\ v11' = v11 \o InOrder(order, FADE_IN_DURATION, Sound!Full)
  BY DEF Sound!closeView, Sound!unmuteAllExcept, Sound!Faded, InOrder
<1> DEFINE t == InOrder(order, FADE_IN_DURATION, Sound!Full)
<1>5. /\ AreFades(t)
      /\ \A k \in DOMAIN t : t[k].left = FADE_IN_DURATION
      /\ \A then : ~Runs(t, Main, then)
      /\ \A c : c \notin cs => NoFade(t, c)
      /\ \A c \in cs : Leads(t, c, Sound!Full)
  <2>1. cs \in SUBSET Channels /\ Sound!Full \in {Sound!Low, Sound!Full}
    BY <1>3
  <2>2. FADE_IN_DURATION \in 1..FADE_IN_DURATION
    OBVIOUS
  <2> HIDE DEF cs, t
  <2>3. t = InOrder(order, FADE_IN_DURATION, Sound!Full)
    BY DEF t
  <2>4. \A k \in DOMAIN t : t[k].left = FADE_IN_DURATION
    BY <2>3 DEF InOrder, Sound!Fade
  <2>5. /\ AreFades(t)
        /\ \A then : ~Runs(t, Main, then)
        /\ \A c : c \notin cs => NoFade(t, c)
        /\ \A c \in cs : Leads(t, c, Sound!Full)
    BY <1>4, <2>1, <2>3, <2>2, FadesOfChannels
  <2> QED
    BY <2>4, <2>5
<1> HIDE DEF t, cs
<1>6. /\ AreFades(v11')
      /\ \A of, then : Runs(v11', of, then) <=> Runs(v11, of, then) \/ Runs(t, of, then)
      /\ \A c : NoFade(v11, c) /\ NoFade(t, c) => NoFade(v11', c)
      /\ \A c, to : Leads(v11, c, to) /\ NoFade(t, c) => Leads(v11', c, to)
      /\ \A c, to :
           /\ Leads(t, c, to)
           /\ \A k \in DOMAIN v11, j \in DOMAIN t :
                v11[k].of = c /\ t[j].of = c => v11[k].left <= t[j].left
           => Leads(v11', c, to)
  <2>1. v11' = v11 \o t
    BY <1>4 DEF t
  <2> QED
    BY <1>1, <1>5, <2>1, FadesFollow
<1>7. \A c \in Channels \cup {Main} : v8'[c] = IF c \in cs THEN Sound!Low ELSE v8[c]
  BY <1>1, <1>2 DEF Kinds
<1>8. Main \notin cs
  BY <1>3
<1>9. Kinds'
  <2>1. v8' \in [Channels \cup {Main} -> {Sound!Low, Sound!Between, Sound!Full}]
    BY <1>1, <1>2 DEF Kinds
  <2> QED
    BY <1>1, <1>2, <1>3, <2>1 DEF Kinds
<1>10. Sound!SoloInv'
  BY <1>2, <1>3 DEF Sound!SoloInv
<1>11. ~v13' => Sound!MainInv'
  <2> SUFFICES ASSUME ~v13
               PROVE  Sound!MainInv'
    BY <1>2
  <2>1. Sound!MainInv
    BY DEF Sound!SoundInv
  <2>2. Sound!FadingOut' <=> Sound!FadingOut
    BY <1>5, <1>6, FadesRun, FadesRunNext
  <2>3. \A then : (Sound!Fades(Main, then) # {})' <=> Sound!Fades(Main, then) # {}
    BY <1>5, <1>6, FadesRun, FadesRunNext
  <2>4. (v5 = [s \in DOMAIN v5 |-> IF v3 /\ s = v4 THEN 1 ELSE 0])'
    BY <1>2, <2>1 DEF Sound!MainInv
  <2>5. v8'[Main] = v8[Main]
    BY <1>7, <1>8
  <2> QED
    BY <1>2, <2>1, <2>2, <2>3, <2>4, <2>5 DEF Sound!MainInv
<1>12. (~v14 /\ v4 > 0)' => Sound!ChannelInv'
  <2> SUFFICES ASSUME ~v14, v4 > 0
               PROVE  Sound!ChannelInv'
    BY <1>2
  <2>1. Sound!ChannelInv
    BY DEF Sound!SoundInv
  <2>2. ASSUME NEW c \in cs
        PROVE  Leads(v11', c, Sound!Target(c)')
    <3>1. c \in Channels /\ c # Main
      BY <1>3
    <3>2. ASSUME NEW k \in DOMAIN v11, NEW j \in DOMAIN t, v11[k].of = c
          PROVE  v11[k].left <= t[j].left
      BY <1>1, <1>5, <3>1, <3>2 DEF AreFades, Sound!IsFade
    <3>3. Leads(v11', c, Sound!Full)
      BY <1>5, <1>6, <3>2
    <3>4. Sound!Target(c)' = Sound!Full
      BY <1>3 DEF Sound!Target
    <3> QED
      BY <3>3, <3>4
  <2>3. ASSUME NEW c \in Channels, c \notin cs
        PROVE  \/ NoFade(v11', c) /\ (v8[c] = Sound!Target(c))'
               \/ Leads(v11', c, Sound!Target(c)')
    <3>1. Sound!Target(c)' = Sound!Target(c) /\ v8'[c] = v8[c]
      BY <1>3, <1>7, <2>3 DEF Sound!Target
    <3> QED
      BY <1>5, <1>6, <2>1, <2>3, <3>1, ChannelsAre
  <2> QED
    BY <2>2, <2>3, ChannelsAre
<1> QED
  BY <1>6, <1>9, <1>10, <1>11, <1>12, SoundTypes DEF Sound!SoundInv
(* The experiment starts: the channels are made, and everything is faded in. *)
LEMMA SoundStarts ==
  ASSUME Sound!SoundInv, Sound!Start
  PROVE  Sound!SoundInv'
PROOF
<1> DEFINE K == {k \in DOMAIN v11 : v11[k].of = Main}
           more == Append(Sound!Only(v11, K), Sound!Fade(Main, FadeInDelay, FadeInTime, Sound!Full, "nothing"))
<1> USE SoundAssumption
<1>1. Kinds /\ AreFades(v11) /\ v11 \in Seq(Sound!FadeType)
  BY SoundTypes DEF Sound!SoundInv, AreFades
<1>2. /\ v1 = "off" /\ ~v2 /\ v1' = "playing" /\ v9' = {}
      /\ v12 < (MaxInputs + 1) /\ v12' = v12 + 1
      /\ v4' = v4 + 1 /\ v7' = v4'
      /\ v13' = (v13 \/ Sound!FadingOut)
      /\ UNCHANGED <<v2, v10, v14>>
  BY DEF Sound!Start, Sound!Input
<1>3. PICK order \in [1..Sound!Cardinality(Channels) -> Channels] :
        /\ \A c \in Channels : \E k \in DOMAIN order : order[k] = c
        /\ v11' = more \o InOrder(order, FADE_IN_DURATION, Sound!Full)
  BY DEF Sound!Start, InOrder
<1> DEFINE t == InOrder(order, FADE_IN_DURATION, Sound!Full)
           heard == [c \in Channels \cup {Main} |->
                       IF c = Main THEN Lowered(v3, v8)[Main] ELSE Sound!Low]
<1>4. /\ v3' = TRUE /\ v5' = OneMore(v3, v5) /\ v8' = heard
      /\ v6' = v6 \cup {v4'}
  <2>1. v3 \in BOOLEAN
    BY <1>1 DEF Kinds
  <2>2. LET m == Sound!start([isRunning |-> v3, timers |-> v5, volume |-> v8,
                        listeners |-> v6 \cup {v4'}])
        IN  Sound!Becomes([m EXCEPT !.volume = [c \in Channels \cup {Main} |->
                                            IF c = Main THEN m.volume[Main] ELSE Sound!Low]])
    BY Opened DEF Sound!Start, Having
  <2> QED
    BY <2>1, <2>2 DEF Sound!start, Sound!setVolume, Sound!Becomes, OneMore, Lowered
<1>5. /\ AreFades(t)
      /\ \A then : ~Runs(t, Main, then)
      /\ \A c \in Channels : Leads(t, c, Sound!Full)
  <2> HIDE DEF t
  <2>1. t = InOrder(order, FADE_IN_DURATION, Sound!Full)
    BY DEF t
  <2>2. Channels \in SUBSET Channels /\ Sound!Full \in {Sound!Low, Sound!Full}
    OBVIOUS
  <2>3. FADE_IN_DURATION \in 1..FADE_IN_DURATION
    OBVIOUS
  <2> QED
    BY <1>3, <2>1, <2>2, <2>3, FadesOfChannels
<1>6. /\ AreFades(Sound!Only(v11, K))
      /\ \A of, then : Runs(Sound!Only(v11, K), of, then)
                       <=> \E k \in K : v11[k].of = of /\ v11[k].then = then
      /\ \A c : NoFade(Sound!Only(v11, K), c) <=> \A k \in K : v11[k].of # c
  <2>1. K \in SUBSET DOMAIN v11 /\ \A k \in K : v11[k] \in Sound!FadeType /\ Sound!IsFade(v11[k])
    BY <1>1 DEF AreFades
  <2> HIDE DEF K, Sound!FadeType
  <2> QED
    BY <1>1, <2>1, OnlyFades
<1>7. /\ \A then : Runs(Sound!Only(v11, K), Main, then) <=> Runs(v11, Main, then)
      /\ \A c \in Channels : NoFade(Sound!Only(v11, K), c)
  <2>1. \A then : (\E k \in K : v11[k].of = Main /\ v11[k].then = then)
                  <=> Runs(v11, Main, then)
    BY DEF Runs
  <2>2. \A c \in Channels : \A k \in K : v11[k].of # c
    OBVIOUS
  <2> HIDE DEF K
  <2> QED
    BY <1>6, <2>1, <2>2
<1>8. /\ AreFades(more)
      /\ \A of, what : Runs(more, of, what)
                       <=> Runs(Sound!Only(v11, K), of, what) \/ (of = Main /\ what = "nothing")
      /\ \A c \in Channels : NoFade(more, c)
  <2>1. Sound!Full \in {Sound!Low, Sound!Full}
    OBVIOUS
  <2> HIDE DEF K
  <2> QED
    BY <1>6, <1>7, <2>1, FadeOfAll
<1> HIDE DEF t, K, more, heard
<1>9. /\ AreFades(v11')
      /\ \A of, then : Runs(v11', of, then) <=> Runs(more, of, then) \/ Runs(t, of, then)
      /\ \A c \in Channels : Leads(v11', c, Sound!Full)
  <2>1. v11' = more \o t
    BY <1>3 DEF t
  <2>2. /\ AreFades(v11')
        /\ \A of, then : Runs(v11', of, then) <=> Runs(more, of, then) \/ Runs(t, of, then)
        /\ \A c, to :
             /\ Leads(t, c, to)
             /\ \A k \in DOMAIN more, j \in DOMAIN t :
                  more[k].of = c /\ t[j].of = c => more[k].left <= t[j].left
             => Leads(v11', c, to)
    BY <1>5, <1>8, <2>1, FadesFollow
  <2> QED
    BY <1>5, <1>8, <2>2 DEF NoFade
<1>10. \A then : Runs(v11', Main, then) <=> Runs(v11, Main, then) \/ then = "nothing"
  BY <1>5, <1>7, <1>8, <1>9
<1>11. v4' \in 0..v12' /\ v4' \in 0..(MaxInputs + 1) /\ v12' \in 0..(MaxInputs + 1)
       /\ v4' > 0
  BY <1>1, <1>2 DEF Kinds
<1>12. Kinds'
  <2>1. v5' \in [0..(MaxInputs + 1) -> Nat]
    <3>1. v5 \in [0..(MaxInputs + 1) -> Nat]
      BY <1>1 DEF Kinds
    <3> QED
      BY <1>4, <1>11, <3>1 DEF OneMore
  <2>2. v8' \in [Channels \cup {Main} -> {Sound!Low, Sound!Between, Sound!Full}]
    <3>1. Lowered(v3, v8)[Main] \in {Sound!Low, Sound!Between, Sound!Full}
      BY <1>1 DEF Kinds, Lowered
    <3> QED
      BY <1>4, <3>1 DEF heard
  <2>3. v13' \in BOOLEAN
    BY <1>1, <1>2 DEF Kinds, Sound!FadingOut
  <2> QED
    BY <1>1, <1>2, <1>4, <1>11, <2>1, <2>2, <2>3 DEF Kinds
<1>13. Sound!SoloInv'
  BY <1>2 DEF Sound!SoundInv, Sound!SoloInv
<1>14. ~v13' => Sound!MainInv'
  <2> SUFFICES ASSUME ~v13'
               PROVE  Sound!MainInv'
    OBVIOUS
  <2>1. Sound!MainInv /\ ~Sound!FadingOut
    BY <1>1, <1>2 DEF Sound!SoundInv, Kinds, Sound!FadingOut
  <2>2. /\ (Sound!Fades(Main, "nothing") # {})'
        /\ Sound!Fades(Main, "tearDown") = {} /\ Sound!Fades(Main, "tearDown")' = {}
        /\ ~Sound!FadingOut'
    BY <1>10, <2>1, FadesRun, FadesRunNext
  <2>3. ~v3 /\ v6 = {}
    BY <1>2, <2>1, <2>2 DEF Sound!MainInv
  <2>4. (v5 = [s \in DOMAIN v5 |-> IF v3 /\ s = v4 THEN 1 ELSE 0])'
    <3>1. v5 = [s \in DOMAIN v5 |-> 0] /\ v4' \in DOMAIN v5
      BY <1>1, <1>11, <2>1, <2>3 DEF Sound!MainInv, Kinds
    <3>2. v5' = [v5 EXCEPT ![v4'] = 1]
      <4>1. v5' = [v5 EXCEPT ![v4'] = v5[v4'] + 1]
        BY <1>4, <2>3 DEF OneMore
      <4>2. v5[v4'] = 0
        BY <3>1
      <4> QED
        BY <4>1, <4>2
    <3>3. v5' = [s \in DOMAIN v5' |-> IF s = v4' THEN 1 ELSE 0]
      BY <3>1, <3>2
    <3> QED
      BY <1>4, <3>3
  <2>5. v6' = {v4'}
    BY <1>4, <2>3
  <2> QED
    BY <1>2, <1>4, <2>2, <2>4, <2>5 DEF Sound!MainInv
<1>15. Sound!ChannelInv'
  <2>1. \A c \in Channels : Sound!Target(c)' = Sound!Full
    BY <1>2 DEF Sound!Target
  <2> QED
    BY <1>9, <2>1, ChannelsAre
<1> QED
  BY <1>9, <1>12, <1>13, <1>14, <1>15, SoundTypes DEF Sound!SoundInv
(* A volume follows the last fade that sets it, if there is one.            *)
LEMMA SoundingFollows ==
  ASSUME v11 \in Seq(Sound!FadeType), NEW of
  PROVE  /\ \/ /\ \A k \in DOMAIN v11 : v11[k].of = of => v11[k].delay # 0
               /\ Sound!Sounding(of) = v8[of]
            \/ \E last \in DOMAIN v11 :
                 /\ v11[last].of = of /\ v11[last].delay = 0
                 /\ \A k \in DOMAIN v11 : v11[k].of = of /\ v11[k].delay = 0 => k <= last
                 /\ Sound!Sounding(of) = IF Sound!Ended(Sound!Advanced(v11[last])) THEN v11[last].to
                                   ELSE Sound!Between
PROOF
<1> DEFINE moving == {k \in DOMAIN v11 : v11[k].of = of /\ v11[k].delay = 0}
           last == CHOOSE k \in moving : \A j \in moving : j <= k
<1>1. Sound!Sounding(of) = IF moving = {} THEN v8[of]
                     ELSE IF Sound!Ended(Sound!Advanced(v11[last])) THEN v11[last].to ELSE Sound!Between
  BY DEF Sound!Sounding
<1>2. CASE moving = {}
  BY <1>1, <1>2
<1>3. CASE moving # {}
  <2>1. \E k \in moving : \A j \in moving : j <= k
    <3>1. Len(v11) \in Nat /\ moving \in SUBSET (1..Len(v11))
      <4>1. \A S : \A s \in Seq(S) : DOMAIN s = 1..Len(s) /\ Len(s) \in Nat
        OBVIOUS
      <4> HIDE DEF Sound!FadeType
      <4> QED
        BY <4>1
    <3> HIDE DEF moving
    <3> QED
      BY <1>3, <3>1, HasLast
  <2>2. last \in moving /\ \A j \in moving : j <= last
    <3> HIDE DEF moving
    <3> QED
      BY <2>1
  <2> HIDE DEF last
  <2>3. /\ last \in DOMAIN v11 /\ v11[last].of = of /\ v11[last].delay = 0
        /\ \A k \in DOMAIN v11 : v11[k].of = of /\ v11[k].delay = 0 => k <= last
    BY <2>2
  <2>4. Sound!Sounding(of) = IF Sound!Ended(Sound!Advanced(v11[last])) THEN v11[last].to ELSE Sound!Between
    BY <1>1, <1>3
  <2> QED
    BY <2>3, <2>4
<1> QED
  BY <1>2, <1>3

(* A frame: the fades advance, and some of them end.                        *)
Ends(f) == f.delay = 0 /\ f.left = 1

LEMMA FadeAdvances ==
  ASSUME NEW f \in Sound!FadeType, Sound!IsFade(f)
  PROVE  /\ Sound!Advanced(f) \in [of : Channels \cup {Main}, delay : Nat, left : Nat, to : {Sound!Low, Sound!Full},
                             then : {"nothing", "stop", "tearDown"}]
         /\ Sound!Ended(Sound!Advanced(f)) <=> Ends(f)
         /\ Sound!Advanced(f).of = f.of /\ Sound!Advanced(f).to = f.to /\ Sound!Advanced(f).then = f.then
         /\ f.of # Main => f.delay = 0 /\ Sound!Advanced(f).left = f.left - 1
         /\ ~Ends(f) => Sound!Advanced(f) \in Sound!FadeType /\ Sound!IsFade(Sound!Advanced(f))
PROOF
<1> USE SoundAssumption
<1> DEFINE g == Sound!Advanced(f)
<1>1. /\ f.of \in Channels \cup {Main} /\ f.delay \in Nat /\ f.left \in Nat \ {0}
      /\ f.to \in {Sound!Low, Sound!Full} /\ f.then \in {"nothing", "stop", "tearDown"}
      /\ f = [of |-> f.of, delay |-> f.delay, left |-> f.left, to |-> f.to, then |-> f.then]
  BY DEF Sound!FadeType
<1>2. CASE f.delay > 0
  <2>1. g = [of |-> f.of, delay |-> f.delay - 1, left |-> f.left, to |-> f.to, then |-> f.then]
    BY <1>1, <1>2 DEF Sound!Advanced
  <2>2. f.of = Main
    BY <1>1, <1>2 DEF Sound!IsFade
  <2> HIDE DEF g
  <2>3. g \in Sound!FadeType /\ ~Sound!Ended(g) /\ ~Ends(f)
    BY <1>1, <1>2, <2>1 DEF Sound!Ended, Ends, Sound!FadeType
  <2>4. Sound!IsFade(g)
    BY <2>1, <2>2 DEF Sound!IsFade
  <2>5. g \in [of : Channels \cup {Main}, delay : Nat, left : Nat, to : {Sound!Low, Sound!Full},
               then : {"nothing", "stop", "tearDown"}]
    BY <1>1, <1>2, <2>1
  <2>6. /\ Sound!Ended(g) <=> Ends(f)
        /\ g.of = f.of /\ g.to = f.to /\ g.then = f.then
        /\ f.of # Main => f.delay = 0 /\ g.left = f.left - 1
        /\ ~Ends(f) => g \in Sound!FadeType /\ Sound!IsFade(g)
    BY <2>1, <2>2, <2>3, <2>4
  <2> QED
    BY <2>5, <2>6 DEF g
<1>3. CASE f.delay = 0
  <2>1. g = [of |-> f.of, delay |-> 0, left |-> f.left - 1, to |-> f.to, then |-> f.then]
    BY <1>1, <1>3 DEF Sound!Advanced
  <2> HIDE DEF g
  <2>2. f.left - 1 \in Nat /\ (f.left - 1 = 0 <=> f.left = 1)
    BY <1>1
  <2>3. Sound!Ended(g) <=> Ends(f)
    BY <1>3, <2>1, <2>2 DEF Sound!Ended, Ends
  <2>4. ~Ends(f) => g \in Sound!FadeType /\ Sound!IsFade(g)
    <3> SUFFICES ASSUME ~Ends(f)
                 PROVE  g \in Sound!FadeType /\ Sound!IsFade(g)
      OBVIOUS
    <3>1. g \in Sound!FadeType
      BY <1>1, <1>3, <2>1, <2>2 DEF Ends, Sound!FadeType
    <3>2. f.left <= FADE_IN_DURATION => f.left - 1 <= FADE_IN_DURATION
      BY <1>1
    <3>3. Sound!IsFade(g)
      BY <2>1, <3>2 DEF Sound!IsFade
    <3> QED
      BY <3>1, <3>3
  <2>5. g \in [of : Channels \cup {Main}, delay : Nat, left : Nat, to : {Sound!Low, Sound!Full},
               then : {"nothing", "stop", "tearDown"}]
    BY <1>1, <2>1, <2>2
  <2>6. /\ g.of = f.of /\ g.to = f.to /\ g.then = f.then
        /\ f.of # Main => f.delay = 0 /\ g.left = f.left - 1
    BY <1>3, <2>1
  <2> QED
    BY <2>3, <2>4, <2>5, <2>6 DEF g
<1> QED
  BY <1>1, <1>2, <1>3
LEMMA SoundTicks ==
  ASSUME Sound!SoundInv, Sound!Tick
  PROVE  Sound!SoundInv'
PROOF
<1> DEFINE on == [k \in DOMAIN v11 |-> Sound!Advanced(v11[k])]
           K == {k \in DOMAIN v11 : ~Ends(v11[k])}
           stopped == \E k \in DOMAIN v11 :
                         Ends(v11[k]) /\ v11[k].then \in {"stop", "tearDown"}
           torn == \E k \in DOMAIN v11 : Ends(v11[k]) /\ v11[k].then = "tearDown"
           heard == [c \in DOMAIN v8 |-> Sound!Sounding(c)]
           T == [of : Channels \cup {Main}, delay : Nat, left : Nat, to : {Sound!Low, Sound!Full},
                 then : {"nothing", "stop", "tearDown"}]
<1> USE SoundAssumption
<1>1. /\ Kinds /\ AreFades(v11) /\ v11 \in Seq(Sound!FadeType)
      /\ \A k \in DOMAIN v11 : v11[k] \in Sound!FadeType /\ Sound!IsFade(v11[k])
  <2>1. Kinds /\ AreFades(v11) /\ v11 \in Seq(Sound!FadeType)
    BY SoundTypes DEF Sound!SoundInv, AreFades
  <2>2. \A S : \A s \in Seq(S) : \A k \in DOMAIN s : s[k] \in S
    OBVIOUS
  <2>3. \A k \in DOMAIN v11 : v11[k] \in Sound!FadeType
    <3> HIDE DEF Sound!FadeType
    <3> QED
      BY <2>1, <2>2
  <2> QED
    BY <2>1, <2>3 DEF AreFades
<1>2. ~v2 /\ UNCHANGED <<v1, v2, v4, v7, v9, v10, v12, v13,
                             v14>>
  BY DEF Sound!Tick
<1>3. ASSUME NEW k \in DOMAIN v11
      PROVE  /\ on[k] \in T /\ on[k] = Sound!Advanced(v11[k])
             /\ Sound!Ended(on[k]) <=> Ends(v11[k])
             /\ on[k].of = v11[k].of /\ on[k].to = v11[k].to /\ on[k].then = v11[k].then
             /\ v11[k].of # Main => v11[k].delay = 0 /\ on[k].left = v11[k].left - 1
             /\ ~Ends(v11[k]) => on[k] \in Sound!FadeType /\ Sound!IsFade(on[k])
  <2>1. on[k] = Sound!Advanced(v11[k]) /\ v11[k] \in Sound!FadeType /\ Sound!IsFade(v11[k])
    BY <1>1
  <2> HIDE DEF on, Sound!FadeType
  <2> QED
    BY <2>1, FadeAdvances
<1>4. v11' = Sound!Only(on, K)
  <2>1. v11' = Sound!Only(on, {k \in DOMAIN on : ~Sound!Ended(on[k])})
    BY DEF Sound!Tick
  <2>2. K = {k \in DOMAIN on : ~Sound!Ended(on[k])}
    <3>1. DOMAIN on = DOMAIN v11
      OBVIOUS
    <3> HIDE DEF on
    <3> QED
      BY <1>3, <3>1
  <2> QED
    BY <2>1, <2>2
<1>5. /\ AreFades(v11')
      /\ \A of, then : Runs(v11', of, then) <=> \E k \in K : on[k].of = of /\ on[k].then = then
      /\ \A c : NoFade(v11', c) <=> \A k \in K : on[k].of # c
      /\ \A c, to :
           (\E last \in K :
              /\ on[last].of = c /\ on[last].to = to
              /\ \A k \in K : on[k].of = c => k <= last /\ on[k].left <= on[last].left)
           => Leads(v11', c, to)
  <2>1. on \in Seq(T)
    <3>1. \A S, U : \A s \in Seq(S) : \A u :
            u = [k \in DOMAIN s |-> u[k]] /\ (\A k \in DOMAIN s : u[k] \in U) => u \in Seq(U)
      OBVIOUS
    <3>2. on = [k \in DOMAIN v11 |-> on[k]]
      OBVIOUS
    <3> HIDE DEF on, T, Sound!FadeType
    <3> QED
      BY <1>1, <1>3, <3>1, <3>2
  <2>2. K \in SUBSET DOMAIN on /\ \A k \in K : on[k] \in Sound!FadeType /\ Sound!IsFade(on[k])
    <3>1. DOMAIN on = DOMAIN v11
      OBVIOUS
    <3> HIDE DEF on
    <3> QED
      BY <1>3, <3>1
  <2> HIDE DEF on, K, T, Sound!FadeType
  <2> QED
    BY <1>4, <2>1, <2>2, OnlyFades
<1>6. /\ v3' = (v3 /\ ~stopped) /\ v8' = heard
      /\ v5' = OneLess(v3 /\ stopped, v5)
      /\ v6' = IF torn THEN v6 \ {v7} ELSE v6
  <2> DEFINE end == {on[k].then : k \in {j \in DOMAIN on : Sound!Ended(on[j])}}
  <2>1. (end \cap {"stop", "tearDown"} # {} <=> stopped) /\ ("tearDown" \in end <=> torn)
    <3>1. DOMAIN on = DOMAIN v11
      OBVIOUS
    <3>2. \A then : then \in end <=> \E k \in DOMAIN v11 : Ends(v11[k]) /\ v11[k].then = then
      <4> HIDE DEF on
      <4> QED
        BY <1>3, <3>1
    <3> HIDE DEF on, end
    <3> QED
      BY <3>2
  <2>2. LET m == [Sound!Manager EXCEPT !.volume = heard]
            s == IF end \cap {"stop", "tearDown"} # {} THEN Sound!stop(m) ELSE m
        IN  Sound!Becomes(IF "tearDown" \in end THEN [s EXCEPT !.listeners = @ \ {v7}] ELSE s)
    BY DEF Sound!Tick
  <2> HIDE DEF end, stopped, torn, heard, on
  <2>3. v3 \in BOOLEAN
    BY <1>1 DEF Kinds
  <2> QED
    BY <2>1, <2>2, <2>3 DEF Sound!stop, Sound!Becomes, Sound!Manager, OneLess
<1> HIDE DEF on, T
<1>7. Kinds'
  <2>1. v5' \in [0..(MaxInputs + 1) -> Nat]
    <3>1. v5 \in [0..(MaxInputs + 1) -> Nat] /\ v4 \in 0..(MaxInputs + 1)
      BY <1>1 DEF Kinds
    <3>2. (IF v5[v4] = 0 THEN 0 ELSE v5[v4] - 1) \in Nat
      BY <3>1
    <3> HIDE DEF stopped
    <3> QED
      BY <1>6, <3>1, <3>2 DEF OneLess
  <2>2. v8' \in [Channels \cup {Main} -> {Sound!Low, Sound!Between, Sound!Full}]
    <3>1. v8 \in [Channels \cup {Main} -> {Sound!Low, Sound!Between, Sound!Full}]
      BY <1>1 DEF Kinds
    <3>2. ASSUME NEW c \in Channels \cup {Main}
          PROVE  Sound!Sounding(c) \in {Sound!Low, Sound!Between, Sound!Full}
      <4>1. \A k \in DOMAIN v11 : v11[k].to \in {Sound!Low, Sound!Full}
        BY <1>1 DEF Sound!FadeType
      <4>2. v8[c] \in {Sound!Low, Sound!Between, Sound!Full}
        BY <3>1
      <4> HIDE DEF Sound!FadeType
      <4>3. \/ Sound!Sounding(c) = v8[c]
            \/ \E last \in DOMAIN v11 :
                 Sound!Sounding(c) = IF Sound!Ended(Sound!Advanced(v11[last])) THEN v11[last].to ELSE Sound!Between
        BY <1>1, SoundingFollows
      <4> QED
        BY <4>1, <4>2, <4>3
    <3> QED
      BY <1>6, <3>1, <3>2
  <2>3. v3' \in BOOLEAN
    BY <1>1, <1>6 DEF Kinds
  <2> HIDE DEF stopped, torn, heard
  <2> QED
    BY <1>1, <1>2, <2>1, <2>2, <2>3 DEF Kinds
<1>8. Sound!SoloInv'
  BY <1>2 DEF Sound!SoundInv, Sound!SoloInv
<1>9. \A c \in Channels \cup {Main} : v8'[c] = Sound!Sounding(c)
  BY <1>1, <1>6 DEF Kinds
<1>10. ASSUME NEW c \in Channels, Sound!SoundInv, ~v14, v4 > 0
       PROVE  \/ NoFade(v11', c) /\ v8'[c] = Sound!Target(c)
              \/ Leads(v11', c, Sound!Target(c))
  <2>1. c # Main
    OBVIOUS
  <2>2. CASE NoFade(v11, c) /\ v8[c] = Sound!Target(c)
    <3>1. NoFade(v11', c)
      BY <1>3, <1>5, <2>2 DEF NoFade
    <3>2. Sound!Sounding(c) = v8[c]
      BY <1>1, <2>2, SoundingFollows DEF NoFade
    <3> QED
      BY <1>9, <2>2, <3>1, <3>2
  <2>3. CASE Leads(v11, c, Sound!Target(c))
    <3>1. PICK last \in DOMAIN v11 :
            /\ v11[last].of = c /\ v11[last].to = Sound!Target(c)
            /\ \A k \in DOMAIN v11 :
                 v11[k].of = c => k <= last /\ v11[k].left <= v11[last].left
      BY <2>3 DEF Leads
    <3>2. \A k \in DOMAIN v11 : v11[k].left \in Nat \ {0} /\ k \in Nat
      <4>1. \A k \in DOMAIN v11 : v11[k].left \in Nat \ {0}
        BY <1>1 DEF Sound!FadeType
      <4>2. \A S : \A s \in Seq(S) : DOMAIN s \subseteq Nat
        OBVIOUS
      <4> HIDE DEF Sound!FadeType
      <4> QED
        BY <1>1, <4>1, <4>2
    <3>3. \A k \in DOMAIN v11 : v11[k].of = c =>
            v11[k].delay = 0 /\ on[k].of = c /\ on[k].left = v11[k].left - 1
      BY <1>3, <2>1
    <3>4. CASE Ends(v11[last])
      <4>1. \A k \in DOMAIN v11 : v11[k].of = c => Ends(v11[k])
        BY <3>1, <3>2, <3>3, <3>4 DEF Ends
      <4>2. NoFade(v11', c)
        BY <1>3, <1>5, <4>1
      <4>3. PICK l \in DOMAIN v11 :
              /\ v11[l].of = c /\ v11[l].delay = 0
              /\ \A k \in DOMAIN v11 : v11[k].of = c /\ v11[k].delay = 0 => k <= l
              /\ Sound!Sounding(c) = IF Sound!Ended(Sound!Advanced(v11[l])) THEN v11[l].to ELSE Sound!Between
        BY <1>1, <3>1, <3>3, SoundingFollows
      <4>4. l = last
        BY <3>1, <3>2, <3>3, <4>3
      <4>5. Sound!Ended(Sound!Advanced(v11[last]))
        BY <1>3, <3>4
      <4> QED
        BY <1>9, <3>1, <4>2, <4>3, <4>4, <4>5
    <3>5. CASE ~Ends(v11[last])
      <4>1. last \in K /\ on[last].of = c /\ on[last].to = Sound!Target(c)
        BY <1>3, <3>1, <3>5
      <4>2. \A k \in K : on[k].of = c => k <= last /\ on[k].left <= on[last].left
        BY <1>3, <3>1, <3>2, <3>3
      <4> HIDE DEF K
      <4> QED
        BY <1>5, <4>1, <4>2
    <3> QED
      BY <3>4, <3>5
  <2> QED
    BY <1>10, <2>2, <2>3, ChannelsAre DEF Sound!SoundInv
<1>11. (~v14 /\ v4 > 0)' => Sound!ChannelInv'
  <2>1. \A c : Sound!Target(c)' = Sound!Target(c)
    BY <1>2 DEF Sound!Target
  <2> QED
    BY <1>2, <1>10, <2>1, ChannelsAre
<1>12. ~v13' => Sound!MainInv'
  <2> SUFFICES ASSUME ~v13
               PROVE  Sound!MainInv'
    BY <1>2
  <2>1. Sound!MainInv
    BY DEF Sound!SoundInv
  <2>2. \A then : Runs(v11', Main, then)
                  <=> \E k \in DOMAIN v11 :
                        ~Ends(v11[k]) /\ v11[k].of = Main /\ v11[k].then = then
    BY <1>3, <1>5
  <2>3. \A k \in DOMAIN v11 :
          /\ v11[k].then \in {"nothing", "stop", "tearDown"}
          /\ v11[k].then # "nothing" => v11[k].of = Main
    BY <1>1 DEF Sound!FadeType, Sound!IsFade
  <2>4. /\ \A then : Runs(v11', Main, then) => Runs(v11, Main, then)
        /\ stopped => Sound!FadingOut
        /\ ~stopped => (Runs(v11', Main, "stop") <=> Runs(v11, Main, "stop"))
        /\ ~torn => (Runs(v11', Main, "tearDown") <=> Runs(v11, Main, "tearDown"))
        /\ torn => stopped /\ Runs(v11, Main, "tearDown")
    BY <2>2, <2>3, FadesRun DEF Runs
  <2> DEFINE O == Sound!FadingOut
             OO == Sound!FadingOut'
             S == Runs(v11, Main, "stop")
             SS == Runs(v11', Main, "stop")
             R == Runs(v11, Main, "tearDown")
             RR == Runs(v11', Main, "tearDown")
  <2>5. (O <=> S \/ R) /\ (OO <=> SS \/ RR)
        /\ (Sound!Fades(Main, "tearDown") = {} <=> ~R) /\ (Sound!Fades(Main, "tearDown")' = {} <=> ~RR)
    BY FadesRun, FadesRunNext
  <2>6. (v5 = [s \in DOMAIN v5 |-> IF v3 /\ s = v4 THEN 1 ELSE 0])'
    <3>1. v5 = [s \in DOMAIN v5 |-> IF v3 /\ s = v4 THEN 1 ELSE 0]
          /\ v4 \in DOMAIN v5
      BY <1>1, <2>1 DEF Sound!MainInv, Kinds
    <3> HIDE DEF stopped
    <3>2. CASE v3 /\ stopped
      <4>1. v5' = [v5 EXCEPT ![v4] = 0]
        <5>1. v5' = [v5 EXCEPT ![v4] =
                           IF v5[v4] = 0 THEN 0 ELSE v5[v4] - 1]
          BY <1>6, <3>2 DEF OneLess
        <5>2. v5[v4] = 1
          BY <3>1, <3>2
        <5> QED
          BY <5>1, <5>2
      <4>2. v5' = [s \in DOMAIN v5' |-> 0]
        BY <3>1, <4>1
      <4> QED
        BY <1>6, <3>2, <4>2
    <3>3. CASE ~(v3 /\ stopped)
      <4>1. v5' = v5 /\ (v3' <=> v3)
        BY <1>6, <3>3 DEF OneLess
      <4> QED
        BY <1>2, <3>1, <4>1
    <3> QED
      BY <3>2, <3>3
  <2>7. v1 = "playing" =>
          v3' /\ ((Sound!Fades(Main, "nothing") # {})' \/ v8'[Main] = Sound!Full)
    <3> SUFFICES ASSUME v1 = "playing"
                 PROVE  v3' /\ (Runs(v11', Main, "nothing") \/ v8'[Main] = Sound!Full)
      BY FadesRunNext
    <3>1. ~Sound!FadingOut /\ ~stopped /\ v3
      BY <1>2, <2>1, <2>4 DEF Sound!MainInv
    <3>2. v3'
      BY <1>6, <3>1
    <3>3. \A k \in DOMAIN v11 : v11[k].of = Main => v11[k].then = "nothing"
      <4>1. ~Runs(v11, Main, "stop") /\ ~Runs(v11, Main, "tearDown")
        BY <3>1, FadesRun
      <4> SUFFICES ASSUME NEW k \in DOMAIN v11, v11[k].of = Main
                   PROVE  v11[k].then = "nothing"
        OBVIOUS
      <4>2. v11[k].then # "stop" /\ v11[k].then # "tearDown"
        BY <4>1 DEF Runs
      <4>3. v11[k].then \in {"nothing", "stop", "tearDown"}
        BY <2>3
      <4> QED
        BY <4>2, <4>3
    <3>4. \A k \in DOMAIN v11 : v11[k].of = Main => v11[k].to = Sound!Full
      BY <1>1, <3>3 DEF Sound!IsFade
    <3>5. CASE Runs(v11, Main, "nothing") /\ ~Runs(v11', Main, "nothing")
      <4>1. \A k \in DOMAIN v11 : v11[k].of = Main => Ends(v11[k])
        BY <2>2, <3>3, <3>5
      <4>2. \A k \in DOMAIN v11 : v11[k].of = Main => v11[k].delay = 0
        BY <4>1 DEF Ends
      <4>3. PICK k \in DOMAIN v11 : v11[k].of = Main
        BY <3>5 DEF Runs
      <4>4. PICK l \in DOMAIN v11 :
              /\ v11[l].of = Main
              /\ Sound!Sounding(Main) = IF Sound!Ended(Sound!Advanced(v11[l])) THEN v11[l].to ELSE Sound!Between
        BY <1>1, <4>2, <4>3, SoundingFollows
      <4>5. Sound!Ended(Sound!Advanced(v11[l]))
        BY <1>3, <4>1, <4>4
      <4>6. Sound!Sounding(Main) = Sound!Full
        BY <3>4, <4>4, <4>5
      <4> QED
        BY <1>9, <3>2, <4>6
    <3>6. CASE ~Runs(v11, Main, "nothing")
      <4>1. \A k \in DOMAIN v11 : v11[k].of # Main
        BY <3>3, <3>6 DEF Runs
      <4>2. Sound!Sounding(Main) = v8[Main]
        BY <1>1, <4>1, SoundingFollows
      <4>3. v8[Main] = Sound!Full
        BY <1>2, <2>1, <3>1, <3>6, FadesRun DEF Sound!MainInv
      <4> QED
        BY <1>9, <3>2, <4>2, <4>3
    <3> QED
      BY <3>2, <3>5, <3>6
  <2> HIDE DEF O, OO, S, SS, R, RR, stopped, torn, heard, K
  <2>8. /\ v1' = "playing" => ~Sound!FadingOut'
        /\ v3' =>
             /\ ~v2' /\ v6' = {v4'}
             /\ \/ v1' = "playing"
                \/ v1' = "paused" /\ Sound!FadingOut'
                \/ Sound!Fades(Main, "tearDown")' # {}
    <3>1. /\ OO => O
          /\ v3' => v3 /\ ~stopped /\ ~torn
          /\ ~torn => v6' = v6
          /\ ~stopped /\ ~torn => (OO <=> O) /\ (RR <=> R)
      BY <1>1, <1>6, <2>4, <2>5 DEF O, OO, S, SS, R, RR, Kinds
    <3> QED
      BY <1>2, <2>1, <2>5, <3>1 DEF Sound!MainInv, O, OO
  <2>9. /\ v1' # "off" => v6' = {v4'} /\ Sound!Fades(Main, "tearDown")' = {}
        /\ v1' = "off" /\ Sound!Fades(Main, "tearDown")' = {} => v6' = {}
        /\ v6' \in {{}, {v4'}} /\ v7' = v4'
    <3>1. /\ torn => R
          /\ RR => R
          /\ ~torn => (RR <=> R)
      BY <2>4 DEF R, RR
    <3>2. v6' = IF torn THEN v6 \ {v7} ELSE v6
      BY <1>6
    <3> QED
      BY <1>2, <2>1, <2>5, <3>1, <3>2 DEF Sound!MainInv
  <2> QED
    BY <1>2, <2>6, <2>7, <2>8, <2>9 DEF Sound!MainInv
<1> QED
  BY <1>5, <1>7, <1>8, <1>11, <1>12, SoundTypes DEF Sound!SoundInv

LEMMA SoundStep ==
  ASSUME Sound!SoundInv, [Sound!Next]_Sound!vars
  PROVE  Sound!SoundInv'
PROOF
<1> USE SoundAssumption
<1>1. v12 \in 0..(MaxInputs + 1)
  BY DEF Sound!SoundInv, Sound!SoundTypeOK
<1>2. ASSUME Sound!Input
      PROVE  v12' \in 0..(MaxInputs + 1) /\ v12 <= v12'
  BY <1>1, <1>2 DEF Sound!Input
<1>3. CASE Sound!pause
  <2>1. Sound!fadeOut(FadeOutTime, "stop")
    BY <1>3 DEF Sound!pause
  <2> QED
    BY <1>2, <1>3, <2>1, FadesOut DEF Sound!pause
<1>4. CASE Sound!tearDown
  <2>1. Sound!fadeOut(ExitFadeTime, "tearDown")
    BY <1>4 DEF Sound!tearDown
  <2> QED
    BY <1>2, <1>4, <2>1, FadesOut DEF Sound!tearDown
<1>5. CASE Sound!play
  <2>1. Sound!fadeIn(Sound!Manager, ShortFadeIn, 0) /\ v2' = FALSE /\ 0 \in Nat
    BY <1>5 DEF Sound!play, Sound!SoundInv, Sound!SoundTypeOK
  <2> QED
    BY <1>2, <1>5, <2>1, FadesIn DEF Sound!play
<1> QED
  BY <1>3, <1>4, <1>5, SoundStarts, VisibilityChanges, ViewOpens, ViewCloses, SoundTicks,
     SoundKeeps
     DEF Sound!Next

LEMMA SoundBegins == Sound!Init => Sound!SoundInv
PROOF
<1> USE SoundAssumption
<1> SUFFICES ASSUME Sound!Init
             PROVE  Sound!SoundInv
  OBVIOUS
<1>1. v11 = << >> /\ Sound!FadingOut = FALSE /\ \A then : Sound!Fades(Main, then) = {}
  BY DEF Sound!Init, Sound!FadingOut, Sound!Fades
<1>2. Sound!SoundTypeOK
  BY <1>1 DEF Sound!Init, Sound!SoundTypeOK
<1>3. Sound!SoloInv
  BY DEF Sound!Init, Sound!SoloInv
<1>4. Sound!MainInv
  BY <1>1 DEF Sound!Init, Sound!MainInv
<1>5. ~(v4 > 0)
  BY DEF Sound!Init
<1> QED
  BY <1>2, <1>3, <1>4, <1>5 DEF Sound!SoundInv

LEMMA SoundIsOn == Sound!SoundInv => Sound!AudioFollows
PROOF
<1> SUFFICES ASSUME Sound!SoundInv, v11 = << >>
             PROVE  /\ ~v13 => Sound!OnWhilePlaying
                    /\ (~v14 /\ v4 > 0) => Sound!QuietWhenMuted
                    /\ v9 = IF v10 = Main THEN {} ELSE Channels \ {v10}
  BY DEF Sound!AudioFollows
<1>1. ~Sound!FadingOut /\ \A then : Sound!Fades(Main, then) = {}
  BY DEF Sound!FadingOut, Sound!Fades
<1>2. ASSUME ~v13
      PROVE  Sound!OnWhilePlaying
  <2>1. Sound!MainInv
    BY <1>2 DEF Sound!SoundInv
  <2>2. v3 <=> (v1 = "playing" /\ ~v2)
    BY <1>1, <2>1 DEF Sound!MainInv
  <2>3. v3 => v8[Main] = Sound!Full
    BY <1>1, <2>1, <2>2 DEF Sound!MainInv
  <2>4. \A s \in DOMAIN v5 : v5[s] = IF v3 /\ s = v4 THEN 1 ELSE 0
    <3>1. v5 = [s \in DOMAIN v5 |-> IF v3 /\ s = v4 THEN 1 ELSE 0]
      BY <2>1 DEF Sound!MainInv
    <3> QED
      BY <3>1
  <2>5. v6 = IF v1 = "off" THEN {} ELSE {v4}
    BY <1>1, <2>1 DEF Sound!MainInv
  <2> QED
    BY <2>2, <2>3, <2>4, <2>5 DEF Sound!OnWhilePlaying
<1>3. (~v14 /\ v4 > 0) => Sound!QuietWhenMuted
  <2>1. \A c \in Channels : \A to : ~Leads(v11, c, to)
    BY DEF Leads
  <2> QED
    BY <2>1, ChannelsAre DEF Sound!SoundInv, Sound!Target, Sound!QuietWhenMuted
<1>4. v9 = IF v10 = Main THEN {} ELSE Channels \ {v10}
  BY DEF Sound!SoundInv, Sound!SoloInv
<1> QED
  BY <1>2, <1>3, <1>4

------------------------------------------------------------------------------
(***************************************************************************)
(* The beats.  v1 is the time, v3 that of the next beat, v4 its number, v5 *)
(* when the worker ticks, v6 the ticks under way, v9 the beats handed out. *)
(***************************************************************************)
(* Division, with a remainder.                                              *)
LEMMA Remainder ==
  \A a \in Int, m \in Nat \ {0}, q \in Int, r \in Nat :
    a = m * q + r /\ r < m => a % m = r /\ a \div m = q
  OBVIOUS

LEMMA Divides ==
  \A n \in Nat, m \in Nat \ {0} :
    /\ n = m * (n \div m) + (n % m)
    /\ n \div m \in Nat /\ n % m \in Nat /\ n % m < m
  OBVIOUS

(* Numbers of beats go round.                                               *)
LEMMA Rounds ==
  ASSUME NEW n \in Nat, NEW m \in Nat \ {0}
  PROVE  n % m \in 0..(m - 1) /\ ((n % m) + 1) % m = (n + 1) % m
PROOF
<1> DEFINE q == n \div m
           r == n % m
<1>1. n = m * q + r /\ r \in Nat /\ r < m /\ q \in Nat
  BY Divides
<1> HIDE DEF q, r
<1>2. CASE r + 1 < m
  <2>1. (r + 1) % m = r + 1
    <3>1. r + 1 = m * 0 + (r + 1)
      BY <1>1
    <3> QED
      BY <1>1, <1>2, <3>1, Remainder
  <2>2. (n + 1) % m = r + 1
    <3>1. n + 1 = m * q + (r + 1) /\ n + 1 \in Int /\ q \in Int /\ r + 1 \in Nat
      BY <1>1
    <3> HIDE <1>1
    <3> QED
      BY <1>2, <3>1, Remainder
  <2> QED
    BY <1>1, <2>1, <2>2 DEF r
<1>3. CASE r + 1 = m
  <2>1. (r + 1) % m = 0
    <3>1. r + 1 = m * 1 + 0
      BY <1>3
    <3> QED
      BY <1>1, <1>3, <3>1, Remainder
  <2>2. (n + 1) % m = 0
    <3>1. n + 1 = m * (q + 1) + 0
      BY <1>1, <1>3
    <3> QED
      BY <1>1, <3>1, Remainder
  <2> QED
    BY <1>1, <2>1, <2>2 DEF r
<1> QED
  BY <1>1, <1>2, <1>3

LEMMA LaterBeat ==
  ASSUME Beats!TicksInv, NEW k \in Nat
  PROVE  /\ Beats!Beat(k).time \in Nat /\ Beats!Beat(k).time >= v3
         /\ k > 0 => Beats!Beat(k).time >= v3 + A_16TH_NOTE_DURATION
         /\ Beats!Beat(k + 1).time = Beats!Beat(k).time + A_16TH_NOTE_DURATION
         /\ Beats!Beat(0).time = v3
  BY SequencerAssumption DEF Beats!Beat, Beats!TicksInv

(* A tick hands out n beats.                                                *)
LEMMA BeatsAreHanded ==
  ASSUME Beats!SequencerInv, v6 # << >>, NEW n \in Nat,
         v9' = v9 \o [k \in 1..n |-> Beats!Beat(k - 1)],
         v3' = Beats!Beat(n).time, v4' = Beats!Beat(n).beat,
         v8' = (v8 /\ n = 0)
  PROVE  (Beats!BeatsInv /\ Beats!BeatsInTime)'
PROOF
<1> DEFINE T == [beat : 0..(TOTAL_BEATS - 1), time : Nat, at : Nat, first : BOOLEAN]
           m == Len(v9)
           new == [k \in 1..n |-> Beats!Beat(k - 1)]
<1> USE SequencerAssumption
<1>1. /\ v4 \in 0..(TOTAL_BEATS - 1) /\ v3 \in Nat /\ v1 \in Nat
      /\ v8 \in BOOLEAN /\ v9 \in Seq(T) /\ m \in Nat
  <2>1. v9 \in Seq(T)
    BY DEF Beats!SequencerInv, Beats!BeatsInv
  <2> HIDE DEF T
  <2>2. Len(v9) \in Nat
    BY <2>1
  <2> QED
    BY <2>1, <2>2 DEF Beats!SequencerInv, Beats!TicksInv, Beats!BeatsInv
<1>2. \A k \in Nat : Beats!Beat(k) \in T
  <2> TAKE k \in Nat
  <2>1. v4 + k \in Nat
    BY <1>1
  <2>2. (v4 + k) % TOTAL_BEATS \in 0..(TOTAL_BEATS - 1)
    BY <2>1, Rounds
  <2>3. Beats!Beat(k).time \in Nat
    BY LaterBeat DEF Beats!SequencerInv
  <2>4. (Beats!Beat(k).first <=> (v8 /\ k = 0)) /\ Beats!Beat(k).at = v1
    BY <1>1 DEF Beats!Beat
  <2>5. Beats!Beat(k).first \in BOOLEAN
    BY <1>1 DEF Beats!Beat
  <2>6. Beats!Beat(k) = [beat |-> (v4 + k) % TOTAL_BEATS, time |-> Beats!Beat(k).time,
                   at |-> Beats!Beat(k).at, first |-> Beats!Beat(k).first]
    BY DEF Beats!Beat
  <2> QED
    BY <1>1, <2>2, <2>3, <2>4, <2>6, <2>5
<1>3. new \in Seq(T) /\ Len(new) = n /\ \A k \in 1..n : new[k] = Beats!Beat(k - 1)
  <2>1. new \in [1..n -> T] /\ \A k \in 1..n : new[k] = Beats!Beat(k - 1)
    <3>1. ASSUME NEW k \in 1..n
          PROVE  Beats!Beat(k - 1) \in T
      <4>1. k - 1 \in Nat
        OBVIOUS
      <4> HIDE DEF T
      <4> QED
        BY <1>2, <4>1
    <3> HIDE DEF T
    <3> QED
      BY <3>1
  <2> HIDE DEF T, new
  <2>2. \A f \in [1..n -> T] : f \in Seq(T) /\ Len(f) = n
    OBVIOUS
  <2> QED
    BY <2>1, <2>2
<1> HIDE DEF T, new
<1>4. /\ v9' \in Seq(T) /\ Len(v9') = m + n
      /\ \A k \in 1..m : v9'[k] = v9[k]
      /\ \A k \in 1..n : v9'[m + k] = Beats!Beat(k - 1)
  <2>1. v9' = v9 \o new
    BY DEF new
  <2>2. \A s, t \in Seq(T) :
          /\ s \o t \in Seq(T) /\ Len(s \o t) = Len(s) + Len(t)
          /\ \A k \in 1..Len(s) : (s \o t)[k] = s[k]
          /\ \A k \in 1..Len(t) : (s \o t)[Len(s) + k] = t[k]
    OBVIOUS
  <2>3. /\ v9 \o new \in Seq(T) /\ Len(v9 \o new) = m + n
        /\ \A k \in 1..m : (v9 \o new)[k] = v9[k]
        /\ \A k \in 1..n : (v9 \o new)[m + k] = new[k]
    BY <1>1, <1>3, <2>2
  <2> QED
    BY <1>3, <2>1, <2>3
<1>5. \A k \in Nat : Beats!Beat(k + 1).beat = (Beats!Beat(k).beat + 1) % TOTAL_BEATS
  <2> TAKE k \in Nat
  <2>1. v4 + k \in Nat /\ v4 + (k + 1) = (v4 + k) + 1
    BY <1>1
  <2> QED
    BY <2>1, Rounds DEF Beats!Beat
<1>6. Beats!Beat(0).beat = v4
  BY <1>1 DEF Beats!Beat
<1>7. ASSUME m > 0
      PROVE  /\ v4 = (v9[m].beat + 1) % TOTAL_BEATS
             /\ v8 \/ v3 = v9[m].time + A_16TH_NOTE_DURATION
  BY <1>1, <1>7 DEF Beats!SequencerInv, Beats!BeatsInv
<1>8. Beats!BeatsInv'
  <2>1. v4' \in 0..(TOTAL_BEATS - 1)
    BY <1>2 DEF T
  <2>2. CASE n = 0
    <3>1. v4' = v4 /\ v3' = v3 /\ v8' = v8
      <4>1. Beats!Beat(0).time = v3
        BY LaterBeat DEF Beats!SequencerInv
      <4> QED
        BY <1>1, <1>6, <2>2, <4>1
    <3>2. Len(v9') = m /\ (m > 0 => v9'[m] = v9[m])
      BY <1>1, <1>4, <2>2
    <3>3. v9' # << >> => m > 0
      BY <1>1, <1>4, <3>2
    <3>4. m > 0 => /\ v4' = (v9'[Len(v9')].beat + 1) % TOTAL_BEATS
                   /\ \/ v8'
                      \/ v3' = v9'[Len(v9')].time + A_16TH_NOTE_DURATION
      BY <1>7, <3>1, <3>2
    <3> QED
      BY <1>4, <2>1, <3>3, <3>4 DEF Beats!BeatsInv, T
  <2>3. CASE n > 0
    <3>1. v9'[Len(v9')] = Beats!Beat(n - 1)
      BY <1>1, <1>4, <2>3
    <3>2. n - 1 \in Nat /\ (n - 1) + 1 = n
      BY <2>3
    <3>3. v4' = (Beats!Beat(n - 1).beat + 1) % TOTAL_BEATS
      BY <1>5, <3>2
    <3>4. v3' = Beats!Beat(n - 1).time + A_16TH_NOTE_DURATION
      BY <3>2, LaterBeat DEF Beats!SequencerInv
    <3>5. /\ v4' = (v9'[Len(v9')].beat + 1) % TOTAL_BEATS
          /\ v3' = v9'[Len(v9')].time + A_16TH_NOTE_DURATION
      BY <3>1, <3>3, <3>4
    <3> QED
      BY <1>4, <2>1, <3>5 DEF Beats!BeatsInv, T
  <2> QED
    BY <2>2, <2>3
<1>9. ASSUME NEW k \in 1..n
      PROVE  /\ Beats!Beat(k - 1).at <= Beats!Beat(k - 1).time + MaxDelay
                                   + IF Beats!Beat(k - 1).first THEN LOOK_AHEAD ELSE 0
             /\ Beats!Beat(k - 1).first <=> (v8 /\ k = 1)
  <2>1. v1 <= v3 + MaxDelay + Beats!Slack
    BY <1>1 DEF Beats!SequencerInv, Beats!TicksInv, Beats!Slack
  <2>2. Beats!Beat(k - 1).at = v1 /\ (Beats!Beat(k - 1).first <=> (v8 /\ k = 1))
    <3>1. k - 1 = 0 <=> k = 1
      OBVIOUS
    <3> QED
      BY <3>1 DEF Beats!Beat
  <2>3. k - 1 \in Nat
    OBVIOUS
  <2>4. /\ Beats!Beat(k - 1).time \in Nat /\ Beats!Beat(k - 1).time >= v3
        /\ k - 1 > 0 => Beats!Beat(k - 1).time >= v3 + A_16TH_NOTE_DURATION
    BY <2>3, LaterBeat DEF Beats!SequencerInv
  <2>5. CASE v8 /\ k > 1
    BY <1>1, <2>1, <2>2, <2>4, <2>5 DEF Beats!Slack
  <2>6. CASE ~v8 \/ k = 1
    BY <1>1, <2>1, <2>2, <2>4, <2>6 DEF Beats!Slack
  <2> QED
    BY <2>2, <2>5, <2>6
<1>10. ASSUME NEW k \in 1..(m + n)
       PROVE  (/\ v9[k].at <= v9[k].time + MaxDelay
                                  + IF v9[k].first THEN LOOK_AHEAD ELSE 0
               /\ k > 1 =>
                    /\ v9[k].beat = (v9[k - 1].beat + 1) % TOTAL_BEATS
                    /\ \/ v9[k].first
                       \/ v9[k].time = v9[k - 1].time + A_16TH_NOTE_DURATION)'
  <2>1. CASE k <= m
    <3>1. k \in DOMAIN v9 /\ v9'[k] = v9[k]
          /\ (k > 1 => k - 1 \in 1..m /\ v9'[k - 1] = v9[k - 1])
      BY <1>1, <1>4, <2>1
    <3> QED
      BY <3>1 DEF Beats!SequencerInv, Beats!BeatsInTime
  <2>2. CASE k = m + 1
    <3>1. v9'[k] = Beats!Beat(0) /\ 1 \in 1..n
      BY <1>1, <1>4, <2>2
    <3>2. /\ Beats!Beat(0).at <= Beats!Beat(0).time + MaxDelay + IF Beats!Beat(0).first THEN LOOK_AHEAD ELSE 0
          /\ Beats!Beat(0).first <=> v8
      <4>1. 1 - 1 = 0
        OBVIOUS
      <4>2. /\ Beats!Beat(1 - 1).at <= Beats!Beat(1 - 1).time + MaxDelay
                                  + IF Beats!Beat(1 - 1).first THEN LOOK_AHEAD ELSE 0
            /\ Beats!Beat(1 - 1).first <=> (v8 /\ 1 = 1)
        BY <1>9, <3>1
      <4> QED
        BY ONLY <4>1, <4>2
    <3>3. k > 1 => v9'[k - 1] = v9[m] /\ m > 0
      BY <1>1, <1>4, <2>2
    <3>4. Beats!Beat(0).time = v3
      BY LaterBeat DEF Beats!SequencerInv
    <3>5. k > 1 => /\ v4 = (v9'[k - 1].beat + 1) % TOTAL_BEATS
                   /\ v8 \/ v3 = v9'[k - 1].time + A_16TH_NOTE_DURATION
      BY <1>7, <3>3
    <3> QED
      BY <1>6, <3>1, <3>2, <3>4, <3>5
  <2>3. CASE k > m + 1
    <3> DEFINE j == k - m - 1
    <3>1. j \in Nat /\ j > 0 /\ j \in 1..n /\ j + 1 \in 1..n /\ j - 1 \in Nat
          /\ k = m + (j + 1) /\ k - 1 = m + j
      BY <1>1, <2>3
    <3> HIDE DEF j
    <3>2. v9'[k] = Beats!Beat(j) /\ v9'[k - 1] = Beats!Beat(j - 1)
      BY <1>4, <3>1
    <3>3. /\ Beats!Beat(j).at <= Beats!Beat(j).time + MaxDelay + IF Beats!Beat(j).first THEN LOOK_AHEAD ELSE 0
          /\ ~Beats!Beat(j).first
      <4>1. (j + 1) - 1 = j /\ j + 1 # 1
        BY <3>1
      <4> QED
        BY <1>9, <3>1, <4>1
    <3>4. Beats!Beat(j).time = Beats!Beat(j - 1).time + A_16TH_NOTE_DURATION
      BY <3>1, LaterBeat DEF Beats!SequencerInv
    <3>5. Beats!Beat(j).beat = (Beats!Beat(j - 1).beat + 1) % TOTAL_BEATS
      BY <1>5, <3>1
    <3> QED
      BY <3>2, <3>3, <3>4, <3>5
  <2>4. k <= m \/ k = m + 1 \/ k > m + 1
    BY <1>1
  <2> QED
    BY <2>1, <2>2, <2>3, <2>4
<1>11. DOMAIN v9' = 1..(m + n)
  BY <1>1, <1>4
<1> QED
  BY <1>8, <1>10, <1>11 DEF Beats!BeatsInTime

LEMMA SequencerNext ==
  ASSUME Beats!SequencerInv, [Beats!Next]_Beats!vars
  PROVE  Beats!SequencerInv'
PROOF
<1> USE SequencerAssumption
<1>1. CASE UNCHANGED Beats!vars
  BY <1>1 DEF Beats!vars, Beats!SequencerInv, Beats!TicksInv, Beats!Slack,
              Beats!BeatsInv, Beats!BeatsInTime
<1>2. ASSUME UNCHANGED <<v9, v4>>, v8' \/ UNCHANGED <<v8, v3>>
      PROVE  (Beats!BeatsInv /\ Beats!BeatsInTime)'
  BY <1>2 DEF Beats!SequencerInv, Beats!BeatsInv, Beats!BeatsInTime
<1>3. CASE Beats!start
  <2>1. (Beats!BeatsInv /\ Beats!BeatsInTime)'
    BY <1>2, <1>3 DEF Beats!start
  <2>2. Beats!TicksInv'
    BY <1>3 DEF Beats!start, Beats!SequencerInv, Beats!TicksInv, Beats!Slack
  <2> QED
    BY <2>1, <2>2 DEF Beats!SequencerInv
<1>4. CASE Beats!stop
  <2>1. (Beats!BeatsInv /\ Beats!BeatsInTime)'
    BY <1>2, <1>4 DEF Beats!stop
  <2>2. Beats!TicksInv'
    BY <1>4 DEF Beats!stop, Beats!SequencerInv, Beats!TicksInv, Beats!Slack
  <2> QED
    BY <2>1, <2>2 DEF Beats!SequencerInv
<1>5. CASE Beats!ticker
  <2>1. (Beats!BeatsInv /\ Beats!BeatsInTime)'
    BY <1>2, <1>5 DEF Beats!ticker
  <2>2. /\ v6' \in Seq(Nat) /\ Len(v6') = Len(v6) + 1 /\ Len(v6) \in Nat
        /\ \A i \in 1..Len(v6) : v6'[i] = v6[i]
        /\ v6'[Len(v6) + 1] = v1
        /\ v1 \in Nat
    BY <1>5 DEF Beats!ticker, Beats!SequencerInv, Beats!TicksInv
  <2>3. \A i \in DOMAIN v6' :
          /\ v6'[i] <= v1
          /\ \A j \in DOMAIN v6' : i < j => v6'[i] <= v6'[j]
    <3>1. \A i \in 1..Len(v6) : v6[i] <= v1 /\ v6[i] \in Nat
      BY DEF Beats!SequencerInv, Beats!TicksInv
    <3>2. \A i, j \in 1..Len(v6) : i < j => v6[i] <= v6[j]
      BY DEF Beats!SequencerInv, Beats!TicksInv
    <3>3. DOMAIN v6' = 1..(Len(v6) + 1)
      BY <2>2
    <3>4. ASSUME NEW i \in 1..(Len(v6) + 1)
          PROVE  v6'[i] <= v1
      <4>1. CASE i \in 1..Len(v6)
        BY <2>2, <3>1, <4>1
      <4>2. CASE i = Len(v6) + 1
        BY <2>2, <4>2
      <4> QED
        BY <2>2, <4>1, <4>2
    <3>5. ASSUME NEW i \in 1..(Len(v6) + 1), NEW j \in 1..(Len(v6) + 1), i < j
          PROVE  v6'[i] <= v6'[j]
      <4>1. i \in 1..Len(v6)
        BY <2>2, <3>5
      <4>2. CASE j \in 1..Len(v6)
        BY <2>2, <3>2, <3>5, <4>1, <4>2
      <4>3. CASE j = Len(v6) + 1
        <5>1. v6'[j] = v1
          BY <2>2, <4>3
        <5> QED
          BY <3>4, <5>1
      <4> QED
        BY <2>2, <4>2, <4>3
    <3> QED
      BY <3>3, <3>4, <3>5
  <2>4. v6'[1] <= v3 + Beats!Slack /\ v1 <= v6'[1] + MaxDelay
    <3>1. CASE v6 = << >>
      BY <1>5, <2>2, <3>1 DEF Beats!ticker, Beats!SequencerInv, Beats!TicksInv,
                              Beats!Slack
    <3>2. CASE v6 # << >>
      <4>1. v6'[1] = v6[1]
        BY <2>2, <3>2 DEF Beats!SequencerInv, Beats!TicksInv
      <4> QED
        BY <3>2, <4>1 DEF Beats!SequencerInv, Beats!TicksInv
    <3> QED
      BY <3>1, <3>2
  <2>5. v6' # << >>
    BY <2>2
  <2>6. Beats!TicksInv'
    BY <1>5, <2>2, <2>3, <2>4, <2>5 DEF Beats!ticker, Beats!SequencerInv, Beats!TicksInv,
                                        Beats!Slack
  <2> QED
    BY <2>1, <2>6 DEF Beats!SequencerInv
<1>6. CASE Beats!onTick
  <2>1. PICK n \in 0..(MaxTime + SCHEDULE_AHEAD) :
          /\ ~Beats!Ahead(n)
          /\ v9' = v9 \o [k \in 1..n |-> Beats!Beat(k - 1)]
          /\ v3' = Beats!Beat(n).time
          /\ v4' = Beats!Beat(n).beat
          /\ v8' = (v8 /\ n = 0)
    BY <1>6 DEF Beats!onTick
  <2>2. n \in Nat /\ v6 # << >> /\ v6' = Tail(v6) /\ UNCHANGED <<v1, v5>>
    BY <1>6 DEF Beats!onTick
  <2>3. (Beats!BeatsInv /\ Beats!BeatsInTime)'
    BY <2>1, <2>2, BeatsAreHanded
  <2>4. v3' \in Nat /\ v3' >= v1 + SCHEDULE_AHEAD
        /\ v1 \in Nat
    <3>1. Beats!Beat(n).time \in Nat
      BY <2>2, LaterBeat DEF Beats!SequencerInv
    <3>2. ~(Beats!Beat(n).time < v1 + SCHEDULE_AHEAD) /\ v1 \in Nat
      BY <2>1 DEF Beats!Ahead, Beats!SequencerInv, Beats!TicksInv
    <3> QED
      BY <2>1, <3>1, <3>2
  <2>5. /\ v6' \in Seq(Nat) /\ Len(v6') = Len(v6) - 1 /\ Len(v6) \in Nat
        /\ \A i \in 1..(Len(v6) - 1) : v6'[i] = v6[i + 1]
    BY <2>2 DEF Beats!SequencerInv, Beats!TicksInv
  <2>6. \A i \in DOMAIN v6' :
          /\ v6'[i] <= v1
          /\ \A j \in DOMAIN v6' : i < j => v6'[i] <= v6'[j]
    <3>1. \A i, j \in 1..Len(v6) : i < j => v6[i] <= v6[j]
      BY DEF Beats!SequencerInv, Beats!TicksInv
    <3>2. \A i \in 1..Len(v6) : v6[i] <= v1
      BY DEF Beats!SequencerInv, Beats!TicksInv
    <3>3. DOMAIN v6' = 1..(Len(v6) - 1)
      BY <2>5
    <3>4. \A i \in 1..(Len(v6) - 1) : i + 1 \in 1..Len(v6)
      BY <2>5
    <3> HIDE DEF Beats!SequencerInv
    <3> QED
      <4> TAKE i \in DOMAIN v6'
      <4>1. i + 1 \in 1..Len(v6) /\ v6'[i] = v6[i + 1]
        BY <2>5, <3>3, <3>4
      <4>2. ASSUME NEW j \in DOMAIN v6', i < j
            PROVE  v6'[i] <= v6'[j]
        <5>1. j + 1 \in 1..Len(v6) /\ v6'[j] = v6[j + 1] /\ i + 1 < j + 1
          BY <2>5, <3>3, <3>4, <4>2
        <5> QED
          BY <3>1, <4>1, <5>1
      <4> QED
        BY <3>2, <4>1, <4>2
  <2>7. ASSUME v6' # << >>
        PROVE  /\ v1 <= v6'[1] + MaxDelay
               /\ v6'[1] <= v1
    <3>1. 1 \in DOMAIN v6' /\ v6'[1] = v6[2] /\ 2 \in DOMAIN v6 /\ 1 \in DOMAIN v6
      BY <2>5, <2>7
    <3>2. v6[1] <= v6[2] /\ v6[1] \in Nat /\ v6[2] \in Nat
          /\ v1 <= v6[1] + MaxDelay
      BY <2>2, <3>1 DEF Beats!SequencerInv, Beats!TicksInv
    <3> QED
      BY <2>4, <2>6, <3>1, <3>2
  <2>8. v6' # << >> => v6'[1] \in Nat
    BY <2>5
  <2>9. v8' \in BOOLEAN /\ v5 \in Nat /\ Beats!Slack' \in Nat
        /\ (v5 # 0 => v1 <= v5 /\ v5 <= v1 + LOOK_AHEAD)
    BY <2>1 DEF Beats!SequencerInv, Beats!TicksInv, Beats!Slack
  <2>10. v6' # << >> => v6'[1] <= (v3 + Beats!Slack)'
    BY <2>4, <2>7, <2>8, <2>9
  <2>11. v5 # 0 => v5 <= v3' + Beats!Slack'
    <3> SUFFICES ASSUME v5 # 0
                 PROVE  v5 <= v3' + Beats!Slack'
      OBVIOUS
    <3>1. v5 \in Nat /\ v5 <= v1 + SCHEDULE_AHEAD /\ SCHEDULE_AHEAD \in Nat
      BY <2>4, <2>9, SequencerAssumption
    <3> DEFINE slack == Beats!Slack'
               then  == v3'
    <3>2. slack \in Nat /\ then \in Nat /\ v1 \in Nat
          /\ then >= v1 + SCHEDULE_AHEAD
      BY <2>4, <2>9
    <3> HIDE DEF slack, then
    <3>3. v5 <= then + slack
      BY <3>1, <3>2
    <3> QED
      BY <3>3 DEF slack, then
  <2>12. v1 \in Nat \ {0}
    BY DEF Beats!SequencerInv, Beats!TicksInv
  <2>13. Beats!TicksInv'
    BY <2>2, <2>4, <2>5, <2>6, <2>7, <2>9, <2>10, <2>11, <2>12 DEF Beats!TicksInv
  <2> QED
    BY <2>3, <2>13 DEF Beats!SequencerInv
<1>7. CASE Beats!Clock
  <2>1. (Beats!BeatsInv /\ Beats!BeatsInTime)'
    BY <1>2, <1>7 DEF Beats!Clock
  <2>2. /\ UNCHANGED <<v3, v5, v6, v8>> /\ v1' = v1 + 1
        /\ v5 # v1
        /\ v6 # << >> => v1 < v6[1] + MaxDelay
    BY <1>7 DEF Beats!Clock
  <2>3. v1 \in Nat /\ v5 \in Nat /\ v6 \in Seq(Nat)
    BY DEF Beats!SequencerInv, Beats!TicksInv
  <2>4. \A i \in DOMAIN v6 : v6[i] \in Nat /\ v6[i] <= v1
    BY <2>3 DEF Beats!SequencerInv, Beats!TicksInv
  <2>5. v6 # << >> => v6[1] \in Nat
    BY <2>3
  <2>6. \A i \in DOMAIN v6 : v6[i] <= v1 + 1
    BY <2>3, <2>4
  <2>7. v6 # << >> => v1 + 1 <= v6[1] + MaxDelay
    BY <2>2, <2>3, <2>5
  <2>8. v5 # 0 => v1 + 1 <= v5 /\ v5 <= v1 + 1 + LOOK_AHEAD
    BY <2>2, <2>3 DEF Beats!SequencerInv, Beats!TicksInv
  <2>9. Beats!TicksInv'
    BY <2>2, <2>3, <2>6, <2>7, <2>8 DEF Beats!SequencerInv, Beats!TicksInv, Beats!Slack
  <2> QED
    BY <2>1, <2>9 DEF Beats!SequencerInv
<1> QED
  BY <1>1, <1>3, <1>4, <1>5, <1>6, <1>7 DEF Beats!Next

LEMMA SequencerInit == Beats!Init => Beats!SequencerInv
PROOF
<1> USE SequencerAssumption
<1> SUFFICES ASSUME Beats!Init
             PROVE  Beats!SequencerInv
  OBVIOUS
<1>1. v6 = << >> /\ v9 = << >>
  BY DEF Beats!Init
<1>2. Beats!TicksInv
  <2>1. v6 \in Seq(Nat) /\ DOMAIN v6 = {} /\ ~(v6 # << >>)
    BY <1>1
  <2>2. v5 = 0 /\ v1 = 1 /\ v3 = 0 /\ v8 = FALSE
    BY Zenon DEF Beats!Init
  <2>3. v1 \in Nat \ {0} /\ v3 \in Nat /\ v5 \in Nat
    BY <2>2
  <2>4. v8 \in BOOLEAN
    BY <2>2, Zenon
  <2>5. \A i \in DOMAIN v6 :
          /\ v6[i] <= v1
          /\ \A j \in DOMAIN v6 : i < j => v6[i] <= v6[j]
    BY <2>1
  <2> QED
    BY <2>1, <2>2, <2>3, <2>5, <2>4, Zenon DEF Beats!TicksInv
<1>3. Beats!BeatsInv
  BY <1>1 DEF Beats!Init, Beats!BeatsInv
<1>4. Beats!BeatsInTime
  BY <1>1 DEF Beats!BeatsInTime
<1> QED
  BY <1>2, <1>3, <1>4 DEF Beats!SequencerInv

AudioInv == (part = "sound" => Sound!SoundInv) /\ (part = "beats" => Beats!SequencerInv)

LEMMA AudioBegins == PartsInit => AudioInv
  BY SoundBegins, SequencerInit DEF PartsInit, PartInit, AudioInv

LEMMA AudioStep ==
  ASSUME AudioInv, [PartsNext]_<<vars, part, state>>
  PROVE  AudioInv'
PROOF
<1>1. part' = part
  BY PartSteps
<1>2. CASE part = "sound"
  <2>1. [Sound!Next]_Sound!vars
    BY <1>2, PartSteps DEF state, Sound!vars
  <2> QED
    BY <1>1, <1>2, <2>1, SoundStep DEF AudioInv
<1>3. CASE part = "beats"
  <2>1. [Beats!Next]_Beats!vars
    BY <1>3, PartSteps DEF state, Beats!vars
  <2> QED
    BY <1>1, <1>3, <2>1, SequencerNext DEF AudioInv
<1> QED
  BY <1>1, <1>2, <1>3 DEF AudioInv

(* The sound and the beats: once no fade runs, the sound is on just while   *)
(* the experiment plays in a tab that is shown, at its full volume, with the *)
(* timer of its own sequencer alone, and the channels are as loud as the    *)
(* open instrument lets them; and the beats are handed out each once, in     *)
(* order, at their distance and in time.                                    *)
THEOREM SoundFollows == PartsSpec => []AudioFollows
PROOF
<1>1. AudioInv => AudioFollows
  BY SoundIsOn DEF AudioInv, AudioFollows, Beats!SequencerInv
<1> QED
  BY AudioBegins, AudioStep, <1>1, PTL DEF PartsSpec

------------------------------------------------------------------------------
(***************************************************************************)
(* The countdown.  v1 is the time, v2 the date, v3 the start of the value  *)
(* v4; v12, v13, v14 say that the end was announced, came, was drawn late. *)
(***************************************************************************)
(* What is left, in days, hours, minutes and seconds: none of the larger    *)
(* units while it is shorter than them, and all of it in seconds.           *)
LEMMA DivideSmall ==
  ASSUME NEW a \in Nat, NEW m \in Nat \ {0}
  PROVE  /\ a < m => a \div m = 0 /\ a % m = a
         /\ a \div m = 0 => a < m
         /\ a \div m \in Nat /\ a % m \in Nat /\ a % m < m /\ a % m <= a
         /\ a = m * (a \div m) + (a % m)
  OBVIOUS

LEMMA Units ==
  /\ CountdownSecond \in Nat \ {0} /\ Minute \in Nat \ {0} /\ Hour \in Nat \ {0} /\ Day \in Nat \ {0}
  /\ 3 * CountdownSecond <= Minute /\ Minute <= Hour /\ Hour <= Day
  BY CountdownAssumption

LEMMA ShortTime ==
  ASSUME NEW a \in Nat, a < Minute
  PROVE  Countdown!convertMilliseconds(a) = [days |-> 0, hours |-> 0, minutes |-> 0,
                                   seconds |-> a \div CountdownSecond]
PROOF
<1>1. a < Hour /\ a < Day
  BY Units
<1>2. a \div Day = 0 /\ a % Day = a
  BY <1>1, Units, DivideSmall
<1>3. a \div Hour = 0 /\ a % Hour = a
  BY <1>1, Units, DivideSmall
<1>4. a \div Minute = 0 /\ a % Minute = a
  BY Units, DivideSmall
<1> QED
  BY <1>2, <1>3, <1>4 DEF Countdown!convertMilliseconds

LEMMA IsZero ==
  ASSUME NEW a \in Nat
  PROVE  Countdown!convertMilliseconds(a) = Countdown!Zero <=> a < CountdownSecond
PROOF
<1>1. Countdown!Zero = [days |-> 0, hours |-> 0, minutes |-> 0, seconds |-> 0]
  <2>1. 0 \div CountdownSecond = 0
    BY Units, DivideSmall
  <2> QED
    BY <2>1, ShortTime, Units DEF Countdown!Zero
<1>2. ASSUME a < CountdownSecond
      PROVE  Countdown!convertMilliseconds(a) = Countdown!Zero
  <2>1. a < Minute /\ a \div CountdownSecond = 0
    BY <1>2, Units, DivideSmall
  <2> QED
    BY <1>1, <2>1, ShortTime
<1>3. ASSUME Countdown!convertMilliseconds(a) = Countdown!Zero
      PROVE  a < CountdownSecond
  <2>1. a \div Day = 0 /\ (a % Day) \div Hour = 0 /\ ((a % Day) % Hour) \div Minute = 0
        /\ (((a % Day) % Hour) % Minute) \div CountdownSecond = 0
    BY <1>1, <1>3 DEF Countdown!convertMilliseconds
  <2>2. a % Day = a
    BY <2>1, Units, DivideSmall
  <2>3. a % Hour = a
    BY <2>1, <2>2, Units, DivideSmall
  <2>4. a % Minute = a
    BY <2>1, <2>2, <2>3, Units, DivideSmall
  <2> QED
    BY <2>1, <2>2, <2>3, <2>4, Units, DivideSmall
<1> QED
  BY <1>2, <1>3

(* The color of the end comes when a value of at most one second becomes    *)
(* zero, the one before it when a value of two seconds does.                *)
LEMMA LastColor ==
  ASSUME NEW a \in Nat, a < 3 * CountdownSecond, NEW b \in Nat, b < CountdownSecond
  PROVE  \/ Countdown!scheduleRendererRipple(Countdown!convertMilliseconds(a),
                                             Countdown!convertMilliseconds(b)) \in {10, 11}
         \/ /\ Countdown!convertMilliseconds(a) = Countdown!convertMilliseconds(b)
            /\ Countdown!scheduleRendererRipple(Countdown!convertMilliseconds(a),
                                                Countdown!convertMilliseconds(b)) = v8
PROOF
<1> DEFINE old == Countdown!convertMilliseconds(a)
           new == Countdown!convertMilliseconds(b)
           crossed == {k \in DOMAIN Countdown!Thresholds :
                         Countdown!crossedThreshold(old, new, Countdown!Thresholds[k])}
<1>1. old.days = 0 /\ old.hours = 0 /\ old.minutes = 0 /\ old.seconds \in {0, 1, 2}
  <2>1. a \div CountdownSecond \in {0, 1, 2}
    <3>1. a \div CountdownSecond >= 3 => CountdownSecond * (a \div CountdownSecond) >= CountdownSecond * 3
      BY Units, DivideSmall
    <3> QED
      BY <3>1, Units, DivideSmall
  <2>2. a < Minute
    BY Units
  <2> QED
    BY <2>1, <2>2, ShortTime
<1>2. new.days = 0 /\ new.hours = 0 /\ new.minutes = 0 /\ new.seconds = 0
  <2>1. b \div CountdownSecond = 0 /\ b < Minute
    BY Units, DivideSmall
  <2> QED
    BY <2>1, ShortTime
<1> HIDE DEF old, new
<1>3. old.seconds # 2 => crossed = {}
  BY <1>1, <1>2 DEF Countdown!crossedThreshold, Countdown!Thresholds
<1>4. old.seconds = 2 => crossed = {9}
  BY <1>2 DEF Countdown!crossedThreshold, Countdown!Thresholds
<1>5. crossed = {9} => (CHOOSE k \in crossed : \A j \in crossed : k <= j) = 9
  OBVIOUS
<1> HIDE DEF crossed
<1>6. Countdown!scheduleRendererRipple(old, new)
        = IF old = new THEN v8
          ELSE IF crossed # {} THEN (CHOOSE k \in crossed : \A j \in crossed : k <= j) + 1
          ELSE 11
  BY <1>1, <1>2 DEF Countdown!scheduleRendererRipple, crossed
<1>7. \/ Countdown!scheduleRendererRipple(old, new) \in {10, 11}
      \/ old = new /\ Countdown!scheduleRendererRipple(old, new) = v8
  BY <1>3, <1>4, <1>5, <1>6
<1> QED
  BY <1>7 DEF old, new

LEMMA Multiples ==
  \E n1 \in Nat, n2 \in Nat, n3 \in Nat :
    Minute = CountdownSecond * n1 /\ Hour = CountdownSecond * n2 /\ Day = CountdownSecond * n3
PROOF
<1>1. PICK n \in 1..Minute : Minute = n * CountdownSecond
  BY CountdownAssumption
<1>2. PICK h \in 1..Hour : Hour = h * Minute
  BY CountdownAssumption
<1>3. PICK d \in 1..Day : Day = d * Hour
  BY CountdownAssumption
<1>4. n \in Nat /\ h \in Nat /\ d \in Nat
  BY <1>1, <1>2, <1>3, Units
<1>5. h * n \in Nat /\ d * (h * n) \in Nat
  BY <1>4
<1>6. Minute = CountdownSecond * n
  BY <1>1, <1>4, Units
<1>7. Hour = CountdownSecond * (h * n)
  BY <1>2, <1>4, <1>6, Units
<1>8. Day = CountdownSecond * (d * (h * n))
  BY <1>3, <1>4, <1>7, Units
<1> QED
  BY <1>4, <1>5, <1>6, <1>7, <1>8

LEMMA Quotient ==
  ASSUME NEW q \in Nat, NEW r \in Nat, NEW m \in Nat \ {0}
  PROVE  (m * q + r) \div m = q + r \div m
PROOF
<1> DEFINE k == r \div m
           s == r % m
<1>1. r = m * k + s /\ k \in Nat /\ s \in Nat /\ s < m
  BY DivideSmall
<1> HIDE DEF k, s
<1>2. m * q + r = m * (q + k) + s
  BY <1>1
<1>3. \A a \in Int, c \in Int : a = m * c + s => a \div m = c
  BY <1>1
<1>4. (m * q + r) \div m = q + k
  BY <1>1, <1>2, <1>3
<1> QED
  BY <1>4 DEF k

LEMMA AllInSeconds ==
  ASSUME NEW a \in Nat
  PROVE  Countdown!Seconds(Countdown!convertMilliseconds(a)) = a \div CountdownSecond
PROOF
<1> DEFINE d == a \div Day
           a1 == a % Day
           h == a1 \div Hour
           a2 == a1 % Hour
           n == a2 \div Minute
           a3 == a2 % Minute
           s == a3 \div CountdownSecond
<1>1. a = Day * d + a1 /\ d \in Nat /\ a1 \in Nat
  BY Units, DivideSmall
<1>2. a1 = Hour * h + a2 /\ h \in Nat /\ a2 \in Nat
  BY <1>1, Units, DivideSmall
<1>3. a2 = Minute * n + a3 /\ n \in Nat /\ a3 \in Nat
  BY <1>2, Units, DivideSmall
<1>4. Countdown!convertMilliseconds(a) = [days |-> d, hours |-> h, minutes |-> n, seconds |-> s]
  BY DEF Countdown!convertMilliseconds
<1> HIDE DEF d, a1, h, a2, n, a3
<1>5. PICK n1 \in Nat, n2 \in Nat, n3 \in Nat :
        Minute = CountdownSecond * n1 /\ Hour = CountdownSecond * n2 /\ Day = CountdownSecond * n3
  BY Multiples
<1> DEFINE q == n3 * d + n2 * h + n1 * n
<1>6. q \in Nat
  BY <1>1, <1>2, <1>3, <1>5
<1>7. d * Day + h * Hour + n * Minute = CountdownSecond * q
  <2>1. d * Day = CountdownSecond * (n3 * d)
    BY <1>1, <1>5, Units
  <2>2. h * Hour = CountdownSecond * (n2 * h)
    BY <1>2, <1>5, Units
  <2>3. n * Minute = CountdownSecond * (n1 * n)
    BY <1>3, <1>5, Units
  <2>4. n3 * d \in Nat /\ n2 * h \in Nat /\ n1 * n \in Nat
    BY <1>1, <1>2, <1>3, <1>5
  <2> QED
    BY <2>1, <2>2, <2>3, <2>4, Units
<1>8. a = CountdownSecond * q + a3
  BY <1>1, <1>2, <1>3, <1>7, Units
<1> HIDE DEF q
<1>9. a \div CountdownSecond = q + s
  <2>1. (CountdownSecond * q + a3) \div CountdownSecond = q + a3 \div CountdownSecond
    <3>1. q \in Nat /\ a3 \in Nat /\ CountdownSecond \in Nat \ {0}
      BY <1>3, <1>6, Units
    <3> QED
      BY <3>1, Quotient
  <2> QED
    BY <1>8, <2>1
<1>10. (CountdownSecond * q) \div CountdownSecond = q
  <2>1. CountdownSecond * q + 0 = CountdownSecond * q /\ 0 \div CountdownSecond = 0
    BY <1>6, Units, DivideSmall
  <2>2. (CountdownSecond * q + 0) \div CountdownSecond = q + 0 \div CountdownSecond
    BY <1>6, Quotient, Units
  <2> QED
    BY <1>6, <2>1, <2>2
<1> QED
  BY <1>4, <1>7, <1>9, <1>10 DEF Countdown!Seconds

LEMMA CloseInSeconds ==
  ASSUME NEW a \in Nat, NEW b \in Nat, a - b \in (-CountdownSecond) .. CountdownSecond
  PROVE  Countdown!Seconds(Countdown!convertMilliseconds(b)) - Countdown!Seconds(Countdown!convertMilliseconds(a)) \in (-1) .. 1
PROOF
<1>1. \A x \in Nat, y \in Nat : x <= y /\ y <= x + CountdownSecond =>
        y \div CountdownSecond - x \div CountdownSecond \in 0..1
  <2> TAKE x \in Nat, y \in Nat
  <2> HAVE x <= y /\ y <= x + CountdownSecond
  <2> QED
    BY Units
<1>2. a \div CountdownSecond \in Nat /\ b \div CountdownSecond \in Nat
  BY Units, DivideSmall
<1>3. CASE a <= b
  <2>1. b \div CountdownSecond - a \div CountdownSecond \in 0..1
    BY <1>1, <1>3, Units
  <2> QED
    BY <1>2, <2>1, AllInSeconds
<1>4. CASE b <= a
  <2>1. a \div CountdownSecond - b \div CountdownSecond \in 0..1
    BY <1>1, <1>4, Units
  <2> QED
    BY <1>2, <2>1, AllInSeconds
<1> QED
  BY <1>3, <1>4

LEMMA Durations ==
  /\ easeInTime \in Nat /\ waitTime \in Nat /\ easeOutTime \in Nat \ {0} /\ MaxFrame \in Nat
  /\ MaxFrame <= CountdownSecond
  /\ easeInTime + waitTime + easeOutTime + MaxFrame <= 2 * CountdownSecond
  BY CountdownAssumption

LEMMA CountdownBegins == Countdown!Init => Countdown!CountdownInv
PROOF
<1> SUFFICES ASSUME Countdown!Init PROVE Countdown!CountdownInv
  OBVIOUS
<1>1. v2 \in Nat /\ v2 - 0 = v2
  BY CountdownAssumption DEF Countdown!Init
<1>2. Countdown!CountdownTypeOK
  BY <1>1 DEF Countdown!Init, Countdown!CountdownTypeOK
<1>3. Countdown!CycleInv
  <2>1. v4 = Countdown!convertMilliseconds(v2 - v3)
    BY <1>1 DEF Countdown!Init
  <2> QED
    BY <1>1, <2>1 DEF Countdown!Init, Countdown!CycleInv
<1>4. Countdown!FrameInv
  BY Durations DEF Countdown!Init, Countdown!FrameInv
<1>5. Countdown!FreezeInv
  BY Durations DEF Countdown!Init, Countdown!FreezeInv, Countdown!WaitStart
<1> QED
  BY <1>2, <1>3, <1>4, <1>5 DEF Countdown!CountdownInv

LEMMA TypesStay ==
  ASSUME Countdown!CountdownTypeOK, [Countdown!Next]_Countdown!vars
  PROVE  Countdown!CountdownTypeOK'
PROOF
<1>1. CASE Countdown!update
  <2>1. UNCHANGED <<v1, v2, v14, v15>> /\ v11' = 0
        /\ v3' \in {v3, v1} /\ v10' \in {v10, v10 - 1} /\ v10 > 0
        /\ v13' \in {v13, TRUE} /\ v9' \in {v9, TRUE, FALSE}
    BY <1>1 DEF Countdown!update, Countdown!continueAnimation
  <2>2. v7' \in BOOLEAN
    BY <1>1, Zenon DEF Countdown!update, Countdown!continueAnimation,
                       Countdown!CountdownTypeOK
  <2>3. v12' \in BOOLEAN
    BY <1>1, Zenon DEF Countdown!update, Countdown!dispatchThresholdEvent,
                       Countdown!CountdownTypeOK
  <2>4. v13' \in BOOLEAN /\ v9' \in BOOLEAN
    BY <2>1, Zenon DEF Countdown!CountdownTypeOK
  <2>5. v1' \in Nat /\ v2' \in Nat /\ v3' \in Nat
        /\ v10' \in Nat /\ v11' \in Nat /\ v15' \in Nat
    BY <2>1 DEF Countdown!CountdownTypeOK
  <2>6. v14' \in BOOLEAN
    BY <2>1, Zenon DEF Countdown!CountdownTypeOK
  <2> QED
    BY <2>2, <2>3, <2>4, <2>5, <2>6, Zenon DEF Countdown!CountdownTypeOK
<1>2. CASE Countdown!Tick
  BY <1>2 DEF Countdown!Tick, Countdown!CountdownTypeOK, Countdown!animation
<1>3. CASE Countdown!Start
  BY <1>3 DEF Countdown!Start, Countdown!start, Countdown!CountdownTypeOK
<1>4. CASE Countdown!Stop
  BY <1>4 DEF Countdown!Stop, Countdown!CountdownTypeOK
<1>5. CASE \E t \in Targets : Countdown!configure(t)
  BY <1>5, CountdownAssumption DEF Countdown!configure, Countdown!CountdownTypeOK
<1>6. CASE UNCHANGED Countdown!vars
  BY <1>6 DEF Countdown!vars, Countdown!animation, Countdown!CountdownTypeOK
<1> QED
  BY <1>1, <1>2, <1>3, <1>4, <1>5, <1>6 DEF Countdown!Next

(* A frame, of a countdown that has been drawn all the time.                *)
LEMMA FrameKeeps ==
  ASSUME Countdown!CountdownTypeOK, Countdown!CycleInv, Countdown!FrameInv,
         Countdown!FreezeInv, Countdown!update
  PROVE  Countdown!CycleInv' /\ Countdown!FrameInv' /\ Countdown!FreezeInv'
PROOF
<1>1. /\ v1 \in Nat /\ v2 \in Nat /\ v3 \in Nat /\ v11 \in Nat
      /\ v10 \in Nat /\ v10 > 0 /\ v3 <= v1 /\ v3 <= v2
      /\ v11 <= MaxFrame /\ v11 <= v1
      /\ v1' = v1 /\ v2' = v2 /\ v11' = 0
  BY DEF Countdown!CountdownTypeOK, Countdown!CycleInv, Countdown!FrameInv,
         Countdown!update
<1>2. ~v13 => v1 < v3 + 2 * CountdownSecond
  BY <1>1, Durations, Units DEF Countdown!FrameInv,
                                Countdown!EaseOutEnd, Countdown!EaseOutStart, Countdown!WaitStart
<1>3. CASE ~v9
  <2>1. UNCHANGED <<Countdown!shown, v3, v7, v9, v12, v13>>
        /\ v10' = v10 - 1
    BY <1>3 DEF Countdown!update
  <2>2. Countdown!CycleInv'
    <3>1. (v12' <=> v12) /\ (v13' <=> v13)
      BY <2>1, Zenon
    <3>2. UNCHANGED <<v1, v2, v3, v4, v8>>
      BY <1>1, <2>1 DEF Countdown!shown
    <3>3. (Countdown!EndFellOut' <=> Countdown!EndFellOut) /\ Countdown!Zero' = Countdown!Zero
      BY <3>2 DEF Countdown!EndFellOut, Countdown!Zero, Countdown!convertMilliseconds
    <3> QED
      BY <3>1, <3>2, <3>3 DEF Countdown!CycleInv, Countdown!convertMilliseconds
  <2>3. Countdown!FrameInv'
    <3>1. (v13' <=> v13) /\ ~v9' /\ v3' = v3
      BY <1>3, <2>1, Zenon
    <3>2. v13 \/ (v1 = 0 /\ v1 - 0 = v3)
      BY <1>1, <1>3 DEF Countdown!FrameInv
    <3> QED
      BY <1>1, <3>1, <3>2, Durations DEF Countdown!FrameInv
  <2>4. Countdown!FreezeInv'
    <3>1. UNCHANGED <<v6, v3, v7, v13, v2, v1>>
      BY <1>1, <2>1 DEF Countdown!shown
    <3>2. v7 => v1 - 0 <= Countdown!WaitStart
      BY <1>1, <1>3, Durations DEF Countdown!FreezeInv, Countdown!FrameInv,
                                   Countdown!WaitStart
    <3> QED
      BY <1>1, <3>1, <3>2 DEF Countdown!FreezeInv, Countdown!WaitStart
  <2> QED
    BY <2>2, <2>3, <2>4
<1>4. CASE v9
  <2>1. Countdown!freezeRendererForUnchangingDigits /\ Countdown!dispatchThresholdEvent
    BY <1>4 DEF Countdown!update
  <2>2. Countdown!EaseOutEnd > Countdown!WaitStart /\ Countdown!EaseOutEnd > Countdown!EaseOutStart /\ Countdown!EaseOutEnd > v3
        /\ Countdown!WaitStart >= v3 /\ Countdown!WaitStart \in Nat /\ Countdown!EaseOutStart \in Nat
        /\ Countdown!EaseOutEnd \in Nat
    BY <1>1, Durations DEF Countdown!EaseOutEnd, Countdown!EaseOutStart,
                           Countdown!WaitStart
  <2>3. ~v13 => v1 < Countdown!EaseOutEnd + MaxFrame
    BY <1>1, <2>2, Durations DEF Countdown!FrameInv
  <2>4. v2 >= v3 /\ v2 - v3 \in Nat
    BY <1>1
  <2>5. v4 = Countdown!Zero <=> v2 - v3 < CountdownSecond
    BY <2>4, IsZero DEF Countdown!CycleInv
  <2>6. CASE (v1 <= v3 \/ v1 >= Countdown!EaseOutEnd) /\ v2 < v1
    <3>1. /\ v9' = FALSE /\ v13' = TRUE
          /\ v7' = (v7 /\ v1 <= Countdown!WaitStart)
          /\ v3' = v3 /\ v4' = v4 /\ v8' = v8
          /\ v10' = v10 - 1
      BY <1>4, <2>6 DEF Countdown!update, Countdown!continueAnimation
    <3>2. v1 >= Countdown!EaseOutEnd /\ v1 > Countdown!EaseOutStart /\ v1 > Countdown!WaitStart
      BY <1>1, <2>2, <2>6
    <3>3. v12' \/ Countdown!EndFellOut
      <4>1. CASE v13
        BY <2>1, <4>1, Zenon DEF Countdown!dispatchThresholdEvent, Countdown!CycleInv
      <4>2. CASE ~v13 /\ v2 - v3 < CountdownSecond
        BY <2>1, <2>5, <3>2, <4>2, Zenon DEF Countdown!dispatchThresholdEvent
      <4>3. CASE ~v13 /\ ~(v2 - v3 < CountdownSecond)
        <5>1. v2 - v3 < easeInTime + waitTime + easeOutTime + MaxFrame
          BY <1>1, <2>3, <2>6, <4>3, Durations DEF Countdown!EaseOutEnd,
                           Countdown!EaseOutStart, Countdown!WaitStart
        <5> QED
          BY <2>4, <4>3, <5>1, Units DEF Countdown!EndFellOut
      <4> QED
        BY <4>1, <4>2, <4>3
    <3>4. v12' => v4 = Countdown!Zero
      BY <2>1, Zenon DEF Countdown!dispatchThresholdEvent, Countdown!CycleInv
    <3>5. Countdown!Zero' = Countdown!Zero
      BY DEF Countdown!Zero, Countdown!convertMilliseconds
    <3>6. Countdown!CycleInv'
      <4>1. v3' <= v1' /\ v3' <= v2' /\ v2' < v1'
        BY <1>1, <2>6, <3>1
      <4>2. v4' = Countdown!convertMilliseconds(v2' - v3')
        BY <1>1, <3>1 DEF Countdown!CycleInv
      <4>3. /\ v4' = Countdown!Zero' => v8' \in {0, 10, 11}
            /\ v12' => v4' = Countdown!Zero'
        BY <3>1, <3>4, <3>5 DEF Countdown!CycleInv
      <4>4. v12' \/ Countdown!EndFellOut'
        BY <1>1, <3>1, <3>3 DEF Countdown!EndFellOut
      <4> QED
        BY <4>1, <4>2, <4>3, <4>4, Zenon DEF Countdown!CycleInv,
                                             Countdown!convertMilliseconds
    <3>7. Countdown!FrameInv'
      BY <1>1, <3>1, Durations DEF Countdown!FrameInv
    <3>8. Countdown!FreezeInv'
      <4>1. ~(v1 <= Countdown!WaitStart)
        BY <1>1, <2>2, <3>2
      <4>2. ~v7'
        BY <3>1, <4>1, Zenon
      <4> QED
        BY <3>1, <4>2, Zenon DEF Countdown!FreezeInv
    <3> QED
      BY <3>6, <3>7, <3>8
  <2>7. CASE (v1 <= v3 \/ v1 >= Countdown!EaseOutEnd) /\ ~(v2 < v1)
    <3>1. /\ v9' = TRUE /\ v13' = v13 /\ v10' = v10
          /\ v7' = TRUE /\ v3' = v1
          /\ Countdown!setCountdownValues(v2)
      BY <1>4, <2>7 DEF Countdown!update, Countdown!continueAnimation
    <3>2. ~v13
      BY <1>1, <2>7 DEF Countdown!CycleInv
    <3>3. v2 >= v1 /\ v2 - v1 \in Nat /\ Countdown!Left(v2) = v2 - v1
      BY <1>1, <2>7 DEF Countdown!Left
    <3>4. v4' = Countdown!convertMilliseconds(v2 - v1)
          /\ v8' = Countdown!scheduleRendererRipple(v4, v4')
      BY <3>1, <3>3 DEF Countdown!setCountdownValues
    <3>5. Countdown!Zero' = Countdown!Zero
      BY DEF Countdown!Zero, Countdown!convertMilliseconds
    <3>6. v4' = Countdown!Zero <=> v2 - v1 < CountdownSecond
      BY <3>3, <3>4, IsZero
    <3>7. Countdown!CycleInv'
      <4>1. v3' <= v1' /\ v3' <= v2'
        BY <1>1, <3>1, <3>3
      <4>2. v4' = Countdown!convertMilliseconds(v2' - v3')
        BY <1>1, <3>1, <3>4
      <4>3. v4' = Countdown!Zero => v8' \in {0, 10, 11}
        <5> SUFFICES ASSUME v4' = Countdown!Zero
                     PROVE  v8' \in {0, 10, 11}
          OBVIOUS
        <5>1. v2 - v3 < 3 * CountdownSecond
          BY <1>1, <1>2, <3>2, <3>3, <3>6, Units
        <5>2. v8' \in {10, 11} \/ (v4 = v4' /\ v8' = v8)
          BY <2>4, <3>3, <3>4, <3>6, <5>1, LastColor DEF Countdown!CycleInv
        <5> QED
          BY <5>2 DEF Countdown!CycleInv
      <4>4. v12' => v4' = Countdown!Zero
        <5>1. v12' => v4 = Countdown!Zero
          BY <2>1, Zenon DEF Countdown!dispatchThresholdEvent, Countdown!CycleInv
        <5>2. v4 = Countdown!Zero => v2 - v1 < CountdownSecond
          BY <1>1, <2>5, <3>3, Units
        <5> QED
          BY <3>6, <5>1, <5>2
      <4> QED
        BY <3>1, <3>2, <3>5, <4>1, <4>2, <4>3, <4>4, Zenon DEF Countdown!CycleInv,
                                                               Countdown!convertMilliseconds
    <3>8. Countdown!FrameInv'
      BY <1>1, <3>1, Durations DEF Countdown!FrameInv
    <3>9. Countdown!FreezeInv'
      <4>1. ~v13' /\ v1' - v11' <= Countdown!WaitStart'
        <5>1. Countdown!WaitStart' = v1 + easeInTime
          BY <3>1 DEF Countdown!WaitStart
        <5>2. ~v13'
          BY <3>1, <3>2, Zenon
        <5> QED
          BY <1>1, <5>1, <5>2, Durations
      <4>2. ASSUME v1 > 0
            PROVE  \E left \in Nat : /\ v6' = Countdown!convertMilliseconds(left)
                                     /\ left - (v2 - v1) \in (-CountdownSecond) .. CountdownSecond
        <5>1. CASE v7 /\ v1 > Countdown!WaitStart
          <6>1. v6' = Countdown!convertMilliseconds(Countdown!Left(v2 - (easeOutTime + waitTime)))
            BY <2>1, <5>1 DEF Countdown!freezeRendererForUnchangingDigits
          <6> DEFINE left == Countdown!Left(v2 - (easeOutTime + waitTime))
          <6>2. left = IF v2 - (easeOutTime + waitTime) > v1
                       THEN v2 - (easeOutTime + waitTime) - v1 ELSE 0
            BY DEF Countdown!Left
          <6>3. v1 - v11 <= Countdown!WaitStart
            BY <5>1 DEF Countdown!FreezeInv
          <6>4. easeOutTime + waitTime <= CountdownSecond
            BY <1>1, <2>7, <3>3, <4>2, <5>1, <6>3, Durations, Units
               DEF Countdown!EaseOutEnd, Countdown!EaseOutStart, Countdown!WaitStart
          <6>5. left \in Nat /\ left - (v2 - v1) \in (-CountdownSecond) .. CountdownSecond
            BY <1>1, <3>3, <6>2, <6>4, Durations, Units
          <6> QED
            BY <6>1, <6>5
        <5>2. CASE v7 /\ ~(v1 > Countdown!WaitStart)
          <6>1. v6' = v6
            BY <2>1, <5>2 DEF Countdown!freezeRendererForUnchangingDigits
          <6>2. v1 = v3
            BY <1>1, <2>2, <2>7, <5>2
          <6> QED
            BY <4>2, <5>2, <6>1, <6>2 DEF Countdown!FreezeInv
        <5>3. CASE ~v7
          <6>1. v6' = v6
            BY <2>1, <5>3 DEF Countdown!freezeRendererForUnchangingDigits
          <6>2. PICK at \in 0..v1 :
                       /\ Countdown!WaitStart < at /\ at <= Countdown!WaitStart + MaxFrame
                       /\ LET end == at + waitTime + easeOutTime
                          IN  v6 = Countdown!convertMilliseconds(IF v2 > end
                                                              THEN v2 - end ELSE 0)
            BY <3>2, <5>3 DEF Countdown!FreezeInv
          <6> DEFINE end  == at + waitTime + easeOutTime
                     left == IF v2 > end THEN v2 - end ELSE 0
          <6>3. end \in Nat /\ end > Countdown!EaseOutEnd /\ end <= Countdown!EaseOutEnd + MaxFrame
            BY <1>1, <2>2, <6>2, Durations DEF Countdown!EaseOutEnd,
                                               Countdown!EaseOutStart
          <6>4. v1 >= Countdown!EaseOutEnd /\ v1 < Countdown!EaseOutEnd + MaxFrame
            BY <1>1, <2>2, <2>3, <2>7, <3>2, <6>2
          <6>5. MaxFrame <= CountdownSecond
            BY Durations
          <6>6. v6 = Countdown!convertMilliseconds(left)
            BY <6>2
          <6> HIDE DEF end
          <6>7. left \in Nat /\ left - (v2 - v1) \in (-CountdownSecond) .. CountdownSecond
            BY <1>1, <2>2, <3>3, <6>3, <6>4, <6>5, Durations, Units
          <6> HIDE DEF left
          <6> QED
            BY <6>1, <6>6, <6>7
        <5> QED
          BY <5>1, <5>2, <5>3
      <4> QED
        BY <1>1, <3>1, <4>1, <4>2 DEF Countdown!FreezeInv, Countdown!convertMilliseconds
    <3> QED
      BY <3>7, <3>8, <3>9
  <2>8. CASE ~(v1 <= v3 \/ v1 >= Countdown!EaseOutEnd)
    <3>1. /\ UNCHANGED <<v3, v9, v10, v4, v5, v8, v13>>
          /\ v7' = (v7 /\ v1 <= Countdown!WaitStart)
      BY <1>4, <2>8 DEF Countdown!update
    <3>2. v3 < v1 /\ v1 < Countdown!EaseOutEnd
      BY <1>1, <2>2, <2>8
    <3>3. Countdown!CycleInv'
      <4>1. v12' => v4' = Countdown!Zero'
        BY <2>1, <3>1, Zenon DEF Countdown!dispatchThresholdEvent, Countdown!CycleInv,
                                 Countdown!Zero, Countdown!convertMilliseconds
      <4>2. v13' => (v12' \/ Countdown!EndFellOut') /\ v2' < v1'
        <5>1. v13' => v13 /\ (v12 \/ Countdown!EndFellOut)
          BY <3>1, Zenon DEF Countdown!CycleInv
        <5>2. v13' => v12' \/ Countdown!EndFellOut'
          <6>1. v12 => v12'
            BY <2>1, Zenon DEF Countdown!dispatchThresholdEvent
          <6>2. Countdown!EndFellOut' <=> Countdown!EndFellOut
            BY <1>1, <3>1 DEF Countdown!EndFellOut
          <6> QED
            BY <5>1, <6>1, <6>2, Zenon
        <5>3. v13' => v2' < v1'
          BY <1>1, <5>1 DEF Countdown!CycleInv
        <5> QED
          BY <5>2, <5>3
      <4>3. /\ v3' <= v1' /\ v3' <= v2'
            /\ v4' = Countdown!convertMilliseconds(v2' - v3')
            /\ v4' = Countdown!Zero' => v8' \in {0, 10, 11}
        BY <1>1, <3>1 DEF Countdown!CycleInv, Countdown!Zero,
                          Countdown!convertMilliseconds
      <4> QED
        BY <4>1, <4>2, <4>3, Zenon DEF Countdown!CycleInv, Countdown!convertMilliseconds
    <3>4. Countdown!FrameInv'
      <4>1. (v13' <=> v13) /\ v9' /\ v10' > 0
        BY <1>1, <1>4, <3>1, Zenon
      <4>2. Countdown!EaseOutEnd' = Countdown!EaseOutEnd
        BY <3>1 DEF Countdown!EaseOutEnd, Countdown!EaseOutStart, Countdown!WaitStart
      <4> QED
        BY <1>1, <3>2, <4>1, <4>2, Durations DEF Countdown!FrameInv
    <3>5. Countdown!FreezeInv'
      <4>1. /\ UNCHANGED <<v3, v2, v1>> /\ (v13' <=> v13)
            /\ Countdown!WaitStart' = Countdown!WaitStart
        BY <1>1, <3>1, Zenon DEF Countdown!WaitStart
      <4>2. CASE v7 /\ v1 <= Countdown!WaitStart
        <5>1. v7' /\ v6' = v6 /\ v1 - 0 <= Countdown!WaitStart
          <6>1. v7'
            BY <3>1, <4>2, Zenon
          <6>2. ~(v1 > Countdown!WaitStart) /\ v1 - 0 <= Countdown!WaitStart
            BY <1>1, <2>2, <4>2
          <6> QED
            BY <2>1, <6>1, <6>2, Zenon DEF Countdown!freezeRendererForUnchangingDigits
        <5> QED
          BY <1>1, <4>1, <4>2, <5>1 DEF Countdown!FreezeInv, Countdown!convertMilliseconds
      <4>3. CASE v7 /\ ~(v1 <= Countdown!WaitStart)
        <5>1. ~v7'
          BY <3>1, <4>3, Zenon
        <5>2. v6' = Countdown!convertMilliseconds(Countdown!Left(v2 - (easeOutTime + waitTime)))
          BY <1>1, <2>1, <2>2, <4>3 DEF Countdown!freezeRendererForUnchangingDigits
        <5> DEFINE end == v1 + waitTime + easeOutTime
        <5>3. Countdown!Left(v2 - (easeOutTime + waitTime))
                = IF v2 > end THEN v2 - end ELSE 0
          BY <1>1, Durations DEF Countdown!Left
        <5>4. v1 \in 0..v1 /\ Countdown!WaitStart < v1 /\ v1 <= Countdown!WaitStart + MaxFrame
          BY <1>1, <2>2, <4>3, Durations DEF Countdown!FreezeInv
        <5> QED
          BY <4>1, <5>1, <5>2, <5>3, <5>4 DEF Countdown!FreezeInv,
                                              Countdown!convertMilliseconds
      <4>4. CASE ~v7
        <5>1. ~v7' /\ v6' = v6
          BY <2>1, <3>1, <4>4, Zenon DEF Countdown!freezeRendererForUnchangingDigits
        <5> QED
          BY <4>1, <4>4, <5>1 DEF Countdown!FreezeInv, Countdown!convertMilliseconds
      <4> QED
        BY <4>2, <4>3, <4>4
    <3> QED
      BY <3>3, <3>4, <3>5
  <2> QED
    BY <1>1, <2>2, <2>6, <2>7, <2>8
<1> QED
  BY <1>3, <1>4, Zenon DEF Countdown!CountdownTypeOK

(* What happens between frames.                                             *)
LEMMA BetweenFrames ==
  ASSUME Countdown!CountdownTypeOK, Countdown!CycleInv, Countdown!FrameInv,
         Countdown!FreezeInv, ~v14', v15' = 0, ~v14,
         v15 = 0,
         Countdown!Tick \/ Countdown!Start \/ Countdown!Stop \/ (\E t \in Targets : Countdown!configure(t)) \/ UNCHANGED Countdown!vars
  PROVE  Countdown!CycleInv' /\ Countdown!FrameInv' /\ Countdown!FreezeInv'
PROOF
<1>1. /\ v1 \in Nat /\ v2 \in Nat /\ v3 \in Nat /\ v11 \in Nat
      /\ v10 \in Nat /\ v3 <= v1
      /\ v11 <= MaxFrame /\ v11 <= v1
  BY DEF Countdown!CountdownTypeOK, Countdown!CycleInv, Countdown!FrameInv
<1>2. ~\E t \in Targets : Countdown!configure(t)
  BY DEF Countdown!configure, Countdown!CountdownTypeOK
<1>3. UNCHANGED <<v2, v4, v6, v8, v3, v7, v12,
                  v13>>
  BY <1>2 DEF Countdown!Tick, Countdown!Start, Countdown!Stop, Countdown!vars,
              Countdown!animation, Countdown!shown
<1>4. /\ v1' \in {v1, v1 + 1}
      /\ v10' \in Nat /\ (v9' => v10' > 0) /\ (v13 \/ v9' \/ v1' = 0)
      /\ v11' \in Nat /\ v11' <= MaxFrame /\ v11' <= v1'
      /\ v13 \/ v1' - v11' = v1 - v11
  <2>1. CASE Countdown!Tick
    <3>1. v1' = v1 + 1 /\ v10' = v10 /\ v9' = v9
          /\ v11' = IF v10 > 0 /\ v11 < MaxFrame THEN v11 + 1 ELSE 0
      BY <2>1 DEF Countdown!Tick, Countdown!animation
    <3>2. ~(v9 /\ v11 >= MaxFrame) /\ ~(~v9 /\ ~v13)
      BY <2>1, Zenon DEF Countdown!Tick
    <3> QED
      BY <1>1, <3>1, <3>2, Durations DEF Countdown!FrameInv
  <2>2. CASE Countdown!Start
    <3>1. v1' = v1 /\ v10' = v10 + 1 /\ v9' /\ v11' = v11
      BY <2>2 DEF Countdown!Start, Countdown!start
    <3> QED
      BY <1>1, <3>1
  <2>3. CASE Countdown!Stop
    <3>1. v1' = v1 /\ v10' = v10 /\ ~v9' /\ v11' = v11
      BY <2>3 DEF Countdown!Stop
    <3>2. v13
      BY <2>3, Zenon DEF Countdown!Stop
    <3> QED
      BY <1>1, <3>1, <3>2
  <2>4. CASE UNCHANGED Countdown!vars
    <3>1. v1' = v1 /\ v10' = v10 /\ v9' = v9 /\ v11' = v11
      BY <2>4 DEF Countdown!vars, Countdown!animation
    <3> QED
      BY <1>1, <3>1 DEF Countdown!FrameInv
  <2> QED
    BY <1>2, <2>1, <2>2, <2>3, <2>4
<1>5. Countdown!CycleInv'
  <2>1. v3 <= v1' /\ (v13 => v2 < v1')
    BY <1>1, <1>4 DEF Countdown!CycleInv
  <2>2. Countdown!EndFellOut' <=> Countdown!EndFellOut
    BY <1>3 DEF Countdown!EndFellOut
  <2>3. v12 \/ Countdown!EndFellOut => v12' \/ Countdown!EndFellOut'
    BY <1>3, <2>2, Zenon
  <2> QED
    BY <1>3, <2>1, <2>3 DEF Countdown!CycleInv, Countdown!Zero, Countdown!convertMilliseconds
<1>6. Countdown!FrameInv'
  <2>1. (v13' <=> v13) /\ v3' = v3 /\ Countdown!EaseOutEnd' = Countdown!EaseOutEnd
    BY <1>3, Zenon DEF Countdown!EaseOutEnd, Countdown!EaseOutStart, Countdown!WaitStart
  <2> QED
    BY <1>4, <2>1 DEF Countdown!FrameInv
<1>7. Countdown!FreezeInv'
  <2>1. /\ (v13' <=> v13) /\ (v7' <=> v7)
        /\ v3' = v3 /\ v6' = v6 /\ v2' = v2
        /\ Countdown!WaitStart' = Countdown!WaitStart
    BY <1>3, Zenon DEF Countdown!WaitStart
  <2>2. \A at \in 0..v1 : at \in 0..v1'
    BY <1>1, <1>4
  <2>3. CASE v7
    <3>1. ~v13 /\ v1' - v11' <= Countdown!WaitStart
      BY <1>4, <2>3 DEF Countdown!FreezeInv
    <3> QED
      BY <2>1, <2>3, <3>1 DEF Countdown!FreezeInv, Countdown!convertMilliseconds
  <2>4. CASE ~v7
    BY <2>1, <2>2, <2>4 DEF Countdown!FreezeInv, Countdown!convertMilliseconds
  <2> QED
    BY <2>3, <2>4
<1> QED
  BY <1>5, <1>6, <1>7

LEMMA CountdownStep ==
  ASSUME Countdown!CountdownInv, [Countdown!Next]_Countdown!vars
  PROVE  Countdown!CountdownInv'
PROOF
<1>1. Countdown!CountdownTypeOK'
  BY TypesStay DEF Countdown!CountdownInv
<1>2. ASSUME ~v14', v15' = 0
      PROVE  ~v14 /\ v15 = 0
  <2>1. CASE Countdown!update
    BY <1>2, <2>1, Zenon DEF Countdown!update
  <2>2. CASE Countdown!Tick
    BY <1>2, <2>2, Zenon DEF Countdown!Tick
  <2>3. CASE Countdown!Start
    BY <1>2, <2>3, Zenon DEF Countdown!Start
  <2>4. CASE Countdown!Stop
    BY <1>2, <2>4, Zenon DEF Countdown!Stop
  <2>5. CASE \E t \in Targets : Countdown!configure(t)
    BY <1>2, <2>5 DEF Countdown!configure, Countdown!CountdownInv,
                      Countdown!CountdownTypeOK
  <2>6. CASE UNCHANGED Countdown!vars
    BY <1>2, <2>6, Zenon DEF Countdown!vars
  <2> QED
    BY <2>1, <2>2, <2>3, <2>4, <2>5, <2>6 DEF Countdown!Next
<1>3. ASSUME ~v14', v15' = 0
      PROVE  Countdown!CycleInv' /\ Countdown!FrameInv' /\ Countdown!FreezeInv'
  BY <1>2, <1>3, FrameKeeps, BetweenFrames DEF Countdown!CountdownInv, Countdown!Next
<1> QED
  BY <1>1, <1>3 DEF Countdown!CountdownInv

LEMMA EndIsTold == Countdown!CountdownInv => Countdown!EndIsAnnounced
PROOF
<1> SUFFICES ASSUME Countdown!CountdownInv, ~v14, v15 = 0
             PROVE  /\ v13 => v12 \/ Countdown!EndFellOut
                    /\ v12 => v1 + CountdownSecond > v2
                    /\ v12 => v8 \in {0, 10, 11}
                    /\ (v7 /\ v3 > 0) =>
                         Countdown!Seconds(v4) - Countdown!Seconds(v6) \in (-1) .. 1
  BY DEF Countdown!EndIsAnnounced
<1>1. Countdown!CycleInv /\ Countdown!FreezeInv
  BY DEF Countdown!CountdownInv
<1>2. v1 \in Nat /\ v2 \in Nat /\ v3 \in Nat /\ v3 <= v1
      /\ v3 <= v2 /\ v2 - v3 \in Nat
  BY <1>1 DEF Countdown!CountdownInv, Countdown!CountdownTypeOK, Countdown!CycleInv
<1>3. v12 => v1 + CountdownSecond > v2
  <2>1. v12 => v2 - v3 < CountdownSecond
    BY <1>1, <1>2, IsZero DEF Countdown!CycleInv
  <2> QED
    BY <1>2, <2>1, Units
<1>4. ASSUME v7, v3 > 0
      PROVE  Countdown!Seconds(v4) - Countdown!Seconds(v6) \in (-1) .. 1
  <2>1. PICK left \in Nat : /\ v6 = Countdown!convertMilliseconds(left)
                            /\ left - (v2 - v3) \in (-CountdownSecond) .. CountdownSecond
    BY <1>1, <1>4 DEF Countdown!FreezeInv
  <2>2. v4 = Countdown!convertMilliseconds(v2 - v3)
    BY <1>1 DEF Countdown!CycleInv
  <2> QED
    BY <1>2, <2>1, <2>2, CloseInSeconds
<1> QED
  BY <1>1, <1>3, <1>4 DEF Countdown!CycleInv

LEMMA CountdownStarts == PartsInit => (part = "countdown" => Countdown!CountdownInv)
  BY CountdownBegins DEF PartsInit, PartInit

LEMMA CountdownGoesOn ==
  ASSUME part = "countdown" => Countdown!CountdownInv, [PartsNext]_<<vars, part, state>>
  PROVE  (part = "countdown" => Countdown!CountdownInv)'
PROOF
<1>1. part' = part
  BY PartSteps
<1> SUFFICES ASSUME part = "countdown", Countdown!CountdownInv
             PROVE  Countdown!CountdownInv'
  BY <1>1
<1>2. [Countdown!Next]_Countdown!vars
  BY PartSteps DEF state, Countdown!vars, Countdown!animation, Countdown!shown
<1> QED
  BY <1>2, CountdownStep

(* The countdown, for values shown up to two seconds: drawn all the time to *)
(* its date, the end is announced unless the date fell into a value of a    *)
(* second or more, which takes a value that is shown for longer than a      *)
(* second; it is not announced before its last second and has one of the    *)
(* last two colors, and the digits that are frozen are those of the next    *)
(* value to a second.                                                       *)
THEOREM EndIsHeard == PartsSpec => []EndIsAnnounced
PROOF
<1>1. (part = "countdown" => Countdown!CountdownInv) => EndIsAnnounced
  BY EndIsTold DEF EndIsAnnounced
<1> QED
  BY CountdownStarts, CountdownGoesOn, <1>1, PTL DEF PartsSpec

===============================================================================
