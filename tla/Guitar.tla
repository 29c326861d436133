-------------------------------- MODULE Guitar --------------------------------
(***************************************************************************)
(* The guitar of the experiment (views/GuitarView.js, guitar/              *)
(* GuitarString.js, guitar/Dot.js): strings that are drawn between the     *)
(* dots of a grid, taken off one end, drawn again or destroyed, struck,    *)
(* recorded, and reloaded with the composition.                            *)
(*                                                                         *)
(* A string is an object that three things refer to: the map of strings by *)
(* pid (guitarStrings), and the two dots it is strung between.             *)
(*                                                                         *)
(* A reload loads the composition that was loaded first, so Loaded does    *)
(* not change.  It has strings: from a composition without any loadData    *)
(* returns before it makes dots or a track (GuitarView.js:149), the first  *)
(* time as well, so that there is nothing to draw on, and a recording ends *)
(* in an exception.                                                        *)
(***************************************************************************)
EXTENDS Naturals, Sequences, FiniteSets, SequencesExt

CONSTANTS Dots,        \* the dots of the grid
          Loaded,      \* the composition's strings, [pid, pointA, pointB]; not empty
          MaxNotes,    \* BOUND: notes in a recording
          MaxTakes,    \* BOUND: recordings
          MaxResets    \* BOUND: how often the composition is reloaded

None == "none"         \* no dot
Gone == "gone"         \* a dot of an earlier grid

VARIABLES
  rec,             \* what is recorded and played: see Recorder
  guitarStrings,   \* the strings by pid
  dots,            \* the string of each dot
  objects,         \* the strings that something refers to
  pidPool,         \* pids for new strings, the last one first
  isDrawing, isUndrawing, currentDrawingPid,
  isDragging,      \* the pointer moves over the strings
  isCountdown,
  resets

drawing == <<isDrawing, isUndrawing, currentDrawingPid>>
strung  == <<guitarStrings, dots, objects, pidPool, drawing>>
vars    == <<rec, strung, isDragging, isCountdown, resets>>

R == INSTANCE Recorder

(* A pid is a number, but the keys of guitarStrings are text, and loadData  *)
(* gives them back to the pool.                                             *)
Pid(n)    == [n |-> n, text |-> FALSE]
Text(n)   == [n |-> n, text |-> TRUE]
undefined == Pid(99)

(* A string is named by its pid and a number, as two may have the same pid. *)
Free  == <<undefined.n, 0>>
NewString(n) == <<n, CHOOSE k \in 1..(Cardinality(DOMAIN objects) + 1) :
                       <<n, k>> \notin DOMAIN objects>>

(* The objects nothing refers to are forgotten.                             *)
Kept(os, map, ds) ==
  [i \in {j \in DOMAIN os : (\E p \in DOMAIN map : map[p] = j)
                             \/ \E d \in Dots : ds[d] = j} |-> os[i]]

Put(f, x, y)  == [z \in DOMAIN f \cup {x} |-> IF z = x THEN y ELSE f[z]]
Without(f, x) == [z \in DOMAIN f \ {x} |-> f[z]]

maxStrings == (Cardinality(Dots) + 1) \div 2
Notes == <<(CHOOSE s \in Loaded : TRUE).pid>>

(* The pids, in their order.                                                *)
PoolsOf(pids) == {q \in [1..Cardinality(pids) -> pids] :
                    \A j, k \in DOMAIN q : j < k => q[j].n < q[k].n}

removeFromPool(pid, pool) == Remove(pool, pid)

createStringFromModel(s) ==
  [pid |-> Pid(s.pid), first |-> s.pointA, second |-> s.pointB, tornDown |-> FALSE]

(* The dots of a new grid, with the strings of the composition.             *)
createDotGrid(map) ==
  [d \in Dots |-> IF \E s \in Loaded : d \in {s.pointA, s.pointB}
                  THEN map[(CHOOSE s \in Loaded : d \in {s.pointA, s.pointB}).pid]
                  ELSE Free]

(* A string that is torn down keeps the dots of the grid that is gone.      *)
destroy(o) ==
  [o EXCEPT !.tornDown = TRUE, !.first = IF @ = None THEN None ELSE Gone,
                               !.second = IF @ = None THEN None ELSE Gone]

setFirstDot(o, d)  == [o EXCEPT !.first = d]
setSecondDot(o, d) == [o EXCEPT !.second = d]
getFirstDot(o)     == o.first
setString(d, id)   == [dots EXCEPT ![d] = id]

(* The grid is made anew, its dots without a string but those of the        *)
(* composition.  The strings there were are torn down, but stay in the map  *)
(* if the composition has none of their pid.                                *)
loadData ==
  LET old  == SetToSortSeq(DOMAIN guitarStrings, <)
      full == pidPool \o [k \in DOMAIN old |-> Text(old[k])]
                      \o [k \in 1..maxStrings |-> Pid(k - 1)]
      Of(p) == CHOOSE s \in Loaded : s.pid = p
      pids == {s.pid : s \in Loaded}
      map  == [p \in DOMAIN guitarStrings \cup pids |->
                 IF p \in pids THEN NewString(p) ELSE guitarStrings[p]]
      ds   == createDotGrid(map)
  IN  /\ pidPool' = FoldSet(removeFromPool, full, {Pid(p) : p \in pids})
      /\ guitarStrings' = map
      /\ dots' = ds
      /\ objects' = Kept([i \in DOMAIN objects \cup {map[p] : p \in pids} |->
                            IF i \in DOMAIN objects THEN destroy(objects[i])
                            ELSE createStringFromModel(Of(i[1]))], map, ds)
      /\ rec' = R!Load(rec, Notes)
      /\ UNCHANGED <<drawing, isDragging, isCountdown>>

------------------------------------------------------------------------------
(* From an empty dot.                                                       *)
startString(d) ==
  LET pid == IF pidPool = << >> THEN undefined ELSE Last(pidPool)
      id  == NewString(pid.n)
      map == Put(guitarStrings, pid.n, id)
      ds  == setString(d, id)
  IN  /\ pidPool' = IF pidPool = << >> THEN pidPool ELSE Front(pidPool)
      /\ currentDrawingPid' = pid.n
      /\ isDrawing' = TRUE
      /\ guitarStrings' = map
      /\ dots' = ds
      /\ objects' = Kept(Put(objects, id,
                       [pid |-> pid, first |-> d, second |-> None, tornDown |-> FALSE]),
                       map, ds)
      /\ UNCHANGED isUndrawing

(* To another empty dot.  The string that was drawn may be gone since the   *)
(* composition was reloaded.                                                *)
endString(d) ==
  /\ isDrawing' = FALSE
  /\ isUndrawing' = FALSE
  /\ UNCHANGED <<guitarStrings, pidPool, currentDrawingPid>>
  /\ IF currentDrawingPid \in DOMAIN guitarStrings
     THEN LET id == guitarStrings[currentDrawingPid]
              ds == setString(d, id)
          IN  /\ dots' = ds
              /\ objects' = Kept([objects EXCEPT ![id] = setSecondDot(@, d)], guitarStrings, ds)
     ELSE UNCHANGED <<dots, objects>>

restartString_Keeps(d) ==
  LET id == dots[d]
      ds == setString(d, Free)
  IN  /\ isUndrawing' = TRUE
      /\ currentDrawingPid' = objects[id].pid.n
      /\ dots' = ds
      /\ objects' = Kept([objects EXCEPT ![id] = setSecondDot(@, None)], guitarStrings, ds)
      /\ UNCHANGED <<guitarStrings, pidPool, isDrawing>>

(* The dot lets go of its string; the other one is the first from now on.   *)
restartString(d) ==
  LET id    == dots[d]
      s     == objects[id]
      moved == IF getFirstDot(s) = d THEN setFirstDot(s, s.second) ELSE s
      ds    == setString(d, Free)
  IN  /\ isUndrawing' = TRUE
      /\ currentDrawingPid' = objects[id].pid.n
      /\ dots' = ds
      /\ objects' = Kept([objects EXCEPT ![id] = setSecondDot(moved, None)],
                         guitarStrings, ds)
      /\ UNCHANGED <<guitarStrings, pidPool, isDrawing>>

destroyString(d) ==
  LET pid == objects[dots[d]].pid
      map == Without(guitarStrings, pid.n)
      ds  == setString(d, Free)
  IN  /\ isDrawing' = FALSE
      /\ isUndrawing' = FALSE
      /\ dots' = ds
      /\ guitarStrings' = map
      /\ pidPool' = Append(pidPool, pid)
      /\ objects' = Kept(objects, map, ds)
      /\ UNCHANGED currentDrawingPid

(* The dot at the other end of the string that is drawn destroys it.        *)
IsFirstDot(d) ==
  /\ currentDrawingPid \in DOMAIN guitarStrings
  /\ getFirstDot(objects[guitarStrings[currentDrawingPid]]) = d

activateDot(d) ==
  /\ rec.state = "expand"
  /\ ~isDragging /\ ~rec.isRecording /\ ~isCountdown
  /\ \/ dots[d] = Free /\ ~isDrawing /\ ~isUndrawing /\ startString(d)
     \/ dots[d] = Free /\ isDrawing # isUndrawing /\ endString(d)
     \/ dots[d] # Free /\ ~isDrawing /\ ~isUndrawing /\ restartString(d)
     \/ dots[d] # Free /\ (isDrawing \/ isUndrawing) /\ IsFirstDot(d) /\ destroyString(d)
  /\ UNCHANGED <<rec, isDragging, isCountdown, resets>>

------------------------------------------------------------------------------
(* The pointer is dragged: dots do not react until it is released.          *)
Drag ==
  /\ rec.state = "expand"
  /\ ~isDrawing /\ ~isUndrawing /\ ~isDragging /\ ~rec.isRecording /\ ~isCountdown
  /\ isDragging' = TRUE
  /\ UNCHANGED <<rec, strung, isCountdown, resets>>

Release ==
  /\ rec.state = "expand" /\ isDragging
  /\ isDragging' = FALSE
  /\ UNCHANGED <<rec, strung, isCountdown, resets>>

addRecordedItem(p) == IF rec.isRecording THEN R!Note(rec, p) ELSE rec

(* A string is struck and sounds, if it was ever strung.                    *)
activate(p) ==
  /\ Len(rec.recorded) < MaxNotes
  /\ objects[guitarStrings[p]].second # None \/ isUndrawing
  /\ rec' = addRecordedItem(p)
  /\ UNCHANGED <<strung, isDragging, isCountdown, resets>>

(* The pointer is drawn over it, or its number key is released.             *)
dragMouseCollisionCheck(p) == ~isDrawing /\ ~isUndrawing /\ activate(p)
onGuitarKeyUp(p)           == activate(p)
Struck(p) == rec.state = "expand" /\ (dragMouseCollisionCheck(p) \/ onGuitarKeyUp(p))

startCountdown ==
  /\ rec.state = "expand" /\ ~rec.isRecording /\ ~isCountdown
  /\ rec.takes < MaxTakes
  /\ isCountdown' = TRUE
  /\ UNCHANGED <<rec, strung, isDragging, resets>>

startRecording ==
  /\ isCountdown
  /\ isCountdown' = FALSE
  /\ rec' = R!Recording(rec)
  /\ UNCHANGED <<strung, isDragging, resets>>

stopRecording ==
  /\ rec.isRecording
  /\ rec' = R!Recorded(rec)
  /\ UNCHANGED <<strung, isDragging, isCountdown, resets>>

animationExpanded ==
  /\ rec.state = "collapsed"
  /\ rec' = R!Expanded(rec)
  /\ UNCHANGED <<strung, isDragging, isCountdown, resets>>

(* The view may be contracted in the middle of anything.                    *)
animationCollapsed ==
  /\ rec.state = "expand"
  /\ rec' = R!Collapsed(rec)
  /\ UNCHANGED <<strung, isDragging, isCountdown, resets>>

(* The button that resets the experiment is there while nothing is expanded. *)
Reset ==
  /\ rec.state = "collapsed"
  /\ resets < MaxResets /\ resets' = resets + 1
  /\ loadData

Init ==
  LET map == [p \in {s.pid : s \in Loaded} |-> <<p, 1>>]
      Of(p) == CHOOSE s \in Loaded : s.pid = p
  IN  /\ rec = R!Fresh(Notes)
      /\ guitarStrings = map
      /\ dots = createDotGrid(map)
      /\ objects = [i \in {map[p] : p \in DOMAIN map} |-> createStringFromModel(Of(i[1]))]
      /\ pidPool \in PoolsOf({Pid(n) : n \in (0..(maxStrings - 1)) \ {s.pid : s \in Loaded}})
      /\ isDrawing = FALSE /\ isUndrawing = FALSE /\ currentDrawingPid = undefined.n
      /\ isDragging = FALSE /\ isCountdown = FALSE
      /\ resets = 0

Next ==
  \/ \E d \in Dots : activateDot(d)
  \/ \E p \in DOMAIN guitarStrings : Struck(p)
  \/ Drag \/ Release
  \/ startCountdown \/ startRecording \/ stopRecording
  \/ animationExpanded \/ animationCollapsed
  \/ Reset

Spec == Init /\ [][Next]_vars

------------------------------------------------------------------------------
(* Until the composition is reloaded, a string that is in the map has its   *)
(* pid to itself and is strung between two dots that know it, all but the   *)
(* one that is drawn, which has one; no dot has another string.             *)
StringsMeetDots ==
  resets = 0 =>
    /\ \A p \in DOMAIN guitarStrings :
         LET s == objects[guitarStrings[p]]
         IN  /\ s.pid = Pid(p)
             /\ s.pid \notin ToSet(pidPool)
             /\ {d \in Dots : dots[d] = guitarStrings[p]} = {s.first, s.second} \ {None}
             /\ s.first # None /\ s.first # s.second
             /\ (s.second = None) <=> ((isDrawing \/ isUndrawing) /\ p = currentDrawingPid)
    /\ \A d \in Dots : dots[d] # Free => \E p \in DOMAIN guitarStrings : guitarStrings[p] = dots[d]
    /\ IsInjective(pidPool)

(* What that rests on: a pid is that of a string or in the pool, ...        *)
PoolInv ==
  /\ DOMAIN guitarStrings \subseteq Nat /\ IsFiniteSet(DOMAIN guitarStrings)
  /\ pidPool \in Seq([n : Nat, text : {FALSE}]) /\ IsInjective(pidPool)
  /\ \A k \in DOMAIN pidPool : pidPool[k].n \notin DOMAIN guitarStrings
  /\ \A n \in 0..(maxStrings - 1) :
       n \in DOMAIN guitarStrings \/ \E k \in DOMAIN pidPool : pidPool[k] = Pid(n)

(* ... each of which is an object that its two dots refer to, ...           *)
String(p) == objects[guitarStrings[p]]

StringsInv ==
  /\ \A p \in DOMAIN guitarStrings : guitarStrings[p][1] = p /\ guitarStrings[p] # Free
  /\ objects = [i \in {guitarStrings[p] : p \in DOMAIN guitarStrings} |-> objects[i]]
  /\ dots \in [Dots -> DOMAIN objects \cup {Free}]
  /\ \A p \in DOMAIN guitarStrings :
       /\ String(p) \in [pid : {Pid(p)}, first : Dots, second : Dots \cup {None},
                         tornDown : BOOLEAN]
       /\ String(p).first # String(p).second
       /\ \A d \in Dots : dots[d] = guitarStrings[p]
                            <=> d \in {String(p).first, String(p).second}

(* ... but for the string that is drawn.                                    *)
DrawInv ==
  /\ isDrawing \in BOOLEAN /\ isUndrawing \in BOOLEAN
  /\ (isDrawing \/ isUndrawing) => currentDrawingPid \in DOMAIN guitarStrings
  /\ \A p \in DOMAIN guitarStrings :
       (String(p).second = None) <=> ((isDrawing \/ isUndrawing) /\ p = currentDrawingPid)

GuitarInv == resets \in Nat /\ (resets = 0 => PoolInv /\ StringsInv /\ DrawInv)
===============================================================================
