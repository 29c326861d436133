----------------------------- MODULE PlaybackBus -----------------------------
(***************************************************************************)
(* The bus of the experiment that tells its views when a sound or a beat   *)
(* that the sequencer has scheduled is due (audio/PlaybackBus.js,          *)
(* util/Pool.js on LinkedList).                                            *)
(*                                                                         *)
(* A descriptor is a pooled object with the time that is left and what it  *)
(* is about, an item.  Each frame goes over the list of sounds, then over  *)
(* that of beats; a descriptor that is due is removed in the middle of     *)
(* that, and what hears of a beat may schedule a sound.  The loop goes on  *)
(* at the next of the node it had, wherever that node is by now: mostly in *)
(* the pool, with no next.                                                 *)
(***************************************************************************)
EXTENDS LinkedList

CONSTANTS MaxItems,      \* BOUND: sounds and beats
          MaxTime,       \* BOUND: frames ahead
          poolChunkSize

VARIABLES
  heap,         \* the lists: see LinkedList
  descriptors,  \* [time, item] of each, as they were created
  currentDelta,
  current,      \* the node the loop is at
  looping,      \* the list it goes over, "none" between frames
  waits,        \* the time each item has still to wait, one per item
  emitted       \* the items whose listeners were called

vars == <<heap, descriptors, currentDelta, current, looping, waits, emitted>>

Lists   == {"notes", "beats", "notePool", "beatPool"}
pool(l) == IF l = "notes" THEN "notePool" ELSE "beatPool"

(* A new descriptor of a sound is an empty array: nothing is later than     *)
(* undefined.  That of a beat is an array of zeros.                         *)
undefined  == MaxTime + 99
creator(p) == [time |-> IF p = "notePool" THEN undefined ELSE 0, item |-> Null]

preAllocate(b, p, num) ==
  LET n == Len(b.descriptors)
  IN  [descriptors |-> b.descriptors \o [k \in 1..num |-> creator(p)],
       heap |-> FoldLeft(LAMBDA h, k : push(h, p, n + k), b.heap, [k \in 1..num |-> k])]

allocate(b, p, time, item) ==
  LET c == IF isEmpty(b.heap, p) THEN preAllocate(b, p, poolChunkSize) ELSE b
      v == c.heap.obj[c.heap.tail[p]]
  IN  [v |-> v, heap |-> pop(c.heap, p),
       descriptors |-> [c.descriptors EXCEPT ![v] = [time |-> time, item |-> item]]]

free(h, p, v) == push(h, p, v)

Scheduled(b, l, time, item) ==
  LET a == allocate(b, pool(l), time, item)
  IN  [heap |-> push(a.heap, l, a.v), descriptors |-> a.descriptors]

Bus == [heap |-> heap, descriptors |-> descriptors]

------------------------------------------------------------------------------
(* The sequencer schedules a beat, or a track one of its sounds.            *)
Schedule(l, time) ==
  /\ looping = "none" /\ Len(waits) < MaxItems
  /\ LET b == Scheduled(Bus, l, time, Len(waits) + 1)
     IN  heap' = b.heap /\ descriptors' = b.descriptors
  /\ waits' = Append(waits, time)
  /\ UNCHANGED <<currentDelta, current, looping, emitted>>

schedule(time)        == Schedule("notes", time)
scheduleRawBeat(time) == Schedule("beats", time)

tick(delta) ==
  /\ looping = "none"
  /\ currentDelta' = delta
  /\ looping' = "notes" /\ current' = heap.head["notes"]
  /\ waits' = [i \in DOMAIN waits |-> IF waits[i] > delta THEN waits[i] - delta ELSE 0]
  /\ UNCHANGED <<heap, descriptors, emitted>>

LoopEnds ==
  /\ looping # "none" /\ current = Null
  /\ IF looping = "notes" THEN looping' = "beats" /\ current' = heap.head["beats"]
                          ELSE looping' = "none" /\ current' = Null
  /\ UNCHANGED <<heap, descriptors, currentDelta, waits, emitted>>

Decrement(v) ==
  /\ descriptors[v].time > currentDelta
  /\ descriptors' = IF descriptors[v].time = undefined THEN descriptors
                    ELSE [descriptors EXCEPT ![v].time = @ - currentDelta]
  /\ current' = heap.next[current]
  /\ UNCHANGED <<heap, currentDelta, looping, waits, emitted>>

Due(v) == currentDelta >= descriptors[v].time

eachSoundDescriptor ==
  /\ looping = "notes" /\ current # Null
  /\ LET v == heap.obj[current]
     IN  \/ Decrement(v)
         \/ /\ Due(v)
            /\ heap' = free(remove(heap, "notes", v), "notePool", v)
            /\ emitted' = Append(emitted, descriptors[v].item)
            /\ current' = heap'.next[current]
            /\ UNCHANGED <<descriptors, currentDelta, looping, waits>>

eachBeatDescriptor_Freed ==
  /\ looping = "beats" /\ current # Null
  /\ LET v == heap.obj[current]
     IN  \/ Decrement(v)
         \/ /\ Due(v)
            /\ emitted' = Append(emitted, descriptors[v].item)
            /\ heap' = free(heap, "beatPool", v)
            /\ current' = heap'.next[current]
            /\ UNCHANGED <<descriptors, waits, currentDelta, looping>>

(* The listeners of a beat may play a loop, whose sounds are scheduled.     *)
eachBeatDescriptor ==
  /\ looping = "beats" /\ current # Null
  /\ LET v == heap.obj[current]
         r == remove(heap, "beats", v)
     IN  \/ Decrement(v)
         \/ /\ Due(v)
            /\ emitted' = Append(emitted, descriptors[v].item)
            /\ \/ /\ heap' = free(r, "beatPool", v)
                  /\ UNCHANGED <<descriptors, waits>>
               \/ /\ Len(waits) < MaxItems
                  /\ \E time \in 0..MaxTime :
                       /\ waits' = Append(waits, time)
                       /\ LET b == Scheduled([heap |-> r, descriptors |-> descriptors],
                                             "notes", time, Len(waits) + 1)
                          IN  /\ heap' = free(b.heap, "beatPool", v)
                              /\ descriptors' = b.descriptors
            /\ current' = heap'.next[current]
            /\ UNCHANGED <<currentDelta, looping>>

Init ==
  /\ heap = Empty(Lists) /\ descriptors = << >>
  /\ currentDelta = 0 /\ current = Null /\ looping = "none"
  /\ waits = << >> /\ emitted = << >>

Next ==
  \/ \E time \in 0..MaxTime : schedule(time) \/ scheduleRawBeat(time)
  \/ \E delta \in 1..MaxTime : tick(delta)
  \/ LoopEnds \/ eachSoundDescriptor \/ eachBeatDescriptor

Spec == Init /\ [][Next]_vars

------------------------------------------------------------------------------
ItemsOf(l) == [k \in DOMAIN Items(heap, l) |-> descriptors[Items(heap, l)[k]].item]

(* Every sound and beat is in its list or was emitted, once, and not before *)
(* it was due; the lists are well formed, and a descriptor is in one list.  *)
BusKeepsAll ==
  LET all == emitted \o ItemsOf("notes") \o ItemsOf("beats")
      ds  == Items(heap, "notes") \o Items(heap, "beats")
             \o Items(heap, "notePool") \o Items(heap, "beatPool")
  IN  /\ ToSet(all) = DOMAIN waits /\ IsInjective(all)
      /\ \A i \in ToSet(emitted) : waits[i] = 0
      /\ WellFormed(heap)
      /\ ToSet(ds) = DOMAIN descriptors /\ IsInjective(ds)

(* PlaybackBus.js:89: with each sound descriptor, a frame either decrements  *)
(* its time or emits it; so none that is due is left when it ends.          *)
NoneIsLate ==
  looping # "none" /\ current = Null => \A i \in ToSet(ItemsOf(looping)) : waits[i] > 0
===============================================================================
