------------------------------ MODULE Sequencer ------------------------------
(***************************************************************************)
(* The beats of the experiment (audio/Sequencer.js, audio/Metronome.js): a *)
(* worker ticks every LOOK_AHEAD, and at a tick the sequencer hands out,   *)
(* to the tracks and to who listens, the beats of the next SCHEDULE_AHEAD. *)
(* A tick is a message, which may be late.                                 *)
(***************************************************************************)
EXTENDS Naturals, Sequences

CONSTANTS TOTAL_BEATS, LOOK_AHEAD, SCHEDULE_AHEAD, A_16TH_NOTE_DURATION,
          MaxDelay,    \* how late a tick may be
          MaxStarts,   \* BOUND
          MaxTime      \* BOUND

VARIABLES
  currentTime,     \* of the audio context
  isRunning,       \* of the manager, which starts and stops the sequencer
  nextNoteTime,
  current16thNote,
  tickAt,          \* when the worker's interval fires, 0 if there is none
  ticks,           \* when the messages under way were sent
  starts,
  first,           \* the next beat is the first since a start
  handed           \* the beats, with their time and when they were handed out

vars == <<currentTime, isRunning, nextNoteTime, current16thNote, tickAt, ticks, starts,
          first, handed>>

start ==
  /\ ~isRunning /\ isRunning' = TRUE
  /\ starts < MaxStarts /\ starts' = starts + 1
  /\ nextNoteTime' = currentTime
  /\ tickAt' = currentTime + LOOK_AHEAD
  /\ first' = TRUE
  /\ UNCHANGED <<currentTime, current16thNote, ticks, handed>>

stop ==
  /\ isRunning /\ isRunning' = FALSE
  /\ tickAt' = 0
  /\ UNCHANGED <<currentTime, nextNoteTime, current16thNote, ticks, starts, first, handed>>

ticker ==
  /\ tickAt # 0 /\ tickAt = currentTime
  /\ ticks' = Append(ticks, currentTime)
  /\ tickAt' = currentTime + LOOK_AHEAD
  /\ UNCHANGED <<currentTime, isRunning, nextNoteTime, current16thNote, starts, first, handed>>

(* The beat that is k after the next one.                                   *)
Beat(k) == [beat  |-> (current16thNote + k) % TOTAL_BEATS,
            time  |-> nextNoteTime + k * A_16TH_NOTE_DURATION,
            at    |-> currentTime,
            first |-> first /\ k = 0]

Ahead(k) == Beat(k).time < currentTime + SCHEDULE_AHEAD

onTick ==
  /\ ticks # << >> /\ ticks' = Tail(ticks)
  /\ \E n \in 0..(MaxTime + SCHEDULE_AHEAD) :
       /\ ~Ahead(n) /\ \A k \in 0..n : k < n => Ahead(k)
       /\ handed' = handed \o [k \in 1..n |-> Beat(k - 1)]
       /\ nextNoteTime' = Beat(n).time
       /\ current16thNote' = Beat(n).beat
       /\ first' = (first /\ n = 0)
  /\ UNCHANGED <<currentTime, isRunning, tickAt, starts>>

(* Time passes once the worker has ticked and no message is later.          *)
Clock ==
  /\ currentTime < MaxTime
  /\ tickAt # currentTime
  /\ ticks # << >> => currentTime < ticks[1] + MaxDelay
  /\ currentTime' = currentTime + 1
  /\ UNCHANGED <<isRunning, nextNoteTime, current16thNote, tickAt, ticks, starts, first, handed>>

Init ==
  /\ currentTime = 1 /\ isRunning = FALSE
  /\ nextNoteTime = 0 /\ current16thNote = 0
  /\ tickAt = 0 /\ ticks = << >> /\ starts = 0
  /\ first = FALSE /\ handed = << >>

Next == start \/ stop \/ ticker \/ onTick \/ Clock

Spec == Init /\ [][Next]_vars

------------------------------------------------------------------------------
(* The beats follow each other, at their distance unless the sequencer was  *)
(* started in between, and go on where it was stopped.  A beat is handed    *)
(* out as late as its tick at most, but for the first after a start, for    *)
(* which the worker is a whole interval late.                               *)
BeatsInTime ==
  \A k \in DOMAIN handed :
    /\ handed[k].at <= handed[k].time + MaxDelay + IF handed[k].first THEN LOOK_AHEAD ELSE 0
    /\ k > 1 =>
         /\ handed[k].beat = (handed[k - 1].beat + 1) % TOTAL_BEATS
         /\ handed[k].first \/ handed[k].time = handed[k - 1].time + A_16TH_NOTE_DURATION

(* What that rests on.  A tick is not later than the beat it is for, ...    *)
Slack == IF first THEN LOOK_AHEAD ELSE 0

TicksInv ==
  /\ currentTime \in Nat \ {0} /\ nextNoteTime \in Nat /\ tickAt \in Nat
  /\ first \in BOOLEAN
  /\ ticks \in Seq(Nat)
  /\ \A i \in DOMAIN ticks :
       /\ ticks[i] <= currentTime
       /\ \A j \in DOMAIN ticks : i < j => ticks[i] <= ticks[j]
  /\ ticks # << >> => /\ currentTime <= ticks[1] + MaxDelay
                      /\ ticks[1] <= nextNoteTime + Slack
  /\ tickAt # 0 => currentTime <= tickAt /\ tickAt <= currentTime + LOOK_AHEAD
  /\ (tickAt # 0 /\ ticks = << >>) => tickAt <= nextNoteTime + Slack

(* ... and the next beat goes on after the last one.                        *)
BeatsInv ==
  /\ current16thNote \in 0..(TOTAL_BEATS - 1)
  /\ handed \in Seq([beat : 0..(TOTAL_BEATS - 1), time : Nat, at : Nat, first : BOOLEAN])
  /\ handed # << >> =>
       LET last == handed[Len(handed)]
       IN  /\ current16thNote = (last.beat + 1) % TOTAL_BEATS
           /\ first \/ nextNoteTime = last.time + A_16TH_NOTE_DURATION

SequencerInv == TicksInv /\ BeatsInv /\ BeatsInTime
==============================================================================
