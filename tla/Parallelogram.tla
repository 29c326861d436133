---------------------------- MODULE Parallelogram ----------------------------
(***************************************************************************)
(* The parallelograms of the experiment (views/ParallelogramView.js,       *)
(* parallelogram/Parallelogram.js): each sounds from when it is pressed    *)
(* until it is released, by the pointer or by its number key, and pops up  *)
(* and down when the track plays it.                                       *)
(*                                                                         *)
(* A note is recorded at its release.  Its duration is a number if the     *)
(* parallelogram has a startTime.                                          *)
(***************************************************************************)
EXTENDS Naturals, Sequences, FiniteSets

CONSTANTS Pids,        \* of the parallelograms
          MaxNotes,    \* BOUND: notes in a recording
          MaxTakes,    \* BOUND: recordings
          MaxResets,   \* BOUND: how often the composition is reloaded
          MaxTimers    \* BOUND: notes of the track that sound at a time

VARIABLES
  rec,            \* what is recorded and played: see Recorder
  scheduled,      \* notes of the track on the playback bus
  notePlaying,    \* the parallelograms with a note
  startTime,      \* those that have a time of their last popUp
  timers,         \* number of setTimeouts of each that will call popDown
  listening,      \* the view hears presses and releases
  renderPause,
  rotated,        \* the view is higher than wide
  held,           \* those the user holds
  stuck,          \* those with a note whose release was not heard
  unheard,        \* one was pressed when that was not heard, or made anew
  resets

tones == <<notePlaying, startTime, timers>>
hands == <<held, stuck, unheard>>
vars  == <<rec, scheduled, tones, listening, renderPause, rotated, hands, resets>>

R == INSTANCE Recorder

Notes == <<[pid |-> CHOOSE p \in Pids : TRUE, timed |-> TRUE]>>

------------------------------------------------------------------------------
popUp(p) == /\ notePlaying' = notePlaying \cup {p}
            /\ startTime' = startTime \cup {p}

popDown(p) == /\ notePlaying' = notePlaying \ {p}
              /\ stuck' = stuck \ {p}

(* The sequencer schedules the notes of the tracks that it has; they may    *)
(* be due after the track was removed.                                      *)
Schedule ==
  /\ \E t \in rec.tracks : \E k \in DOMAIN t.notes :
       scheduled' = scheduled \cup {t.notes[k].pid}
  /\ scheduled' # scheduled
  /\ UNCHANGED <<rec, tones, listening, renderPause, rotated, hands, resets>>

(* The note goes with no tone when nothing is rendered.                     *)
onPlayback(p) ==
  /\ p \in scheduled /\ timers[p] < MaxTimers
  /\ scheduled' = scheduled \ {p}
  /\ IF renderPause THEN UNCHANGED tones
     ELSE popUp(p) /\ timers' = [timers EXCEPT ![p] = @ + 1]
  /\ UNCHANGED <<rec, listening, renderPause, rotated, hands, resets>>

(* It takes down the note there is, also if the user has pressed it.        *)
Timeout(p) ==
  /\ timers[p] > 0
  /\ timers' = [timers EXCEPT ![p] = @ - 1]
  /\ popDown(p)
  /\ UNCHANGED <<rec, scheduled, startTime, listening, renderPause, rotated,
                 held, unheard, resets>>

------------------------------------------------------------------------------
(* A press, or a key that is held and repeats.                              *)
onActivate(p) ==
  /\ held' = held \cup {p}
  /\ IF listening
     THEN popUp(p) /\ UNCHANGED unheard
     ELSE unheard' = TRUE /\ UNCHANGED <<notePlaying, startTime>>
  /\ UNCHANGED <<rec, scheduled, timers, listening, renderPause, rotated, stuck, resets>>

recordNote(p) ==
  [rec EXCEPT !.recorded = <<[pid |-> p, timed |-> p \in startTime]>> \o @]

onDeactivate(p) ==
  /\ p \in held
  /\ held' = held \ {p}
  /\ IF listening
     THEN /\ popDown(p)
          /\ IF rec.isRecording /\ Len(rec.recorded) < MaxNotes
             THEN rec' = recordNote(p) ELSE UNCHANGED rec
     ELSE UNCHANGED <<notePlaying, stuck, rec>>
  /\ UNCHANGED <<scheduled, startTime, timers, listening, renderPause, rotated,
                 unheard, resets>>

------------------------------------------------------------------------------
startRecording ==
  /\ rec.state = "expand" /\ ~rec.isRecording /\ rec.takes < MaxTakes
  /\ rec' = R!Recording(rec)
  /\ UNCHANGED <<scheduled, tones, listening, renderPause, rotated, hands, resets>>

stopRecording ==
  /\ rec.isRecording
  /\ rec' = R!Recorded(rec)
  /\ UNCHANGED <<scheduled, tones, listening, renderPause, rotated, hands, resets>>

animationExpanded ==
  /\ rec.state = "collapsed"
  /\ rec' = R!Expanded(rec)
  /\ listening' = TRUE
  /\ UNCHANGED <<scheduled, tones, renderPause, rotated, hands, resets>>

animationCollapsed ==
  /\ rec.state = "expand"
  /\ rec' = R!Collapsed(rec)
  /\ listening' = FALSE
  /\ stuck' = stuck \cup (held \cap notePlaying)
  /\ UNCHANGED <<scheduled, tones, renderPause, rotated, held, unheard, resets>>

disable == /\ rec.state = "collapsed" /\ ~renderPause /\ renderPause' = TRUE
           /\ UNCHANGED <<rec, scheduled, tones, listening, rotated, hands, resets>>
enable  == /\ renderPause /\ renderPause' = FALSE
           /\ UNCHANGED <<rec, scheduled, tones, listening, rotated, hands, resets>>

resize == /\ rotated' = ~rotated
          /\ UNCHANGED <<rec, scheduled, tones, listening, renderPause, hands, resets>>

(* The parallelograms are torn down, and new ones made.                     *)
loadData ==
  /\ rec.state = "collapsed" /\ resets < MaxResets
  /\ resets' = resets + 1
  /\ rec' = R!Load(rec, Notes)
  /\ notePlaying' = {} /\ startTime' = {} /\ timers' = [p \in Pids |-> 0]
  /\ stuck' = {}
  /\ unheard' = (unheard \/ held # {})
  /\ UNCHANGED <<scheduled, listening, renderPause, rotated, held>>

Init ==
  /\ rec = R!Fresh(Notes)
  /\ scheduled = {} /\ notePlaying = {} /\ startTime = {}
  /\ timers = [p \in Pids |-> 0]
  /\ listening = FALSE /\ renderPause = FALSE /\ rotated = FALSE
  /\ held = {} /\ stuck = {} /\ unheard = FALSE /\ resets = 0

Next ==
  \/ Schedule
  \/ \E p \in Pids : onPlayback(p) \/ Timeout(p) \/ onActivate(p) \/ onDeactivate(p)
  \/ startRecording \/ stopRecording
  \/ animationExpanded \/ animationCollapsed
  \/ disable \/ enable \/ resize \/ loadData

Spec == Init /\ [][Next]_vars

------------------------------------------------------------------------------
(* A note goes on only while its parallelogram is held, or a timeout will   *)
(* end it, or its view was contracted in the middle of it; and notes have a *)
(* duration, if all presses were heard.                                     *)
NotesEnd ==
  /\ \A p \in notePlaying : p \in held \cup stuck \/ timers[p] > 0
  /\ ~unheard => \A k \in DOMAIN rec.recorded : rec.recorded[k].timed

(* What that rests on: in a contracted view nobody ends a note but a        *)
(* timeout, and who is held has been heard, with its time.                  *)
NotesInv ==
  /\ listening \in BOOLEAN /\ unheard \in BOOLEAN
  /\ notePlaying \subseteq Pids /\ timers \in [Pids -> Nat]
  /\ \A p \in notePlaying : p \in stuck \/ timers[p] > 0 \/ (listening /\ p \in held)
  /\ ~unheard => /\ held \subseteq startTime
                 /\ \A k \in DOMAIN rec.recorded : rec.recorded[k].timed
==============================================================================
