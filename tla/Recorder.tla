------------------------------- MODULE Recorder -------------------------------
(***************************************************************************)
(* What each of the five instruments of the experiment (GuitarView.js,     *)
(* DrumView.js, ArpeggiatorView.js, HexagonView.js, ParallelogramView.js)  *)
(* does, in lines of its own, with what it records and the track the       *)
(* sequencer loops.  The instrument's module says when.                    *)
(*                                                                         *)
(* r is the instrument: its APPLICATION_STATE, isRecording, the notes in   *)
(* data.recorded, currentTrack, and those of its tracks that are in the    *)
(* sequencer.  left says that a recording has ended in a contracted view,  *)
(* which the browser's history has contracted (ExperimentUI); takes counts *)
(* the recordings.                                                         *)
(***************************************************************************)
EXTENDS Naturals, Sequences, FiniteSets

(* A track keeps the notes it is made of; every track has an id of its own. *)
createRecordedTrack(r) ==
  [id    |-> CHOOSE n \in 0..(Cardinality(r.tracks) + 1) :
                \A t \in r.tracks \cup {r.currentTrack} : t.id # n,
   notes |-> r.recorded]

addTrack(r)    == [r EXCEPT !.tracks = @ \cup {r.currentTrack}]
removeTrack(r) == [r EXCEPT !.tracks = @ \ {r.currentTrack}]

(* What loadData does with the composition's notes.                         *)
Load(r, notes) ==
  LET q == [removeTrack(r) EXCEPT !.recorded = notes]
  IN  addTrack([q EXCEPT !.currentTrack = createRecordedTrack(q)])

(* After the first loadData.                                                *)
Fresh(notes) ==
  LET t == [id |-> 0, notes |-> notes]
  IN  [state |-> "collapsed", isRecording |-> FALSE, recorded |-> notes,
       currentTrack |-> t, tracks |-> {t}, left |-> FALSE, takes |-> 0]

Recording(r) == [r EXCEPT !.isRecording = TRUE, !.recorded = << >>, !.takes = @ + 1]
Recorded(r)  == [r EXCEPT !.isRecording = FALSE,
                          !.currentTrack = createRecordedTrack(r),
                          !.left = @ \/ r.state = "collapsed"]

Note(r, note) == [r EXCEPT !.recorded = Append(@, note)]

Collapsed(r) == [addTrack(r) EXCEPT !.state = "collapsed"]

(* The track is left in the sequencer.                                      *)
Expanded_Keeps(r) == [r EXCEPT !.state = "expand"]

Expanded(r) == [removeTrack(r) EXCEPT !.state = "expand"]

------------------------------------------------------------------------------
(* A contracted instrument plays its track and no other, an expanded one    *)
(* plays none, unless a recording has ended while it was contracted.           *)
PlaysItsTrack(r) ==
  r.left \/ r.tracks = IF r.state = "collapsed" THEN {r.currentTrack} ELSE {}

(* What is saved in the link of the composition is what the track plays.    *)
SharesItsTrack(r) == r.isRecording \/ r.recorded = r.currentTrack.notes

------------------------------------------------------------------------------
IsList(notes) == \E S : notes \in Seq(S)

(* A recorder has its fields.                                               *)
IsRecorder(r) ==
  /\ r = [state |-> r.state, isRecording |-> r.isRecording, recorded |-> r.recorded,
          currentTrack |-> r.currentTrack, tracks |-> r.tracks, left |-> r.left,
          takes |-> r.takes]
  /\ r.state \in {"collapsed", "expand"}
  /\ r.isRecording \in BOOLEAN
  /\ r.left \in BOOLEAN
  /\ IsList(r.recorded)
  /\ IsList(r.currentTrack.notes)

NoteBefore(r, note) == [r EXCEPT !.recorded = <<note>> \o @]

(* What a step of an instrument makes of its recorder.  All but one of them *)
(* write notes only while they record.                                      *)
Records(r, q, writes) ==
  \/ q = r
  \/ q \in {Recording(r), Recorded(r)}
  \/ (writes \/ r.isRecording) /\ \E note : q = Note(r, note)
  \/ r.isRecording /\ \E note : q = NoteBefore(r, note)
  \/ r.state = "expand"    /\ q = Collapsed(r)
  \/ r.state = "collapsed" /\ q = Expanded(r)
  \/ r.state = "collapsed" /\ \E notes : IsList(notes) /\ q = Load(r, notes)
===============================================================================
