----------------------------- MODULE Arpeggiator -----------------------------
(***************************************************************************)
(* The arpeggiator of the experiment (views/ArpeggiatorView.js): a puck    *)
(* that is held in one of four quadrants, by the pointer or by a key,      *)
(* plays the loop of the quadrant.  In the contracted view the puck        *)
(* follows the loops that the track plays.                                 *)
(*                                                                         *)
(* The corners of the view are at -1 and 1, its middle is at 0.            *)
(***************************************************************************)
EXTENDS Integers, Sequences

CONSTANTS MaxNotes,    \* BOUND: notes in a recording
          MaxTakes,    \* BOUND: recordings
          MaxResets    \* BOUND: how often the composition is reloaded

VARIABLES
  rec,               \* what is recorded and played: see Recorder
  currentQuadrant, cursor, target,
  isDragging,
  renderPause,
  keydown,           \* the document still hears onArpKeyDown
  held,              \* what the user holds: the puck, the keys
  stuck,             \* it was let go, or a key pressed, in the contracted view
  resets

puck == <<currentQuadrant, cursor, target>>
vars == <<rec, puck, isDragging, renderPause, keydown, held, stuck, resets>>

R == INSTANCE Recorder

Quadrants == 0..3
Middle    == <<0, 0>>
Notes     == <<0, 3>>

quadrantForPos(p) ==
  IF p[1] <= 0 THEN (IF p[2] <= 0 THEN 0 ELSE 1)
               ELSE (IF p[2] <= 0 THEN 2 ELSE 3)

positionForQuadrant(q) == <<IF q \in {0, 1} THEN -1 ELSE 1,
                            IF q \in {0, 2} THEN -1 ELSE 1>>

updateCursor(p) == /\ cursor' = p
                   /\ currentQuadrant' = quadrantForPos(p)

(* The animation of the contracted view follows the track.                  *)
animateCursorToQuadrant(q) ==
  /\ rec.state = "collapsed" /\ ~renderPause
  /\ \E t \in rec.tracks : \E k \in DOMAIN t.notes : t.notes[k] = q
  /\ target' = positionForQuadrant(q)
  /\ UNCHANGED <<rec, currentQuadrant, cursor, isDragging, renderPause, keydown,
                 held, stuck, resets>>

Step(a, b) == IF a < b THEN a + 1 ELSE IF a > b THEN a - 1 ELSE a

(* It moves while there is a way to go on both axes.                        *)
renderCollapsed ==
  /\ rec.state = "collapsed" /\ ~renderPause /\ target # cursor
  /\ IF target[1] # cursor[1] /\ target[2] # cursor[2]
     THEN /\ updateCursor(<<Step(cursor[1], target[1]), Step(cursor[2], target[2])>>)
          /\ UNCHANGED target
     ELSE /\ target' = cursor
          /\ UNCHANGED <<cursor, currentQuadrant>>
  /\ UNCHANGED <<rec, isDragging, renderPause, keydown, held, stuck, resets>>

------------------------------------------------------------------------------
(* A beat at which a loop starts.                                           *)
playLoop ==
  /\ rec.state = "expand" /\ isDragging
  /\ rec.isRecording /\ Len(rec.recorded) < MaxNotes
  /\ rec' = R!Note(rec, currentQuadrant)
  /\ UNCHANGED <<puck, isDragging, renderPause, keydown, held, stuck, resets>>

Press ==
  /\ rec.state = "expand" /\ "puck" \notin held
  /\ isDragging' = TRUE
  /\ held' = held \cup {"puck"}
  /\ UNCHANGED <<rec, puck, renderPause, keydown, stuck, resets>>

Move(p) ==
  /\ rec.state = "expand" /\ "puck" \in held /\ isDragging
  /\ updateCursor(p)
  /\ UNCHANGED <<rec, target, isDragging, renderPause, keydown, held, stuck, resets>>

(* The release is heard while the view is expanded.                         *)
Release ==
  /\ "puck" \in held
  /\ held' = held \ {"puck"}
  /\ isDragging' = IF rec.state = "expand" THEN FALSE ELSE isDragging
  /\ UNCHANGED <<rec, puck, renderPause, keydown, stuck, resets>>

onArpKeyDown(q) ==
  /\ keydown
  /\ held' = held \cup {"key"}
  /\ updateCursor(positionForQuadrant(q))
  /\ isDragging' = TRUE
  /\ stuck' = (stuck \/ rec.state = "collapsed")
  /\ UNCHANGED <<rec, target, renderPause, keydown, resets>>

onArpKeyUp ==
  /\ "key" \in held
  /\ held' = held \ {"key"}
  /\ isDragging' = IF rec.state = "expand" THEN FALSE ELSE isDragging
  /\ UNCHANGED <<rec, puck, renderPause, keydown, stuck, resets>>

------------------------------------------------------------------------------
startRecording ==
  /\ rec.state = "expand" /\ ~rec.isRecording /\ rec.takes < MaxTakes
  /\ rec' = R!Recording(rec)
  /\ UNCHANGED <<puck, isDragging, renderPause, keydown, held, stuck, resets>>

stopRecording ==
  /\ rec.isRecording
  /\ rec' = R!Recorded(rec)
  /\ UNCHANGED <<puck, isDragging, renderPause, keydown, held, stuck, resets>>

attachEventListeners == keydown' = TRUE

animationExpanded ==
  /\ rec.state = "collapsed"
  /\ rec' = R!Expanded(rec)
  /\ attachEventListeners
  /\ renderPause' = FALSE
  /\ UNCHANGED <<puck, isDragging, held, stuck, resets>>

(* The listener that is taken off the keydown event is that of keyup.       *)
removeEventListeners == keydown' = keydown

animationCollapsed ==
  /\ rec.state = "expand"
  /\ rec' = R!Collapsed(rec)
  /\ removeEventListeners
  /\ stuck' = (stuck \/ held # {})
  /\ UNCHANGED <<puck, isDragging, renderPause, held, resets>>

(* A view that scrolls out of the window, or is hidden by an expanded one.  *)
disable == /\ rec.state = "collapsed" /\ ~renderPause
           /\ renderPause' = TRUE
           /\ UNCHANGED <<rec, puck, isDragging, keydown, held, stuck, resets>>
enable  == /\ renderPause
           /\ renderPause' = FALSE
           /\ UNCHANGED <<rec, puck, isDragging, keydown, held, stuck, resets>>

loadData ==
  /\ rec.state = "collapsed" /\ resets < MaxResets
  /\ resets' = resets + 1
  /\ rec' = R!Load(rec, Notes)
  /\ UNCHANGED <<puck, isDragging, renderPause, keydown, held, stuck>>

Init ==
  /\ rec = R!Fresh(Notes)
  /\ cursor = Middle /\ currentQuadrant = quadrantForPos(Middle) /\ target = Middle
  /\ isDragging = FALSE /\ renderPause = FALSE /\ keydown = FALSE
  /\ held = {} /\ stuck = FALSE /\ resets = 0

Next ==
  \/ \E q \in Quadrants : animateCursorToQuadrant(q) \/ onArpKeyDown(q)
  \/ renderCollapsed \/ playLoop
  \/ Press \/ Release \/ onArpKeyUp
  \/ \E q \in Quadrants : Move(positionForQuadrant(q))
  \/ startRecording \/ stopRecording
  \/ animationExpanded \/ animationCollapsed
  \/ disable \/ enable \/ loadData

Spec == Init /\ [][Next]_vars

------------------------------------------------------------------------------
(* The loop plays while the puck or a key is held, unless the view was      *)
(* contracted in the middle of that, or a key pressed when it was.          *)
OnlyWhileHeld == ~stuck => (isDragging => held # {})

(* What that rests on.                                                      *)
HeldInv ==
  /\ isDragging \in BOOLEAN /\ stuck \in BOOLEAN
  /\ ~stuck => /\ isDragging => held # {}
               /\ rec.state = "collapsed" => held = {}
==============================================================================
