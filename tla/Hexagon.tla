------------------------------- MODULE Hexagon -------------------------------
(***************************************************************************)
(* The hexagons of the experiment (views/HexagonView.js, hexagon/          *)
(* Hexagon.js): a grid that is built for the width of the view; a hexagon  *)
(* that is clicked, or whose key is released, sounds, and raises those     *)
(* around it ring by ring.                                                 *)
(*                                                                         *)
(* isRecording is set and never read: what is played outside a recording   *)
(* is also written to the composition.                                     *)
(***************************************************************************)
EXTENDS Cube, SequencesExt

CONSTANTS Sizes,       \* <<rows, columns>> on each side of the middle
          MaxNotes,    \* BOUND: notes in a recording
          MaxTakes,    \* BOUND: recordings
          MaxResets    \* BOUND: how often the composition is reloaded

VARIABLES
  rec,               \* what is recorded and played: see Recorder
  hexagons,          \* the cubes with a hexagon
  listening,         \* the hexagons that can be clicked
  isListening,
  lastBoundsWidth,   \* the size the grid is built for
  raised,            \* the hexagons that are not flat
  renderPause,
  resets

grid == <<hexagons, listening, isListening, lastBoundsWidth>>
vars == <<rec, grid, raised, renderPause, resets>>

R == INSTANCE Recorder

Notes == <<evenQToCube(0, 1)>>
NumberKeys == {evenQToCube(0, keyPos) : keyPos \in -2..2}

(* At every row and column from -rows and -cols to rows and cols.           *)
buildViews(size) ==
  {evenQToCube(row, col) : row \in (-size[1])..size[1], col \in (-size[2])..size[2]}

------------------------------------------------------------------------------
activateRing(c, radius) == ToSet(getRing(c, radius)) \cap hexagons

(* Ring by ring until one has no hexagon.                                   *)
Ripple(c) ==
  LET Far == 2 * (lastBoundsWidth[1] + lastBoundsWidth[2])
      Reached == {n \in 0..Far : \A k \in 0..n : activateRing(c, k) # {}}
  IN  UNION {activateRing(c, n) : n \in Reached}

activateHexagon(c, dontRecord) ==
  /\ raised' = raised \cup Ripple(c)
  /\ rec' = IF dontRecord THEN rec ELSE R!Note(rec, c)
  /\ UNCHANGED <<grid, renderPause, resets>>

Click(c) == /\ c \in listening /\ Len(rec.recorded) < MaxNotes
            /\ activateHexagon(c, FALSE)

onHexagonKeyUp(c) == /\ isListening /\ Len(rec.recorded) < MaxNotes
                     /\ activateHexagon(c, FALSE)

(* The track is played.                                                     *)
onPlayback == \E t \in rec.tracks : \E k \in DOMAIN t.notes :
                ~renderPause /\ activateHexagon(t.notes[k], TRUE)

(* They sink again.                                                         *)
render == /\ raised # {}
          /\ raised' = {}
          /\ UNCHANGED <<rec, grid, renderPause, resets>>

------------------------------------------------------------------------------
addEventListeners    == /\ listening' = hexagons
                        /\ isListening' = TRUE
removeEventListeners == /\ listening' = {}
                        /\ isListening' = FALSE

animationExpanded ==
  /\ rec.state = "collapsed"
  /\ rec' = R!Expanded(rec)
  /\ addEventListeners
  /\ UNCHANGED <<hexagons, lastBoundsWidth, raised, renderPause, resets>>

animationCollapsed ==
  /\ rec.state = "expand"
  /\ rec' = R!Collapsed(rec)
  /\ removeEventListeners
  /\ UNCHANGED <<hexagons, lastBoundsWidth, raised, renderPause, resets>>

(* Only a new width builds the grid again, and its hexagons listen if those *)
(* before them did.                                                         *)
resize(size) ==
  /\ lastBoundsWidth # size
  /\ lastBoundsWidth' = size
  /\ hexagons' = buildViews(size)
  /\ listening' = IF isListening THEN hexagons' ELSE {}
  /\ raised' = {}
  /\ UNCHANGED <<rec, isListening, renderPause, resets>>

startRecording ==
  /\ rec.state = "expand" /\ ~rec.isRecording /\ rec.takes < MaxTakes
  /\ rec' = R!Recording(rec)
  /\ UNCHANGED <<grid, raised, renderPause, resets>>

stopRecording ==
  /\ rec.isRecording
  /\ rec' = R!Recorded(rec)
  /\ UNCHANGED <<grid, raised, renderPause, resets>>

disable == /\ rec.state = "collapsed" /\ ~renderPause /\ renderPause' = TRUE
           /\ UNCHANGED <<rec, grid, raised, resets>>
enable  == /\ renderPause /\ renderPause' = FALSE
           /\ UNCHANGED <<rec, grid, raised, resets>>

loadData ==
  /\ rec.state = "collapsed" /\ resets < MaxResets
  /\ resets' = resets + 1
  /\ rec' = R!Load(rec, Notes)
  /\ UNCHANGED <<grid, raised, renderPause>>

Init ==
  /\ rec = R!Fresh(Notes)
  /\ lastBoundsWidth \in Sizes
  /\ hexagons = buildViews(lastBoundsWidth)
  /\ listening = {} /\ isListening = FALSE
  /\ raised = {} /\ renderPause = FALSE /\ resets = 0

Next ==
  \/ \E c \in hexagons : Click(c)
  \/ \E c \in NumberKeys : onHexagonKeyUp(c)
  \/ onPlayback \/ render
  \/ animationExpanded \/ animationCollapsed
  \/ \E size \in Sizes : resize(size)
  \/ startRecording \/ stopRecording
  \/ disable \/ enable \/ loadData

Spec == Init /\ [][Next]_vars

------------------------------------------------------------------------------
(* All hexagons of an expanded view can be clicked, none of a contracted    *)
(* one, whenever the grid is built anew.                                    *)
HexagonsListen == listening = IF rec.state = "expand" THEN hexagons ELSE {}

(* A ripple reaches all hexagons.                                           *)
RippleReachesAll == raised \in {{}, hexagons}

(* What is saved begins with what the track plays.                          *)
BeginsWithItsTrack == rec.isRecording \/ IsPrefix(rec.currentTrack.notes, rec.recorded)

(* What HexagonsListen rests on.                                            *)
ListenInv == isListening = (rec.state = "expand") /\ HexagonsListen
==============================================================================
