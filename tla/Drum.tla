--------------------------------- MODULE Drum ---------------------------------
(***************************************************************************)
(* The drums of the experiment (views/DrumView.js, drum/Drum.js, drum/     *)
(* DotEmitter.js, drum/DropBallEntity.js): an emitter drops a ball at its  *)
(* beats, a ball that hits a drum plays it, and drums may be dragged to    *)
(* where they are hit.  A ball ends on the floor, when its time is up, or  *)
(* when the view contracts.                                                *)
(***************************************************************************)
EXTENDS Naturals, Sequences, FiniteSets

CONSTANTS Drums,       \* pids of the drums
          Balls,       \* BOUND: pids of the balls
          MaxNotes,    \* BOUND: notes in a recording
          MaxTakes,    \* BOUND: recordings
          MaxResets    \* BOUND: how often the composition is reloaded

None == "none"

VARIABLES
  rec,               \* what is recorded and played: see Recorder
  dotEmitterObj,     \* the balls that are rendered
  world,             \* the balls in the world of the physics
  lastTarget,        \* the drum each ball hit last
  timers,            \* balls whose time runs
  isDragging,        \* the drums that follow the pointer
  currentlyDraggingDrum_,
  held,              \* the drums the user's fingers are on
  stuck,             \* the view was contracted in the middle of that
  resets

balls == <<dotEmitterObj, world, lastTarget, timers>>
drag  == <<isDragging, currentlyDraggingDrum_>>
vars  == <<rec, balls, drag, held, stuck, resets>>

R == INSTANCE Recorder

Notes == <<CHOOSE d \in Drums : TRUE>>

(* A drum is hit, or its key released: it sounds, and is recorded.          *)
recordSound(d) ==
  IF rec.isRecording /\ Len(rec.recorded) < MaxNotes THEN rec' = R!Note(rec, d)
                                                     ELSE UNCHANGED rec

(* A beat of the emitter.  getNextPID never gives the same pid again; those *)
(* of balls that are gone are used again here.                              *)
onBeat ==
  \E b \in Balls \ (world \cup timers) :
    /\ rec.state = "expand"
    /\ dotEmitterObj' = dotEmitterObj \cup {b}
    /\ world' = world \cup {b}
    /\ timers' = timers \cup {b}
    /\ lastTarget' = [lastTarget EXCEPT ![b] = None]
    /\ UNCHANGED <<rec, drag, held, stuck, resets>>

(* A ball that leaves a drum and falls on it again does not play it twice.  *)
onCollision(b, d) ==
  /\ rec.state = "expand" /\ b \in world
  /\ lastTarget' = [lastTarget EXCEPT ![b] = d]
  /\ IF lastTarget[b] # d THEN recordSound(d) ELSE UNCHANGED rec
  /\ UNCHANGED <<dotEmitterObj, world, timers, drag, held, stuck, resets>>

destroy(bs) == /\ dotEmitterObj' = dotEmitterObj \ bs
               /\ world' = world \ bs

(* The floor.                                                               *)
collisionStart(b) ==
  /\ rec.state = "expand" /\ b \in world
  /\ destroy({b})
  /\ UNCHANGED <<rec, lastTarget, timers, drag, held, stuck, resets>>

(* Its LIFETIME is up, if it has not been destroyed before.                 *)
Timeout(b) ==
  /\ b \in timers
  /\ timers' = timers \ {b}
  /\ destroy({b})
  /\ UNCHANGED <<rec, lastTarget, drag, held, stuck, resets>>

onDrumKeyUp(d) ==
  /\ rec.state = "expand"
  /\ recordSound(d)
  /\ UNCHANGED <<balls, drag, held, stuck, resets>>

------------------------------------------------------------------------------

(* One drum is dragged at a time, even with two fingers.                    *)
onDragStart(d) == currentlyDraggingDrum_ = None
Touch(d) ==
  /\ rec.state = "expand" /\ d \notin held
  /\ held' = held \cup {d}
  /\ IF onDragStart(d)
     THEN /\ currentlyDraggingDrum_' = d
          /\ isDragging' = isDragging \cup {d}
     ELSE UNCHANGED drag
  /\ UNCHANGED <<rec, balls, stuck, resets>>

onDragEnd(d) == currentlyDraggingDrum_ = d

(* Heard while the view is expanded.                                        *)
Release(d) ==
  /\ d \in held
  /\ held' = held \ {d}
  /\ IF rec.state = "expand" /\ onDragEnd(d)
     THEN /\ currentlyDraggingDrum_' = None
          /\ isDragging' = isDragging \ {d}
     ELSE UNCHANGED drag
  /\ UNCHANGED <<rec, balls, stuck, resets>>

------------------------------------------------------------------------------
startRecording ==
  /\ rec.state = "expand" /\ ~rec.isRecording /\ rec.takes < MaxTakes
  /\ rec' = R!Recording(rec)
  /\ UNCHANGED <<balls, drag, held, stuck, resets>>

stopRecording ==
  /\ rec.isRecording
  /\ rec' = R!Recorded(rec)
  /\ UNCHANGED <<balls, drag, held, stuck, resets>>

animationExpanded ==
  /\ rec.state = "collapsed"
  /\ rec' = R!Expanded(rec)
  /\ UNCHANGED <<balls, drag, held, stuck, resets>>

cleanupDots == destroy(dotEmitterObj)

animationCollapsed ==
  /\ rec.state = "expand"
  /\ cleanupDots
  /\ rec' = R!Collapsed(rec)
  /\ stuck' = (stuck \/ held # {})
  /\ UNCHANGED <<lastTarget, timers, drag, held, resets>>

(* The drums are made anew; which one is dragged is not forgotten.          *)
loadData ==
  /\ rec.state = "collapsed" /\ resets < MaxResets
  /\ resets' = resets + 1
  /\ rec' = R!Load(rec, Notes)
  /\ isDragging' = {}
  /\ UNCHANGED <<balls, currentlyDraggingDrum_, held, stuck>>

Init ==
  /\ rec = R!Fresh(Notes)
  /\ dotEmitterObj = {} /\ world = {} /\ timers = {}
  /\ lastTarget = [b \in Balls |-> None]
  /\ isDragging = {} /\ currentlyDraggingDrum_ = None
  /\ held = {} /\ stuck = FALSE /\ resets = 0

Next ==
  \/ onBeat
  \/ \E b \in Balls : collisionStart(b) \/ Timeout(b) \/ \E d \in Drums : onCollision(b, d)
  \/ \E d \in Drums : onDrumKeyUp(d) \/ Touch(d) \/ Release(d)
  \/ startRecording \/ stopRecording
  \/ animationExpanded \/ animationCollapsed \/ loadData

Spec == Init /\ [][Next]_vars

------------------------------------------------------------------------------
(* At most one drum follows the pointer, and it is one that is held, unless *)
(* the view was contracted in the middle of that; a contracted view has no  *)
(* ball, and every ball is in the world and has a time that will be up.     *)
OneDrumAtATime ==
  /\ isDragging \subseteq {currentlyDraggingDrum_}
  /\ ~stuck => isDragging \subseteq held
  /\ ~stuck => (currentlyDraggingDrum_ # None => currentlyDraggingDrum_ \in isDragging)
  /\ dotEmitterObj = world /\ world \subseteq timers
  /\ rec.state = "collapsed" => world = {}

(* What that rests on.                                                      *)
DragInv ==
  /\ OneDrumAtATime
  /\ stuck \in BOOLEAN
  /\ isDragging \subseteq Drums
  /\ ~stuck /\ rec.state = "collapsed" => held = {}
==============================================================================
