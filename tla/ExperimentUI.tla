----------------------------- MODULE ExperimentUI -----------------------------
(***************************************************************************)
(* The musical experiment as its user moves through it: starting and       *)
(* leaving it (core.js, the elements of experiment-fab.html), instruments  *)
(* that expand to the whole screen and contract again (views/Root.js,      *)
(* views/InstrumentContainer.js), the record button of each                *)
(* (views/RecordButton.js) and the browser's history (HistoryManager.js).  *)
(*                                                                         *)
(* What waits for an animation is a closure over one view; the user may    *)
(* click, scroll, turn the device or go back while it runs.  An animation  *)
(* of what another one is animating replaces it, and what waited for the   *)
(* other one then waits for ever.                                          *)
(*                                                                         *)
(* expanded, paused, ... are the views whose variable of that name is set. *)
(***************************************************************************)
EXTENDS Naturals, FiniteSets, Sequences

CONSTANTS Views,         \* the instrument containers, by pid
          MaxInputs,     \* BOUND: what the user does
          MaxStarts      \* BOUND: how often the experiment is started

None == "none"

(* What a view's animation does, whether the promise of openView or         *)
(* closeView still hears of its end, and skipHistory.                       *)
Motions == [kind : {"still", "grow", "controls", "close"},
            heard : BOOLEAN, skip : BOOLEAN]
Still   == [kind |-> "still", heard |-> FALSE, skip |-> FALSE]

ASSUME ExperimentAssumption ==
  /\ IsFiniteSet(Views) /\ {None, "site", "playing"} \cap Views = {}
  /\ MaxInputs \in Nat /\ MaxStarts \in Nat

VARIABLES
  phase,       \* off, starting, entering, on, leaving, or crashed
  pool,        \* renderers in InstrumentContainer's pool
  isExpanded, currentView,     \* Root
  isScrollingDisabled,         \* Root
  isMobile, visible,           \* Root: the window, and the views it shows
  settling,    \* Root: onWindowScrollStop is due
  following,   \* stage.interactive of all containers
  expanded, paused,            \* InstrumentContainer: isExpanded, isPaused
  motion,                      \* InstrumentContainer: what is animated
  keyup,       \* InstrumentContainer: onGlobalKeyUp listens
  back,        \* backIconContainer.interactive
  recordable, armed,           \* RecordButton: container.interactive and .click
  isCountdown, isRecording,    \* RecordButton
  resetting,                   \* RecordButton: resetRecord is due
  muted,       \* views whose channel is muted
  recordmode,  \* experiment-fab: the controls of the experiment are hidden
  history,     \* the browser's entries and the one it is at
  listening,   \* HistoryManager: popstate
  backs,       \* calls of history.back that are under way
  timeouts,    \* HistoryManager: callbacks that are due, by the hash they are for
  inputs, starts,
  hurried      \* the user has done something in the middle of something else

root    == <<phase, pool, isExpanded, currentView, isScrollingDisabled, muted,
             recordmode>>
window  == <<isMobile, visible, settling, following>>
cards   == <<expanded, paused, motion>>
buttons == <<keyup, back, recordable, armed, isCountdown, isRecording, resetting>>
site    == <<history, listening, backs, timeouts>>
user    == <<inputs, starts, hurried>>
vars    == <<root, window, cards, buttons, site, user>>

Location == history.entries[history.at]

(* The hashes: "", "#playing", and a view for "#editing-" with its pid.      *)
Hashes == {"site", "playing"} \cup Views

Moving  == {v \in Views : motion[v] # Still}
Returns == backs > 0 \/ timeouts # <<>>
Busy    == Moving # {} \/ Returns \/ phase \notin {"off", "on"}

(* An input; it is hurried if it comes in the middle of something.          *)
Input(middle) ==
  /\ inputs < MaxInputs
  /\ inputs' = inputs + 1
  /\ hurried' = (hurried \/ middle)
  /\ UNCHANGED starts

pushState(hash) ==
  history' = [entries |-> Append(SubSeq(history.entries, 1, history.at), hash),
              at |-> history.at + 1]

(***************************************************************************)
(* Enabling and disabling of instruments: what is paused then              *)
(***************************************************************************)
disableAllInstancesExcept(views) == paused \cup (Views \ views)
enableAllInstances              == {}
enableAllInstancesInsideViewport == paused \ visible
disableViewsOutsideViewport     == paused \cup (Views \ visible)

onWindowScrollStart ==
  IF isExpanded THEN UNCHANGED <<paused, following>>
  ELSE /\ paused' = IF isMobile THEN disableAllInstancesExcept({})
                    ELSE enableAllInstances
       /\ following' = FALSE

onWindowScrollStop ==
  IF isExpanded THEN UNCHANGED <<paused, following>>
  ELSE /\ paused' = IF isMobile THEN enableAllInstancesInsideViewport
                    ELSE disableViewsOutsideViewport
       /\ following' = TRUE

(***************************************************************************)
(* The animations of expanding and contracting.  The visualizers that one  *)
(* view hides another one may show again: hiding and showing are animations *)
(* of the same targets, so the promises of others (deaf) may get lost.     *)
(***************************************************************************)
Animate(views, kind, skip) ==
  \E deaf \in SUBSET {v \in Moving \ views : motion[v].kind # "controls"} :
    motion' = [v \in Views |->
                 IF v \in views THEN [kind |-> kind, heard |-> TRUE, skip |-> skip]
                 ELSE IF v \in deaf THEN [motion[v] EXCEPT !.heard = FALSE]
                 ELSE motion[v]]

addEventListeners(v) ==
  /\ recordable' = recordable \cup {v}
  /\ armed' = armed \cup {v}

removeEventListeners(views) ==
  /\ recordable' = recordable \ views
  /\ armed' = armed \ views

addExpandedEventListeners(v)        == keyup' = keyup \cup {v}
removeExpandedEventListeners(views) == keyup' = keyup \ views

hideControls(views) == back' = back \ views

expandView(v, skip) ==
  /\ expanded' = expanded \cup {v}
  /\ addExpandedEventListeners(v)
  /\ Animate({v}, "grow", skip)
  /\ UNCHANGED <<back, recordable, armed, isCountdown, isRecording, resetting>>

contractViews(views, skip) ==
  /\ expanded' = expanded \ views
  /\ removeExpandedEventListeners(views)
  /\ hideControls(views)
  /\ removeEventListeners(views)
  /\ Animate(views, "close", skip)
  /\ UNCHANGED <<isCountdown, isRecording, resetting>>

openView(v, skip) ==
  /\ isExpanded' = TRUE /\ currentView' = v
  /\ recordmode' = TRUE
  /\ isScrollingDisabled' = TRUE
  /\ muted' = muted \cup (Views \ {v})
  /\ paused' = paused \ {v}
  /\ expandView(v, skip)
  /\ UNCHANGED <<phase, pool, window>>

(* closeView for one view, or for several in the same event.                *)
closeViews(views, skip) ==
  /\ paused' = enableAllInstancesInsideViewport
  /\ recordmode' = FALSE
  /\ contractViews(views, skip)
  /\ UNCHANGED <<phase, pool, isExpanded, currentView, isScrollingDisabled,
                 muted, window>>

(* The view fills the screen: its buttons come to life and slide in.        *)
showControls(v) ==
  /\ motion[v].kind = "grow"
  /\ motion' = [motion EXCEPT ![v].kind = "controls"]
  /\ addEventListeners(v)
  /\ back' = back \cup {v}
  /\ UNCHANGED <<root, window, expanded, paused, keyup, isCountdown, isRecording,
                 resetting, site, user>>

(* The promise of openView.                                                 *)
Opened(v) ==
  /\ motion[v].kind = "controls"
  /\ motion' = [motion EXCEPT ![v] = Still]
  /\ IF motion[v].heard
     THEN /\ paused' = disableAllInstancesExcept({v})
          /\ IF motion[v].skip THEN UNCHANGED history ELSE pushState(v)
     ELSE UNCHANGED <<paused, history>>
  /\ UNCHANGED <<root, window, expanded, buttons, listening, backs, timeouts,
                 user>>

(* MUTANT: it goes back, whoever has closed the view.                       *)
Closed_Back(v) ==
  /\ motion[v].kind = "close"
  /\ motion' = [motion EXCEPT ![v] = Still]
  /\ IF motion[v].heard
     THEN /\ isScrollingDisabled' = FALSE
          /\ isExpanded' = FALSE /\ currentView' = None
          /\ muted' = muted \cap {v}
          /\ backs' = backs + 1
     ELSE UNCHANGED <<isScrollingDisabled, isExpanded, currentView, muted, backs>>
  /\ UNCHANGED <<phase, pool, recordmode, window, expanded, paused, buttons,
                 history, listening, timeouts, user>>

(* MUTANT: the history is left alone, whoever has closed the view.          *)
Closed_Skips(v) ==
  /\ motion[v].kind = "close"
  /\ motion' = [motion EXCEPT ![v] = Still]
  /\ IF motion[v].heard
     THEN /\ isScrollingDisabled' = FALSE
          /\ isExpanded' = FALSE /\ currentView' = None
          /\ muted' = muted \cap {v}
          /\ UNCHANGED backs
     ELSE UNCHANGED <<isScrollingDisabled, isExpanded, currentView, muted, backs>>
  /\ UNCHANGED <<phase, pool, recordmode, window, expanded, paused, buttons,
                 history, listening, timeouts, user>>

(* The promise of closeView.                                                *)
Closed(v) ==
  /\ motion[v].kind = "close"
  /\ motion' = [motion EXCEPT ![v] = Still]
  /\ IF motion[v].heard
     THEN /\ isScrollingDisabled' = FALSE
          /\ isExpanded' = FALSE /\ currentView' = None
          /\ muted' = muted \cap {v}
          /\ backs' = IF motion[v].skip THEN backs ELSE backs + 1
     ELSE UNCHANGED <<isScrollingDisabled, isExpanded, currentView, muted, backs>>
  /\ UNCHANGED <<phase, pool, recordmode, window, expanded, paused, buttons,
                 history, listening, timeouts, user>>

-----------------------------------------------------------------------------
(***************************************************************************)
(* Starting and leaving                                                    *)
(***************************************************************************)
Fresh ==
  /\ expanded' = {} /\ paused' = {} /\ motion' = [v \in Views |-> Still]
  /\ keyup' = {} /\ back' = {} /\ recordable' = {} /\ armed' = {}
  /\ isCountdown' = {} /\ isRecording' = {} /\ resetting' = {}
  /\ isExpanded' = FALSE /\ currentView' = None
  /\ muted' = {} /\ recordmode' = FALSE
  /\ following' = TRUE

buildRendererPool == Cardinality(Views)
createRenderers   == pool' = pool - Cardinality(Views)
returnRenderers   == pool' = pool + Cardinality(Views)

(* Without renderers the second container throws, and start with it; the    *)
(* experiment that is being left then cleans up the views that never were.  *)
start ==
  /\ phase \in {"off", "leaving"} /\ starts < MaxStarts
  /\ inputs < MaxInputs /\ inputs' = inputs + 1 /\ starts' = starts + 1
  /\ hurried' = (hurried \/ Busy)
  /\ listening' = TRUE
  /\ pushState("playing")
  /\ IF pool < Cardinality(Views)
     THEN phase' = "crashed" /\ UNCHANGED <<pool, settling>>
     ELSE phase' = "starting" /\ createRenderers /\ settling' = TRUE
  /\ Fresh
  /\ UNCHANGED <<isScrollingDisabled, isMobile, visible, backs, timeouts>>

animateIn ==
  /\ phase = "starting"
  /\ phase' = "entering"
  /\ isScrollingDisabled' = TRUE
  /\ UNCHANGED <<pool, isExpanded, currentView, muted, recordmode, window, cards,
                 buttons, site, user>>

AnimatedIn ==
  /\ phase = "entering"
  /\ phase' = "on"
  /\ isScrollingDisabled' = FALSE
  /\ paused' = enableAllInstancesInsideViewport
  /\ UNCHANGED <<pool, isExpanded, currentView, muted, recordmode, window,
                 expanded, motion, buttons, site, user>>

tearDown ==
  /\ phase' = "leaving"
  /\ listening' = FALSE
  /\ pushState("site")
  /\ isScrollingDisabled' = TRUE
  /\ recordmode' = FALSE
  /\ UNCHANGED <<pool, isExpanded, currentView, muted, window, cards, buttons,
                 backs>>

(* The X of the FAB, or Yes in the dialog of the logo: they are hidden      *)
(* while an instrument is open.                                             *)
exitExperiment ==
  /\ phase = "on" /\ ~recordmode
  /\ Input(Busy)
  /\ tearDown
  /\ UNCHANGED timeouts

(* The mask has closed, later than the animations and timeouts of the views. *)
cleanUp ==
  /\ phase = "leaving" /\ Moving = {} /\ ~Returns
  /\ phase' = "off"
  /\ isScrollingDisabled' = FALSE
  /\ returnRenderers
  /\ settling' = FALSE
  /\ Fresh
  /\ UNCHANGED <<isMobile, visible, site, user>>

-----------------------------------------------------------------------------
(***************************************************************************)
(* What the user does                                                      *)
(***************************************************************************)
(* A card can be pressed unless another one covers the screen.  It does not  *)
(* look whether another one is opening.                                     *)
mousedown(v) ==
  /\ phase \in {"on", "leaving"} /\ following
  /\ v \notin expanded
  /\ \A w \in expanded : motion[w].kind = "grow"
  /\ Input(Busy)
  /\ openView(v, FALSE)
  /\ UNCHANGED site

onGlobalKeyUp ==
  /\ keyup # {}
  /\ Input(Busy)
  /\ closeViews(keyup, FALSE)
  /\ UNCHANGED site

backIconClick(v) ==
  /\ v \in back \cap expanded
  /\ Input(Busy)
  /\ closeViews({v}, FALSE)
  /\ UNCHANGED site

setupCountdown(v) ==
  /\ recordable' = recordable \ {v}
  /\ isCountdown' = isCountdown \cup {v}

(* The record button has been pressed: the ways out are closed until the    *)
(* recording is finished.                                                   *)
onCountdownActivate(v) ==
  /\ v \in recordable \cap armed /\ v \notin isCountdown
  /\ Input(FALSE)
  /\ setupCountdown(v)
  /\ back' = back \ {v}
  /\ keyup' = keyup \ {v}
  /\ UNCHANGED <<root, window, cards, armed, isRecording, resetting, site>>

(* MUTANT: the countdown is not taken back.                                 *)
setupRecording_Counts ==
  LET begin == isCountdown \ isRecording
  IN  /\ phase \in {"on", "leaving"} /\ begin # {}
      /\ isRecording' = isRecording \cup begin
      /\ UNCHANGED <<root, window, cards, keyup, back, recordable, armed, isCountdown,
                     resetting, site, user>>

(* Beat 0 of the sequencer reaches the button of every view.                *)
setupRecording ==
  LET begin == isCountdown \ isRecording
  IN  /\ phase \in {"on", "leaving"} /\ begin # {}
      /\ isRecording' = isRecording \cup begin
      /\ isCountdown' = isCountdown \ begin
      /\ UNCHANGED <<root, window, cards, keyup, back, recordable, armed, resetting,
                     site, user>>

(* MUTANT: the button gives back the icon but not the key.                  *)
onRecordDeactivate_Icon(v) ==
  /\ v \in isRecording \cap expanded /\ v \notin paused
  /\ isRecording' = isRecording \ {v}
  /\ resetting' = resetting \cup {v}
  /\ back' = back \cup {v}
  /\ UNCHANGED <<root, window, cards, keyup, recordable, armed, isCountdown, site,
                 user>>

(* A view that is rendered counts the time of its recording.                *)
onRecordDeactivate(v) ==
  /\ v \in isRecording \cap expanded /\ v \notin paused
  /\ isRecording' = isRecording \ {v}
  /\ resetting' = resetting \cup {v}
  /\ back' = back \cup {v}
  /\ keyup' = keyup \cup {v}
  /\ UNCHANGED <<root, window, cards, recordable, armed, isCountdown, site, user>>

resetRecord(v) ==
  /\ v \in resetting
  /\ resetting' = resetting \ {v}
  /\ recordable' = recordable \cup {v}
  /\ UNCHANGED <<root, window, cards, keyup, back, armed, isCountdown, isRecording,
                 site, user>>

(* visible is what the window shows in the end.                              *)
scroll ==
  /\ phase = "on" /\ ~isScrollingDisabled /\ ~settling
  /\ Input(Returns)
  /\ settling' = TRUE
  /\ visible' \in SUBSET Views \ {{}}
  /\ onWindowScrollStart
  /\ UNCHANGED <<root, isMobile, expanded, motion, buttons, site>>

scrollStopped ==
  /\ settling /\ phase # "off"
  /\ settling' = FALSE
  /\ onWindowScrollStop
  /\ UNCHANGED <<root, isMobile, visible, expanded, motion, buttons, site, user>>

(* The containers are moved to where they belong, which may replace the     *)
(* animation that is taking them there.                                     *)
resize ==
  \E dead \in SUBSET {v \in Moving : motion[v].kind # "controls"} :
    motion' = [v \in Views |-> IF v \in dead THEN Still ELSE motion[v]]

(* It is also hurried when it shows views that have been out of sight: in a *)
(* large window scrollStopped only disables.                               *)
onWindowResize ==
  /\ phase = "on"
  /\ isMobile' \in BOOLEAN /\ visible' \in SUBSET Views \ {{}}
  /\ Input(Moving # {} \/ settling \/ ~(visible' \subseteq visible))
  /\ resize
  /\ settling' = TRUE
  /\ UNCHANGED <<root, following, expanded, paused, buttons, site>>

-----------------------------------------------------------------------------
(***************************************************************************)
(* History                                                                 *)
(***************************************************************************)
onHistoryChange(hash) ==
  timeouts' = IF listening THEN Append(timeouts, hash) ELSE timeouts

Go(at) ==
  /\ at \in 1 .. Len(history.entries) /\ at # history.at
  /\ history' = [history EXCEPT !.at = at]
  /\ onHistoryChange(history.entries[at])

(* The buttons of the browser.                                              *)
Traverse(at) ==
  /\ phase \in {"entering", "on", "leaving"}
  /\ Input(Busy \/ settling)
  /\ Go(at)
  /\ UNCHANGED <<root, window, cards, buttons, listening, backs>>

goBack ==
  /\ backs > 0
  /\ backs' = backs - 1
  /\ Go(history.at - 1)
  /\ UNCHANGED <<root, window, cards, buttons, listening, user>>

onOpenInstrument(v) ==
  /\ timeouts # <<>> /\ Head(timeouts) = v
  /\ timeouts' = Tail(timeouts)
  /\ IF phase = "crashed" \/ isExpanded
     THEN UNCHANGED <<root, window, cards, buttons>>
     ELSE openView(v, TRUE)
  /\ UNCHANGED <<history, listening, backs, user>>

onReturnToRoot ==
  /\ timeouts # <<>> /\ Head(timeouts) = "playing"
  /\ timeouts' = Tail(timeouts)
  /\ IF ~isExpanded \/ currentView = None
     THEN UNCHANGED <<root, window, cards, buttons>>
     ELSE closeViews({currentView}, TRUE)
  /\ UNCHANGED <<history, listening, backs, user>>

onCloseExperiment ==
  /\ timeouts # <<>> /\ Head(timeouts) = "site"
  /\ timeouts' = Tail(timeouts)
  /\ phase # "starting"
  /\ IF phase = "crashed"
     THEN UNCHANGED <<root, window, cards, buttons, history, listening, backs>>
     ELSE tearDown
  /\ UNCHANGED user

-----------------------------------------------------------------------------
Init ==
  /\ phase = "off" /\ pool = buildRendererPool
  /\ isExpanded = FALSE /\ currentView = None /\ isScrollingDisabled = FALSE
  /\ isMobile \in BOOLEAN /\ visible \in SUBSET Views \ {{}}
  /\ settling = FALSE /\ following = TRUE
  /\ expanded = {} /\ paused = {} /\ motion = [v \in Views |-> Still]
  /\ keyup = {} /\ back = {} /\ recordable = {} /\ armed = {}
  /\ isCountdown = {} /\ isRecording = {} /\ resetting = {}
  /\ muted = {} /\ recordmode = FALSE
  /\ history = [entries |-> <<"site">>, at |-> 1]
  /\ listening = FALSE /\ backs = 0 /\ timeouts = <<>>
  /\ inputs = 0 /\ starts = 0 /\ hurried = FALSE

User ==
  \/ start \/ exitExperiment \/ onGlobalKeyUp \/ scroll \/ onWindowResize
  \/ \E v \in Views : mousedown(v) \/ backIconClick(v) \/ onCountdownActivate(v)
  \/ \E at \in 1 .. Len(history.entries) : Traverse(at)

Timers ==
  \/ animateIn \/ AnimatedIn \/ cleanUp \/ scrollStopped
  \/ goBack \/ onReturnToRoot \/ onCloseExperiment
  \/ \E v \in Views : showControls(v) \/ Opened(v) \/ Closed(v)
                      \/ resetRecord(v) \/ onOpenInstrument(v)

Audio == setupRecording \/ \E v \in Views : onRecordDeactivate(v)

Next == User \/ Timers \/ Audio

(* Animations end, timeouts fire; the sequencer goes on beating and frames  *)
(* are rendered as long as the experiment is there.                         *)
Spec == Init /\ [][Next]_vars /\ WF_vars(Timers) /\ WF_vars(setupRecording)
             /\ \A v \in Views : WF_vars(onRecordDeactivate(v))

-----------------------------------------------------------------------------
MotionOK  == motion \in [Views -> Motions]
CurrentOK == currentView \in Views \cup {None} /\ expanded \subseteq Views

TypeOK ==
  /\ phase \in {"off", "starting", "entering", "on", "leaving", "crashed"}
  /\ pool \in Nat
  /\ {isExpanded, isScrollingDisabled, isMobile, settling, following, recordmode,
       listening, hurried} \subseteq BOOLEAN
  /\ CurrentOK /\ MotionOK
  /\ \A s \in {visible, paused, keyup, back, recordable, armed,
               isCountdown, isRecording, resetting, muted} : s \subseteq Views
  /\ history \in [entries : Seq(Hashes), at : Nat]
  /\ history.at \in 1 .. Len(history.entries)
  /\ timeouts \in Seq(Hashes)
  /\ {backs, inputs, starts} \subseteq Nat

(* Whatever the user does and in whatever order: an instrument that fills   *)
(* the screen and is not being recorded can be left with Escape; one that   *)
(* does not fill it hears neither that key nor clicks on its buttons.       *)
WayOut ==
  /\ expanded \ (isCountdown \cup isRecording) \subseteq keyup
  /\ keyup \cup back \cup armed \subseteq expanded

(* What makes WayOut inductive.                                             *)
Growing == \A v \in Views : motion[v].kind \in {"grow", "controls"} => v \in expanded

(* Unless the user has done something in the middle of an animation or of a *)
(* return: when nothing moves, Root, containers, channels, the FAB and the  *)
(* address agree on the instrument that is open, and all that a transition  *)
(* has switched off is on again.                                            *)
AtRest ==
  phase \in {"off", "on"} /\ ~Busy /\ ~settling /\ ~hurried =>
    /\ expanded = IF isExpanded THEN {currentView} ELSE {}
    /\ isScrollingDisabled = isExpanded /\ recordmode = isExpanded
    /\ muted = IF isExpanded THEN Views \ {currentView} ELSE {}
    /\ IF isExpanded THEN paused = Views \ {currentView}
                     ELSE visible \cap paused = {}
    /\ following
    /\ Location = IF phase = "off" THEN "site"
                  ELSE IF isExpanded THEN currentView ELSE "playing"
    /\ phase = "off" => pool = Cardinality(Views)

(* Closing an instrument goes back from its address to the experiment's,    *)
(* never out of the experiment.                                             *)
BackStaysInside == [][backs' < backs /\ ~hurried => Location' = "playing"]_vars

(* A recording that has been asked for ends, or its view is left.           *)
RecordingEnds == \A v \in Views :
  v \in isCountdown \cup isRecording
    ~> (v \notin isCountdown \cup isRecording \/ v \notin expanded \/ hurried)
===============================================================================
