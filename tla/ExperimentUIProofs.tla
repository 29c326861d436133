------------------------- MODULE ExperimentUIProofs --------------------------
(***************************************************************************)
(* What holds of ExperimentUI for any number of instruments and inputs.    *)
(* Every instrument that fills the screen can be left, whatever the user   *)
(* does (WayOut); and all is in order when nothing moves, and going back   *)
(* stays in the experiment, if he does nothing in the middle of something. *)
(*                                                                         *)
(* WayOut is not inductive as it stands, since showControls, which is      *)
(* called when an animation has ended, brings the buttons to life without  *)
(* asking whether the instrument is still expanded.  It is, because every  *)
(* contraction replaces the animation: Growing.  The other two need to say *)
(* what the experiment is doing: Orderly, further down.                    *)
(***************************************************************************)
EXTENDS ExperimentUI, FiniteSetTheorems, TLAPS

WayOutInv == MotionOK /\ CurrentOK /\ Growing /\ WayOut

(* What Animate does with the animations of the views it is not about.      *)
LEMMA AnimateKinds ==
  ASSUME MotionOK, NEW views \in SUBSET Views, NEW skip \in BOOLEAN,
         NEW kind \in {"grow", "close"}, Animate(views, kind, skip)
  PROVE  /\ MotionOK'
         /\ \A v \in Views : motion'[v].kind = IF v \in views THEN kind
                                              ELSE motion[v].kind
PROOF
<1>1. PICK deaf \in SUBSET Views :
        motion' = [v \in Views |->
                     IF v \in views THEN [kind |-> kind, heard |-> TRUE, skip |-> skip]
                     ELSE IF v \in deaf THEN [motion[v] EXCEPT !.heard = FALSE]
                     ELSE motion[v]]
  BY DEF Animate, Moving
<1>2. ASSUME NEW v \in Views
      PROVE  /\ motion'[v] \in Motions
             /\ motion'[v].kind = IF v \in views THEN kind ELSE motion[v].kind
  <2>1. motion[v] \in Motions
    BY DEF MotionOK
  <2>2. [kind |-> kind, heard |-> TRUE, skip |-> skip] \in Motions
    BY DEF Motions
  <2>3. [motion[v] EXCEPT !.heard = FALSE] \in Motions
    BY <2>1 DEF Motions
  <2> QED
    BY <1>1, <2>1, <2>2, <2>3 DEF Motions
<1> QED
  BY <1>1, <1>2 DEF MotionOK

(* Expanding and contracting keep the invariant.                            *)
LEMMA ExpandKeeps ==
  ASSUME WayOutInv, NEW v \in Views, NEW skip \in BOOLEAN, openView(v, skip)
  PROVE  WayOutInv'
PROOF
<1>1. /\ MotionOK'
      /\ \A w \in Views : motion'[w].kind = IF w \in {v} THEN "grow" ELSE motion[w].kind
  BY AnimateKinds DEF openView, expandView, WayOutInv
<1> QED
  BY <1>1 DEF openView, expandView, addExpandedEventListeners, WayOutInv, CurrentOK,
              Growing, WayOut

LEMMA ContractKeeps ==
  ASSUME WayOutInv, NEW views \in SUBSET Views, NEW skip \in BOOLEAN,
         closeViews(views, skip)
  PROVE  WayOutInv'
PROOF
<1>1. /\ MotionOK'
      /\ \A w \in Views : motion'[w].kind = IF w \in views THEN "close" ELSE motion[w].kind
  BY AnimateKinds DEF closeViews, contractViews, WayOutInv
<1> QED
  BY <1>1 DEF closeViews, contractViews, removeExpandedEventListeners, hideControls,
              removeEventListeners, WayOutInv, CurrentOK, Growing, WayOut

LEMMA FreshKeeps ==
  ASSUME Fresh
  PROVE  WayOutInv'
PROOF
<1>1. MotionOK'
  BY DEF Fresh, MotionOK, Motions, Still
<1> QED
  BY <1>1 DEF Fresh, WayOutInv, CurrentOK, Growing, WayOut, Still

(* Steps of others.                                                         *)
LEMMA NothingKeeps ==
  ASSUME WayOutInv, UNCHANGED <<motion, currentView, expanded, keyup, back, armed,
                               isCountdown, isRecording>>
  PROVE  WayOutInv'
PROOF
  BY DEF WayOutInv, MotionOK, CurrentOK, Growing, WayOut

LEMMA UserKeeps ==
  ASSUME WayOutInv, User
  PROVE  WayOutInv'
PROOF
<1> USE DEF root, window, cards, buttons, site, user
<1>1. CASE start
  BY <1>1, FreshKeeps DEF start
<1>2. CASE exitExperiment
  BY <1>2, NothingKeeps DEF exitExperiment, tearDown
<1>3. CASE onGlobalKeyUp
  <2>1. keyup \in SUBSET Views
    BY DEF WayOutInv, WayOut, CurrentOK
  <2> QED
    BY <1>3, <2>1, ContractKeeps DEF onGlobalKeyUp
<1>4. CASE scroll
  BY <1>4, NothingKeeps DEF scroll
<1>5. CASE onWindowResize
  <2>1. PICK dead \in SUBSET Views :
          motion' = [v \in Views |-> IF v \in dead THEN Still ELSE motion[v]]
    BY <1>5 DEF onWindowResize, resize, Moving
  <2>2. MotionOK'
    BY <2>1 DEF WayOutInv, MotionOK, Motions, Still
  <2>3. Growing'
    BY <1>5, <2>1 DEF onWindowResize, WayOutInv, Growing, Still
  <2> QED
    BY <1>5, <2>2, <2>3 DEF onWindowResize, WayOutInv, CurrentOK, WayOut
<1>6. ASSUME NEW v \in Views, mousedown(v)
      PROVE  WayOutInv'
  BY <1>6, ExpandKeeps DEF mousedown
<1>7. ASSUME NEW v \in Views, backIconClick(v)
      PROVE  WayOutInv'
  BY <1>7, ContractKeeps DEF backIconClick
<1>8. ASSUME NEW v \in Views, onCountdownActivate(v)
      PROVE  WayOutInv'
  BY <1>8 DEF onCountdownActivate, setupCountdown, WayOutInv, MotionOK, CurrentOK,
              Growing, WayOut
<1>9. ASSUME NEW at \in 1 .. Len(history.entries), Traverse(at)
      PROVE  WayOutInv'
  BY <1>9, NothingKeeps DEF Traverse
<1> QED
  BY <1>1, <1>2, <1>3, <1>4, <1>5, <1>6, <1>7, <1>8, <1>9 DEF User

LEMMA TimersKeep ==
  ASSUME WayOutInv, Timers
  PROVE  WayOutInv'
PROOF
<1> USE DEF root, window, cards, buttons, site, user
<1>1. CASE animateIn \/ AnimatedIn \/ scrollStopped \/ goBack
  BY <1>1, NothingKeeps DEF animateIn, AnimatedIn, scrollStopped, goBack
<1>2. CASE cleanUp
  BY <1>2, FreshKeeps DEF cleanUp
<1>3. CASE onReturnToRoot
  <2>1. CASE ~isExpanded \/ currentView = None
    BY <1>3, <2>1, NothingKeeps DEF onReturnToRoot
  <2>2. CASE ~(~isExpanded \/ currentView = None)
    <3>1. {currentView} \in SUBSET Views
      BY <2>2 DEF WayOutInv, CurrentOK
    <3> QED
      BY <1>3, <2>2, <3>1, ContractKeeps DEF onReturnToRoot
  <2> QED
    BY <2>1, <2>2
<1>4. CASE onCloseExperiment
  BY <1>4, NothingKeeps DEF onCloseExperiment, tearDown
<1>5. ASSUME NEW v \in Views, showControls(v)
      PROVE  WayOutInv'
  <2>1. v \in expanded
    BY <1>5 DEF showControls, WayOutInv, Growing
  <2>2. MotionOK'
    BY <1>5 DEF showControls, WayOutInv, MotionOK, Motions
  <2>3. Growing'
    BY <1>5, <2>1 DEF showControls, WayOutInv, MotionOK, Growing
  <2> QED
    BY <1>5, <2>1, <2>2, <2>3 DEF showControls, addEventListeners, WayOutInv, CurrentOK,
                                  WayOut
<1>6. ASSUME NEW v \in Views, Opened(v) \/ Closed(v)
      PROVE  WayOutInv'
  <2>1. /\ motion' = [motion EXCEPT ![v] = Still]
        /\ UNCHANGED <<expanded, keyup, back, armed, isCountdown, isRecording>>
    BY <1>6 DEF Opened, Closed
  <2>2. CurrentOK'
    BY <1>6 DEF Opened, Closed, WayOutInv, CurrentOK
  <2>3. MotionOK' /\ Growing'
    BY <2>1 DEF WayOutInv, MotionOK, Growing, Motions, Still
  <2> QED
    BY <2>1, <2>2, <2>3 DEF WayOutInv, WayOut
<1>7. ASSUME NEW v \in Views, resetRecord(v)
      PROVE  WayOutInv'
  BY <1>7, NothingKeeps DEF resetRecord
<1>8. ASSUME NEW v \in Views, onOpenInstrument(v)
      PROVE  WayOutInv'
  <2>1. CASE phase = "crashed" \/ isExpanded
    BY <1>8, <2>1, NothingKeeps DEF onOpenInstrument
  <2>2. CASE ~(phase = "crashed" \/ isExpanded)
    BY <1>8, <2>2, ExpandKeeps DEF onOpenInstrument
  <2> QED
    BY <2>1, <2>2
<1> QED
  BY <1>1, <1>2, <1>3, <1>4, <1>5, <1>6, <1>7, <1>8 DEF Timers

LEMMA AudioKeeps ==
  ASSUME WayOutInv, Audio
  PROVE  WayOutInv'
PROOF
<1> USE DEF root, window, cards, site, user
<1>1. CASE setupRecording
  BY <1>1 DEF setupRecording, WayOutInv, MotionOK, CurrentOK, Growing, WayOut
<1>2. ASSUME NEW v \in Views, onRecordDeactivate(v)
      PROVE  WayOutInv'
  BY <1>2 DEF onRecordDeactivate, WayOutInv, MotionOK, CurrentOK, Growing, WayOut
<1> QED
  BY <1>1, <1>2 DEF Audio

LEMMA WayOutInit == Init => WayOutInv
<1>1. Init => MotionOK
  BY DEF Init, MotionOK, Motions, Still
<1> QED
  BY <1>1 DEF Init, WayOutInv, CurrentOK, Growing, WayOut, Still

LEMMA WayOutNext == WayOutInv /\ [Next]_vars => WayOutInv'
<1> SUFFICES ASSUME WayOutInv, [Next]_vars
             PROVE  WayOutInv'
  OBVIOUS
<1>1. CASE UNCHANGED vars
  BY <1>1, NothingKeeps DEF vars, root, cards, buttons
<1> QED
  BY <1>1, UserKeeps, TimersKeep, AudioKeeps DEF Next

(* An instrument that fills the screen and is not being recorded can be     *)
(* left with Escape, and one that does not hears neither the key nor clicks *)
(* on its buttons: with any number of instruments, and however clicks, keys,*)
(* timeouts, animations and the browser's buttons interleave.               *)
THEOREM AlwaysAWayOut == Spec => []WayOut
<1>1. WayOutInv => WayOut
  BY DEF WayOutInv
<1> QED
  BY <1>1, WayOutInit, WayOutNext, PTL DEF Spec


-----------------------------------------------------------------------------
(* Types                                                                    *)

HistoryOK == /\ history \in [entries : Seq(Hashes), at : Nat]
             /\ history.at \in 1 .. Len(history.entries)

ViewsOK ==
  /\ phase \in {"off", "starting", "entering", "on", "leaving", "crashed"}
  /\ pool \in Nat
  /\ isExpanded \in BOOLEAN /\ isScrollingDisabled \in BOOLEAN
  /\ isMobile \in BOOLEAN /\ settling \in BOOLEAN /\ following \in BOOLEAN
  /\ recordmode \in BOOLEAN
  /\ CurrentOK /\ MotionOK
  /\ visible \subseteq Views /\ paused \subseteq Views
  /\ keyup \subseteq Views /\ back \subseteq Views
  /\ recordable \subseteq Views /\ armed \subseteq Views
  /\ isCountdown \subseteq Views /\ isRecording \subseteq Views
  /\ resetting \subseteq Views /\ muted \subseteq Views

SiteOK ==
  /\ HistoryOK
  /\ listening \in BOOLEAN /\ hurried \in BOOLEAN
  /\ timeouts \in Seq(Hashes)
  /\ backs \in Nat /\ inputs \in Nat /\ starts \in Nat

LEMMA TypeParts == TypeOK <=> ViewsOK /\ SiteOK
  BY DEF TypeOK, ViewsOK, SiteOK, HistoryOK

LEMMA TypePartsNext == ViewsOK' /\ SiteOK' => TypeOK'
  BY DEF TypeOK, ViewsOK, SiteOK, HistoryOK

LEMMA Pool == Cardinality(Views) \in Nat
  BY ExperimentAssumption, FS_CardinalityType

(* What has been pushed is shown, and is the last entry.                    *)
LEMMA Pushed ==
  ASSUME HistoryOK, NEW hash \in Hashes, pushState(hash)
  PROVE  /\ HistoryOK' /\ Location' = hash
         /\ history'.at = history.at + 1
         /\ Len(history'.entries) = history.at + 1
         /\ \A i \in 1 .. history.at : history'.entries[i] = history.entries[i]
<1> DEFINE old == SubSeq(history.entries, 1, history.at)
<1>1. /\ history.entries \in Seq(Hashes) /\ history.at \in Nat
      /\ history.at \in 1 .. Len(history.entries)
  BY DEF HistoryOK
<1>2. /\ old \in Seq(Hashes) /\ Len(old) = history.at
      /\ \A i \in 1 .. history.at : old[i] = history.entries[i]
  BY <1>1
<1>3. history' = [entries |-> Append(old, hash), at |-> history.at + 1]
  BY DEF pushState
<1> HIDE DEF old
<1>4. /\ Append(old, hash) \in Seq(Hashes)
      /\ Len(Append(old, hash)) = history.at + 1
      /\ Append(old, hash)[history.at + 1] = hash
      /\ \A i \in 1 .. history.at : Append(old, hash)[i] = old[i]
  BY <1>1, <1>2
<1> QED  BY <1>1, <1>2, <1>3, <1>4 DEF HistoryOK, Location

(* The browser is at another entry, and the experiment has been told.       *)
LEMMA Gone ==
  ASSUME SiteOK, NEW at, Go(at)
  PROVE  /\ HistoryOK' /\ timeouts' \in Seq(Hashes)
         /\ at \in 1 .. Len(history.entries)
         /\ Location' = history.entries[at] /\ Location' \in Hashes
         /\ history'.entries = history.entries /\ history'.at = at
         /\ listening /\ timeouts = <<>> => timeouts' = <<Location'>>
<1>1. /\ history.entries \in Seq(Hashes) /\ at \in 1 .. Len(history.entries)
      /\ history' = [history EXCEPT !.at = at]
  BY DEF SiteOK, HistoryOK, Go
<1>2. history'.entries = history.entries /\ history'.at = at /\ HistoryOK'
  BY <1>1 DEF SiteOK, HistoryOK
<1>3. Location' = history.entries[at] /\ Location' \in Hashes
  BY <1>1, <1>2 DEF Location
<1>4. /\ timeouts' = IF listening THEN Append(timeouts, history.entries[at])
                                 ELSE timeouts
      /\ timeouts \in Seq(Hashes)
  BY DEF Go, onHistoryChange, SiteOK
<1>5. ASSUME listening, timeouts = <<>>
      PROVE  timeouts' = <<Location'>>
  <2>1. timeouts' = Append(<<>>, Location')
    BY <1>3, <1>4, <1>5
  <2> QED  BY <2>1, <1>3
<1>6. timeouts' \in Seq(Hashes)
  BY <1>1, <1>3, <1>4
<1> QED  BY <1>1, <1>2, <1>3, <1>5, <1>6

LEMMA OpenType ==
  ASSUME ViewsOK, NEW v \in Views, NEW skip \in BOOLEAN, openView(v, skip)
  PROVE  ViewsOK'
<1>1. MotionOK'
  BY AnimateKinds DEF openView, expandView, ViewsOK
<1> QED
  BY <1>1 DEF openView, expandView, addExpandedEventListeners, window, ViewsOK,
              CurrentOK

LEMMA CloseType ==
  ASSUME ViewsOK, NEW views \in SUBSET Views, NEW skip \in BOOLEAN,
         closeViews(views, skip)
  PROVE  ViewsOK'
<1>1. MotionOK'
  BY AnimateKinds DEF closeViews, contractViews, ViewsOK
<1> QED
  BY <1>1 DEF closeViews, contractViews, removeExpandedEventListeners,
              hideControls, removeEventListeners, window, ViewsOK, CurrentOK,
              enableAllInstancesInsideViewport

LEMMA FreshType ==
  ASSUME ViewsOK, Fresh, UNCHANGED <<isMobile, visible>>, pool' \in Nat,
         phase' \in {"starting", "crashed", "off"},
         settling' \in BOOLEAN, isScrollingDisabled' \in BOOLEAN
  PROVE  ViewsOK'
<1>1. MotionOK'
  BY DEF Fresh, MotionOK, Motions, Still
<1> QED  BY <1>1 DEF Fresh, ViewsOK, CurrentOK

LEMMA InputType ==
  ASSUME SiteOK, NEW middle \in BOOLEAN, Input(middle)
  PROVE  /\ inputs' \in Nat /\ starts' \in Nat /\ hurried' \in BOOLEAN
         /\ ~hurried' => ~hurried /\ ~middle
  BY DEF SiteOK, Input

LEMMA Middles ==
  /\ Busy \in BOOLEAN /\ Returns \in BOOLEAN
  /\ (Moving # {}) \in BOOLEAN
  BY DEF Busy, Returns

LEMMA TypeNext == TypeOK /\ [Next]_vars => TypeOK'
<1> SUFFICES ASSUME TypeOK, [Next]_vars PROVE TypeOK'
  OBVIOUS
<1>a. ViewsOK /\ SiteOK
  BY TypeParts
<1> SUFFICES ViewsOK' /\ SiteOK'
  BY TypePartsNext
<1> USE DEF root, window, cards, buttons, site, user
<1>1. CASE start
  <2>1. SiteOK'
    <3>1. "playing" \in Hashes
      BY DEF Hashes
    <3> QED  BY <1>1, <1>a, <3>1, Pushed DEF start, SiteOK
  <2>2. pool' \in Nat
    BY <1>1, <1>a, Pool DEF start, createRenderers, ViewsOK
  <2>3. ViewsOK'
    BY <1>1, <1>a, <2>2, FreshType DEF start, ViewsOK
  <2> QED  BY <2>1, <2>3
<1>2. ASSUME tearDown, timeouts' \in Seq(Hashes), inputs' \in Nat,
             starts' \in Nat, hurried' \in BOOLEAN
      PROVE  ViewsOK' /\ SiteOK'
  <2>1. "site" \in Hashes
    BY DEF Hashes
  <2>2. SiteOK'
    BY <1>2, <1>a, <2>1, Pushed DEF tearDown, SiteOK
  <2>3. ViewsOK'
    BY <1>2, <1>a DEF tearDown, ViewsOK, CurrentOK, MotionOK
  <2> QED  BY <2>2, <2>3
<1>3. CASE exitExperiment
  BY <1>3, <1>a, <1>2, InputType, Middles DEF exitExperiment, SiteOK
<1>4. CASE onGlobalKeyUp
  <2>1. keyup \in SUBSET Views
    BY <1>a DEF ViewsOK
  <2>2. ViewsOK'
    BY <1>4, <1>a, <2>1, CloseType DEF onGlobalKeyUp
  <2> QED
    BY <1>4, <1>a, <2>2, InputType, Middles DEF onGlobalKeyUp, SiteOK, HistoryOK
<1>5. CASE scroll
  <2>1. ViewsOK'
    BY <1>5, <1>a DEF scroll, onWindowScrollStart, ViewsOK, CurrentOK, MotionOK,
         disableAllInstancesExcept, enableAllInstances
  <2> QED
    BY <1>5, <1>a, <2>1, InputType, Middles DEF scroll, SiteOK, HistoryOK
<1>6. CASE onWindowResize
  <2>1. PICK dead \in SUBSET Views :
          motion' = [v \in Views |-> IF v \in dead THEN Still ELSE motion[v]]
    BY <1>6 DEF onWindowResize, resize, Moving
  <2>2. MotionOK'
    BY <2>1, <1>a DEF ViewsOK, MotionOK, Motions, Still
  <2>3. ViewsOK'
    BY <1>6, <1>a, <2>2 DEF onWindowResize, ViewsOK, CurrentOK
  <2>4. inputs' \in Nat /\ starts' \in Nat /\ hurried' \in BOOLEAN
    BY <1>6, <1>a DEF onWindowResize, Input, SiteOK
  <2> QED
    BY <1>6, <1>a, <2>3, <2>4 DEF onWindowResize, SiteOK, HistoryOK
<1>7. ASSUME NEW v \in Views, mousedown(v)
      PROVE  ViewsOK' /\ SiteOK'
  <2>1. ViewsOK'
    BY <1>7, <1>a, OpenType DEF mousedown
  <2> QED
    BY <1>7, <1>a, <2>1, InputType, Middles DEF mousedown, SiteOK, HistoryOK
<1>8. ASSUME NEW v \in Views, backIconClick(v)
      PROVE  ViewsOK' /\ SiteOK'
  <2>1. ViewsOK'
    BY <1>8, <1>a, CloseType DEF backIconClick
  <2> QED
    BY <1>8, <1>a, <2>1, InputType, Middles DEF backIconClick, SiteOK, HistoryOK
<1>9. ASSUME NEW v \in Views, onCountdownActivate(v)
      PROVE  ViewsOK' /\ SiteOK'
  <2>1. ViewsOK'
    BY <1>9, <1>a DEF onCountdownActivate, setupCountdown, ViewsOK, CurrentOK,
         MotionOK
  <2> QED
    BY <1>9, <1>a, <2>1, InputType DEF onCountdownActivate, SiteOK, HistoryOK
<1>10. ASSUME NEW at \in 1 .. Len(history.entries), Traverse(at)
       PROVE  ViewsOK' /\ SiteOK'
  <2>1. (Busy \/ settling) \in BOOLEAN
    BY Middles, <1>a DEF ViewsOK
  <2>2. inputs' \in Nat /\ starts' \in Nat /\ hurried' \in BOOLEAN
    BY <1>10, <1>a, <2>1, InputType DEF Traverse
  <2>3. SiteOK'
    BY <1>10, <1>a, <2>2, Gone DEF Traverse, SiteOK
  <2> QED
    BY <1>10, <1>a, <2>3 DEF Traverse, ViewsOK, CurrentOK, MotionOK
<1>11. CASE animateIn \/ AnimatedIn \/ scrollStopped
  <2>1. ViewsOK'
    BY <1>11, <1>a DEF animateIn, AnimatedIn, scrollStopped, onWindowScrollStop,
         ViewsOK, CurrentOK, MotionOK, enableAllInstancesInsideViewport,
         disableViewsOutsideViewport
  <2> QED
    BY <1>11, <1>a, <2>1
       DEF animateIn, AnimatedIn, scrollStopped, SiteOK, HistoryOK
<1>12. CASE cleanUp
  <2>1. ViewsOK'
    <3>1. pool' \in Nat
      BY <1>12, <1>a, Pool DEF cleanUp, returnRenderers, ViewsOK
    <3> QED  BY <1>12, <1>a, <3>1, FreshType DEF cleanUp, ViewsOK
  <2> QED  BY <1>12, <1>a, <2>1 DEF cleanUp, SiteOK, HistoryOK
<1>13. CASE goBack
  <2>1. SiteOK'
    BY <1>13, <1>a, Gone DEF goBack, SiteOK
  <2> QED  BY <1>13, <1>a, <2>1 DEF goBack, ViewsOK, CurrentOK, MotionOK
<1>14. ASSUME timeouts # <<>>, timeouts' = Tail(timeouts)
       PROVE  timeouts' \in Seq(Hashes)
  BY <1>14, <1>a DEF SiteOK
<1>15. CASE onReturnToRoot
  <2>1. ViewsOK'
    <3>1. CASE ~isExpanded \/ currentView = None
      BY <1>15, <1>a, <3>1 DEF onReturnToRoot, ViewsOK, CurrentOK, MotionOK
    <3>2. CASE ~(~isExpanded \/ currentView = None)
      <4>1. {currentView} \in SUBSET Views
        BY <1>a, <3>2 DEF ViewsOK, CurrentOK
      <4> QED  BY <1>15, <1>a, <3>2, <4>1, CloseType DEF onReturnToRoot
    <3> QED  BY <3>1, <3>2
  <2> QED
    BY <1>15, <1>a, <1>14, <2>1 DEF onReturnToRoot, SiteOK, HistoryOK
<1>16. CASE onCloseExperiment
  <2>1. timeouts' \in Seq(Hashes)
    BY <1>14, <1>16 DEF onCloseExperiment
  <2>2. inputs' \in Nat /\ starts' \in Nat /\ hurried' \in BOOLEAN
    BY <1>16, <1>a DEF onCloseExperiment, SiteOK
  <2>3. CASE phase = "crashed"
    BY <1>16, <1>a, <2>1, <2>2, <2>3
       DEF onCloseExperiment, ViewsOK, CurrentOK, MotionOK, SiteOK, HistoryOK
  <2>4. CASE phase # "crashed"
    BY <1>2, <1>16, <2>1, <2>2, <2>4 DEF onCloseExperiment
  <2> QED  BY <2>3, <2>4
<1>17. ASSUME NEW v \in Views, showControls(v)
       PROVE  ViewsOK' /\ SiteOK'
  <2>1. MotionOK'
    BY <1>17, <1>a DEF showControls, ViewsOK, MotionOK, Motions
  <2>2. ViewsOK'
    BY <1>17, <1>a, <2>1 DEF showControls, addEventListeners, ViewsOK, CurrentOK
  <2> QED  BY <1>17, <1>a, <2>2 DEF showControls, SiteOK, HistoryOK
<1>18. ASSUME NEW v \in Views, Opened(v)
       PROVE  ViewsOK' /\ SiteOK'
  <2>1. MotionOK'
    BY <1>18, <1>a DEF Opened, ViewsOK, MotionOK, Motions, Still
  <2>2. ViewsOK'
    BY <1>18, <1>a, <2>1
       DEF Opened, ViewsOK, CurrentOK, disableAllInstancesExcept
  <2>3. HistoryOK'
    <3>1. v \in Hashes
      BY DEF Hashes
    <3>2. history' = history \/ pushState(v)
      BY <1>18 DEF Opened
    <3> QED  BY <1>a, <3>1, <3>2, Pushed DEF SiteOK, HistoryOK
  <2> QED  BY <1>18, <1>a, <2>2, <2>3 DEF Opened, SiteOK
<1>19. ASSUME NEW v \in Views, Closed(v)
       PROVE  ViewsOK' /\ SiteOK'
  <2>1. MotionOK'
    BY <1>19, <1>a DEF Closed, ViewsOK, MotionOK, Motions, Still
  <2>2. ViewsOK'
    BY <1>19, <1>a, <2>1 DEF Closed, ViewsOK, CurrentOK
  <2> QED  BY <1>19, <1>a, <2>2 DEF Closed, SiteOK, HistoryOK
<1>20. ASSUME NEW v \in Views, resetRecord(v)
       PROVE  ViewsOK' /\ SiteOK'
  BY <1>20, <1>a
     DEF resetRecord, ViewsOK, CurrentOK, MotionOK, SiteOK, HistoryOK
<1>21. ASSUME NEW v \in Views, onOpenInstrument(v)
       PROVE  ViewsOK' /\ SiteOK'
  <2>1. ViewsOK'
    BY <1>21, <1>a, OpenType DEF onOpenInstrument, ViewsOK, CurrentOK, MotionOK
  <2> QED
    BY <1>14, <1>21, <1>a, <2>1 DEF onOpenInstrument, SiteOK, HistoryOK
<1>22. CASE Audio
  <2>1. ViewsOK'
    BY <1>22, <1>a DEF Audio, setupRecording, onRecordDeactivate, ViewsOK,
                       CurrentOK, MotionOK
  <2> QED
    BY <1>22, <1>a, <2>1
       DEF Audio, setupRecording, onRecordDeactivate, SiteOK, HistoryOK
<1>23. CASE UNCHANGED vars
  BY <1>23, <1>a DEF vars, ViewsOK, CurrentOK, MotionOK, SiteOK, HistoryOK
<1> QED
  BY <1>1, <1>3, <1>4, <1>5, <1>6, <1>7, <1>8, <1>9, <1>10, <1>11, <1>12, <1>13,
     <1>15, <1>16, <1>17, <1>18, <1>19, <1>20, <1>21, <1>22, <1>23
     DEF Next, User, Timers

LEMMA TypeInit == Init => TypeOK
<1> SUFFICES ASSUME Init PROVE ViewsOK /\ SiteOK
  BY TypeParts
<1>1. ViewsOK
  BY Pool DEF Init, buildRendererPool, ViewsOK, CurrentOK, MotionOK, Motions,
              Still
<1>2. "site" \in Hashes
  BY DEF Hashes
<1>3. <<"site">> \in Seq(Hashes) /\ Len(<<"site">>) = 1 /\ <<>> \in Seq(Hashes)
  BY <1>2
<1>4. ASSUME NEW first \in Seq(Hashes), Len(first) = 1,
             history = [entries |-> first, at |-> 1]
      PROVE  HistoryOK
  BY <1>4 DEF HistoryOK
<1>5. HistoryOK
  BY <1>3, <1>4 DEF Init
<1> QED  BY <1>1, <1>3, <1>5 DEF Init, SiteOK

(* Every variable keeps its type: views stay views, the browser stays at    *)
(* one of its entries, and the pool never owes a renderer.                  *)
THEOREM TypeCorrect == Spec => []TypeOK
  BY TypeInit, TypeNext, PTL DEF Spec
-----------------------------------------------------------------------------
(* What the experiment is doing while nobody is in a hurry                  *)

NoReturns == backs = 0 /\ timeouts = <<>>

(* An instrument's address comes after the experiment's, and is the last:   *)
(* whatever is pushed after it is pushed from further back.                 *)
HistoryInv ==
  \A i \in 1 .. Len(history.entries) : history.entries[i] \in Views =>
    /\ i = Len(history.entries) /\ i > 1
    /\ history.entries[i - 1] = "playing"

(* It is not there, or its first animations play.                           *)
Away ==
  /\ phase \in {"off", "starting", "entering"}
  /\ expanded = {} /\ Moving = {} /\ NoReturns
  /\ ~isExpanded /\ ~recordmode /\ muted = {} /\ following
  /\ isScrollingDisabled = (phase = "entering")
  /\ listening = (phase # "off")
  /\ Location = IF phase = "off" THEN "site" ELSE "playing"
  /\ phase = "off" => paused = {}

Leaving ==
  /\ phase = "leaving" /\ ~listening
  /\ Moving = {} /\ NoReturns
  /\ Location = "site"

(* No instrument is open.  The browser has yet to go back from the one that *)
(* was, or has gone elsewhere and the timeout is due.                       *)
Shut ==
  /\ phase = "on" /\ listening
  /\ expanded = {} /\ Moving = {}
  /\ ~isExpanded /\ ~recordmode /\ muted = {} /\ ~isScrollingDisabled
  /\ visible \cap paused = {} \/ (isMobile /\ ~following)
  /\ ~following => settling /\ NoReturns
  /\ \/ NoReturns /\ Location = "playing"
     \/ backs = 1 /\ timeouts = <<>> /\ Location \in Views
     \/ backs = 0 /\ timeouts = <<Location>>

(* Root is about one instrument.                                            *)
Within(v) ==
  /\ phase = "on" /\ listening
  /\ isExpanded /\ currentView = v
  /\ isScrollingDisabled /\ muted = Views \ {v} /\ following

(* It is the only one that moves, and somebody waits for it.                *)
Only(v, kinds) ==
  /\ motion[v].kind \in kinds /\ motion[v].heard
  /\ \A w \in Views \ {v} : motion[w] = Still

Opening(v) ==
  /\ Within(v) /\ expanded = {v} /\ recordmode
  /\ Only(v, {"grow", "controls"}) /\ NoReturns /\ v \notin paused
  /\ Location = IF motion[v].skip THEN v ELSE "playing"

Open(v) ==
  /\ Within(v) /\ expanded = {v} /\ recordmode
  /\ Moving = {} /\ paused = Views \ {v}
  /\ \/ NoReturns /\ Location = v
     \/ backs = 0 /\ timeouts = <<Location>> /\ Location \notin Views

Closing(v) ==
  /\ Within(v) /\ expanded = {} /\ ~recordmode
  /\ Only(v, {"close"}) /\ NoReturns /\ visible \cap paused = {}
  /\ Location = IF motion[v].skip THEN "playing" ELSE v

Orderly ==
  /\ HistoryInv
  /\ pool = IF phase = "off" THEN Cardinality(Views) ELSE 0
  /\ \/ Away \/ Leaving \/ Shut
     \/ \E v \in Views : Opening(v) \/ Open(v) \/ Closing(v)

(* All that is known while nobody has been in a hurry.                      *)
Calm == TypeOK /\ WayOutInv /\ Orderly

LEMMA Apart == \A h \in {None, "site", "playing"} : h \notin Views
  BY ExperimentAssumption

LEMMA Places == \A v \in Views : {"site", "playing", v} \subseteq Hashes
  BY DEF Hashes

(* What moves is the instrument that Root is about.                         *)
LEMMA WhoMoves ==
  ASSUME Orderly, NEW v \in Views, motion[v] # Still
  PROVE  Opening(v) \/ Closing(v)
  BY DEF Orderly, Away, Leaving, Shut, Opening, Open, Closing, Moving, Only

(* When nothing is under way there are three cases.                         *)
LEMMA AtEase ==
  ASSUME Orderly, ~Busy
  PROVE  \/ Away /\ phase = "off"
         \/ Shut /\ NoReturns /\ Location = "playing"
         \/ \E v \in Views : Open(v) /\ NoReturns /\ Location = v
<1>1. Moving = {} /\ ~Returns /\ phase \in {"off", "on"}
  BY DEF Busy
<1>2. ASSUME NEW v \in Views, Opening(v) \/ Closing(v)
      PROVE  FALSE
  BY <1>1, <1>2 DEF Opening, Closing, Only, Moving, Still
<1>3. ~Leaving
  BY <1>1 DEF Leaving
<1>4. CASE Away
  BY <1>1, <1>4 DEF Away
<1>5. CASE Shut
  BY <1>1, <1>5 DEF Shut, Returns, NoReturns
<1>6. ASSUME NEW v \in Views, Open(v)
      PROVE  NoReturns /\ Location = v
  BY <1>1, <1>6 DEF Open, Returns, NoReturns
<1> QED  BY <1>2, <1>3, <1>4, <1>5, <1>6 DEF Orderly

(* No animation is replaced when nothing moves.                             *)
LEMMA AnimateAlone ==
  ASSUME Moving = {}, NEW views, NEW kind, NEW skip,
         Animate(views, kind, skip)
  PROVE  motion' = [w \in Views |->
           IF w \in views THEN [kind |-> kind, heard |-> TRUE, skip |-> skip]
           ELSE Still]
  BY DEF Animate, Moving

-----------------------------------------------------------------------------
(* The entries of the history                                               *)

LEMMA PushedInOrder ==
  ASSUME HistoryOK, HistoryInv, NEW hash \in Hashes, pushState(hash),
         Location \notin Views, hash \in Views => Location = "playing"
  PROVE  HistoryInv'
<1>1. /\ HistoryOK' /\ Location' = hash /\ history'.at = history.at + 1
      /\ Len(history'.entries) = history.at + 1
      /\ \A i \in 1 .. history.at : history'.entries[i] = history.entries[i]
  BY Pushed
<1>2. /\ history.at \in Nat /\ history.at >= 1
      /\ history.at <= Len(history.entries) /\ Len(history.entries) \in Nat
  BY DEF HistoryOK
<1>3. history'.entries[history.at + 1] = hash
  BY <1>1 DEF Location
<1> SUFFICES ASSUME NEW i \in 1 .. history.at + 1, history'.entries[i] \in Views
             PROVE  /\ i = history.at + 1 /\ i > 1
                    /\ history'.entries[i - 1] = "playing"
  BY <1>1 DEF HistoryInv
<1>4. CASE i \in 1 .. history.at
  <2>1. history.entries[i] \in Views /\ i \in 1 .. Len(history.entries)
    BY <1>1, <1>2, <1>4
  <2>2. i = history.at
    BY <1>2, <1>4, <2>1 DEF HistoryInv
  <2> QED  BY <2>1, <2>2 DEF Location
<1>5. CASE i = history.at + 1
  <2>1. Location = "playing"
    BY <1>3, <1>5
  <2>2. history'.entries[history.at] = "playing"
    BY <1>1, <1>2, <2>1 DEF Location
  <2> QED  BY <1>2, <1>5, <2>2
<1> QED  BY <1>2, <1>4, <1>5

LEMMA MovedInOrder ==
  ASSUME HistoryInv, history'.entries = history.entries
  PROVE  HistoryInv'
  BY DEF HistoryInv

-----------------------------------------------------------------------------
(* The transitions                                                          *)

LEMMA ToOpening ==
  ASSUME NEW v \in Views, NEW skip \in BOOLEAN, openView(v, skip),
         phase = "on", listening, Moving = {}, expanded = {}, muted = {},
         following, listening' = listening, NoReturns',
         Location' = IF skip THEN v ELSE "playing"
  PROVE  Opening(v)'
<1>1. motion' = [w \in Views |->
        IF w \in {v} THEN [kind |-> "grow", heard |-> TRUE, skip |-> skip]
        ELSE Still]
  BY AnimateAlone DEF openView, expandView
<1>2. motion'[v] = [kind |-> "grow", heard |-> TRUE, skip |-> skip]
  BY <1>1
<1>3. Only(v, {"grow", "controls"})'
  BY <1>1, <1>2 DEF Only
<1>4. Within(v)'
  BY DEF Within, openView, window
<1>5. expanded' = {v} /\ recordmode' /\ v \notin paused'
  BY DEF openView, expandView
<1> QED  BY <1>2, <1>3, <1>4, <1>5 DEF Opening

LEMMA ToClosing ==
  ASSUME NEW v \in Views, NEW skip \in BOOLEAN, closeViews({v}, skip), Open(v),
         listening' = listening, NoReturns',
         Location' = IF skip THEN "playing" ELSE v
  PROVE  Closing(v)'
<1>1. motion' = [w \in Views |->
        IF w \in {v} THEN [kind |-> "close", heard |-> TRUE, skip |-> skip]
        ELSE Still]
  BY AnimateAlone DEF closeViews, contractViews, Open
<1>2. motion'[v] = [kind |-> "close", heard |-> TRUE, skip |-> skip]
  BY <1>1
<1>3. Only(v, {"close"})'
  BY <1>1, <1>2 DEF Only
<1>4. Within(v)'
  BY DEF Within, closeViews, window, Open
<1>5. expanded' = {} /\ ~recordmode' /\ visible' \cap paused' = {}
  BY DEF closeViews, contractViews, Open, window,
         enableAllInstancesInsideViewport
<1> QED  BY <1>2, <1>3, <1>4, <1>5 DEF Closing

LEMMA ToLeaving ==
  ASSUME Calm, tearDown, phase = "on", Moving = {}, Location \notin Views,
         NoReturns'
  PROVE  Orderly'
<1>1. SiteOK /\ HistoryInv
  BY TypeParts DEF Calm, Orderly
<1>2. "site" \in Hashes /\ "site" \notin Views
  BY Apart DEF Hashes
<1>3. HistoryInv' /\ Location' = "site"
  BY <1>1, <1>2, Pushed, PushedInOrder DEF tearDown, SiteOK
<1>4. Moving' = {} /\ pool' = 0 /\ phase' = "leaving" /\ ~listening'
  BY DEF tearDown, Moving, cards, Calm, Orderly
<1> QED  BY <1>3, <1>4 DEF Orderly, Leaving

(* What Orderly is not about.                                               *)
LEMMA NothingOrderly ==
  ASSUME Orderly, UNCHANGED <<root, isMobile, visible, following, cards, site>>,
         settling => settling'
  PROVE  Orderly'
<1>1. HistoryInv' /\ Location' = Location /\ NoReturns' = NoReturns
  BY DEF Orderly, HistoryInv, site, Location, NoReturns
<1>2. Moving' = Moving
  BY DEF Moving, cards
<1>3. Away => Away'
  BY <1>1, <1>2 DEF Away, root, cards, site
<1>4. Leaving => Leaving'
  BY <1>1, <1>2 DEF Leaving, root, cards, site
<1>5. Shut => Shut'
  BY <1>1, <1>2 DEF Shut, root, cards, site
<1>6. ASSUME NEW v \in Views
      PROVE  /\ Opening(v) => Opening(v)'
             /\ Open(v) => Open(v)'
             /\ Closing(v) => Closing(v)'
  BY <1>1, <1>2
     DEF Opening, Open, Closing, Within, Only, root, cards, site
<1> QED  BY <1>1, <1>3, <1>4, <1>5, <1>6 DEF Orderly, root

-----------------------------------------------------------------------------
(* Every action                                                             *)

LEMMA StartOrderly ==
  ASSUME Calm, start, ~hurried'
  PROVE  Orderly'
<1>1. ~Busy /\ phase = "off" /\ Away /\ SiteOK /\ HistoryInv
  BY TypeParts, AtEase
     DEF start, Busy, Calm, Shut, Open, Within, Away, Orderly
<1>2. pool = Cardinality(Views)
  BY <1>1 DEF Calm, Orderly
<1>3. /\ phase' = "starting" /\ pool' = 0
  BY <1>1, <1>2, Pool DEF start, createRenderers
<1>4. HistoryInv' /\ Location' = "playing"
  BY <1>1, Apart, Places, Pushed, PushedInOrder DEF start, Away, SiteOK, Hashes
<1>5. Moving' = {}
  BY DEF start, Fresh, Moving
<1>6. Away'
  BY <1>1, <1>3, <1>4, <1>5 DEF start, Fresh, Away, NoReturns
<1> QED  BY <1>3, <1>4, <1>6 DEF Orderly

LEMMA AnimateInOrderly ==
  ASSUME Calm, animateIn \/ AnimatedIn
  PROVE  Orderly'
<1>1. Away /\ pool = 0 /\ HistoryInv
  BY DEF animateIn, AnimatedIn, Calm, Orderly, Leaving, Shut, Opening, Open,
         Closing, Within
<1>2. /\ HistoryInv' /\ Location' = Location /\ NoReturns' = NoReturns
      /\ Moving' = Moving /\ pool' = 0 /\ phase' # "off"
  BY <1>1 DEF animateIn, AnimatedIn, HistoryInv, Location, NoReturns, Moving,
              cards, site
<1>3. CASE animateIn
  BY <1>1, <1>2, <1>3 DEF animateIn, Away, cards, site, window, Orderly
<1>4. CASE AnimatedIn
  <2>1. Shut'
    BY <1>1, <1>2, <1>4 DEF AnimatedIn, Away, Shut, site, window, NoReturns,
       enableAllInstancesInsideViewport
  <2> QED  BY <1>2, <2>1, <1>4 DEF Orderly, AnimatedIn
<1> QED  BY <1>3, <1>4

LEMMA ExitOrderly ==
  ASSUME Calm, exitExperiment, ~hurried'
  PROVE  Orderly'
<1>1. ~Busy /\ phase = "on" /\ ~recordmode
  BY DEF exitExperiment, Input
<1>2. Shut /\ NoReturns /\ Location = "playing"
  BY <1>1, AtEase DEF Calm, Open
<1>3. NoReturns' /\ Moving = {}
  BY <1>2 DEF exitExperiment, tearDown, NoReturns, Shut
<1> QED  BY <1>1, <1>2, <1>3, ToLeaving, Apart DEF exitExperiment

LEMMA CleanUpOrderly ==
  ASSUME Calm, cleanUp
  PROVE  Orderly'
<1>1. Leaving /\ pool = 0 /\ HistoryInv
  BY DEF cleanUp, Calm, Orderly, Away, Shut, Opening, Open, Closing, Within
<1>2. /\ HistoryInv' /\ Location' = "site" /\ NoReturns'
      /\ listening' = FALSE
  BY <1>1 DEF cleanUp, Leaving, site, HistoryInv, Location, NoReturns, Calm,
              TypeOK
<1>3. Moving' = {}
  BY DEF cleanUp, Fresh, Moving
<1>4. pool' = Cardinality(Views)
  BY <1>1, Pool DEF cleanUp, returnRenderers
<1>5. Away'
  BY <1>2, <1>3 DEF cleanUp, Fresh, Away
<1> QED  BY <1>2, <1>4, <1>5 DEF Orderly, cleanUp

LEMMA MousedownOrderly ==
  ASSUME Calm, NEW v \in Views, mousedown(v), ~hurried'
  PROVE  Orderly'
<1>1. ~Busy /\ phase \in {"on", "leaving"}
  BY DEF mousedown, Input
<1>2. ~ \E w \in Views : Open(w)
  BY DEF mousedown, Open, Moving, Still
<1>3. Shut /\ NoReturns /\ Location = "playing"
  BY <1>1, <1>2, AtEase DEF Calm
<1>4. /\ NoReturns' /\ HistoryInv'
      /\ Location' = Location /\ listening' = listening
  BY <1>3 DEF mousedown, site, NoReturns, Location, Calm, Orderly, HistoryInv
<1>5. Opening(v)'
  BY <1>3, <1>4, ToOpening DEF mousedown, Shut
<1> QED  BY <1>3, <1>4, <1>5 DEF Orderly, Calm, mousedown, openView, Shut

(* Escape, and the icon.                                                    *)
LEMMA CloseOrderly ==
  ASSUME Calm, NEW views \in SUBSET expanded, views # {}, Input(Busy),
         closeViews(views, FALSE), UNCHANGED site, ~hurried'
  PROVE  Orderly'
<1>1. ~Busy
  BY DEF Input
<1>2. PICK v \in Views : Open(v) /\ NoReturns /\ Location = v
  BY <1>1, AtEase DEF Calm, Away, Shut
<1>3. views = {v}
  BY <1>2 DEF Open
<1>4. NoReturns' /\ Location' = v /\ listening' = listening /\ HistoryInv'
  BY <1>2 DEF site, NoReturns, Location, Calm, Orderly, HistoryInv
<1>5. Closing(v)'
  BY <1>2, <1>3, <1>4, ToClosing
<1> QED
  BY <1>2, <1>4, <1>5 DEF Orderly, Calm, closeViews, Open, Within

LEMMA ScrollOrderly ==
  ASSUME Calm, scroll, ~hurried'
  PROVE  Orderly'
<1>1. ~Returns /\ phase = "on" /\ ~isScrollingDisabled
  BY DEF scroll, Input
<1>2. Shut /\ pool = 0 /\ HistoryInv
  BY <1>1 DEF Calm, Orderly, Away, Leaving, Opening, Open, Closing, Within
<1>3. /\ HistoryInv' /\ Location' = Location /\ NoReturns' = NoReturns
      /\ Moving' = Moving /\ pool' = 0 /\ NoReturns
  BY <1>1, <1>2 DEF scroll, HistoryInv, Location, NoReturns, Moving, site, root,
                    Returns, Calm, TypeOK
<1>4. /\ visible' \cap paused' = {} \/ (isMobile' /\ ~following')
      /\ settling'
  BY <1>2 DEF scroll, onWindowScrollStart, Shut, enableAllInstances
<1>5. Shut'
  BY <1>2, <1>3, <1>4 DEF scroll, Shut, root, site
<1> QED  BY <1>1, <1>3, <1>5 DEF Orderly, scroll, root

LEMMA ScrollStoppedOrderly ==
  ASSUME Calm, scrollStopped
  PROVE  Orderly'
<1>1. /\ HistoryInv' /\ Location' = Location /\ NoReturns' = NoReturns
      /\ Moving' = Moving
  BY DEF scrollStopped, HistoryInv, Location, NoReturns, Moving, site, Calm,
         Orderly
<1>2. Away => Away'
  BY <1>1 DEF scrollStopped, onWindowScrollStop, Away, root, site
<1>3. Leaving => Leaving'
  BY <1>1 DEF scrollStopped, Leaving, root, site
<1>4. Shut => Shut'
  <2>1. ASSUME Shut PROVE visible' \cap paused' = {} /\ following'
    BY <2>1 DEF scrollStopped, onWindowScrollStop, Shut,
       enableAllInstancesInsideViewport, disableViewsOutsideViewport, Calm,
       TypeOK
  <2> QED  BY <1>1, <2>1 DEF scrollStopped, Shut, root, site
<1>5. ASSUME NEW v \in Views
      PROVE  /\ Opening(v) => Opening(v)'
             /\ Open(v) => Open(v)'
             /\ Closing(v) => Closing(v)'
  BY <1>1 DEF scrollStopped, onWindowScrollStop, Opening, Open, Closing, Within,
              Only, root, site
<1> QED  BY <1>1, <1>2, <1>3, <1>4, <1>5 DEF Orderly, Calm, scrollStopped, root

LEMMA ResizeOrderly ==
  ASSUME Calm, onWindowResize, ~hurried'
  PROVE  Orderly'
<1>1. Moving = {} /\ ~settling /\ visible' \subseteq visible
  BY DEF onWindowResize, Input
<1>2. motion' = motion
  BY <1>1 DEF onWindowResize, resize, Calm, TypeOK, MotionOK
<1>3. /\ HistoryInv' /\ Location' = Location /\ NoReturns' = NoReturns
      /\ Moving' = Moving
  BY <1>2 DEF onWindowResize, HistoryInv, Location, NoReturns, Moving, site,
              Calm, Orderly
<1>4. ~Away /\ ~Leaving
  BY DEF onWindowResize, Away, Leaving
<1>5. Shut => Shut'
  BY <1>1, <1>3 DEF onWindowResize, Shut, root, site
<1>6. ASSUME NEW v \in Views
      PROVE  /\ ~Opening(v) /\ ~Closing(v)
             /\ Open(v) => Open(v)'
  BY <1>1, <1>3 DEF onWindowResize, Opening, Open, Closing, Within, Only,
                    Moving, Still, root, site
<1> QED  BY <1>3, <1>4, <1>5, <1>6 DEF Orderly, Calm, onWindowResize, root

LEMMA TraverseOrderly ==
  ASSUME Calm, NEW at, Traverse(at), ~hurried'
  PROVE  Orderly'
<1>1. ~Busy /\ ~settling /\ phase \in {"entering", "on", "leaving"}
  BY DEF Traverse, Input
<1>2. /\ HistoryInv /\ HistoryInv' /\ Location' = history.entries[at]
      /\ at \in 1 .. Len(history.entries) /\ at # history.at
      /\ listening /\ timeouts = <<>> => timeouts' = <<Location'>>
  BY Gone, MovedInOrder, TypeParts DEF Traverse, Calm, Orderly, Go
<1>3. Moving' = Moving
  BY DEF Traverse, Moving, cards
<1>4. CASE Shut /\ NoReturns /\ Location = "playing"
  <2>1. Shut'
    BY <1>1, <1>2, <1>3, <1>4 DEF Traverse, Shut, NoReturns, root, window, cards
  <2> QED  BY <1>2, <1>4, <2>1 DEF Orderly, Calm, Traverse, root, Shut
<1>5. ASSUME NEW v \in Views, Open(v), NoReturns, Location = v
      PROVE  Orderly'
  <2>1. history.at \in 1 .. Len(history.entries)
    BY DEF Calm, TypeOK
  <2>2. Location' \notin Views
    BY <1>2, <1>5, <2>1 DEF HistoryInv, Location
  <2>3. Open(v)'
    BY <1>2, <1>3, <1>5, <2>2
       DEF Traverse, Open, Within, NoReturns, root, window, cards
  <2> QED  BY <1>2, <1>5, <2>3 DEF Orderly, Calm, Traverse, root, Open, Within
<1> QED  BY <1>1, <1>4, <1>5, AtEase DEF Calm

(* It goes back from an instrument, and to the experiment.                  *)
LEMMA WhereBackGoes ==
  ASSUME Calm, goBack
  PROVE  Shut /\ backs = 1 /\ timeouts = <<>> /\ Location' = "playing"
<1>1. Shut /\ backs = 1 /\ timeouts = <<>> /\ Location \in Views
  BY DEF Calm, TypeOK, Orderly, goBack, Away, Leaving, Shut, Opening, Open,
         Closing, NoReturns
<1>2. history.entries[history.at - 1] = "playing"
  BY <1>1 DEF Calm, Orderly, HistoryInv, Location, TypeOK
<1> QED  BY <1>1, <1>2, Gone, TypeParts DEF Calm, goBack

LEMMA GoBackOrderly ==
  ASSUME Calm, goBack
  PROVE  Orderly'
<1>1. Shut /\ backs = 1 /\ timeouts = <<>> /\ Location' = "playing"
  BY WhereBackGoes
<1>2. HistoryInv' /\ timeouts' = <<Location'>>
  BY <1>1, Gone, MovedInOrder, TypeParts DEF goBack, Calm, Orderly, Shut
<1>3. Moving' = Moving /\ backs' = 0
  BY <1>1 DEF goBack, Moving, cards
<1>4. Shut'
  BY <1>1, <1>2, <1>3 DEF goBack, Shut, NoReturns, root, window, cards
<1> QED  BY <1>1, <1>2, <1>4 DEF Orderly, Calm, goBack, root, Shut

LEMMA OneTimeout ==
  ASSUME Calm, timeouts # <<>>
  PROVE  /\ backs = 0 /\ timeouts = <<Location>> /\ Head(timeouts) = Location
         /\ Tail(timeouts) = <<>>
         /\ \/ Shut /\ following
            \/ Location \notin Views /\ \E v \in Views : Open(v)
<1>1. \/ Shut /\ following /\ backs = 0 /\ timeouts = <<Location>>
      \/ /\ backs = 0 /\ timeouts = <<Location>> /\ Location \notin Views
         /\ \E v \in Views : Open(v)
  BY DEF Calm, Orderly, Away, Leaving, Shut, Opening, Open, Closing, NoReturns
<1>2. Head(<<Location>>) = Location /\ Tail(<<Location>>) = <<>>
  OBVIOUS
<1> QED  BY <1>1, <1>2

LEMMA OnOpenInstrumentOrderly ==
  ASSUME Calm, NEW v \in Views, onOpenInstrument(v)
  PROVE  Orderly'
<1>1. /\ Location = v /\ backs = 0 /\ Shut /\ following /\ timeouts' = <<>>
  BY OneTimeout DEF onOpenInstrument
<1>2. NoReturns' /\ Location' = v /\ listening' = listening /\ HistoryInv'
  BY <1>1 DEF onOpenInstrument, NoReturns, Location, HistoryInv, Calm, Orderly
<1>3. openView(v, TRUE)
  BY <1>1 DEF onOpenInstrument, Shut
<1>4. Opening(v)'
  BY <1>1, <1>2, <1>3, ToOpening DEF Shut
<1> QED  BY <1>1, <1>2, <1>3, <1>4 DEF Orderly, Calm, Shut, openView

LEMMA OnReturnToRootOrderly ==
  ASSUME Calm, onReturnToRoot
  PROVE  Orderly'
<1>1. /\ Location = "playing" /\ backs = 0 /\ timeouts' = <<>>
      /\ (Shut /\ following) \/ \E v \in Views : Open(v)
  BY OneTimeout DEF onReturnToRoot
<1>2. /\ NoReturns' /\ HistoryInv'
      /\ Location' = "playing" /\ listening' = listening
  BY <1>1 DEF onReturnToRoot, NoReturns, Location, HistoryInv, Calm, Orderly
<1>3. CASE Shut /\ following
  <2>1. UNCHANGED <<root, window, cards>>
    BY <1>3 DEF onReturnToRoot, Shut
  <2>2. Moving' = Moving
    BY <2>1 DEF Moving, cards
  <2>3. Shut'
    BY <1>2, <1>3, <2>1, <2>2 DEF Shut, root, window, cards
  <2> QED  BY <1>2, <1>3, <2>1, <2>3 DEF Orderly, Calm, root, Shut
<1>4. ASSUME NEW v \in Views, Open(v)
      PROVE  Orderly'
  <2>1. closeViews({v}, TRUE)
    BY <1>4, Apart DEF onReturnToRoot, Open, Within
  <2>2. Closing(v)'
    BY <1>2, <1>4, <2>1, ToClosing
  <2> QED
    BY <1>2, <1>4, <2>1, <2>2 DEF Orderly, Calm, closeViews, Open, Within
<1> QED  BY <1>1, <1>3, <1>4

LEMMA OnCloseExperimentOrderly ==
  ASSUME Calm, onCloseExperiment
  PROVE  Orderly'
<1>1. /\ Location = "site" /\ backs = 0 /\ timeouts' = <<>>
      /\ phase = "on" /\ Moving = {}
  BY OneTimeout DEF onCloseExperiment, Shut, Open, Within
<1>2. tearDown
  BY <1>1 DEF onCloseExperiment
<1>3. NoReturns'
  BY <1>1, <1>2 DEF tearDown, NoReturns
<1> QED  BY <1>1, <1>2, <1>3, Apart, ToLeaving

LEMMA ShowControlsOrderly ==
  ASSUME Calm, NEW v \in Views, showControls(v)
  PROVE  Orderly'
<1>1. Opening(v) /\ MotionOK
  BY WhoMoves DEF Calm, TypeOK, showControls, Closing, Only, Still
<1>2. /\ HistoryInv' /\ Location' = Location /\ NoReturns'
  BY <1>1 DEF showControls, HistoryInv, Location, NoReturns, site, Calm,
              Orderly, Opening
<1>3. /\ motion'[v].kind = "controls" /\ motion'[v].heard = motion[v].heard
      /\ motion'[v].skip = motion[v].skip
      /\ \A w \in Views \ {v} : motion'[w] = motion[w]
  BY <1>1 DEF showControls, MotionOK, Motions
<1>4. Opening(v)'
  BY <1>1, <1>2, <1>3
     DEF showControls, Opening, Within, Only, root, window, site
<1> QED
  BY <1>1, <1>2, <1>4 DEF Orderly, Calm, showControls, root, Opening, Within

LEMMA OpenedOrderly ==
  ASSUME Calm, NEW v \in Views, Opened(v)
  PROVE  Orderly'
<1>1. Opening(v) /\ MotionOK /\ SiteOK /\ HistoryInv
  BY WhoMoves, TypeParts
     DEF Calm, TypeOK, Opened, Closing, Only, Still, Orderly
<1>2. Moving' = {}
  BY <1>1 DEF Opened, Opening, Only, Moving, MotionOK
<1>3. HistoryInv' /\ Location' = v
  <2>1. CASE motion[v].skip
    BY <1>1, <2>1 DEF Opened, Opening, Only, HistoryInv, Location
  <2>2. CASE ~motion[v].skip
    <3>1. pushState(v) /\ Location = "playing"
      BY <1>1, <2>2 DEF Opened, Opening, Only
    <3> QED
      BY <1>1, <3>1, Pushed, PushedInOrder, Apart, Places DEF SiteOK
  <2> QED  BY <2>1, <2>2
<1>4. paused' = Views \ {v} /\ NoReturns'
  BY <1>1 DEF Opened, Opening, Only, disableAllInstancesExcept, NoReturns, Calm,
              TypeOK
<1>5. Open(v)'
  BY <1>1, <1>2, <1>3, <1>4 DEF Opened, Opening, Open, Within, root, window
<1> QED
  BY <1>1, <1>3, <1>5 DEF Orderly, Calm, Opened, root, Opening, Within

LEMMA ClosedOrderly ==
  ASSUME Calm, NEW v \in Views, Closed(v)
  PROVE  Orderly'
<1>1. Closing(v) /\ MotionOK /\ backs \in Nat
  BY WhoMoves DEF Calm, TypeOK, Closed, Opening, Only, Still
<1>2. Moving' = {}
  BY <1>1 DEF Closed, Closing, Only, Moving, MotionOK
<1>3. HistoryInv' /\ Location' = Location
  BY DEF Closed, HistoryInv, Location, Calm, Orderly
<1>4. \/ NoReturns' /\ Location' = "playing"
      \/ backs' = 1 /\ timeouts' = <<>> /\ Location' \in Views
  BY <1>1, <1>3 DEF Closed, Closing, Only, NoReturns
<1>5. Shut'
  BY <1>1, <1>2, <1>4 DEF Closed, Closing, Within, Only, Shut, window
<1> QED  BY <1>1, <1>3, <1>5 DEF Orderly, Calm, Closed, Closing, Within

-----------------------------------------------------------------------------
(* As long as nobody is in a hurry.                                         *)

LEMMA OrderlyNext ==
  ASSUME TypeOK, WayOutInv, Orderly, [Next]_vars, ~hurried'
  PROVE  Orderly'
<1> USE DEF root, window, cards, buttons, site, user
<1>a. Calm
  BY DEF Calm
<1>1. ASSUME NEW v \in Views, backIconClick(v) PROVE Orderly'
  BY <1>a, <1>1, CloseOrderly DEF backIconClick
<1>2. CASE onGlobalKeyUp
  BY <1>a, <1>2, CloseOrderly DEF onGlobalKeyUp, WayOutInv, WayOut
<1>3. ASSUME NEW v \in Views, onCountdownActivate(v) \/ resetRecord(v)
      PROVE  Orderly'
  <2>1. UNCHANGED <<root, window, cards, site>>
    BY <1>3 DEF onCountdownActivate, resetRecord
  <2> QED  BY <1>a, <2>1, NothingOrderly DEF Calm
<1>4. CASE Audio
  BY <1>a, <1>4, NothingOrderly DEF Audio, setupRecording, onRecordDeactivate
<1>5. CASE UNCHANGED vars
  BY <1>a, <1>5, NothingOrderly DEF vars
<1>6. CASE User
  BY <1>a, <1>1, <1>2, <1>3, <1>6, StartOrderly, ExitOrderly, ScrollOrderly,
     ResizeOrderly, MousedownOrderly, TraverseOrderly DEF User
<1>7. CASE Timers
  BY <1>a, <1>3, <1>7, AnimateInOrderly, CleanUpOrderly, ScrollStoppedOrderly,
     GoBackOrderly, OnReturnToRootOrderly, OnCloseExperimentOrderly,
     ShowControlsOrderly, OpenedOrderly, ClosedOrderly,
     OnOpenInstrumentOrderly DEF Timers
<1> QED  BY <1>4, <1>5, <1>6, <1>7 DEF Next

LEMMA HurryLasts ==
  ASSUME TypeOK, [Next]_vars, hurried
  PROVE  hurried'
  BY DEF Next, User, Timers, Audio, vars, start, exitExperiment, onGlobalKeyUp,
         scroll, onWindowResize, mousedown, backIconClick, onCountdownActivate,
         Traverse, animateIn, AnimatedIn, cleanUp, scrollStopped, goBack,
         onReturnToRoot, onCloseExperiment, showControls, Opened, Closed,
         resetRecord, onOpenInstrument, setupRecording, onRecordDeactivate,
         Input, user

(* Nothing is known but types and the way out once somebody has been.       *)
CalmInv == TypeOK /\ WayOutInv /\ (~hurried => Orderly)

LEMMA CalmAlways == Spec => []CalmInv
<1>1. Init => CalmInv
  <2> SUFFICES ASSUME Init PROVE Orderly
    BY TypeInit, WayOutInit DEF CalmInv
  <2>1. HistoryInv /\ Location = "site" /\ Moving = {} /\ NoReturns
    BY Apart DEF Init, HistoryInv, Location, Moving, NoReturns
  <2> QED  BY <2>1 DEF Init, Orderly, Away, buildRendererPool
<1>2. CalmInv /\ [Next]_vars => CalmInv'
  BY TypeNext, WayOutNext, OrderlyNext, HurryLasts DEF CalmInv
<1> QED  BY <1>1, <1>2, PTL DEF Spec

(* When nothing moves, Root, the containers, the channels, the FAB and the  *)
(* address agree on the instrument that is open, and all that a transition  *)
(* has switched off is on again: for any number of instruments, starts and  *)
(* inputs, as long as none of them comes in the middle of something.        *)
THEOREM InOrder == Spec => []AtRest
<1>1. CalmInv => AtRest
  <2> SUFFICES ASSUME TypeOK, Orderly, phase \in {"off", "on"}, ~Busy, ~settling
               PROVE  AtRest
    BY DEF CalmInv, AtRest
  <2>1. CASE Away /\ phase = "off"
    BY <2>1 DEF AtRest, Away, Orderly, TypeOK
  <2>2. CASE Shut /\ NoReturns /\ Location = "playing"
    BY <2>2 DEF AtRest, Shut, TypeOK
  <2>3. ASSUME NEW v \in Views, Open(v), NoReturns, Location = v
        PROVE  AtRest
    BY <2>3 DEF AtRest, Open, Within, TypeOK
  <2> QED  BY <2>1, <2>2, <2>3, AtEase
<1> QED  BY <1>1, CalmAlways, PTL

LEMMA WhoGoesBack ==
  ASSUME TypeOK, [Next]_vars, backs' < backs
  PROVE  goBack
<1> USE DEF root, site
<1>1. backs' # backs /\ backs' # backs + 1
  BY DEF TypeOK
<1>2. ~User
  BY <1>1 DEF User, start, exitExperiment, tearDown, onGlobalKeyUp, scroll,
              onWindowResize, mousedown, backIconClick, onCountdownActivate,
              Traverse
<1>3. ~Audio /\ ~UNCHANGED vars
  BY <1>1 DEF Audio, setupRecording, onRecordDeactivate, vars
<1>4. ~animateIn /\ ~AnimatedIn /\ ~cleanUp /\ ~scrollStopped
  BY <1>1 DEF animateIn, AnimatedIn, cleanUp, scrollStopped
<1>5. ~onReturnToRoot /\ ~onCloseExperiment
  BY <1>1 DEF onReturnToRoot, onCloseExperiment, tearDown
<1>6. ASSUME NEW v \in Views
      PROVE  /\ ~showControls(v) /\ ~Opened(v) /\ ~Closed(v)
             /\ ~resetRecord(v) /\ ~onOpenInstrument(v)
  BY <1>1 DEF showControls, Opened, Closed, resetRecord, onOpenInstrument
<1> QED  BY <1>2, <1>3, <1>4, <1>5, <1>6 DEF Next, Timers

(* history.back takes the user from an instrument to the experiment, never  *)
(* out of it, as long as nothing comes in the middle of something.          *)
THEOREM BackIsOneStep == Spec => BackStaysInside
<1>1. CalmInv /\ [Next]_vars
        => [backs' < backs /\ ~hurried => Location' = "playing"]_vars
  BY WhoGoesBack, WhereBackGoes DEF CalmInv, Calm
<1> QED  BY <1>1, CalmAlways, PTL DEF Spec, BackStaysInside
=============================================================================
