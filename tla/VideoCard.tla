------------------------------ MODULE VideoCard ------------------------------
(***************************************************************************)
(* A card of the site whose video takes the screen over and gives it back   *)
(* (playVideo, openVideo, closeVideoCard and cardVideoTakeover of           *)
(* helper/elements.js): the play button fades for 350 ms, then the video    *)
(* grows or shrinks for 400 ms, then the bar with the back button comes     *)
(* down, or the video is removed.  The bar goes up when the visitor closes. *)
(***************************************************************************)
EXTENDS Naturals, Sequences, SequencesExt

CONSTANTS Cards, None, MaxInputs

VARIABLES
  page,       \* "about", whose cards play a video at once, or "videos"
  currentCard, fullscreenVideoActive,
  nav,        \* whether the bar is down
  frames,     \* how many callbacks wait for the template to be stamped
  player,     \* of the stamped video: whether it is ready, and its listeners
  takeovers,  \* in the order of their starts: reverse, and whether the button has faded
  inputs,
  crossed     \* the visitor did not wait for what was under way

vars == <<page, currentCard, fullscreenVideoActive, nav, frames, player, takeovers, inputs,
          crossed>>

Stamped == [ready |-> FALSE, listeners |-> 0]

(* What cardVideoTakeover adds: without a card it returns, and without a    *)
(* stamped video it throws.                                                 *)
CanTakeOver == currentCard # None /\ fullscreenVideoActive

cardVideoTakeover(reverse) == [reverse |-> reverse, faded |-> FALSE]

Input == inputs < MaxInputs /\ inputs' = inputs + 1

(* playVideo and openVideo.                                                 *)
openVideo(card) ==
  /\ Input
  /\ currentCard' = card
  /\ fullscreenVideoActive' = TRUE
  /\ player' = IF fullscreenVideoActive THEN player ELSE Stamped
  /\ frames' = frames + 1
  /\ crossed' = (crossed \/ fullscreenVideoActive)
  /\ UNCHANGED <<page, nav, takeovers>>

(* The template has been stamped: playVideo goes on, openVideo waits for    *)
(* the player.                                                              *)
Frame ==
  /\ frames > 0
  /\ frames' = frames - 1
  /\ CASE ~fullscreenVideoActive -> UNCHANGED <<player, takeovers>>
       [] page = "about" ->
            /\ takeovers' = IF CanTakeOver THEN Append(takeovers, cardVideoTakeover(FALSE))
                            ELSE takeovers
            /\ UNCHANGED player
       [] OTHER ->
            /\ player' = [player EXCEPT !.listeners = @ + 1]
            /\ UNCHANGED takeovers
  /\ UNCHANGED <<page, currentCard, fullscreenVideoActive, nav, inputs, crossed>>

(* The player tells once that it is ready.                                  *)
Ready ==
  /\ page = "videos" /\ fullscreenVideoActive /\ ~player.ready /\ frames = 0
  /\ player' = [player EXCEPT !.ready = TRUE]
  /\ takeovers' = IF CanTakeOver
                  THEN takeovers \o [k \in 1..player.listeners |-> cardVideoTakeover(FALSE)]
                  ELSE takeovers
  /\ UNCHANGED <<page, currentCard, fullscreenVideoActive, nav, frames, inputs, crossed>>

toggleVideoOverlayNav == nav' = ~nav

(* The escape key closes a video, the back button is there while the bar is *)
(* down.  Without a card only the bar moves, and what throws moves nothing. *)
closeVideoCard ==
  /\ Input
  /\ fullscreenVideoActive \/ nav
  /\ IF currentCard # None /\ ~fullscreenVideoActive THEN UNCHANGED <<nav, takeovers>>
     ELSE /\ takeovers' = IF CanTakeOver THEN Append(takeovers, cardVideoTakeover(TRUE))
                          ELSE takeovers
          /\ toggleVideoOverlayNav
  /\ crossed' = \/ crossed
                \/ (fullscreenVideoActive /\ takeovers = << >> /\ ~nav)
                \/ \E k \in DOMAIN takeovers : takeovers[k].reverse
  /\ UNCHANGED <<page, currentCard, fullscreenVideoActive, frames, player>>

(* The animations all take the same time: none overtakes an earlier one.    *)
Fade(k) ==
  /\ k \in DOMAIN takeovers /\ ~takeovers[k].faded
  /\ \A j \in 1..(k - 1) : takeovers[j].faded
  /\ takeovers' = [takeovers EXCEPT ![k].faded = TRUE]
  /\ UNCHANGED <<page, currentCard, fullscreenVideoActive, nav, frames, player, inputs, crossed>>

Finish ==
  /\ takeovers # << >> /\ Head(takeovers).faded
  /\ takeovers' = Tail(takeovers)
  /\ IF Head(takeovers).reverse
     THEN /\ fullscreenVideoActive' = FALSE
          /\ currentCard' = None
          /\ UNCHANGED nav
     ELSE /\ toggleVideoOverlayNav
          /\ UNCHANGED <<currentCard, fullscreenVideoActive>>
  /\ UNCHANGED <<page, frames, player, inputs, crossed>>

(* Another page has a bar of its own, and its load resets the video, but    *)
(* not the card.                                                            *)
Leave ==
  /\ Input
  /\ page' = IF page = "about" THEN "videos" ELSE "about"
  /\ fullscreenVideoActive' = FALSE
  /\ nav' = FALSE
  /\ player' = Stamped
  /\ crossed' = (crossed \/ frames > 0 \/ takeovers # << >>)
  /\ UNCHANGED <<currentCard, frames, takeovers>>

Init ==
  /\ page \in {"about", "videos"}
  /\ currentCard = None /\ fullscreenVideoActive = FALSE /\ nav = FALSE
  /\ frames = 0 /\ player = Stamped /\ takeovers = << >>
  /\ inputs = 0 /\ crossed = FALSE

Next ==
  \/ \E card \in Cards : openVideo(card)
  \/ Frame
  \/ Ready
  \/ closeVideoCard
  \/ \E k \in DOMAIN takeovers : Fade(k)
  \/ Finish
  \/ Leave

------------------------------------------------------------------------------
AtRest == frames = 0 /\ takeovers = << >> /\ (player.listeners = 0 \/ player.ready)

(* Once nothing moves, the bar with the back button is down just when a     *)
(* video has the screen, even if the visitor closed it while it was still   *)
(* opening; unless the visitor opened it twice, closed it twice or before   *)
(* it began to open, or left the page in the middle.                        *)
BarIsThere == (AtRest /\ ~crossed) => (nav <=> fullscreenVideoActive)

(* What that rests on: the course of a video that nothing has crossed.      *)
VideoTypeOK ==
  /\ page \in {"about", "videos"}
  /\ fullscreenVideoActive \in BOOLEAN /\ nav \in BOOLEAN /\ crossed \in BOOLEAN
  /\ frames \in Nat
  /\ player \in [ready : BOOLEAN, listeners : Nat]
  /\ takeovers \in Seq([reverse : BOOLEAN, faded : BOOLEAN])

Closed ==
  ~fullscreenVideoActive /\ ~nav /\ frames = 0 /\ takeovers = << >>

Waits ==
  /\ fullscreenVideoActive /\ currentCard # None /\ ~nav /\ takeovers = << >>
  /\ \/ frames = 1 /\ player = Stamped
     \/ frames = 0 /\ page = "videos" /\ ~player.ready /\ player.listeners = 1

Opens   == ~nav /\ Len(takeovers) = 1 /\ ~takeovers[1].reverse
Open    == nav /\ takeovers = << >>
Crosses == nav /\ Len(takeovers) = 2 /\ ~takeovers[1].reverse /\ takeovers[2].reverse
Closes  == ~nav /\ Len(takeovers) = 1 /\ takeovers[1].reverse

(* Crosses: it was closed while it was opening.                             *)
Opened ==
  /\ fullscreenVideoActive /\ currentCard # None /\ frames = 0
  /\ page = "videos" => player.ready
  /\ Opens \/ Open \/ Crosses \/ Closes

VideoInv == VideoTypeOK /\ (~crossed => Closed \/ Waits \/ Opened)
==============================================================================
