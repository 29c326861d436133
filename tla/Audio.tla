-------------------------------- MODULE Audio --------------------------------
(***************************************************************************)
(* The sound of the experiment (core.js, audio/AudioManager.js,            *)
(* audio/ChannelManager.js, and of audio/Sequencer.js and Metronome.js      *)
(* whether a sequencer ticks): what starts and stops it, and the volumes,  *)
(* which are faded.                                                        *)
(*                                                                         *)
(* A fade is an animation of an object of its own: none replaces another,  *)
(* and of two that set one volume the later one of fades wins while both   *)
(* run.  A fade is put there when it is asked for: one with a delay that   *)
(* is still waiting when another is asked for comes before it, though it   *)
(* sets the volume first after it.  None advances in a hidden tab.  A unit *)
(* of time is a quarter of a second.                                       *)
(***************************************************************************)
EXTENDS Naturals, Sequences, FiniteSets

CONSTANTS Channels,       \* one per instrument
          Main,           \* the volume of all
          ShortFadeIn, FadeInDelay, FadeInTime, FadeOutTime, ExitFadeTime,
          FADE_OUT_DURATION, FADE_IN_DURATION,
          MaxInputs,      \* BOUND: what the user does
          MaxFades        \* BOUND: fades at a time

VARIABLES
  playmode,     \* of the element: off, playing or paused
  hidden,       \* the tab
  isRunning,
  sequencer,    \* the manager's: sequencers are counted
  timers,       \* of a sequencer: intervals of its worker
  listeners,    \* sequencers whose init's visibility listener is there
  remover,      \* the one that removeVisibilityChangeListener removes
  volume,       \* Main and channels: 0 low (or silent), 1 between, 2 full
  mutes,        \* muted channels
  solo,         \* the instrument that is open
  fades,        \* in the order in which they were asked for
  inputs,
  hurried,      \* fades in, while it fades out or is paused
  abrupt        \* a channel was muted while it was being unmuted

vars == <<playmode, hidden, isRunning, sequencer, timers, listeners, remover, volume,
          mutes, solo, fades, inputs, hurried, abrupt>>

Low     == 0
Between == 1
Full    == 2
Fades(of, then) == {k \in DOMAIN fades : fades[k].of = of /\ fades[k].then = then}
FadingOut == Fades(Main, "stop") \cup Fades(Main, "tearDown") # {}

Fade(of, delay, time, to, then) ==
  [of |-> of, delay |-> delay, left |-> time, to |-> to, then |-> then]

(* Of fs those of K, in their order.                                        *)
Nth(K, n)   == CHOOSE k \in K : Cardinality({j \in K : j <= k}) = n
Only(fs, K) == [n \in 1..Cardinality(K) |-> fs[Nth(K, n)]]

(***************************************************************************)
(* The manager, as operators on m                                          *)
(***************************************************************************)
Manager == [isRunning |-> isRunning, timers |-> timers, volume |-> volume,
            listeners |-> listeners]

setVolume(m, of, v) == [m EXCEPT !.volume[of] = v]

start(m) ==
  IF m.isRunning THEN m
  ELSE [setVolume(m, Main, Low) EXCEPT !.isRunning = TRUE, !.timers[sequencer'] = @ + 1]

stop_Silent(m) == IF ~m.isRunning THEN m ELSE [m EXCEPT !.isRunning = FALSE]

(* The worker forgets its interval; if it has none nothing happens.         *)
stop(m) ==
  IF ~m.isRunning THEN m
  ELSE [m EXCEPT !.isRunning = FALSE,
                 !.timers[sequencer] = IF @ = 0 THEN 0 ELSE @ - 1]

Becomes(m) == /\ isRunning' = m.isRunning /\ timers' = m.timers
              /\ volume' = m.volume /\ listeners' = m.listeners

fadeIn(m, duration, delay) ==
  /\ Len(fades) < MaxFades
  /\ fades' = Append(fades, Fade(Main, delay, duration, Full, "nothing"))
  /\ Becomes(start(m))
  /\ hurried' = (hurried \/ FadingOut \/ (playmode = "paused" /\ playmode' = "paused"))

fadeOut(duration, then) ==
  /\ Len(fades) < MaxFades
  /\ fades' = Append(fades, Fade(Main, 0, duration, Low, then))

Input == inputs < MaxInputs /\ inputs' = inputs + 1

(***************************************************************************)
(* What the user does                                                      *)
(***************************************************************************)
(* core.start: init of the audio, whose channels the views create later;    *)
(* each is unmuted from its muted level.                                    *)
Start ==
  /\ Input /\ playmode = "off" /\ ~hidden
  /\ playmode' = "playing"
  /\ sequencer' = sequencer + 1
  /\ remover' = sequencer'
  /\ LET opened == [Manager EXCEPT !.listeners = @ \cup {sequencer'}]
         m == start(opened)
     IN  /\ Len(fades) + Cardinality(Channels) < MaxFades
         /\ Becomes([m EXCEPT !.volume = [c \in Channels \cup {Main} |->
                                            IF c = Main THEN m.volume[Main] ELSE Low]])
         /\ \E order \in [1..Cardinality(Channels) -> Channels] :
              /\ \A c \in Channels : \E k \in DOMAIN order : order[k] = c
              /\ fades' = Append(Only(fades, {k \in DOMAIN fades : fades[k].of = Main}),
                                  Fade(Main, FadeInDelay, FadeInTime, Full, "nothing"))
                          \o [k \in DOMAIN order |->
                                Fade(order[k], 0, FADE_IN_DURATION, Full, "nothing")]
         /\ hurried' = (hurried \/ FadingOut)
  /\ mutes' = {}
  /\ UNCHANGED <<hidden, solo, abrupt>>

pause ==
  /\ Input /\ playmode = "playing" /\ ~hidden /\ solo = Main
  /\ playmode' = "paused"
  /\ fadeOut(FadeOutTime, "stop")
  /\ UNCHANGED <<hidden, isRunning, sequencer, timers, listeners, remover, volume, mutes,
                 solo, hurried, abrupt>>

play ==
  /\ Input /\ playmode = "paused" /\ ~hidden
  /\ playmode' = "playing" /\ sequencer' = sequencer
  /\ fadeIn(Manager, ShortFadeIn, 0)
  /\ UNCHANGED <<hidden, remover, mutes, solo, abrupt>>

tearDown ==
  /\ Input /\ playmode # "off" /\ ~hidden /\ solo = Main
  /\ playmode' = "off"
  /\ fadeOut(ExitFadeTime, "tearDown")
  /\ UNCHANGED <<hidden, isRunning, sequencer, timers, listeners, remover, volume, mutes,
                 solo, hurried, abrupt>>

(* Each init's listener that is there stops the sound, or fades it in.      *)
onVisibilityChange ==
  /\ Input /\ sequencer > 0
  /\ hidden' = ~hidden
  /\ UNCHANGED <<playmode, sequencer>>
  /\ IF listeners = {} THEN UNCHANGED <<fades, isRunning, timers, volume, listeners, hurried>>
     ELSE IF hidden'
          THEN Becomes(stop(Manager)) /\ UNCHANGED <<fades, hurried>>
          ELSE fadeIn(Manager, FadeInTime, FadeInDelay)
  /\ UNCHANGED <<remover, mutes, solo, abrupt>>

(***************************************************************************)
(* The channels: an open instrument mutes the others                       *)
(***************************************************************************)
(* Muting fades from the channel's base volume, unmuting from its muted one. *)
Faded(cs, duration, to) ==
  \E order \in [1..Cardinality(cs) -> cs] :
    /\ \A c \in cs : \E k \in DOMAIN order : order[k] = c
    /\ fades' = fades \o [k \in DOMAIN order |-> Fade(order[k], 0, duration, to, "nothing")]

muteAllExcept(view) ==
  LET cs == (Channels \ {view}) \ mutes
  IN  /\ Len(fades) + Cardinality(cs) <= MaxFades
      /\ mutes' = mutes \cup cs
      /\ Faded(cs, FADE_OUT_DURATION, Low)
      /\ abrupt' = (abrupt \/ \E c \in cs : Fades(c, "nothing") # {})

unmuteAllExcept(view) ==
  LET cs == mutes \ {view}
  IN  /\ Len(fades) + Cardinality(cs) <= MaxFades
      /\ mutes' = mutes \ cs
      /\ volume' = [c \in DOMAIN volume |-> IF c \in cs THEN Low ELSE volume[c]]
      /\ Faded(cs, FADE_IN_DURATION, Full)

openView(view) ==
  /\ Input /\ playmode = "playing" /\ ~hidden /\ solo = Main
  /\ solo' = view
  /\ muteAllExcept(view)
  /\ UNCHANGED <<playmode, hidden, isRunning, sequencer, timers, listeners, remover, volume,
                 hurried>>

closeView ==
  /\ Input /\ solo # Main /\ ~hidden
  /\ solo' = Main
  /\ unmuteAllExcept(solo)
  /\ UNCHANGED <<playmode, hidden, isRunning, sequencer, timers, listeners, remover, hurried,
                 abrupt>>

(***************************************************************************)
(* Time                                                                    *)
(***************************************************************************)
Advanced(f) == IF f.delay > 0 THEN [f EXCEPT !.delay = @ - 1] ELSE [f EXCEPT !.left = @ - 1]
Ended(f)    == f.delay = 0 /\ f.left = 0

Sounding(of) ==
  LET moving == {k \in DOMAIN fades : fades[k].of = of /\ fades[k].delay = 0}
      last   == CHOOSE k \in moving : \A j \in moving : j <= k
  IN  IF moving = {} THEN volume[of]
      ELSE IF Ended(Advanced(fades[last])) THEN fades[last].to ELSE Between

(* After the frame's volumes, what follows the fades that have ended.       *)
Tick ==
  /\ fades # << >> /\ ~hidden
  /\ LET on  == [k \in DOMAIN fades |-> Advanced(fades[k])]
         end == {on[k].then : k \in {j \in DOMAIN on : Ended(on[j])}}
         m == [Manager EXCEPT !.volume = [c \in DOMAIN volume |-> Sounding(c)]]
         s == IF end \cap {"stop", "tearDown"} # {} THEN stop(m) ELSE m
     IN  /\ fades' = Only(on, {k \in DOMAIN on : ~Ended(on[k])})
         /\ Becomes(IF "tearDown" \in end THEN [s EXCEPT !.listeners = @ \ {remover}] ELSE s)
  /\ UNCHANGED <<playmode, hidden, sequencer, remover, mutes, solo, inputs, hurried, abrupt>>

Init ==
  /\ playmode = "off" /\ hidden = FALSE /\ isRunning = FALSE
  /\ sequencer = 0 /\ timers = [s \in 0..MaxInputs |-> 0]
  /\ listeners = {} /\ remover = 0
  /\ volume = [c \in Channels \cup {Main} |-> Full]
  /\ mutes = {} /\ solo = Main /\ fades = << >>
  /\ inputs = 0 /\ hurried = FALSE /\ abrupt = FALSE

Next ==
  \/ Start \/ pause \/ play \/ tearDown \/ onVisibilityChange
  \/ \E c \in Channels : openView(c)
  \/ closeView \/ Tick

Spec == Init /\ [][Next]_vars

------------------------------------------------------------------------------
(* Once no fade runs, the sound is on if the experiment plays and its tab   *)
(* is shown, at the full volume, of the current sequencer only, unless the  *)
(* user has resumed it before it was silent or came back to a paused page;  *)
(* and the muted instruments are the quiet ones, the others than the open   *)
(* one, unless one was muted while it was being unmuted.                    *)
OnWhilePlaying ==
  /\ isRunning <=> (playmode = "playing" /\ ~hidden)
  /\ isRunning => volume[Main] = Full
  /\ \A s \in DOMAIN timers : timers[s] = IF isRunning /\ s = sequencer THEN 1 ELSE 0
  /\ listeners = IF playmode = "off" THEN {} ELSE {sequencer}

QuietWhenMuted == \A c \in Channels : volume[c] = IF c \in mutes THEN Low ELSE Full

AudioFollows ==
  (fades = << >> /\ sequencer > 0) =>
    /\ hurried \/ OnWhilePlaying
    /\ abrupt \/ QuietWhenMuted
    /\ mutes = IF solo = Main THEN {} ELSE Channels \ {solo}

(* What that rests on: a fade of the volume of all fades it in, or is       *)
(* followed by something; of a channel the fades begin at once, ...         *)
FadeType == [of : Channels \cup {Main}, delay : Nat, left : Nat \ {0}, to : {Low, Full},
             then : {"nothing", "stop", "tearDown"}]

IsFade(f) ==
  IF f.of = Main THEN (f.then = "nothing") <=> (f.to = Full)
  ELSE f.then = "nothing" /\ f.delay = 0 /\ f.left <= FADE_IN_DURATION

SoundTypeOK ==
  /\ playmode \in {"off", "playing", "paused"}
  /\ hidden \in BOOLEAN /\ isRunning \in BOOLEAN /\ hurried \in BOOLEAN /\ abrupt \in BOOLEAN
  /\ inputs \in 0..MaxInputs /\ sequencer \in 0..inputs
  /\ timers \in [0..MaxInputs -> Nat]
  /\ volume \in [Channels \cup {Main} -> {Low, Between, Full}]
  /\ mutes \subseteq Channels
  /\ fades \in Seq(FadeType)
  /\ \A k \in DOMAIN fades : IsFade(fades[k])

(* ... the sound is on while it plays or fades out, ...                     *)
MainInv ==
  /\ playmode = "playing" =>
       /\ ~FadingOut
       /\ ~hidden => isRunning /\ (Fades(Main, "nothing") # {} \/ volume[Main] = Full)
  /\ isRunning =>
       /\ ~hidden /\ listeners = {sequencer}
       /\ \/ playmode = "playing"
          \/ playmode = "paused" /\ FadingOut
          \/ Fades(Main, "tearDown") # {}
  /\ timers = [s \in DOMAIN timers |-> IF isRunning /\ s = sequencer THEN 1 ELSE 0]
  /\ remover = sequencer
  /\ playmode # "off" => listeners = {sequencer} /\ Fades(Main, "tearDown") = {}
  /\ playmode = "off" /\ Fades(Main, "tearDown") = {} => listeners = {}
  /\ listeners \in {{}, {sequencer}}

(* ... the last fade of a channel leads to its volume and lasts longest, ...*)
OfChannel(c) == {k \in DOMAIN fades : fades[k].of = c}
Target(c)    == IF c \in mutes THEN Low ELSE Full

ChannelInv ==
  \A c \in Channels :
    \/ OfChannel(c) = {} /\ volume[c] = Target(c)
    \/ \E last \in OfChannel(c) :
         /\ fades[last].to = Target(c)
         /\ \A k \in OfChannel(c) : k <= last /\ fades[k].left <= fades[last].left

(* ... and an instrument is open only while the sound plays.                *)
SoloInv ==
  /\ mutes = IF solo = Main THEN {} ELSE Channels \ {solo}
  /\ solo # Main => solo \in Channels /\ playmode = "playing"

SoundInv ==
  /\ SoundTypeOK /\ SoloInv
  /\ ~hurried => MainInv
  /\ (~abrupt /\ sequencer > 0) => ChannelInv
===============================================================================
