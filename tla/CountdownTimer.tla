---------------------------- MODULE CountdownTimer ----------------------------
(***************************************************************************)
(* The countdown of the site's pages (elements/countdown-timer/            *)
(* countdown-timer.js, and the element of countdown-timer.html that        *)
(* configures, starts and hears it).  A value eases in, waits, eases out,  *)
(* and the next one is computed, until the target date is over; the frames *)
(* are those of the browser, which paints none of a hidden page.           *)
(***************************************************************************)
EXTENDS Integers, Sequences

CONSTANTS easeInTime, waitTime, easeOutTime,
          Second, Minute, Hour, Day,   \* in units of time
          MaxFrame,                    \* BOUND: between two frames
          Targets,                     \* BOUND: target dates
          MaxNow,                      \* BOUND: time
          MaxChanges                   \* BOUND: how often the date changes

VARIABLES
  now,
  targetDate,
  startTime,       \* animationStartTime_
  value,           \* currentCountdownValue_
  lastDrawn,
  nextValue,       \* what the renderer freezes unchanging digits for
  needToFreeze,
  color,           \* of the last ripple, an index of Rundown
  running,         \* animationRunning_
  frames,          \* requested animation frames
  sinceFrame,
  lastThreshold,   \* "Ended" was dispatched
  over,            \* the animation has stopped at the target date
  late,            \* time has passed without a frame to draw, before that
  changes

animation == <<startTime, needToFreeze, running, frames>>
shown     == <<value, lastDrawn, nextValue, color>>
vars == <<now, targetDate, shown, animation, sinceFrame, lastThreshold, over, late, changes>>

convertMilliseconds(ms) ==
  [days    |-> ms \div Day,
   hours   |-> (ms % Day) \div Hour,
   minutes |-> ((ms % Day) % Hour) \div Minute,
   seconds |-> (((ms % Day) % Hour) % Minute) \div Second]

Zero   == convertMilliseconds(0)
Left(t) == IF t > now THEN t - now ELSE 0   \* Math.max(0, t - Date.now())
Seconds(v) == (v.days * Day + v.hours * Hour + v.minutes * Minute) \div Second + v.seconds

(* The colours of the last minute: of the first threshold that is crossed.  *)
Thresholds == <<30, 20, 10, 8, 6, 4, 3, 2, 1>>

crossedThreshold(old, new, threshold) == old.seconds > threshold /\ new.seconds <= threshold

scheduleRendererRipple(old, new) ==
  LET crossed == {k \in DOMAIN Thresholds : crossedThreshold(old, new, Thresholds[k])}
  IN  IF old = new THEN color
      ELSE IF new.days = 0 /\ new.hours = 0 /\ new.minutes = 0
      THEN IF old.minutes = 1 THEN 1
           ELSE IF crossed # {} THEN (CHOOSE k \in crossed : \A j \in crossed : k <= j) + 1
           ELSE IF new.seconds = 0 THEN 11 ELSE color
      ELSE IF new.minutes # old.minutes THEN 0 ELSE color

setCountdownValues(target) ==
  /\ lastDrawn' = value
  /\ value' = convertMilliseconds(Left(target))
  /\ color' = scheduleRendererRipple(lastDrawn', value')

start == IF running THEN UNCHANGED <<running, frames>>
         ELSE running' = TRUE /\ frames' = frames + 1

WaitStart    == startTime + easeInTime
EaseOutStart == WaitStart + waitTime
EaseOutEnd   == EaseOutStart + easeOutTime

freezeRendererForUnchangingDigits ==
  IF needToFreeze /\ now > WaitStart
  THEN nextValue' = convertMilliseconds(Left(targetDate - (easeOutTime + waitTime)))
  ELSE UNCHANGED nextValue

dispatchThresholdEvent ==
  lastThreshold' = (lastThreshold \/ (now > EaseOutStart /\ value = Zero))

(* A frame that does not draw a value that is zero.                         *)
continueAnimation_Early ==
  IF targetDate < now + Second
  THEN /\ running' = FALSE /\ frames' = frames - 1
       /\ over' = TRUE
       /\ needToFreeze' = (needToFreeze /\ now <= WaitStart)
       /\ UNCHANGED <<startTime, value, lastDrawn, color>>
  ELSE /\ setCountdownValues(targetDate)
       /\ needToFreeze' = TRUE
       /\ startTime' = now
       /\ running' = TRUE
       /\ UNCHANGED <<frames, over>>

(* The next value, if there is time left.                                   *)
continueAnimation ==
  IF targetDate < now
  THEN /\ running' = FALSE /\ frames' = frames - 1
       /\ over' = TRUE
       /\ needToFreeze' = (needToFreeze /\ now <= WaitStart)
       /\ UNCHANGED <<startTime, value, lastDrawn, color>>
  ELSE /\ setCountdownValues(targetDate)
       /\ needToFreeze' = TRUE
       /\ startTime' = now
       /\ running' = TRUE
       /\ UNCHANGED <<frames, over>>

(* A frame.  One that was requested before the animation stopped does       *)
(* nothing, if it has not been started again by then.                       *)
update ==
  /\ frames > 0
  /\ sinceFrame' = 0
  /\ IF ~running
     THEN /\ frames' = frames - 1
          /\ UNCHANGED <<shown, startTime, needToFreeze, running, lastThreshold, over>>
     ELSE /\ freezeRendererForUnchangingDigits
          /\ dispatchThresholdEvent
          /\ IF now <= startTime \/ now >= EaseOutEnd
             THEN continueAnimation
             ELSE /\ needToFreeze' = (needToFreeze /\ now <= WaitStart)
                  /\ UNCHANGED <<startTime, running, frames, value, lastDrawn, color, over>>
  /\ UNCHANGED <<now, targetDate, late, changes>>

------------------------------------------------------------------------------
(* Time passes, from frame to frame; or while the page is hidden, or the    *)
(* animation stopped.                                                       *)
Tick ==
  /\ now < MaxNow /\ now' = now + 1
  /\ late' = (late \/ (running /\ sinceFrame >= MaxFrame) \/ (~running /\ ~over))
  /\ sinceFrame' = IF frames > 0 /\ sinceFrame < MaxFrame THEN sinceFrame + 1 ELSE 0
  /\ UNCHANGED <<targetDate, shown, animation, lastThreshold, over, changes>>

(* It starts at once, or when the user scrolls to it.                       *)
Start == /\ ~running
         /\ frames < 2
         /\ start
         /\ UNCHANGED <<now, targetDate, shown, startTime, needToFreeze, sinceFrame,
                        lastThreshold, over, late, changes>>

Stop == /\ running /\ running' = FALSE
        /\ late' = (late \/ ~over)
        /\ UNCHANGED <<now, targetDate, shown, startTime, needToFreeze, frames, sinceFrame,
                       lastThreshold, over, changes>>

(* Another date, also while it runs: that the end was dispatched is kept.   *)
configure(target) ==
  /\ changes < MaxChanges /\ changes' = changes + 1
  /\ targetDate' = target
  /\ setCountdownValues(target)
  /\ startTime' = now
  /\ UNCHANGED <<now, nextValue, needToFreeze, running, frames, sinceFrame, lastThreshold,
                 over, late>>

Init ==
  /\ now = 0
  /\ targetDate \in Targets
  /\ startTime = 0
  /\ value = convertMilliseconds(targetDate) /\ lastDrawn = Zero
  /\ nextValue = Zero /\ needToFreeze = TRUE
  /\ color = 0 /\ running = FALSE /\ frames = 0 /\ sinceFrame = 0
  /\ lastThreshold = FALSE /\ over = FALSE /\ late = FALSE /\ changes = 0

Next == update \/ Tick \/ Start \/ Stop \/ \E t \in Targets : configure(t)

Spec == Init /\ [][Next]_vars

------------------------------------------------------------------------------
(* The last value was of a second or more, and was still shown at the date. *)
EndFellOut ==
  LET left == targetDate - startTime
  IN  Second <= left /\ left < easeInTime + waitTime + easeOutTime + MaxFrame

(* A countdown that was drawn all the time announces its end, in its last   *)
(* second, by when the last colour was shown, or the one before it if the   *)
(* value went from two seconds to none.  It does not announce it only if    *)
(* the date came before the value after one of at least a second was drawn: *)
(* only values that are shown for longer than a second miss it.  The digits *)
(* that were frozen are those of the next value, to a second.               *)
EndIsAnnounced ==
  (~late /\ changes = 0) =>
    /\ over => lastThreshold \/ EndFellOut
    /\ lastThreshold => now + Second > targetDate
    /\ lastThreshold => color \in {0, 10, 11}
    /\ (needToFreeze /\ startTime > 0) => Seconds(value) - Seconds(nextValue) \in (-1) .. 1

(* What that rests on.  The value is what was left when it began to ease    *)
(* in; the last colour came with zero, ...                                  *)
CycleInv ==
  /\ startTime <= now /\ startTime <= targetDate
  /\ value = convertMilliseconds(targetDate - startTime)
  /\ value = Zero => color \in {0, 10, 11}
  /\ lastThreshold => value = Zero
  /\ over => targetDate < now /\ (lastThreshold \/ EndFellOut)

(* ... it has been drawn since, the last time before it was eased out, ...  *)
FrameInv ==
  /\ sinceFrame <= MaxFrame /\ sinceFrame <= now
  /\ running => frames > 0
  /\ over \/ running \/ now = 0
  /\ over \/ now - sinceFrame = startTime \/ now - sinceFrame < EaseOutEnd

(* ... and the next value is that at the end of this one, as far as could   *)
(* be told from the first frame after the value had eased in.               *)
FreezeInv ==
  IF needToFreeze
  THEN /\ ~over /\ now - sinceFrame <= WaitStart
       /\ startTime > 0 =>
            \E left \in Nat : /\ nextValue = convertMilliseconds(left)
                              /\ left - (targetDate - startTime) \in (-Second) .. Second
  ELSE over \/ \E at \in 0..now :
                 /\ WaitStart < at /\ at <= WaitStart + MaxFrame
                 /\ LET end == at + waitTime + easeOutTime
                    IN  nextValue = convertMilliseconds(IF targetDate > end
                                                        THEN targetDate - end ELSE 0)

CountdownTypeOK ==
  /\ now \in Nat /\ targetDate \in Nat /\ startTime \in Nat
  /\ frames \in Nat /\ sinceFrame \in Nat /\ changes \in Nat
  /\ needToFreeze \in BOOLEAN /\ running \in BOOLEAN /\ lastThreshold \in BOOLEAN
  /\ over \in BOOLEAN /\ late \in BOOLEAN

CountdownInv ==
  /\ CountdownTypeOK
  /\ (~late /\ changes = 0) => CycleInv /\ FrameInv /\ FreezeInv
===============================================================================
