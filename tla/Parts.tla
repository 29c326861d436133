--------------------------------- MODULE Parts ---------------------------------
(***************************************************************************)
(* The smaller parts of the site and of the experiment, each on its own:   *)
(* a behaviour is one of the part that Init picks, and the others stand    *)
(* still.  The part with the user updates is UserUpdates itself; the others *)
(* are instances, whose state is in v1, v2, ..., as the substitutions say. *)
(***************************************************************************)
EXTENDS UserUpdates

CONSTANTS
  Dots, LoadedStrings,             \* of the guitar
  Drums, Balls,
  Sizes,                           \* of the grid of hexagons
  Pids,                            \* of the parallelograms
  MaxNotes, MaxTakes, MaxResets,   \* BOUNDS of the instruments
  Channels, Main,                  \* of the sound, whose fades take
  ShortFadeIn, FadeInDelay, FadeInTime, FadeOutTime, ExitFadeTime,
  FADE_OUT_DURATION, FADE_IN_DURATION,
  MaxFades,                        \* BOUND
  TOTAL_BEATS, LOOK_AHEAD, SCHEDULE_AHEAD, A_16TH_NOTE_DURATION,
  MaxDelay, MaxStarts, MaxTime,    \* the last two are BOUNDS
  easeInTime, waitTime, easeOutTime,
  CountdownSecond, Minute, Hour, Day, MaxFrame,
  Targets, CountdownNow, CountdownChanges,   \* BOUNDS
  Users, Nobody,                   \* who is no user, and no card
  MaxEndpoints, MaxFailures,       \* BOUNDS
  SignIns, Calls,                  \* that need the credentials of a user
  Cards,                           \* with videos
  MaxInputs                        \* BOUND: what a user does

ASSUME PartsAssumption ==
  Nobody \notin Users \cup Cards /\ "none" \notin Drums \cup Dots

(* The strings of the composition have their pids and their dots to         *)
(* themselves.                                                              *)
ASSUME GuitarAssumption ==
  /\ IsFiniteSet(Dots) /\ IsFiniteSet(LoadedStrings)
  /\ LoadedStrings # {}
  /\ LoadedStrings \subseteq [pid : Nat, pointA : Dots, pointB : Dots]
  /\ \A s \in LoadedStrings : s.pointA # s.pointB
  /\ \A s, t \in LoadedStrings :
       s.pid = t.pid \/ {s.pointA, s.pointB} \cap {t.pointA, t.pointB} # {} => s = t

(* The worker of the sequencer ticks at least once for each beat, and no     *)
(* rarer than it looks ahead.                                               *)
ASSUME SequencerAssumption ==
  /\ TOTAL_BEATS \in Nat \ {0} /\ LOOK_AHEAD \in Nat \ {0}
  /\ SCHEDULE_AHEAD \in Nat /\ A_16TH_NOTE_DURATION \in Nat
  /\ MaxDelay \in Nat /\ MaxTime \in Nat
  /\ LOOK_AHEAD <= SCHEDULE_AHEAD /\ LOOK_AHEAD <= A_16TH_NOTE_DURATION

(* A channel is muted sooner than it is unmuted; its volume is not that of   *)
(* all.                                                                     *)
ASSUME SoundAssumption ==
  /\ IsFiniteSet(Channels) /\ Main \notin Channels /\ MaxInputs \in Nat
  /\ FadeInDelay \in Nat /\ FadeInTime \in Nat \ {0} /\ ShortFadeIn \in Nat \ {0}
  /\ FadeOutTime \in Nat \ {0} /\ ExitFadeTime \in Nat \ {0}
  /\ FADE_OUT_DURATION \in Nat \ {0} /\ FADE_IN_DURATION \in Nat \ {0}
  /\ FADE_OUT_DURATION <= FADE_IN_DURATION

(* The units of the countdown divide each other; values fade, and are shown *)
(* for less than two seconds (1.2 s is the longest on the site); a frame    *)
(* that takes longer than a second is late.                                 *)
ASSUME CountdownAssumption ==
  /\ easeInTime \in Nat /\ waitTime \in Nat /\ easeOutTime \in Nat \ {0}
  /\ MaxFrame \in Nat /\ Targets \subseteq Nat
  /\ CountdownSecond \in Nat \ {0} /\ Minute >= 3 * CountdownSecond
  /\ MaxFrame <= CountdownSecond
  /\ easeInTime + waitTime + easeOutTime + MaxFrame <= 2 * CountdownSecond
  /\ \E n \in 1..Minute : Minute = n * CountdownSecond
  /\ \E n \in 1..Hour : Hour = n * Minute
  /\ \E n \in 1..Day : Day = n * Hour

VARIABLES part, v1, v2, v3, v4, v5, v6, v7, v8, v9, v10, v11, v12, v13, v14, v15

state == <<v1, v2, v3, v4, v5, v6, v7, v8, v9, v10, v11, v12, v13, v14, v15>>

(* The variables from the k-th on, which a part has no use for.             *)
Rest15 == v15 = 0
Rest13 == v13 = 0 /\ v14 = 0 /\ Rest15
Rest12 == v12 = 0 /\ Rest13
Rest11 == v11 = 0 /\ Rest12
Rest10 == v10 = 0 /\ Rest11
Rest9  == v9 = 0 /\ Rest10
Rest8  == v8 = 0 /\ Rest9
Rest2  == v2 = 0 /\ v3 = 0 /\ v4 = 0 /\ v5 = 0 /\ v6 = 0 /\ v7 = 0 /\ Rest8
Rest1  == v1 = 0 /\ Rest2

UpdatesStand == UNCHANGED <<now, since, changes, pings, token, event, shown, belated>>

(***************************************************************************)
(* The instruments: v1 is what is recorded, v2 how often it was reset      *)
(***************************************************************************)
Recorders == INSTANCE Recorder

Guitars == INSTANCE Guitar WITH
  Loaded <- LoadedStrings,
  rec <- v1, resets <- v2, guitarStrings <- v3, dots <- v4, objects <- v5, pidPool <- v6,
  isDrawing <- v7, isUndrawing <- v8, currentDrawingPid <- v9, isDragging <- v10,
  isCountdown <- v11

Arpeggiators == INSTANCE Arpeggiator WITH
  rec <- v1, resets <- v2, currentQuadrant <- v3, cursor <- v4, target <- v5,
  isDragging <- v6, renderPause <- v7, keydown <- v8, held <- v9, stuck <- v10

DrumSets == INSTANCE Drum WITH
  rec <- v1, resets <- v2, dotEmitterObj <- v3, world <- v4, lastTarget <- v5,
  timers <- v6, isDragging <- v7, currentlyDraggingDrum_ <- v8, held <- v9, stuck <- v10

Hexagons == INSTANCE Hexagon WITH
  MaxNotes <- MaxNotes + 1,
  rec <- v1, resets <- v2, hexagons <- v3, listening <- v4, isListening <- v5,
  lastBoundsWidth <- v6, raised <- v7, renderPause <- v8

Parallelograms == INSTANCE Parallelogram WITH
  MaxTimers <- 1,
  rec <- v1, resets <- v2, scheduled <- v3, notePlaying <- v4, startTime <- v5,
  timers <- v6, listening <- v7, renderPause <- v8, rotated <- v9, held <- v10,
  stuck <- v11, unheard <- v12

(***************************************************************************)
(* The playback bus, the sound, the beats, and the countdown of the site   *)
(***************************************************************************)
Bus == INSTANCE PlaybackBus WITH
  MaxItems <- 3, MaxTime <- 2, poolChunkSize <- 2,
  heap <- v1, descriptors <- v2, currentDelta <- v3, current <- v4, looping <- v5,
  waits <- v6, emitted <- v7

Sound == INSTANCE Audio WITH
  MaxInputs <- MaxInputs + 1,
  playmode <- v1, hidden <- v2, isRunning <- v3, sequencer <- v4, timers <- v5,
  listeners <- v6, remover <- v7, volume <- v8, mutes <- v9, solo <- v10, fades <- v11,
  inputs <- v12, hurried <- v13, abrupt <- v14

Beats == INSTANCE Sequencer WITH
  currentTime <- v1, isRunning <- v2, nextNoteTime <- v3, current16thNote <- v4,
  tickAt <- v5, ticks <- v6, starts <- v7, first <- v8, handed <- v9

Countdown == INSTANCE CountdownTimer WITH
  Second <- CountdownSecond, MaxNow <- CountdownNow, MaxChanges <- CountdownChanges,
  now <- v1, targetDate <- v2, startTime <- v3, value <- v4, lastDrawn <- v5,
  nextValue <- v6, needToFreeze <- v7, color <- v8, running <- v9, frames <- v10,
  sinceFrame <- v11, lastThreshold <- v12, over <- v13, late <- v14, changes <- v15

(***************************************************************************)
(* The browser's push subscription                                         *)
(***************************************************************************)
SW == INSTANCE SWToken WITH
  None <- Nobody,
  account <- v1, subscription <- v2, endpoints <- v3, token <- v4, notify <- v5,
  registered <- v6, dontAutoSubscribe <- v7, chains <- v8, inputs <- v9, failures <- v10,
  disturbed <- v11

(***************************************************************************)
(* The credentials of a user                                               *)
(***************************************************************************)
Creds == INSTANCE Credentials WITH
  None <- Nobody,
  known <- v1, stored <- v2, used <- v3, revoked <- v4, step <- v5, draft <- v6,
  moved <- v7, call <- v8, copy <- v9, stale <- v10, last <- v11, crossed <- v12

(***************************************************************************)
(* The cards with videos                                                   *)
(***************************************************************************)
Videos == INSTANCE VideoCard WITH
  None <- Nobody,
  page <- v1, currentCard <- v2, fullscreenVideoActive <- v3, nav <- v4, frames <- v5,
  player <- v6, takeovers <- v7, inputs <- v8, crossed <- v9

Instruments == {"guitar", "arpeggiator", "drum", "hexagon", "parallelogram"}

------------------------------------------------------------------------------
PartInit ==
  \/ part = "updates"       /\ Rest1
  \/ part = "guitar"        /\ Guitars!Init        /\ Rest12
  \/ part = "arpeggiator"   /\ Arpeggiators!Init   /\ Rest11
  \/ part = "drum"          /\ DrumSets!Init       /\ Rest11
  \/ part = "hexagon"       /\ Hexagons!Init       /\ Rest9
  \/ part = "parallelogram" /\ Parallelograms!Init /\ Rest13
  \/ part = "bus"           /\ Bus!Init            /\ Rest8
  \/ part = "sound"         /\ Sound!Init          /\ Rest15
  \/ part = "beats"         /\ Beats!Init           /\ Rest10
  \/ part = "subscription"  /\ SW!Init    /\ Rest12
  \/ part = "credentials"   /\ Creds!Init           /\ Rest13
  \/ part = "video"         /\ Videos!Init          /\ Rest10
  \/ part = "countdown"     /\ Countdown!Init

PartNext ==
  /\ UpdatesStand
  /\ UNCHANGED part
  /\ \/ part = "guitar" /\ Guitars!Next
        /\ UNCHANGED <<v12, v13, v14, v15>>
     \/ part = "arpeggiator" /\ Arpeggiators!Next
        /\ UNCHANGED <<v11, v12, v13, v14, v15>>
     \/ part = "drum" /\ DrumSets!Next
        /\ UNCHANGED <<v11, v12, v13, v14, v15>>
     \/ part = "hexagon" /\ Hexagons!Next
        /\ UNCHANGED <<v9, v10, v11, v12, v13, v14, v15>>
     \/ part = "parallelogram" /\ Parallelograms!Next
        /\ UNCHANGED <<v13, v14, v15>>
     \/ part = "bus" /\ Bus!Next
        /\ UNCHANGED <<v8, v9, v10, v11, v12, v13, v14, v15>>
     \/ part = "sound" /\ Sound!Next
        /\ UNCHANGED <<v15>>
     \/ part = "beats" /\ Beats!Next
        /\ UNCHANGED <<v10, v11, v12, v13, v14, v15>>
     \/ part = "subscription" /\ SW!Next
        /\ UNCHANGED <<v12, v13, v14, v15>>
     \/ part = "credentials" /\ Creds!Next
        /\ UNCHANGED <<v13, v14, v15>>
     \/ part = "video" /\ Videos!Next
        /\ UNCHANGED <<v10, v11, v12, v13, v14, v15>>
     \/ part = "countdown" /\ Countdown!Next

PartsInit == Init /\ PartInit /\ (part # "updates" => now = 0)

PartsNext == \/ part = "updates" /\ Next /\ UNCHANGED <<part, state>>
             \/ PartNext

PartsSpec == PartsInit /\ [][PartsNext]_<<vars, part, state>>

------------------------------------------------------------------------------
(* A contracted instrument plays its track, what is saved of it is what is  *)
(* played, and a hexagon's composition begins with it (its notes are        *)
(* written whether or not it records).                                      *)
RecordedIsPlayed ==
  /\ part \in Instruments => Recorders!PlaysItsTrack(v1)
  /\ part \in Instruments \ {"hexagon"} => Recorders!SharesItsTrack(v1)
  /\ part = "hexagon" => Hexagons!BeginsWithItsTrack

(* Strings and the dots they are strung between refer to each other,        *)
(* instruments sound, and drums are dragged, while they are held, hexagons  *)
(* can be clicked whenever their grid was built, and a video that has the   *)
(* screen can be closed.                                                    *)
FollowsTheHands ==
  /\ part = "guitar"        => Guitars!StringsMeetDots
  /\ part = "arpeggiator"   => Arpeggiators!OnlyWhileHeld
  /\ part = "drum"          => DrumSets!OneDrumAtATime
  /\ part = "parallelogram" => Parallelograms!NotesEnd
  /\ part = "hexagon"       => Hexagons!HexagonsListen
  /\ part = "video"         => Videos!BarIsThere

(* The bus loses and repeats no sound and no beat.                          *)
BusKeepsAll == part = "bus" => Bus!BusKeepsAll

(* The sound is on when the experiment plays, and only then; and its beats  *)
(* are in time.                                                             *)
AudioFollows ==
  /\ part = "sound" => Sound!AudioFollows
  /\ part = "beats" => Beats!BeatsInTime

(* The browser is subscribed, and its service worker asks for the updates   *)
(* of, the user who is signed in.                                           *)
SubscriptionFollowsUser == part = "subscription" => SW!SubscriptionFollowsUser

(* The refresh token of the last sign-in is kept until it is revoked,       *)
(* unless a call has written back an older copy.                            *)
GrantIsKept == part = "credentials" => Creds!GrantIsKept

(* The countdown tells of its end, once it is there, if the end did not     *)
(* fall into a value that was shown for longer than a second.               *)
EndIsAnnounced == part = "countdown" => Countdown!EndIsAnnounced
===============================================================================
