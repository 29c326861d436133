------------------------------ MODULE EventData ------------------------------
(***************************************************************************)
(* The schedule of the event as the backend stores and compares it         *)
(* (backend/schedule.go).                                                   *)
(*                                                                         *)
(* A schedule maps session IDs to their content.  A content stands for all *)
(* the fields of eventSession that compareSessions tells apart; a session  *)
(* that a schedule lacks has content Absent.  Speakers and videos are      *)
(* diffed by the same rule and are not repeated.                           *)
(***************************************************************************)
EXTENDS Naturals, Sequences

CONSTANTS Sessions,   \* session IDs
          Contents,   \* what a session can say
          Absent,     \* the schedule has no such session
          Times       \* last-modified times of the schedule, in seconds

ASSUME ScheduleAssumption ==
  /\ Absent \notin Contents
  /\ Times \subseteq Nat

Data == [Sessions -> Contents \cup {Absent}]

(* eventData: content with the modification time it was published at.       *)
eventData == [modified : Times, data : Data]

Present(d) == {s \in Sessions : d[s] # Absent}

isEmptyEventData(d) == Present(d) = {}

(* Mutant: the sessions that are new are taken for the changed ones.        *)
diffEventData_Added(a, b) == Present(b) \ Present(a)

(* Only sessions that both schedules have can be in the diff: an added or a *)
(* removed session is not a change.                                         *)
diffEventData(a, b) == {s \in Present(a) \cap Present(b) : a[s] # b[s]}
==============================================================================
