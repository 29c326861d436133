----------------------------- MODULE MCEventSync ------------------------------
(***************************************************************************)
(* Values for checking EventSync: the schedules that are published.  In    *)
(* each the first session may come and go, the second may change.          *)
(***************************************************************************)
EXTENDS EventSync, TLC

CONSTANTS s1, s2, a, b

Swap(d) == [s \in Sessions |-> IF s = s1 THEN d[1] ELSE d[2]]

MCFeeds == {Swap(d) : d \in {<<a, a>>, <<b, a>>, <<Absent, b>>}}

Symmetry == Permutations(Requests) \cup Permutations(Shards)
==============================================================================
