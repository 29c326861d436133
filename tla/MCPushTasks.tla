----------------------------- MODULE MCPushTasks ------------------------------
(***************************************************************************)
(* Values for checking PushTasks: users who have GCM devices since the     *)
(* days of registration IDs, and one who has a device of each kind but     *)
(* notifications off.                                                      *)
(***************************************************************************)
EXTENDS PushTasks

CONSTANTS u1, u2, s1, s2

Mixed  == [on |-> TRUE, urls |-> <<Bare, 3>>, subs |-> <<1>>]
Twins  == [on |-> TRUE, urls |-> <<Bare, Bare>>, subs |-> <<1, 2>>]
Modern == [on |-> FALSE, urls |-> <<1, 3>>, subs |-> <<>>]

(* One user has to be upgraded and is notified, one has notifications off.  *)
SomeStarts == {Mixed, Modern}
AllStarts == {Mixed, Twins, Modern}

MCBookmarks == [u \in Users |-> IF u = u1 THEN {s1} ELSE {s2}]
===============================================================================
