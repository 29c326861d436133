------------------------------- MODULE UserData -------------------------------
(***************************************************************************)
(* What the handlers of bookmarks and surveys promise about the data of a  *)
(* user: it is one document, a request changes it in one step, and a       *)
(* session is surveyed once.                                               *)
(***************************************************************************)
EXTENDS AppData

VARIABLE data         \* content of user_data.json

Init == data \in UserDataType

Next == \E o \in Ops, s \in Sessions :
          /\ Allowed(o, s, data)
          /\ data' = Apply(o, s, data)

Spec == Init /\ [][Next]_data
===============================================================================
