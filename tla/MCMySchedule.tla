---------------------------- MODULE MCMySchedule -----------------------------
(***************************************************************************)
(* Values for checking MySchedule: two people who use the page one after   *)
(* the other, of whom the first has saved and rated a session, and has     *)
(* left requests to save two of them in the queue, in an earlier visit.    *)
(***************************************************************************)
EXTENDS MySchedule

MCUsers    == {"ann", "bob"}
MCSessions == {"s", "t"}
MCSaved    == [u \in MCUsers |-> [res \in Resources |->
                                    IF u = "ann" THEN {"s"} ELSE {}]]
MCUnsent   == [u \in MCUsers |-> IF u = "ann" THEN MCSessions ELSE {}]
===============================================================================
