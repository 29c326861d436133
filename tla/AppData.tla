------------------------------- MODULE AppData --------------------------------
(***************************************************************************)
(* The content of user_data.json (appFolderData in backend/gdrive.go) and  *)
(* what the handlers of bookmarks (backend/schedule.go) and of surveys     *)
(* (backend/survey.go) do to it.                                           *)
(***************************************************************************)
CONSTANTS Sessions,   \* session IDs
          Default     \* defaultBookmarks

ASSUME DefaultAssumption == Default \subseteq Sessions

Ops == {"bookmark", "unbookmark", "survey"}

UserDataType == [bookmarks : SUBSET Sessions, survey : SUBSET Sessions]

(* The document of a user who has no file.                                  *)
NewUser == [bookmarks |-> Default, survey |-> {}]

(* unique(append(...)), subslice(...) and append(data.Survey, sid).         *)
Apply(o, s, d) ==
  CASE o = "bookmark"   -> [d EXCEPT !.bookmarks = @ \cup {s}]
    [] o = "unbookmark" -> [d EXCEPT !.bookmarks = @ \ {s}]
    [] o = "survey"     -> [d EXCEPT !.survey = @ \cup {s}]

(* A second survey of a session is refused, with errBadData.                *)
Allowed(o, s, d) == o = "survey" => s \notin d.survey
===============================================================================
