------------------------------ MODULE AppFolder -------------------------------
(***************************************************************************)
(* The data of one user in the application folder of Google Drive          *)
(* (backend/gdrive.go), as bookmarkSessions, unbookmarkSessions            *)
(* (backend/schedule.go) and addSessionSurvey (backend/survey.go) change   *)
(* it.                                                                     *)
(*                                                                         *)
(* A request finds the ID and etag of user_data.json in the datastore or,  *)
(* failing that, by a search of Drive; it reads the file, changes the      *)
(* document and uploads it on condition that the etag is still the same.   *)
(* If it is not, it tries once more with the metadata of Drive.  A user    *)
(* without a file gets one.                                                *)
(*                                                                         *)
(* A document of an Android user also carries a key, for which a           *)
(* ping-ext task is enqueued after the upload; that is left out.           *)
(*                                                                         *)
(* Drive is external: it gives each write an etag of its own, and its      *)
(* modification dates order the writes, so one number stands for both.     *)
(***************************************************************************)
EXTENDS Integers, Sequences, AppData

CONSTANTS Requests,     \* requests of the user, each handled once
          Faults        \* which of the faults below may happen

(* "rpc": a call fails; "lost": an upload succeeds but its answer is lost;  *)
(* "meta": the datastore fails to get or to put the metadata.               *)
ASSUME AppFolderAssumption == Faults \subseteq {"rpc", "lost", "meta"}

VARIABLES
  files,      \* the user_data.json files of the user; the index is the FileID
  writes,     \* the last etag that Drive has given
  meta,       \* kindAppFolder entity: FileID and Etag, FileID 0 for none
  pc,         \* where each request waits
  op, sid,    \* what each request asks for
  fresh,      \* is this its second try?
  fid, etag,  \* metadata a request works with, FileID 0 for no file
  doc,        \* the document a request uploads
  result      \* the answer

drive   == <<files, writes>>
request == <<pc, op, sid, fresh, fid, etag, doc, result>>
vars    == <<files, writes, meta, pc, op, sid, fresh, fid, etag, doc, result>>

NoMeta == [fid |-> 0, etag |-> 0]

Fault(f) == f \in Faults

(* The user has no file yet, or one with metadata that are missing, good or *)
(* old.                                                                     *)
Init ==
  /\ files \in {<<>>, <<[etag |-> 1, data |-> NewUser]>>}
  /\ writes = Len(files)
  /\ meta \in {NoMeta} \cup [fid : 1..Len(files), etag : {0, 1}]
  /\ pc = [p \in Requests |-> "local"]
  /\ op \in [Requests -> Ops]
  /\ sid \in [Requests -> Sessions]
  /\ fresh = [p \in Requests |-> FALSE]
  /\ fid = [p \in Requests |-> 0]
  /\ etag = [p \in Requests |-> 0]
  /\ doc = [p \in Requests |-> NewUser]
  /\ result = [p \in Requests |-> "none"]

-----------------------------------------------------------------------------
Goto(p, label) == pc' = [pc EXCEPT ![p] = label]

Use(p, f, e) ==
  /\ fid' = [fid EXCEPT ![p] = f]
  /\ etag' = [etag EXCEPT ![p] = e]

(* The answer is sent; the variables of the handler are gone.               *)
Finish(p, r) ==
  /\ Goto(p, "done")
  /\ result' = [result EXCEPT ![p] = r]
  /\ doc' = [doc EXCEPT ![p] = NewUser]
  /\ Use(p, 0, 0)

(* Mutant: a survey is added without looking whether it is there.           *)
Modify_Unchecked(p, f, e, d) ==
  /\ Goto(p, "put")
  /\ Use(p, f, e)
  /\ doc' = [doc EXCEPT ![p] = Apply(op[p], sid[p], d)]
  /\ UNCHANGED result

(* The request changes the document d that it has got from file f with      *)
(* etag e.                                                                  *)
Modify(p, f, e, d) ==
  IF Allowed(op[p], sid[p], d)
    THEN /\ Goto(p, "put")
         /\ Use(p, f, e)
         /\ doc' = [doc EXCEPT ![p] = Apply(op[p], sid[p], d)]
         /\ UNCHANGED result
    ELSE Finish(p, "rejected")

(* getAppFolderData: the metadata saved by an earlier request, if any.      *)
LocalMeta(p) ==
  /\ pc[p] = "local"
  /\ \/ /\ meta.fid # 0
        /\ Use(p, meta.fid, meta.etag)
        /\ Goto(p, "content")
     \/ /\ meta.fid = 0 \/ Fault("meta")
        /\ Goto(p, "search")
        /\ UNCHANGED <<fid, etag>>
  /\ UNCHANGED <<drive, meta, op, sid, fresh, doc, result>>

(* The most recently modified file.                                         *)
Latest == {f \in 1..Len(files) :
             \A g \in 1..Len(files) : files[g].etag <= files[f].etag}

(* fetchAppFolderMeta: the latest file, or the bookmarks of a new user.     *)
FetchMeta(p) ==
  /\ pc[p] = "search"
  /\ IF files = <<>>
       THEN Modify(p, 0, 0, NewUser)
       ELSE /\ \E f \in Latest : Use(p, f, files[f].etag)
            /\ Goto(p, "content")
            /\ UNCHANGED <<doc, result>>
  /\ UNCHANGED <<drive, meta, op, sid, fresh>>

(* The content is read after the metadata, and may be newer.                *)
GetContent(p) ==
  /\ pc[p] = "content"
  /\ Modify(p, fid[p], etag[p], files[fid[p]].data)
  /\ UNCHANGED <<drive, meta, op, sid, fresh>>

-----------------------------------------------------------------------------
(* storeAppFolderData                                                       *)

(* The upload has been written; unless the answer is lost the request goes  *)
(* on to save the metadata.                                                 *)
Written(p, f) ==
  /\ writes' = writes + 1
  /\ \/ Use(p, f, writes + 1) /\ Goto(p, "save") /\ UNCHANGED <<doc, result>>
     \/ Fault("lost") /\ Finish(p, "error")
  /\ UNCHANGED <<meta, op, sid, fresh>>

(* createAppFolderData: unconditional.                                      *)
Create(p) ==
  /\ pc[p] = "put"
  /\ fid[p] = 0
  /\ files' = Append(files, [etag |-> writes + 1, data |-> doc[p]])
  /\ Written(p, Len(files) + 1)

(* Mutant: the upload is unconditional.                                     *)
Update_Blind(p) ==
  /\ pc[p] = "put"
  /\ fid[p] # 0
  /\ files' = [files EXCEPT ![fid[p]] = [etag |-> writes + 1, data |-> doc[p]]]
  /\ Written(p, fid[p])

(* updateAppFolderData: If-Match.                                           *)
Update(p) ==
  /\ pc[p] = "put"
  /\ fid[p] # 0
  /\ files[fid[p]].etag = etag[p]
  /\ files' = [files EXCEPT ![fid[p]] = [etag |-> writes + 1, data |-> doc[p]]]
  /\ Written(p, fid[p])

(* Mutant: the request is repeated as it was, with the saved metadata.      *)
Conflict_Repeats(p) ==
  /\ pc[p] = "put"
  /\ fid[p] # 0
  /\ files[fid[p]].etag # etag[p]
  /\ Goto(p, "local")
  /\ Use(p, 0, 0)
  /\ doc' = [doc EXCEPT ![p] = NewUser]
  /\ UNCHANGED <<drive, meta, op, sid, fresh, result>>

(* errConflict: the first time, the request starts again with Drive's       *)
(* metadata; the second time it gives up.                                   *)
Conflict(p) ==
  /\ pc[p] = "put"
  /\ fid[p] # 0
  /\ files[fid[p]].etag # etag[p]
  /\ IF fresh[p]
       THEN Finish(p, "conflict") /\ UNCHANGED fresh
       ELSE /\ fresh' = [fresh EXCEPT ![p] = TRUE]
            /\ Goto(p, "search")
            /\ Use(p, 0, 0)
            /\ doc' = [doc EXCEPT ![p] = NewUser]
            /\ UNCHANGED result
  /\ UNCHANGED <<drive, meta, op, sid>>

(* storeLocalAppFolderMeta: its error is only logged.                       *)
SaveMeta(p) ==
  /\ pc[p] = "save"
  /\ \/ meta' = [fid |-> fid[p], etag |-> etag[p]]
     \/ Fault("meta") /\ meta' = meta
  /\ Finish(p, "ok")
  /\ UNCHANGED <<drive, op, sid, fresh>>

(* A call fails and its error is the answer.                                *)
Fail(p) ==
  /\ pc[p] \in {"search", "content", "put"}
  /\ Fault("rpc")
  /\ Finish(p, "error")
  /\ UNCHANGED <<drive, meta, op, sid, fresh>>

Handle(p) == \/ LocalMeta(p) \/ FetchMeta(p) \/ GetContent(p)
             \/ Create(p) \/ Update(p) \/ Conflict(p) \/ SaveMeta(p)

Next == \E p \in Requests : Handle(p) \/ Fail(p)

Spec == Init /\ [][Next]_vars

(* A request that is being handled is handled to its end.                   *)
FairSpec == Spec /\ \A p \in Requests : WF_vars(Handle(p))

-----------------------------------------------------------------------------
(* Type invariant.                                                          *)
TypeOK ==
  /\ files \in Seq([etag : Nat, data : UserDataType])
  /\ writes \in Nat
  /\ meta \in [fid : 0..Len(files), etag : Nat]
  /\ pc \in [Requests -> {"local", "search", "content", "put", "save", "done"}]
  /\ op \in [Requests -> Ops]
  /\ sid \in [Requests -> Sessions]
  /\ fresh \in [Requests -> BOOLEAN]
  /\ fid \in [Requests -> 0..Len(files)]
  /\ etag \in [Requests -> Nat]
  /\ doc \in [Requests -> UserDataType]
  /\ result \in [Requests -> {"none", "ok", "rejected", "conflict", "error"}]

(* A file changes only by the operation of one request applied to what the  *)
(* file says at that moment: no request overwrites what another has written *)
(* since it read the file.                                                  *)
NoLostUpdate ==
  [][\A f \in 1..Len(files) :
       files'[f].data # files[f].data =>
         \E p \in Requests :
           /\ pc[p] = "put"
           /\ files'[f].data = Apply(op[p], sid[p], files[f].data)]_vars

(* "prevent double submission" (addSessionSurvey): of the requests that     *)
(* record a survey of a session, one succeeds.                              *)
SurveyOnce ==
  \A p, q \in Requests :
    (/\ op[p] = "survey" /\ op[q] = "survey" /\ sid[p] = sid[q]
     /\ result[p] = "ok" /\ result[q] = "ok") => p = q

(* While Drive holds one file of the user, a session is surveyed once,      *)
(* whatever the requests, their metadata and the faults.                    *)
OneFileOneSurvey == Len(files) <= 1 => SurveyOnce

(* The requests that reach the user's first file, or create it, are atomic  *)
(* changes of its document, whatever metadata they start from.              *)
User == INSTANCE UserData
          WITH data <- IF files = <<>> THEN NewUser ELSE files[1].data

UserSpec == User!Spec

(* Every request is answered; two tries are all it ever takes.              *)
Answered == <>(\A p \in Requests : pc[p] = "done")
===============================================================================
