--------------------------- MODULE AppFolderProofs ---------------------------
(***************************************************************************)
(* Theorems about AppFolder, for any number of requests and sessions and   *)
(* with any of the faults: no update is lost, the requests that reach the  *)
(* first file of a user are atomic changes of its document, and a session  *)
(* is surveyed once while there is one file.                               *)
(***************************************************************************)
EXTENDS AppFolder, TLAPS

File == [etag : Nat, data : UserDataType]

(* Nobody holds an etag that Drive has not given yet.                       *)
EtagInv ==
  /\ \A f \in 1..Len(files) : files[f].etag <= writes
  /\ meta.etag <= writes
  /\ \A p \in Requests : etag[p] <= writes

(* The heart of the optimistic protocol: as long as the etag that a request *)
(* holds is the file's, what it is about to upload is its operation applied *)
(* to what the file says; a new file is that of a new user.                 *)
Based(p) ==
  /\ (pc[p] = "put" /\ fid[p] # 0 /\ files[fid[p]].etag = etag[p]) =>
       /\ Allowed(op[p], sid[p], files[fid[p]].data)
       /\ doc[p] = Apply(op[p], sid[p], files[fid[p]].data)
  /\ (pc[p] = "put" /\ fid[p] = 0) =>
       /\ Allowed(op[p], sid[p], NewUser)
       /\ doc[p] = Apply(op[p], sid[p], NewUser)

BaseInv == \A p \in Requests : Based(p) /\ (pc[p] = "content" => fid[p] # 0)

Inv == TypeOK /\ EtagInv /\ BaseInv

LEMMA ApplyType ==
  ASSUME NEW o \in Ops, NEW s \in Sessions, NEW d \in UserDataType
  PROVE  Apply(o, s, d) \in UserDataType
BY DEF Apply, Ops, UserDataType

LEMMA InvInit == Init => Inv
<1> SUFFICES ASSUME Init PROVE Inv
  OBVIOUS
<1>1. NewUser \in UserDataType
  BY DefaultAssumption DEF NewUser, UserDataType
<1>2. CASE files = <<[etag |-> 1, data |-> NewUser]>>
  <2>1. files = <<[etag |-> 1, data |-> NewUser]>> /\ writes = 1
    BY <1>2 DEF Init
  <2>2. files \in Seq([etag : Nat, data : UserDataType]) /\ Len(files) = 1
        /\ files[1].etag = 1
    BY <1>1, <2>1
  <2> QED  BY <1>1, <1>2, <2>1, <2>2
           DEF Init, Inv, TypeOK, EtagInv, BaseInv, Based, NoMeta
<1>3. CASE files = <<>>
  <2>1. files = <<>> /\ writes = 0 /\ Len(files) = 0
    BY <1>3 DEF Init
  <2> QED  BY <1>1, <1>3, <2>1
           DEF Init, Inv, TypeOK, EtagInv, BaseInv, Based, NoMeta
<1> QED  BY <1>2, <1>3 DEF Init

(* What every step does to the request that takes it, and to no other.      *)
OnlyRequest(p) ==
  \A q \in Requests \ {p} :
    /\ pc'[q] = pc[q] /\ fid'[q] = fid[q] /\ etag'[q] = etag[q]
    /\ doc'[q] = doc[q]

(* A request that another one leaves alone stays based on its file: a write *)
(* gives the file an etag that nobody holds.                                *)
LEMMA BasedFrame ==
  ASSUME Inv, NEW q \in Requests,
         pc'[q] = pc[q], fid'[q] = fid[q], etag'[q] = etag[q],
         doc'[q] = doc[q], op' = op, sid' = sid,
         \A f \in 1..Len(files) :
           files'[f] = files[f] \/ files'[f].etag = writes + 1
  PROVE  Based(q)' /\ (pc'[q] = "content" => fid'[q] # 0)
<1>1. /\ fid[q] \in 0..Len(files) /\ Len(files) \in Nat /\ etag[q] \in Nat
      /\ etag[q] <= writes /\ writes \in Nat
      /\ Based(q) /\ (pc[q] = "content" => fid[q] # 0)
  BY DEF Inv, TypeOK, EtagInv, BaseInv
<1>2. CASE fid[q] = 0
  BY <1>1, <1>2 DEF Based, Allowed, Apply
<1>3. CASE fid[q] # 0 /\ files'[fid[q]] = files[fid[q]]
  BY <1>1, <1>3 DEF Based, Apply
<1>4. CASE fid[q] # 0 /\ files'[fid[q]].etag = writes + 1
  BY <1>1, <1>4 DEF Based
<1> QED  BY <1>1, <1>2, <1>3, <1>4

(* Finishing clears the variables of the request.                           *)
LEMMA FinishInv ==
  ASSUME Inv, NEW p \in Requests, NEW r \in {"ok", "rejected", "conflict", "error"},
         Finish(p, r)
  PROVE  /\ pc' \in [Requests -> {"local", "search", "content", "put", "save", "done"}]
         /\ fid' \in [Requests -> 0..Len(files)]
         /\ etag' \in [Requests -> Nat]
         /\ doc' \in [Requests -> UserDataType]
         /\ result' \in [Requests -> {"none", "ok", "rejected", "conflict", "error"}]
         /\ \A q \in Requests : etag'[q] <= writes
         /\ pc'[p] = "done"
         /\ OnlyRequest(p)
<1>1. NewUser \in UserDataType
  BY DefaultAssumption DEF NewUser, UserDataType
<1>2. Len(files) \in Nat /\ writes \in Nat
  BY DEF Inv, TypeOK
<1> QED  BY <1>1, <1>2 DEF Finish, Goto, Use, Inv, TypeOK, EtagInv, OnlyRequest

(* A request that has read document d of file f at etag e (or later).       *)
LEMMA ModifyInv ==
  ASSUME Inv, NEW p \in Requests, NEW f \in 0..Len(files), NEW e \in 0..writes,
         NEW d \in UserDataType, Modify(p, f, e, d),
         f # 0 => d = files[f].data, f = 0 => d = NewUser,
         UNCHANGED <<files, writes, meta, op, sid, fresh>>
  PROVE  Inv'
<1>0. /\ Len(files) \in Nat /\ writes \in Nat
      /\ op[p] \in Ops /\ sid[p] \in Sessions
      /\ TypeOK /\ EtagInv /\ BaseInv
  BY DEF Inv, TypeOK
<1>1. CASE ~Allowed(op[p], sid[p], d)
  <2>1. Finish(p, "rejected")  BY <1>1 DEF Modify
  <2>2. TypeOK' /\ EtagInv'
    BY <1>0, <2>1, FinishInv DEF TypeOK, EtagInv
  <2>3. BaseInv'
    <3> SUFFICES ASSUME NEW q \in Requests
                 PROVE  Based(q)' /\ (pc'[q] = "content" => fid'[q] # 0)
      BY DEF BaseInv
    <3>1. CASE q = p  BY <2>1, <3>1, FinishInv DEF Based
    <3>2. CASE q # p
      BY <2>1, <3>2, FinishInv, BasedFrame DEF OnlyRequest
    <3> QED  BY <3>1, <3>2
  <2> QED  BY <2>2, <2>3 DEF Inv
<1>2. CASE Allowed(op[p], sid[p], d)
  <2>1. /\ pc' = [pc EXCEPT ![p] = "put"]
        /\ fid' = [fid EXCEPT ![p] = f]
        /\ etag' = [etag EXCEPT ![p] = e]
        /\ doc' = [doc EXCEPT ![p] = Apply(op[p], sid[p], d)]
        /\ result' = result
    BY <1>2 DEF Modify, Goto, Use
  <2>2. Apply(op[p], sid[p], d) \in UserDataType  BY <1>0, ApplyType
  <2>3. TypeOK'  BY <1>0, <2>1, <2>2 DEF TypeOK
  <2>4. EtagInv'  BY <1>0, <2>1 DEF TypeOK, EtagInv
  <2>5. BaseInv'
    <3> SUFFICES ASSUME NEW q \in Requests
                 PROVE  Based(q)' /\ (pc'[q] = "content" => fid'[q] # 0)
      BY DEF BaseInv
    <3>1. CASE q = p
      <4>1. pc'[q] = "put" /\ fid'[q] = f /\ doc'[q] = Apply(op[p], sid[p], d)
        BY <1>0, <2>1, <3>1 DEF TypeOK
      <4> QED  BY <1>2, <3>1, <4>1 DEF Based
    <3>2. CASE q # p
      BY <1>0, <2>1, <3>2, BasedFrame DEF TypeOK
    <3> QED  BY <3>1, <3>2
  <2> QED  BY <2>3, <2>4, <2>5 DEF Inv
<1> QED  BY <1>1, <1>2

(* A write gives file f, old or new, an etag that nobody holds.             *)
LEMMA WriteInv ==
  ASSUME Inv, NEW p \in Requests, NEW f \in 1..Len(files'), Written(p, f),
         files' \in Seq(File), Len(files) <= Len(files'),
         \A g \in 1..Len(files') :
           \/ files'[g].etag = writes + 1
           \/ g \in 1..Len(files) /\ files'[g] = files[g]
  PROVE  Inv'
<1>0. /\ Len(files) \in Nat /\ writes \in Nat /\ Len(files') \in Nat
      /\ TypeOK /\ EtagInv /\ BaseInv /\ files \in Seq(File)
      /\ writes' = writes + 1
      /\ UNCHANGED <<meta, op, sid, fresh>>
  BY DEF Inv, TypeOK, Written, File
<1>1. /\ pc' \in [Requests -> {"local", "search", "content", "put", "save", "done"}]
      /\ fid' \in [Requests -> 0..Len(files')]
      /\ etag' \in [Requests -> Nat]
      /\ doc' \in [Requests -> UserDataType]
      /\ result' \in [Requests -> {"none", "ok", "rejected", "conflict", "error"}]
      /\ \A q \in Requests : etag'[q] <= writes + 1
      /\ pc'[p] \in {"save", "done"}
      /\ OnlyRequest(p)
  <2>1. CASE Finish(p, "error")
    BY <1>0, <2>1, FinishInv
  <2>2. CASE Use(p, f, writes + 1) /\ Goto(p, "save") /\ UNCHANGED <<doc, result>>
    BY <1>0, <2>2 DEF Use, Goto, OnlyRequest, TypeOK, EtagInv
  <2> QED  BY <2>1, <2>2 DEF Written
<1>2. TypeOK'
  <2>1. meta' \in [fid : 0..Len(files'), etag : Nat]
    BY <1>0 DEF TypeOK
  <2> QED  BY <1>0, <1>1, <2>1 DEF TypeOK, File
<1>3. EtagInv'
  <2>1. ASSUME NEW g \in 1..Len(files')
        PROVE  files'[g].etag <= writes'
    <3>1. CASE files'[g].etag = writes + 1
      BY <1>0, <3>1
    <3>2. CASE g \in 1..Len(files) /\ files'[g] = files[g]
      <4>1. files[g] \in File /\ files[g].etag <= writes
        BY <1>0, <3>2 DEF EtagInv
      <4>2. files'[g].etag \in Nat /\ files'[g].etag <= writes
        BY <3>2, <4>1 DEF File
      <4> QED  BY <1>0, <4>2
    <3> QED  BY <3>1, <3>2
  <2>2. meta'.etag <= writes'
    BY <1>0 DEF EtagInv, TypeOK
  <2> QED  BY <1>0, <1>1, <2>1, <2>2 DEF EtagInv
<1>4. BaseInv'
  <2> SUFFICES ASSUME NEW q \in Requests
               PROVE  Based(q)' /\ (pc'[q] = "content" => fid'[q] # 0)
    BY DEF BaseInv
  <2>1. CASE q = p  BY <1>1, <2>1 DEF Based
  <2>2. CASE q # p
    BY <1>0, <1>1, <2>2, BasedFrame DEF OnlyRequest
  <2> QED  BY <2>1, <2>2
<1> QED  BY <1>2, <1>3, <1>4 DEF Inv

LEMMA InvNext == Inv /\ [Next]_vars => Inv'
<1> SUFFICES ASSUME Inv, [Next]_vars PROVE Inv'
  OBVIOUS
<1>0. /\ TypeOK /\ EtagInv /\ BaseInv
      /\ files \in Seq(File) /\ Len(files) \in Nat /\ writes \in Nat
  BY DEF Inv, TypeOK, File
<1>a. ASSUME NEW p \in Requests, NEW r \in {"ok", "rejected", "conflict", "error"},
             Finish(p, r), UNCHANGED <<drive, op, sid, fresh>>,
             meta' \in [fid : 0..Len(files), etag : Nat], meta'.etag <= writes
      PROVE  Inv'
  <2>1. TypeOK' /\ EtagInv'
    BY <1>0, <1>a, FinishInv DEF TypeOK, EtagInv, drive
  <2>2. ASSUME NEW q \in Requests
        PROVE  Based(q)' /\ (pc'[q] = "content" => fid'[q] # 0)
    <3>1. CASE q = p  BY <1>a, <3>1, FinishInv DEF Based
    <3>2. CASE q # p
      BY <1>a, <3>2, FinishInv, BasedFrame DEF OnlyRequest, drive
    <3> QED  BY <3>1, <3>2
  <2> QED  BY <2>1, <2>2 DEF Inv, BaseInv
<1>1. ASSUME NEW p \in Requests, LocalMeta(p) PROVE Inv'
  <2>1. TypeOK' /\ EtagInv'
    BY <1>0, <1>1 DEF LocalMeta, Use, Goto, TypeOK, EtagInv, drive
  <2>2. ASSUME NEW q \in Requests
        PROVE  Based(q)' /\ (pc'[q] = "content" => fid'[q] # 0)
    <3>1. CASE q = p
      BY <1>0, <1>1, <3>1 DEF LocalMeta, Use, Goto, TypeOK, Based
    <3>2. CASE q # p
      BY <1>0, <1>1, <3>2, BasedFrame DEF LocalMeta, Use, Goto, TypeOK, drive
    <3> QED  BY <3>1, <3>2
  <2> QED  BY <2>1, <2>2 DEF Inv, BaseInv
<1>2. ASSUME NEW p \in Requests, FetchMeta(p) PROVE Inv'
  <2>1. CASE files = <<>>
    <3>1. NewUser \in UserDataType
      BY DefaultAssumption DEF NewUser, UserDataType
    <3>2. Modify(p, 0, 0, NewUser) /\ UNCHANGED <<files, writes, meta, op, sid, fresh>>
      BY <1>2, <2>1 DEF FetchMeta, drive
    <3> QED  BY <1>0, <3>1, <3>2, ModifyInv
  <2>2. CASE files # <<>>
    <3>1. PICK f \in 1..Len(files) :
            /\ Use(p, f, files[f].etag)
            /\ pc' = [pc EXCEPT ![p] = "content"]
            /\ UNCHANGED <<doc, result, files, writes, meta, op, sid, fresh>>
      BY <1>2, <2>2 DEF FetchMeta, Latest, Goto, drive
    <3>2. files[f].etag \in Nat /\ files[f].etag <= writes
      <4>1. files[f] \in File  BY <1>0, <3>1
      <4> QED  BY <1>0, <3>1, <4>1 DEF EtagInv, File
    <3>3. TypeOK' /\ EtagInv'
      <4>1. /\ fid' \in [Requests -> 0..Len(files)]
            /\ etag' \in [Requests -> Nat]
            /\ \A q \in Requests : etag'[q] <= writes
        BY <1>0, <3>1, <3>2 DEF Use, TypeOK, EtagInv
      <4>2. TypeOK'
        BY <1>0, <3>1, <4>1 DEF TypeOK
      <4> QED  BY <1>0, <3>1, <4>1, <4>2 DEF EtagInv
    <3>4. ASSUME NEW q \in Requests
          PROVE  Based(q)' /\ (pc'[q] = "content" => fid'[q] # 0)
      <4>1. CASE q = p
        BY <1>0, <3>1, <4>1 DEF Use, TypeOK, Based
      <4>2. CASE q # p
        BY <1>0, <3>1, <4>2, BasedFrame DEF Use, TypeOK
      <4> QED  BY <4>1, <4>2
    <3> QED  BY <3>3, <3>4 DEF Inv, BaseInv
  <2> QED  BY <2>1, <2>2
<1>3. ASSUME NEW p \in Requests, GetContent(p) PROVE Inv'
  <2>1. /\ fid[p] \in 1..Len(files) /\ etag[p] \in 0..writes
        /\ UNCHANGED <<files, writes, meta, op, sid, fresh>>
    BY <1>0, <1>3 DEF GetContent, TypeOK, EtagInv, BaseInv, drive
  <2>2. files[fid[p]].data \in UserDataType
    <3>1. files[fid[p]] \in File  BY <1>0, <2>1
    <3> QED  BY <3>1 DEF File
  <2> QED  BY <1>0, <1>3, <2>1, <2>2, ModifyInv DEF GetContent
<1>4. ASSUME NEW p \in Requests, Create(p) PROVE Inv'
  <2>1. /\ files' = Append(files, [etag |-> writes + 1, data |-> doc[p]])
        /\ Written(p, Len(files) + 1)
        /\ [etag |-> writes + 1, data |-> doc[p]] \in File
    BY <1>0, <1>4 DEF Create, File, TypeOK
  <2>2. /\ files' \in Seq(File)
        /\ Len(files') = Len(files) + 1
        /\ files'[Len(files) + 1].etag = writes + 1
        /\ \A g \in 1..Len(files) : files'[g] = files[g]
    BY <1>0, <2>1
  <2> QED  BY <1>0, <2>1, <2>2, WriteInv
<1>5. ASSUME NEW p \in Requests, Update(p) PROVE Inv'
  <2>1. /\ fid[p] \in 1..Len(files)
        /\ files' = [files EXCEPT ![fid[p]] =
                       [etag |-> writes + 1, data |-> doc[p]]]
        /\ Written(p, fid[p])
        /\ [etag |-> writes + 1, data |-> doc[p]] \in File
    BY <1>0, <1>5 DEF Update, File, TypeOK
  <2>2. /\ files' \in Seq(File)
        /\ Len(files') = Len(files)
        /\ files'[fid[p]].etag = writes + 1
        /\ \A g \in 1..Len(files) : g # fid[p] => files'[g] = files[g]
    BY <1>0, <2>1
  <2> QED  BY <1>0, <2>1, <2>2, WriteInv
<1>6. ASSUME NEW p \in Requests, Conflict(p) PROVE Inv'
  <2>1. CASE fresh[p]
    <3>1. Finish(p, "conflict") /\ UNCHANGED <<drive, meta, op, sid, fresh>>
      BY <1>6, <2>1 DEF Conflict
    <3> QED  BY <1>0, <1>a, <3>1 DEF TypeOK, EtagInv
  <2>2. CASE ~fresh[p]
    <3>1. /\ pc' = [pc EXCEPT ![p] = "search"]
          /\ fid' = [fid EXCEPT ![p] = 0]
          /\ etag' = [etag EXCEPT ![p] = 0]
          /\ doc' = [doc EXCEPT ![p] = NewUser]
          /\ fresh' = [fresh EXCEPT ![p] = TRUE]
          /\ UNCHANGED <<files, writes, meta, op, sid, result>>
      BY <1>6, <2>2 DEF Conflict, Use, Goto, drive
    <3>2. NewUser \in UserDataType
      BY DefaultAssumption DEF NewUser, UserDataType
    <3>3. TypeOK' /\ EtagInv'
      BY <1>0, <3>1, <3>2 DEF TypeOK, EtagInv
    <3>4. ASSUME NEW q \in Requests
          PROVE  Based(q)' /\ (pc'[q] = "content" => fid'[q] # 0)
      <4>1. CASE q = p
        BY <1>0, <3>1, <4>1 DEF TypeOK, Based
      <4>2. CASE q # p
        BY <1>0, <3>1, <4>2, BasedFrame DEF TypeOK
      <4> QED  BY <4>1, <4>2
    <3> QED  BY <3>3, <3>4 DEF Inv, BaseInv
  <2> QED  BY <2>1, <2>2
<1>7. ASSUME NEW p \in Requests, SaveMeta(p) PROVE Inv'
  <2>1. /\ meta' \in [fid : 0..Len(files), etag : Nat]
        /\ meta'.etag <= writes
    BY <1>0, <1>7 DEF SaveMeta, TypeOK, EtagInv
  <2> QED  BY <1>7, <1>a, <2>1 DEF SaveMeta
<1>8. ASSUME NEW p \in Requests, Fail(p) PROVE Inv'
  BY <1>0, <1>8, <1>a DEF Fail, TypeOK, EtagInv
<1>9. CASE UNCHANGED vars
  BY <1>0, <1>9 DEF vars, Inv, TypeOK, EtagInv, BaseInv, Based, Apply
<1> QED
  BY <1>1, <1>2, <1>3, <1>4, <1>5, <1>6, <1>7, <1>8, <1>9 DEF Next, Handle

(* The state of the requests and of Drive has its type, and a request whose *)
(* etag is still good is based on what the file says.                       *)
LEMMA InvAlways == Spec => []Inv
BY InvInit, InvNext, PTL DEF Spec

(* Types, for any number of requests.                                       *)
THEOREM TypeCorrect == Spec => []TypeOK
BY InvAlways, PTL DEF Inv

-----------------------------------------------------------------------------
(* Only an upload changes the files: a new one says what a new user's says  *)
(* after the operation of its request, one that exists changes only by the  *)
(* operation of its request.                                                *)
LEMMA OnlyUploads ==
  ASSUME Inv, Next
  PROVE  \/ files' = files
         \/ \E p \in Requests :
              /\ Create(p)
              /\ Allowed(op[p], sid[p], NewUser)
              /\ files' = Append(files, [etag |-> writes + 1,
                                        data |-> Apply(op[p], sid[p], NewUser)])
         \/ \E p \in Requests :
              /\ pc[p] = "put"
              /\ fid[p] \in 1..Len(files)
              /\ Allowed(op[p], sid[p], files[fid[p]].data)
              /\ files' = [files EXCEPT ![fid[p]] =
                             [etag |-> writes + 1,
                              data |-> Apply(op[p], sid[p], files[fid[p]].data)]]
<1> PICK p \in Requests : Handle(p) \/ Fail(p)
  BY DEF Next
<1>1. CASE Create(p)  BY <1>1 DEF Create, Inv, BaseInv, Based
<1>2. CASE Update(p)
  <2>1. fid[p] \in 1..Len(files)
    BY <1>2 DEF Update, Inv, TypeOK
  <2> QED  BY <1>2, <2>1 DEF Update, Inv, BaseInv, Based
<1>3. CASE LocalMeta(p) \/ FetchMeta(p) \/ GetContent(p) \/ Conflict(p)
           \/ SaveMeta(p) \/ Fail(p)
  BY <1>3 DEF LocalMeta, FetchMeta, GetContent, Conflict, SaveMeta, Fail, drive
<1> QED  BY <1>1, <1>2, <1>3 DEF Handle

(* Whatever the requests, their metadata and the faults, no upload loses    *)
(* what another request has written.                                        *)
THEOREM NothingLost == Spec => NoLostUpdate
<1>1. ASSUME Inv, [Next]_vars, NEW f \in 1..Len(files),
             files'[f].data # files[f].data
      PROVE  \E p \in Requests :
               /\ pc[p] = "put"
               /\ files'[f].data = Apply(op[p], sid[p], files[f].data)
  <2>0. files \in Seq(File)  BY <1>1 DEF Inv, TypeOK, File
  <2>1. Next  BY <1>1 DEF vars
  <2>2. CASE files' = files  BY <1>1, <2>2
  <2>3. ASSUME NEW p \in Requests, Create(p) PROVE FALSE
    BY <1>1, <2>0, <2>3 DEF Create
  <2>4. ASSUME NEW p \in Requests,
               pc[p] = "put",
               fid[p] \in 1..Len(files),
               files' = [files EXCEPT ![fid[p]] =
                           [etag |-> writes + 1,
                            data |-> Apply(op[p], sid[p], files[fid[p]].data)]]
        PROVE  pc[p] = "put" /\ files'[f].data = Apply(op[p], sid[p], files[f].data)
    BY <1>1, <2>0, <2>4
  <2> QED  BY <1>1, <2>1, <2>2, <2>3, <2>4, OnlyUploads
<1>2. Inv /\ [Next]_vars =>
        [\A f \in 1..Len(files) :
           files'[f].data # files[f].data =>
             \E p \in Requests :
               /\ pc[p] = "put"
               /\ files'[f].data = Apply(op[p], sid[p], files[f].data)]_vars
  BY <1>1
<1> QED  BY <1>2, InvAlways, PTL DEF Spec, NoLostUpdate

-----------------------------------------------------------------------------
(* The requests are atomic operations of the user's first document: the     *)
(* upload that creates it and each that changes it is a step of UserData,   *)
(* everything else a stutter.                                               *)
FirstDoc == IF files = <<>> THEN NewUser ELSE files[1].data

THEOREM ImplementsUserData == Spec => UserSpec
<1>1. Init => User!Init
  <2> SUFFICES ASSUME Init PROVE User!Init
    OBVIOUS
  <2>1. NewUser \in User!UserDataType
    BY DefaultAssumption DEF NewUser, User!UserDataType
  <2>2. FirstDoc = NewUser
    BY DEF Init, FirstDoc
  <2> QED  BY <2>1, <2>2 DEF FirstDoc, User!Init
<1>2. Inv /\ [Next]_vars => [User!Next]_FirstDoc
  <2> SUFFICES ASSUME Inv, Next, FirstDoc' # FirstDoc PROVE User!Next
    BY DEF vars, FirstDoc
  <2>0. files \in Seq(File)
    BY DEF Inv, TypeOK, File
  <2>1. ASSUME NEW p \in Requests, Allowed(op[p], sid[p], FirstDoc),
               FirstDoc' = Apply(op[p], sid[p], FirstDoc)
        PROVE  User!Next
    <3>1. op[p] \in User!Ops /\ sid[p] \in Sessions
      BY DEF Inv, TypeOK, Ops, User!Ops
    <3>2. User!Allowed(op[p], sid[p], FirstDoc)
      BY <2>1 DEF Allowed, User!Allowed
    <3>3. FirstDoc' = User!Apply(op[p], sid[p], FirstDoc)
      BY <2>1 DEF Apply, User!Apply
    <3> QED  BY <3>1, <3>2, <3>3 DEF User!Next, FirstDoc
  <2>2. CASE files' = files  BY <2>2 DEF FirstDoc
  <2>3. ASSUME NEW p \in Requests,
               Allowed(op[p], sid[p], NewUser),
               files' = Append(files, [etag |-> writes + 1,
                                       data |-> Apply(op[p], sid[p], NewUser)])
        PROVE  User!Next
    <3>1. CASE files = <<>>
      <4>1. FirstDoc = NewUser /\ FirstDoc' = Apply(op[p], sid[p], NewUser)
        BY <2>3, <3>1 DEF FirstDoc
      <4> QED  BY <2>1, <2>3, <4>1
    <3>2. CASE files # <<>>
      <4>1. files' # <<>> /\ files'[1] = files[1]
        BY <2>0, <2>3, <3>2
      <4> QED  BY <3>2, <4>1 DEF FirstDoc
    <3> QED  BY <3>1, <3>2
  <2>4. ASSUME NEW p \in Requests,
               fid[p] \in 1..Len(files),
               Allowed(op[p], sid[p], files[fid[p]].data),
               files' = [files EXCEPT ![fid[p]] =
                           [etag |-> writes + 1,
                            data |-> Apply(op[p], sid[p], files[fid[p]].data)]]
        PROVE  User!Next
    <3>1. files # <<>> /\ files' # <<>>
      BY <2>0, <2>4
    <3>2. CASE fid[p] = 1
      <4>1. FirstDoc = files[fid[p]].data
            /\ FirstDoc' = Apply(op[p], sid[p], files[fid[p]].data)
        BY <2>0, <2>4, <3>1, <3>2 DEF FirstDoc
      <4> QED  BY <2>1, <2>4, <4>1
    <3>3. CASE fid[p] # 1
      <4>1. files'[1] = files[1]
        BY <2>0, <2>4, <3>3
      <4> QED  BY <3>1, <4>1 DEF FirstDoc
    <3> QED  BY <3>2, <3>3
  <2> QED  BY <2>2, <2>3, <2>4, OnlyUploads
<1> QED  BY <1>1, <1>2, InvAlways, PTL DEF Spec, FirstDoc, UserSpec, User!Spec

-----------------------------------------------------------------------------
(* Has the request uploaded its change and not lost the answer?             *)
Recorded(p) == pc[p] = "save" \/ result[p] = "ok"

(* While the user has at most one file, a survey that has been recorded is  *)
(* in it, where the next request for the same session finds it.             *)
SurveyInv ==
  Len(files) <= 1 =>
    /\ \A p \in Requests :
         Recorded(p) /\ op[p] = "survey" =>
           Len(files) = 1 /\ sid[p] \in files[1].data.survey
    /\ \A p, q \in Requests :
         (/\ Recorded(p) /\ op[p] = "survey"
          /\ Recorded(q) /\ op[q] = "survey" /\ sid[p] = sid[q]) => p = q

LEMMA SurveyInit == Init => SurveyInv
BY DEF Init, SurveyInv, Recorded

(* Only an upload records the change of a request.                          *)
LEMMA NotRecorded ==
  ASSUME Inv, SurveyInv, op' = op, sid' = sid, files' = files,
         \A q \in Requests : Recorded(q)' => Recorded(q)
  PROVE  SurveyInv'
BY DEF SurveyInv

LEMMA SurveyNext == Inv /\ SurveyInv /\ [Next]_vars => SurveyInv'
<1> SUFFICES ASSUME Inv, SurveyInv, [Next]_vars PROVE SurveyInv'
  OBVIOUS
<1>0. /\ files \in Seq(File) /\ Len(files) \in Nat
      /\ pc \in [Requests -> {"local", "search", "content", "put", "save", "done"}]
      /\ result \in [Requests -> {"none", "ok", "rejected", "conflict", "error"}]
      /\ fid \in [Requests -> 0..Len(files)]
      /\ op \in [Requests -> Ops]
  BY DEF Inv, TypeOK, File
<1>1. ASSUME NEW p \in Requests,
             LocalMeta(p) \/ FetchMeta(p) \/ GetContent(p) \/ Conflict(p)
               \/ SaveMeta(p) \/ Fail(p)
      PROVE  SurveyInv'
  <2>1. op' = op /\ sid' = sid /\ files' = files
    BY <1>1 DEF LocalMeta, FetchMeta, GetContent, Conflict, SaveMeta, Fail, drive
  <2>2. ASSUME NEW q \in Requests PROVE Recorded(q)' => Recorded(q)
    <3>1. CASE LocalMeta(p) \/ Conflict(p) \/ SaveMeta(p) \/ Fail(p)
      BY <1>0, <3>1 DEF LocalMeta, Conflict, SaveMeta, Fail, Finish, Goto, Recorded
    <3>2. CASE FetchMeta(p) \/ GetContent(p)
      BY <1>0, <3>2 DEF FetchMeta, GetContent, Modify, Finish, Goto, Recorded
    <3> QED  BY <1>1, <3>1, <3>2
  <2> QED  BY <2>1, <2>2, NotRecorded
<1>2. ASSUME NEW p \in Requests, NEW f \in 1..Len(files'), Written(p, f),
             Len(files') = 1,
             op[p] = "survey" => /\ sid[p] \in files'[1].data.survey
                                 /\ \A q \in Requests :
                                      Recorded(q) /\ op[q] = "survey" =>
                                        sid[q] # sid[p],
             \A q \in Requests :
               Recorded(q) /\ op[q] = "survey" => sid[q] \in files'[1].data.survey,
             Len(files) <= 1
      PROVE  SurveyInv'
  <2>1. op' = op /\ sid' = sid
    BY <1>2 DEF Written
  <2>2. \A q \in Requests \ {p} : Recorded(q)' => Recorded(q)
    BY <1>0, <1>2 DEF Written, Finish, Goto, Recorded
  <2>3. /\ \A q \in Requests :
             Recorded(q)' /\ op[q] = "survey" => sid[q] \in files'[1].data.survey
        /\ \A q, r \in Requests :
             (/\ Recorded(q)' /\ op[q] = "survey"
              /\ Recorded(r)' /\ op[r] = "survey" /\ sid[q] = sid[r]) => q = r
    BY <1>2, <2>2 DEF SurveyInv
  <2> QED  BY <1>2, <2>1, <2>3 DEF SurveyInv
<1>3. ASSUME NEW p \in Requests, Create(p) PROVE SurveyInv'
  <2>1. /\ files' = Append(files, [etag |-> writes + 1,
                                   data |-> Apply(op[p], sid[p], NewUser)])
        /\ Written(p, Len(files) + 1)
    BY <1>3 DEF Create, Inv, BaseInv, Based
  <2>2. Len(files') = Len(files) + 1
    BY <1>0, <2>1
  <2>3. CASE Len(files) = 0
    <3>1. files'[1].data = Apply(op[p], sid[p], NewUser)
      BY <1>0, <2>1, <2>3
    <3>2. op[p] = "survey" => sid[p] \in files'[1].data.survey
      BY <3>1 DEF Apply, NewUser
    <3>3. \A q \in Requests : Recorded(q) => op[q] # "survey"
      BY <2>3 DEF SurveyInv
    <3> QED  BY <1>2, <2>1, <2>2, <2>3, <3>2, <3>3
  <2>4. CASE Len(files) # 0
    BY <1>0, <2>2, <2>4 DEF SurveyInv
  <2> QED  BY <2>3, <2>4
<1>4. ASSUME NEW p \in Requests, Update(p) PROVE SurveyInv'
  <2>1. /\ fid[p] \in 1..Len(files)
        /\ Allowed(op[p], sid[p], files[fid[p]].data)
        /\ files' = [files EXCEPT ![fid[p]] =
                       [etag |-> writes + 1,
                        data |-> Apply(op[p], sid[p], files[fid[p]].data)]]
        /\ Written(p, fid[p])
    <3>1. /\ fid[p] \in 1..Len(files)
          /\ Based(p) /\ pc[p] = "put" /\ fid[p] # 0
          /\ files[fid[p]].etag = etag[p]
      BY <1>0, <1>4 DEF Update, Inv, BaseInv
    <3>2. /\ Allowed(op[p], sid[p], files[fid[p]].data)
          /\ doc[p] = Apply(op[p], sid[p], files[fid[p]].data)
      BY <3>1 DEF Based
    <3> QED  BY <1>4, <3>1, <3>2 DEF Update
  <2>2. Len(files') = Len(files)
    BY <1>0, <2>1
  <2>3. CASE Len(files) = 1
    <3>1. fid[p] = 1 /\ files'[1].data = Apply(op[p], sid[p], files[1].data)
          /\ Allowed(op[p], sid[p], files[1].data)
      BY <1>0, <2>1, <2>3
    <3>2. files[1].data \in UserDataType
      <4>1. files[1] \in File
        <5>1. 1 \in 1..Len(files)  BY <2>3
        <5> QED  BY <1>0, <5>1
      <4> QED  BY <4>1 DEF File
    <3>3. /\ files[1].data.survey \subseteq files'[1].data.survey
          /\ op[p] = "survey" => sid[p] \in files'[1].data.survey
                                  /\ sid[p] \notin files[1].data.survey
      <4>1. op[p] \in Ops  BY <1>0
      <4> QED  BY <3>1, <3>2, <4>1 DEF Apply, Allowed, Ops, UserDataType
    <3>4. \A q \in Requests :
            Recorded(q) /\ op[q] = "survey" => sid[q] \in files[1].data.survey
      BY <2>3 DEF SurveyInv
    <3> QED  BY <1>2, <2>1, <2>2, <2>3, <3>3, <3>4
  <2>4. CASE Len(files) # 1
    BY <1>0, <2>1, <2>2, <2>4 DEF SurveyInv
  <2> QED  BY <2>3, <2>4
<1>5. CASE UNCHANGED vars
  BY <1>5 DEF vars, SurveyInv, Recorded
<1> QED  BY <1>1, <1>3, <1>4, <1>5 DEF Next, Handle

(* addSessionSurvey prevents double submission while Drive holds one file   *)
(* of the user: any number of requests, with any metadata and any faults.   *)
THEOREM SurveyedOnce == Spec => []OneFileOneSurvey
<1>1. SurveyInv => OneFileOneSurvey
  BY DEF SurveyInv, OneFileOneSurvey, SurveyOnce, Recorded
<1> QED  BY <1>1, SurveyInit, SurveyNext, InvAlways, PTL DEF Spec
==============================================================================
