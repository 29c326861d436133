----------------------------- MODULE Credentials ------------------------------
(***************************************************************************)
(* The credentials with which the server reads and writes a user's file in *)
(* Drive (backend/auth.go, handleAuth of backend/handler.go and the        *)
(* kindCredentials entity of backend/db_gae.go).                           *)
(*                                                                         *)
(* A sign-in exchanges its one-time code in a transaction, so it may have  *)
(* to begin again; a call that needs Drive works on a copy of the entity,  *)
(* asks for a new access token when that of the copy has expired, and      *)
(* writes the copy over the entity.  They are of one user.  Of credentials *)
(* the refresh token is what matters, and it is known by the sign-in whose *)
(* code gave it; an access token may be good or not whenever it is used.   *)
(***************************************************************************)
CONSTANTS SignIns,   \* POSTs of /api/v1/auth, each with a code of its own
          Calls,     \* requests and tasks that need Drive
          None

VARIABLES
  known,     \* whether the user has an entity
  stored,    \* RefreshToken of it
  used,      \* codes that the provider has seen
  revoked,   \* refresh tokens that are revoked or have expired
  step,      \* of each sign-in
  draft,     \* of cred of fetchCredentials
  moved,     \* sign-ins whose transaction the entity has changed under
  call,      \* where each call is
  copy,      \* of its credentials
  stale,     \* calls whose copy is older than the refresh token of a sign-in
  last,      \* the refresh token that was stored last by a sign-in
  crossed    \* a stale call has written its copy since

entity == <<known, stored>>
signin == <<step, draft>>
calls  == <<call, copy>>
vars   == <<entity, used, revoked, signin, moved, calls, stale, last, crossed>>

Init ==
  /\ known = FALSE
  /\ stored = None
  /\ used = {}
  /\ revoked = {}
  /\ step = [p \in SignIns |-> "new"]
  /\ draft = [p \in SignIns |-> None]
  /\ moved = {}
  /\ call = [c \in Calls |-> "idle"]
  /\ copy = [c \in Calls |-> None]
  /\ stale = {}
  /\ last = None
  /\ crossed = FALSE

(* A write of the entity, which the transactions that have read it notice.  *)
Put(token) ==
  /\ known' = TRUE
  /\ stored' = token
  /\ moved' = {p \in SignIns : step[p] \in {"exchange", "store"}}

-----------------------------------------------------------------------------
(* handleAuth                                                               *)

(* The transaction begins.  That the entity cannot be read is taken for     *)
(* there being none.                                                        *)
Begin(p) ==
  /\ step[p] = "new"
  /\ \E token \in {stored, None} : draft' = [draft EXCEPT ![p] = token]
  /\ step' = [step EXCEPT ![p] = "exchange"]
  /\ moved' = moved \ {p}
  /\ UNCHANGED <<entity, used, revoked, calls, stale, last, crossed>>

(* The provider always gives a refresh token when the user was asked for    *)
(* consent, and may leave it out otherwise.                                 *)
fetchCredentials(p, refresh) == draft' = [draft EXCEPT ![p] = IF refresh THEN p ELSE @]

Exchange(p) ==
  /\ step[p] = "exchange"
  /\ p \notin used
  /\ used' = used \cup {p}
  /\ \E refresh \in BOOLEAN :
       /\ refresh \/ draft[p] # None      \* errAuthTokenType
       /\ fetchCredentials(p, refresh)
  /\ step' = [step EXCEPT ![p] = "store"]
  /\ UNCHANGED <<entity, revoked, moved, calls, stale, last, crossed>>

(* The code is refused, as it is when it was used before the transaction    *)
(* had to begin again; the exchange fails, or gives no refresh token where  *)
(* there is none; its tokens are of another user; the store fails; or the   *)
(* instance dies.  Nothing is written.                                      *)
Reject(p) ==
  /\ step[p] \in {"exchange", "store"}
  /\ used' \in {used, used \cup {p}}
  /\ step' = [step EXCEPT ![p] = "failed"]
  /\ UNCHANGED <<entity, revoked, draft, moved, calls, stale, last, crossed>>

Commit(p) ==
  /\ step[p] = "store"
  /\ p \notin moved
  /\ Put(draft[p])
  /\ step' = [step EXCEPT ![p] = "done"]
  /\ IF draft[p] = p
     THEN /\ last' = p
          /\ crossed' = FALSE
          /\ stale' = {c \in Calls : call[c] # "idle"}
     ELSE UNCHANGED <<last, crossed, stale>>
  /\ UNCHANGED <<used, revoked, draft, calls>>

(* The entity was written in between: the function is run again.            *)
Conflict(p) ==
  /\ step[p] = "store"
  /\ p \in moved
  /\ step' = [step EXCEPT ![p] = "new"]
  /\ UNCHANGED <<entity, used, revoked, draft, moved, calls, stale, last, crossed>>

-----------------------------------------------------------------------------
(* A call: getCredentials, and the token source of its HTTP client          *)

Goto(c, at) == call' = [call EXCEPT ![c] = at]

Read(c) ==
  /\ call[c] = "idle"
  /\ known
  /\ copy' = [copy EXCEPT ![c] = stored]
  /\ stale' = stale \ {c}
  /\ Goto(c, "token")
  /\ UNCHANGED <<entity, used, revoked, signin, moved, last, crossed>>

(* The access token of the copy was good, or the provider, Drive or the     *)
(* instance has failed; or the answer was given that a sign-in is needed.   *)
End(c) ==
  /\ call[c] # "idle"
  /\ Goto(c, "idle")
  /\ UNCHANGED <<entity, used, revoked, signin, moved, copy, stale, last, crossed>>

(* errAuthMissing                                                           *)
Missing(c) ==
  /\ call[c] = "token"
  /\ copy[c] = None
  /\ Goto(c, "refused")
  /\ UNCHANGED <<entity, used, revoked, signin, moved, copy, stale, last, crossed>>

Refresh(c) ==
  /\ call[c] = "token"
  /\ copy[c] \in SignIns \ revoked
  /\ Goto(c, "update")
  /\ UNCHANGED <<entity, used, revoked, signin, moved, copy, stale, last, crossed>>

(* Mutant: the refresh token is given up on any error of the provider.      *)
InvalidGrant_AnyError(c) ==
  /\ call[c] = "token"
  /\ copy[c] \in SignIns
  /\ copy' = [copy EXCEPT ![c] = None]
  /\ Goto(c, "clear")
  /\ UNCHANGED <<entity, used, revoked, signin, moved, stale, last, crossed>>

(* invalid_grant: errAuthInvalid, after the update.                         *)
InvalidGrant(c) ==
  /\ call[c] = "token"
  /\ copy[c] \in revoked
  /\ copy' = [copy EXCEPT ![c] = None]
  /\ Goto(c, "clear")
  /\ UNCHANGED <<entity, used, revoked, signin, moved, stale, last, crossed>>

(* After the update, or the failure of it that is only logged.              *)
Answered(c) == Goto(c, IF call[c] = "update" THEN "token" ELSE "refused")

(* All fields of the entity become those of the copy.                       *)
updateCredentials(c) ==
  /\ call[c] \in {"update", "clear"}
  /\ Put(copy[c])
  /\ crossed' = (crossed \/ c \in stale)
  /\ Answered(c)
  /\ UNCHANGED <<used, revoked, signin, copy, stale, last>>

UpdateFails(c) ==
  /\ call[c] \in {"update", "clear"}
  /\ Answered(c)
  /\ UNCHANGED <<entity, used, revoked, signin, moved, copy, stale, last, crossed>>

(* The user takes the permission away, or the refresh token expires.        *)
Revoke(g) ==
  /\ g \in used \ revoked
  /\ revoked' = revoked \cup {g}
  /\ UNCHANGED <<entity, used, signin, moved, calls, stale, last, crossed>>

Next ==
  \/ \E p \in SignIns :
       Begin(p) \/ Exchange(p) \/ Reject(p) \/ Commit(p) \/ Conflict(p) \/ Revoke(p)
  \/ \E c \in Calls :
       \/ Read(c) \/ End(c) \/ Missing(c) \/ Refresh(c)
       \/ InvalidGrant(c) \/ updateCredentials(c) \/ UpdateFails(c)

Spec == Init /\ [][Next]_vars

-----------------------------------------------------------------------------
Tokens == SignIns \cup {None}

CredentialsTypeOK ==
  /\ known \in BOOLEAN
  /\ stored \in Tokens
  /\ used \subseteq SignIns
  /\ revoked \subseteq SignIns
  /\ step \in [SignIns -> {"new", "exchange", "store", "done", "failed"}]
  /\ draft \in [SignIns -> Tokens]
  /\ moved \subseteq SignIns
  /\ call \in [Calls -> {"idle", "token", "update", "clear", "refused"}]
  /\ copy \in [Calls -> Tokens]
  /\ stale \subseteq Calls
  /\ last \in Tokens
  /\ crossed \in BOOLEAN

(* As long as no call has written back a copy that is older than the last   *)
(* sign-in, the refresh token of that sign-in is kept until it is found to  *)
(* be revoked; and a call that began after it is told that a sign-in is     *)
(* needed (which drops the ping of a user for good) only if it is.          *)
GrantIsKept ==
  ~crossed =>
    /\ stored = last \/ (stored = None /\ last \in revoked)
    /\ \A c \in Calls \ stale : call[c] = "refused" => last \in revoked \cup {None}

-----------------------------------------------------------------------------
(* What GrantIsKept rests on: the draft of a transaction that the entity    *)
(* has not moved under has the refresh token of the entity or that of the   *)
(* sign-in itself (DraftsOK), and the copy of a call that is not stale has  *)
(* the last one, unless that was found to be revoked (CopiesOK).            *)

(* The refresh token is the last, or was given up because that is revoked.  *)
Kept(token) == token = last \/ (token = None /\ last \in revoked)

DraftsOK ==
  \A p \in SignIns \ moved :
    /\ step[p] = "exchange" => draft[p] \in {None, stored}
    /\ step[p] = "store"    => draft[p] \in {p, stored}

CopiesOK ==
  \A c \in Calls :
    /\ call[c] = "clear" => copy[c] = None
    /\ ~crossed /\ c \notin stale /\ call[c] # "idle" => Kept(copy[c])

KeptInv == CredentialsTypeOK /\ DraftsOK /\ CopiesOK /\ GrantIsKept
===============================================================================
