------------------------------- MODULE SWToken -------------------------------
(***************************************************************************)
(* The push subscription of a browser and the token with which its service *)
(* worker asks for updates, over sign-ins and sign-outs                    *)
(* (elements/google-signin.html, helper/auth.js, helper/notifications.js,  *)
(* the listeners in bootstrap.js, schedule.js and elements.js, the push    *)
(* event of shed/push-notifications.js, and simple-db.js for the token).   *)
(*                                                                         *)
(* What is asynchronous is a chain of steps: the step it waits for, the    *)
(* account its request is of, where it began, and an endpoint.  A token is *)
(* known by the account it is of.                                          *)
(***************************************************************************)
EXTENDS Naturals, FiniteSets

CONSTANTS Users, None,
          MaxEndpoints,   \* BOUND: subscriptions of the browser
          MaxInputs,      \* BOUND: what the user and the server do
          MaxFailures     \* BOUND; and chains that are equal are one

VARIABLES
  account,      \* of auth2: who is signed in
  subscription, \* the browser's endpoint, 0 if it has none
  endpoints,    \* how many it has had
  token,        \* in IndexedDB
  notify,       \* of each account, on the server
  registered,   \* the endpoints of each account, on the server
  dontAutoSubscribe,
  chains,
  inputs,
  failures,
  disturbed     \* a chain failed, or one was crossed by a change of the account

vars == <<account, subscription, endpoints, token, notify, registered,
          dontAutoSubscribe, chains, inputs, failures, disturbed>>

browser == <<subscription, endpoints, token>>
server  == <<notify, registered>>

Chain(at, of, why) == [at |-> at, of |-> of, why |-> why, endpoint |-> 0]

InWorker == {"load", "fetch", "show", "save"}

(* xhrPromise: a request needs an account; without one the chain ends.      *)
Request(who, at, why) == IF who = None THEN {} ELSE {Chain(at, who, why)}

subscribe(why) == {Chain("subscribe", None, why)}

(* The listeners of signin-change: auth.js looks at the user, bootstrap.js  *)
(* at signedIn.  They differ if the code of a user was accepted who has     *)
(* signed out since.                                                        *)
signinChange(signedIn, who) ==
  (IF who # None THEN {Chain("get", None, "ensure")}
                 ELSE {Chain("unsubscribe", None, "clear")})
  \cup (IF signedIn THEN Request(who, "enabled?", "auto") ELSE {})

(* What a sign-out, a sign-in and a reload cross.                           *)
Enters == {c \in chains : c.at \in InWorker \cup
                          {"updates", "set", "enabled?", "existing?", "subscribe"}}
Leaves == {c \in chains : c.why = "clear"}
Sent   == {c \in chains : c.at \in {"enable", "disable"}}

Input == inputs < MaxInputs /\ inputs' = inputs + 1 /\ UNCHANGED failures

(***************************************************************************)
(* The user, and the server's pings                                        *)
(***************************************************************************)
(* After the consent a code is posted first; a returning user is known.     *)
SignIn(u) ==
  /\ Input /\ account = None
  /\ account' = u
  /\ chains' \in {chains \cup {Chain("code", u, "signin")},
                  chains \cup signinChange(TRUE, u)}
  /\ disturbed' = (disturbed \/ Leaves # {})
  /\ UNCHANGED <<browser, server, dontAutoSubscribe>>

SignOut ==
  /\ Input /\ account # None
  /\ account' = None
  /\ chains' = chains \cup signinChange(FALSE, None)
  /\ disturbed' = (disturbed \/ Enters # {})
  /\ UNCHANGED <<browser, server, dontAutoSubscribe>>

(* The page starts again, and is told of an account only if there is one.   *)
(* What has been sent may arrive.                                           *)
Reload ==
  /\ Input
  /\ \E arrives \in SUBSET Sent :
       /\ chains' = {c \in chains : c.at \in InWorker} \cup arrives
                    \cup (IF account = None THEN {} ELSE signinChange(TRUE, account))
       /\ disturbed' = (disturbed \/ Leaves # {}
                         \/ \E c \in Sent \ arrives : c.at = "enable")
  /\ dontAutoSubscribe' = FALSE
  /\ UNCHANGED <<account, browser, server>>

(* A bookmark subscribes the browser, unless the user has turned that off.  *)
bookmarkSessionNotification ==
  /\ Input /\ account # None
  /\ chains' = IF dontAutoSubscribe THEN chains ELSE chains \cup subscribe("bookmark")
  /\ UNCHANGED <<account, browser, server, dontAutoSubscribe, disturbed>>

(* The check box of the panel.                                              *)
updateNotifyUser ==
  /\ Input /\ account # None
  /\ \/ /\ chains' = chains \cup subscribe("panel")
        /\ UNCHANGED dontAutoSubscribe
     \/ /\ chains' = chains \cup {Chain("unsubscribe", None, "disable")}
        /\ dontAutoSubscribe' = TRUE
  /\ UNCHANGED <<account, browser, server, disturbed>>

Push ==
  /\ Input
  /\ \E u \in Users : notify[u] /\ subscription \in registered[u]
  /\ chains' = chains \cup {Chain("load", None, "push")}
  /\ disturbed' = (disturbed \/ Leaves # {})
  /\ UNCHANGED <<account, browser, server, dontAutoSubscribe>>

(***************************************************************************)
(* The steps of the chains                                                 *)
(***************************************************************************)
(* Chain c goes on as next.                                                 *)
Continue(c, next) ==
  /\ chains' = (chains \ {c}) \cup next
  /\ UNCHANGED <<inputs, failures>>

(* The code is accepted, or refused, which signs the user out.              *)
sendCodeToServer(c) ==
  /\ c.at = "code"
  /\ \/ /\ Continue(c, signinChange(TRUE, account))
        /\ UNCHANGED <<account, disturbed>>
     \/ /\ Continue(c, IF account = None THEN {} ELSE signinChange(FALSE, None))
        /\ account' = None
        /\ disturbed' = (disturbed \/ Enters # {})
  /\ UNCHANGED <<browser, server, dontAutoSubscribe>>

ensureSWToken(c) ==
  /\ c.why = "ensure"
  /\ token' = IF c.at = "set" THEN c.of ELSE token
  /\ Continue(c, IF c.at = "get" /\ token = None THEN Request(account, "updates", "ensure")
                 ELSE IF c.at = "updates" THEN {[c EXCEPT !.at = "set"]} ELSE {})
  /\ UNCHANGED <<account, subscription, endpoints, server, dontAutoSubscribe, disturbed>>

(* A browser of a user who wants notifications is subscribed on sign-in.    *)
isNotifyEnabled(c) ==
  /\ c.at = "enabled?"
  /\ Continue(c, IF notify[c.of] THEN {Chain("existing?", None, "auto")} ELSE {})
  /\ UNCHANGED <<account, browser, server, dontAutoSubscribe, disturbed>>

isExistingSubscription(c) ==
  /\ c.at = "existing?"
  /\ Continue(c, IF subscription = 0 THEN subscribe("auto") ELSE {})
  /\ UNCHANGED <<account, browser, server, dontAutoSubscribe, disturbed>>

(* The push manager gives the endpoint there is, or a new one.  A chain of  *)
(* a bookmark that ends early turns the automatic subscription off.         *)
subscribePromise(c) ==
  /\ c.at = "subscribe"
  /\ subscription = 0 => endpoints < MaxEndpoints
  /\ subscription' = IF subscription = 0 THEN endpoints + 1 ELSE subscription
  /\ endpoints' = IF subscription = 0 THEN endpoints + 1 ELSE endpoints
  /\ Continue(c, {[r EXCEPT !.endpoint = subscription'] : r \in Request(account, "enable", c.why)})
  /\ dontAutoSubscribe' = (dontAutoSubscribe \/ (account = None /\ c.why = "bookmark"))
  /\ UNCHANGED <<account, token, server, disturbed>>

enableNotifications(c) ==
  /\ c.at = "enable"
  /\ registered' = [registered EXCEPT ![c.of] = @ \cup {c.endpoint}]
  /\ notify' = [notify EXCEPT ![c.of] = TRUE]
  /\ Continue(c, {})
  /\ dontAutoSubscribe' = (dontAutoSubscribe /\ c.why # "panel")
  /\ UNCHANGED <<account, browser, disturbed>>

(* Mutant: the chain ends where there is no subscription.                   *)
unsubscribe_Rejects(c) ==
  /\ c.at = "unsubscribe"
  /\ subscription' = 0
  /\ Continue(c, IF subscription = 0 THEN {}
                 ELSE IF c.why = "clear" THEN {Chain("clear", None, "clear")}
                 ELSE Request(account, "disable", "disable"))
  /\ UNCHANGED <<account, endpoints, token, server, dontAutoSubscribe, disturbed>>

(* A sign-out goes on to the token, and the check box to the server.        *)
unsubscribe(c) ==
  /\ c.at = "unsubscribe"
  /\ subscription' = 0
  /\ Continue(c, IF c.why = "clear" THEN {Chain("clear", None, "clear")}
                 ELSE Request(account, "disable", "disable"))
  /\ UNCHANGED <<account, endpoints, token, server, dontAutoSubscribe, disturbed>>

clearSWToken(c) ==
  /\ c.at = "clear"
  /\ token' = None
  /\ Continue(c, {})
  /\ UNCHANGED <<account, subscription, endpoints, server, dontAutoSubscribe, disturbed>>

disableNotifications(c) ==
  /\ c.at = "disable"
  /\ notify' = [notify EXCEPT ![c.of] = FALSE]
  /\ Continue(c, {})
  /\ UNCHANGED <<account, browser, registered, dontAutoSubscribe, disturbed>>

(* The push event; without a token its request is refused.                  *)
onPush(c) ==
  /\ c.at \in InWorker
  /\ token' = IF c.at = "save" THEN c.of ELSE token
  /\ Continue(c, CASE c.at = "load"  -> Request(token, "fetch", "push")
                   [] c.at = "fetch" -> {[c EXCEPT !.at = "show"]}
                   [] c.at = "show"  -> {[c EXCEPT !.at = "save"]}
                   [] c.at = "save"  -> {})
  /\ UNCHANGED <<account, subscription, endpoints, server, dontAutoSubscribe, disturbed>>

(* A call fails.  That of the code is not even noticed; that which looks    *)
(* for a subscription is taken for the answer that there is none.           *)
Fail(c) ==
  /\ failures < MaxFailures /\ failures' = failures + 1
  /\ c.at # "load"
  /\ chains' = (chains \ {c}) \cup (IF c.at = "existing?" THEN subscribe("auto") ELSE {})
  /\ dontAutoSubscribe' = (dontAutoSubscribe \/ c.why = "bookmark")
  /\ disturbed' = (disturbed \/ c.why \in {"signin", "ensure", "clear"} \/ c.at = "enable")
  /\ UNCHANGED <<account, browser, server, inputs>>

Init ==
  /\ account = None /\ subscription = 0 /\ endpoints = 0 /\ token = None
  /\ notify \in [Users -> BOOLEAN]
  /\ registered = [u \in Users |-> {}]
  /\ dontAutoSubscribe = FALSE /\ chains = {}
  /\ inputs = 0 /\ failures = 0 /\ disturbed = FALSE

Next ==
  \/ \E u \in Users : SignIn(u)
  \/ SignOut \/ Reload \/ bookmarkSessionNotification \/ updateNotifyUser \/ Push
  \/ \E c \in chains :
       \/ sendCodeToServer(c) \/ ensureSWToken(c) \/ clearSWToken(c)
       \/ isNotifyEnabled(c) \/ isExistingSubscription(c)
       \/ subscribePromise(c) \/ enableNotifications(c)
       \/ unsubscribe(c) \/ disableNotifications(c) \/ onPush(c) \/ Fail(c)

Spec == Init /\ [][Next]_vars

------------------------------------------------------------------------------
(* What the service worker shows is of the user who is signed in; and when   *)
(* nothing is under way its token is that user's, a browser where nobody is *)
(* signed in is not subscribed, and the server knows the endpoint of a      *)
(* browser whose panel says that it is notified: unless a call has failed   *)
(* or the account has changed or the page was left in the middle of a chain *)
(* that minds.                                                              *)
SubscriptionFollowsUser ==
  ~disturbed =>
    /\ \A c \in chains : c.at = "show" => c.of = account
    /\ chains = {} =>
         /\ token = account
         /\ account = None => subscription = 0
         /\ (account # None /\ subscription # 0 /\ notify[account]) =>
              subscription \in registered[account]

------------------------------------------------------------------------------
(* What SubscriptionFollowsUser rests on.                                   *)

(* The steps that there are, and what each is a step of.                    *)
Kinds ==
  {<<"code", "signin">>}
  \cup ({"get", "updates", "set"} \X {"ensure"})
  \cup ({"enabled?", "existing?"} \X {"auto"})
  \cup ({"subscribe", "enable"} \X {"auto", "bookmark", "panel"})
  \cup ({"unsubscribe"} \X {"disable", "clear"})
  \cup {<<"disable", "disable">>, <<"clear", "clear">>}
  \cup (InWorker \X {"push"})

OfSomebody == {"code", "updates", "set", "enabled?", "enable", "disable", "fetch", "show", "save"}

ChainOK(c) ==
  /\ c = [at |-> c.at, of |-> c.of, why |-> c.why, endpoint |-> c.endpoint]
  /\ c.of \in Users \cup {None} /\ c.endpoint \in Nat
  /\ <<c.at, c.why>> \in Kinds
  /\ c.at \in OfSomebody => c.of \in Users
  /\ c.at = "enable" => c.endpoint # 0

SWTokenTypeOK ==
  /\ account \in Users \cup {None} /\ token \in Users \cup {None}
  /\ subscription \in Nat /\ endpoints \in Nat
  /\ notify \in [Users -> BOOLEAN]
  /\ registered \in [Users -> SUBSET (Nat \ {0})]
  /\ \A c \in chains : ChainOK(c)
  /\ disturbed \in BOOLEAN

(* Where nobody is signed in nothing is under way that would enter a user,  *)
(* and what is left of the last one is going to be cleared.                 *)
SignedOut ==
  account = None =>
    /\ Enters = {}
    /\ token # None => Leaves # {}
    /\ subscription # 0 => \E c \in Leaves : c.at = "unsubscribe"

(* Where somebody is, all is of that user; the token is there, or is going  *)
(* to be fetched; and the subscription is known, or is going to be sent.    *)
SignedIn ==
  account # None =>
    /\ Leaves = {}
    /\ \A c \in Enters : c.of \in {None, account}
    /\ token = None \/ token = account
    /\ token = None => \E c \in chains : c.why \in {"signin", "ensure"}
    /\ subscription # 0 =>
         \/ subscription \in registered[account]
         \/ \E c \in chains : c.at = "enable" /\ c.of = account /\ c.endpoint = subscription

FollowsInv == SWTokenTypeOK /\ (~disturbed => SignedOut /\ SignedIn)
==============================================================================
