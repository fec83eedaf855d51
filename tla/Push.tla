-------------------------------- MODULE Push --------------------------------
(***************************************************************************)
(* Push subscriptions: one browser whose users sign in one after the other *)
(* (usePushNotifications.ts), the rows the server keeps by endpoint and    *)
(* what it does when the push service refuses one (push.service.ts).  A    *)
(* page subscribes when its token changes or when permission is asked for, *)
(* and believes it is subscribed once the server has answered.  The event  *)
(* that should make it subscribe again never arrives: push.service.ts      *)
(* sends it to user?N and a socket joins user_N.                           *)
(***************************************************************************)
EXTENDS Naturals, FiniteSets

CONSTANTS Users, Nobody,
          Jobs,        \* calls of ensureSubscription at once
          MaxEndpoints \* bound: subscriptions the browser makes

ASSUME PushConstants == Nobody \notin Users /\ MaxEndpoints \in Nat

VARIABLES
  browser, \* Notification.permission and the subscription (0: none), how many were made
  tab,     \* the chat page: its user, permission, registrationRef, the token
           \* listener of effect 3, subscribedRef
  jobs,    \* calls of ensureSubscription
  rows,    \* PushSubscription: endpoint -> user
  spoilt   \* history: endpoints whose row the page that is open has lost since: a
           \* request of an earlier page came late, or the push service refused it

pushVars == <<browser, tab, jobs, rows, spoilt>>

Endpoints == 1 .. MaxEndpoints
ClosedTab == [user |-> Nobody, permission |-> "idle", registered |-> FALSE, listens |-> FALSE,
              subscribed |-> FALSE, endpoint |-> 0]
NoJob == [at |-> "none", user |-> Nobody, endpoint |-> 0, own |-> FALSE]

PushTypeOK ==
  /\ browser \in [permission : {"default", "granted", "denied"}, sub : 0 .. MaxEndpoints,
                  made : 0 .. MaxEndpoints]
  /\ tab \in [user : Users \cup {Nobody}, permission : {"idle", "granted", "denied"},
              registered : BOOLEAN, listens : BOOLEAN, subscribed : BOOLEAN,
              endpoint : 0 .. MaxEndpoints]
  /\ jobs \in [Jobs -> [at : {"none", "get", "post", "answer"}, user : Users \cup {Nobody},
                        endpoint : 0 .. MaxEndpoints, own : BOOLEAN]]
  /\ rows \in [Endpoints -> Users \cup {Nobody}] /\ spoilt \subseteq Endpoints

PushInit ==
  /\ browser = [permission |-> "default", sub |-> 0, made |-> 0]
  /\ tab = ClosedTab /\ jobs = [j \in Jobs |-> NoJob] /\ rows = [e \in Endpoints |-> Nobody] /\ spoilt = {}

-----------------------------------------------------------------------------
\* The chat page opens: the listener only if permission was granted before.
\* There is no registration yet, so effect 3 itself never subscribes.
OpenChat(u) ==
  /\ tab.user = Nobody
  /\ tab' = [ClosedTab EXCEPT !.user = u, !.listens = browser.permission = "granted"]
  /\ UNCHANGED <<browser, jobs, rows, spoilt>>

\* It is left, by navigation or for another user: a request that was sent goes
\* on to the server, and nobody waits for its answer.
LeaveChat ==
  /\ tab.user # Nobody /\ tab' = ClosedTab
  /\ jobs' = [j \in Jobs |-> IF jobs[j].at = "post" THEN [jobs[j] EXCEPT !.own = FALSE] ELSE NoJob]
  /\ UNCHANGED <<browser, rows, spoilt>>

\* Effect 1: the service worker is registered.
Registered ==
  /\ tab.user # Nobody /\ ~tab.registered
  /\ tab' = [tab EXCEPT !.registered = TRUE,
               !.permission = IF browser.permission = "default" THEN @ ELSE browser.permission]
  /\ UNCHANGED <<browser, jobs, rows, spoilt>>

EnsureSubscription(u) ==
  \E j \in Jobs : /\ jobs[j] = NoJob
                  /\ jobs' = [jobs EXCEPT ![j] = [NoJob EXCEPT !.at = "get", !.user = u, !.own = TRUE]]

\* Effect 3: a new access token.
TokenChanges ==
  /\ tab.listens /\ ~tab.subscribed /\ tab.registered
  /\ EnsureSubscription(tab.user) /\ UNCHANGED <<browser, tab, rows, spoilt>>

\* requestPermission, with what the user answers if the browser has to ask.
RequestPermission(answer) ==
  /\ tab.user # Nobody /\ tab.permission # "granted"
  /\ browser.permission # "default" => answer = browser.permission
  /\ browser' = [browser EXCEPT !.permission = answer]
  /\ IF answer = "granted"
     THEN /\ tab' = [tab EXCEPT !.permission = "granted", !.subscribed = FALSE]
          /\ IF tab.registered THEN EnsureSubscription(tab.user) ELSE UNCHANGED jobs
     ELSE tab' = [tab EXCEPT !.permission = "denied"] /\ UNCHANGED jobs
  /\ UNCHANGED <<rows, spoilt>>

-----------------------------------------------------------------------------
Ends(j) == jobs' = [jobs EXCEPT ![j] = NoJob]

\* getSubscription, or a new one; then the request, unless another call of this
\* page has been answered.  Without permission there is no subscription.
GetSubscription(j) ==
  /\ jobs[j].at = "get" /\ UNCHANGED <<tab, rows, spoilt>>
  /\ LET new == browser.sub = 0
         e == IF new THEN browser.made + 1 ELSE browser.sub IN
     IF new /\ browser.permission # "granted" THEN Ends(j) /\ UNCHANGED browser
     ELSE /\ e <= MaxEndpoints
          /\ browser' = [browser EXCEPT !.sub = e, !.made = IF new THEN e ELSE @]
          /\ IF tab.subscribed THEN Ends(j)
             ELSE jobs' = [jobs EXCEPT ![j].at = "post", ![j].endpoint = e]

\* Mutant of Subscribe: the row of a known endpoint keeps its user.
SubscribeKeepUser(j) ==
  /\ jobs[j].at = "post" /\ UNCHANGED <<browser, tab>>
  /\ rows' = [rows EXCEPT ![jobs[j].endpoint] = IF @ = Nobody THEN jobs[j].user ELSE @]
  /\ IF jobs[j].own
     THEN jobs' = [jobs EXCEPT ![j].at = "answer"] /\ spoilt' = spoilt \ {jobs[j].endpoint}
     ELSE Ends(j) /\ spoilt' = spoilt \cup {jobs[j].endpoint}

\* subscribe of push.service.ts: the endpoint's row, for whoever sent it last.
Subscribe(j) ==
  /\ jobs[j].at = "post" /\ UNCHANGED <<browser, tab>>
  /\ rows' = [rows EXCEPT ![jobs[j].endpoint] = jobs[j].user]
  /\ IF jobs[j].own
     THEN jobs' = [jobs EXCEPT ![j].at = "answer"] /\ spoilt' = spoilt \ {jobs[j].endpoint}
     ELSE Ends(j) /\ spoilt' = spoilt \cup {jobs[j].endpoint}

\* The answer; or the request or its answer is lost, which is only logged.
PostAnswered(j) ==
  /\ jobs[j].at = "answer" /\ Ends(j) /\ UNCHANGED <<browser, rows, spoilt>>
  /\ tab' = [tab EXCEPT !.subscribed = TRUE, !.endpoint = jobs[j].endpoint]
PostLost(j) == jobs[j].at \in {"post", "answer"} /\ Ends(j) /\ UNCHANGED <<browser, tab, rows, spoilt>>

\* The subscription is dropped, by the push service or with the permission.
Dropped(p) ==
  /\ browser.sub # 0 /\ p \in {browser.permission, "denied"}
  /\ browser' = [browser EXCEPT !.sub = 0, !.permission = p] /\ UNCHANGED <<tab, jobs, rows, spoilt>>

\* sendToUser for a row whose endpoint is gone (410): the row is deleted.
SendToGone(e) ==
  /\ rows[e] # Nobody /\ e # browser.sub
  /\ rows' = [rows EXCEPT ![e] = Nobody] /\ spoilt' = spoilt \cup {e}
  /\ UNCHANGED <<browser, tab, jobs>>

PushNext ==
  \/ \E u \in Users : OpenChat(u)
  \/ LeaveChat \/ Registered \/ TokenChanges
  \/ \E p \in {"default", "granted", "denied"} : RequestPermission(p) \/ Dropped(p)
  \/ \E j \in Jobs : GetSubscription(j) \/ Subscribe(j) \/ PostAnswered(j) \/ PostLost(j)
  \/ \E e \in Endpoints : SendToGone(e)

-----------------------------------------------------------------------------
\* A page that believes it is subscribed has the row of its endpoint, whoever
\* was subscribed in this browser before, unless an earlier page's request came
\* late or the endpoint is gone.
SubscribedHasRow == tab.subscribed /\ tab.endpoint \notin spoilt => rows[tab.endpoint] = tab.user

PushInv == PushTypeOK /\ SubscribedHasRow

PushSpec == PushInit /\ [][PushNext]_pushVars
=============================================================================
