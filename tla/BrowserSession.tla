--------------------------- MODULE BrowserSession ---------------------------
(***************************************************************************)
(* One browser's login session: its Session row and refresh token on the   *)
(* server (server/src/auth/auth.service.ts), the refresh cookie and the    *)
(* persisted access token its tabs share, and each tab's own copy of that  *)
(* token (client/src/lib/axios.ts, the login, chat and settings pages,     *)
(* AuthSync).  Tabs refresh under a browser-wide lock; log-ins and         *)
(* log-outs do not take it.  A request that timed out may still be         *)
(* executed: it stays in `net', from Nobody.  Login, whose queries are not *)
(* in a transaction, and refresh, whose transaction is Read Committed, are *)
(* split where they read and where they write.  Module Account has the     *)
(* user's sessions of all devices.                                         *)
(***************************************************************************)
EXTENDS Naturals, FiniteSets, Sequences, SequencesExt

CONSTANTS Tabs,      \* tabs of the browser
          Nobody,    \* stands for the sender of a request that gave up
          Attempts,  \* RETRY_DELAYS_MS.length + 1 (4)
          MaxTokens, \* bound: refresh tokens issued
          MaxLate    \* bound: abandoned requests the server may yet execute

ASSUME BrowserBounds ==
  Attempts \in Nat \ {0} /\ MaxTokens \in Nat /\ MaxLate \in Nat /\ Nobody \notin Tabs

NoToken == 0
Tokens == 1 .. MaxTokens

VARIABLES
  sessions, \* the browser's Session rows; expired: expiresAt has passed
  made,     \* how many refresh tokens were issued
  cookie,   \* the refreshToken cookie
  stored,   \* does auth-storage hold an access token?
  tab,      \* per tab: page, access token, what refreshAccessToken is doing
  event,    \* tabs with an undelivered storage event of a log-out
  lockQ,    \* navigator.locks: holder of refresh_token_lock, then who waits
  net,      \* requests and their replies
  slip,     \* history: a reply was lost, or a login ran with another request
  reused    \* history: a refresh was granted for a token already exchanged

server == <<sessions, made>>
client == <<cookie, stored, tab, event, lockQ>>
vars == <<server, client, net, slip, reused>>

Requests ==
  [tab : Tabs \cup {Nobody},
   kind : {"refresh", "login", "logout"},
   token : Tokens \cup {NoToken},  \* the cookie it carries
   step : {"sent", "read", "done"},
   row : 0 .. MaxTokens,           \* the session to rotate; 0: to create
   reply : {"none", "ok", "denied", "error"}, new : 0 .. MaxTokens]
Page == [page : {"login", "chat"}, access : BOOLEAN,
         phase : {"idle", "queued", "asking", "pausing", "leaving", "login", "logout"},
         tries : 0 .. Attempts - 1, refused : BOOLEAN]

LoginRows == [id : Tokens, token : Tokens, expired : BOOLEAN]

TypeOK ==
  /\ sessions \in SUBSET LoginRows
  /\ made \in 0 .. MaxTokens
  /\ cookie \in Tokens \cup {NoToken} /\ stored \in BOOLEAN
  /\ tab \in [Tabs -> Page]
  /\ event \in SUBSET Tabs
  /\ lockQ \in Seq(Tabs)
  /\ net \in SUBSET Requests
  /\ slip \in BOOLEAN /\ reused \in BOOLEAN

SignedOut == [page |-> "login", access |-> FALSE, phase |-> "idle",
              tries |-> 0, refused |-> FALSE]

Init ==
  /\ sessions = {} /\ made = 0
  /\ cookie = NoToken /\ stored = FALSE
  /\ tab = [t \in Tabs |-> SignedOut]
  /\ event = {} /\ lockQ = <<>>
  /\ net = {}
  /\ slip = FALSE /\ reused = FALSE

-----------------------------------------------------------------------------
(* Requests.                                                               *)

Request(t, kind) ==
  [tab |-> t, kind |-> kind, token |-> cookie,
   step |-> "sent", row |-> 0, reply |-> "none", new |-> 0]
Live(t) == {r \in net : r.tab = t}

\* A tab stops waiting (timeout, connection lost, page left).  The reply, and
\* the cookie in it, are lost; a refresh may yet be executed by the server (a
\* login or a log-out only until then).
Abandon(t) ==
  LET waiting == {r \in Live(t) : r.kind = "refresh" /\ r.reply = "none"}
      room == Cardinality({r \in net : r.tab = Nobody}) < MaxLate
  IN /\ net' = (net \ Live(t)) \cup
                 (IF room THEN {[r EXCEPT !.tab = Nobody] : r \in waiting} ELSE {})
     /\ slip' = (slip \/ \E r \in Live(t) : r.new # NoToken)

Send(t, kind) ==
  /\ net' = net \cup {Request(t, kind)}
  /\ slip' = (slip \/ \E r \in net : "login" \in {r.kind, kind})

Answer(r, reply) ==
  net' = (net \ {r}) \cup
           (IF r.tab # Nobody THEN {[r EXCEPT !.step = "done", !.reply = reply]} ELSE {})

\* A reply with a new pair of tokens; nobody receives it if the client gave up.
Grant(r) ==
  /\ made < MaxTokens /\ made' = made + 1
  /\ net' = (net \ {r}) \cup
       (IF r.tab # Nobody THEN {[r EXCEPT !.step = "done", !.reply = "ok", !.new = made + 1]} ELSE {})
  /\ slip' = (slip \/ r.tab = Nobody)

-----------------------------------------------------------------------------
(* The server.                                                             *)

\* login and issueTokens, what they read: the password is right, and a session
\* with this user agent, if there is one, is to be rotated.
ReadLogin(r) ==
  /\ r.kind = "login" /\ r.step = "sent"
  /\ \E i \in IF sessions = {} THEN {0} ELSE {s.id : s \in sessions} :
       net' = (net \ {r}) \cup {[r EXCEPT !.step = "read", !.row = i]}
  /\ UNCHANGED <<server, client, slip, reused>>

\* refresh, what it reads: a token of no session, or of an expired one, is a
\* 401.  (The expired row is deleted in the transaction that then throws, which
\* is rolled back: it stays.)
ReadRefresh(r) ==
  /\ r.kind = "refresh" /\ r.step = "sent"
  /\ LET found == {s \in sessions : s.token = r.token /\ ~s.expired}
     IN IF found = {} THEN Answer(r, "denied")
        ELSE \E s \in found :
               net' = (net \ {r}) \cup {[r EXCEPT !.step = "read", !.row = s.id]}
  /\ UNCHANGED <<server, client, slip, reused>>

\* rotateSession: the row found gets a new token; update fails if it is gone.
Rotate(r) ==
  /\ r.step = "read" /\ r.row # 0
  /\ \/ \E s \in sessions :
          /\ s.id = r.row
          /\ sessions' = (sessions \ {s}) \cup
                           {[s EXCEPT !.token = made + 1, !.expired = FALSE]}
          /\ reused' = (reused \/ (r.kind = "refresh" /\ s.token # r.token))
          /\ Grant(r)
     \/ /\ \A s \in sessions : s.id # r.row
        /\ Answer(r, "error")
        /\ UNCHANGED <<server, slip, reused>>
  /\ UNCHANGED client

\* issueTokens without a session to rotate.
Create(r) ==
  /\ r.step = "read" /\ r.row = 0
  /\ sessions' = sessions \cup {[id |-> made + 1, token |-> made + 1, expired |-> FALSE]}
  /\ Grant(r)
  /\ UNCHANGED <<client, reused>>

\* logout deletes the session of the cookie the request carried.
ServeLogout(r) ==
  /\ r.kind = "logout" /\ r.step = "sent"
  /\ sessions' = {s \in sessions : s.token # r.token}
  /\ Answer(r, "ok")
  /\ UNCHANGED <<made, client, slip, reused>>

\* Seven days pass without a rotation.
Expire ==
  /\ \E s \in sessions :
       ~s.expired /\ sessions' = (sessions \ {s}) \cup {[s EXCEPT !.expired = TRUE]}
  /\ UNCHANGED <<made, client, net, slip, reused>>

\* The session is ended from elsewhere: terminated or logged out with all
\* others on another device, evicted by a login there, or ended by a change or
\* reset of the password.
EndedElsewhere ==
  /\ sessions # {} /\ sessions' = {}
  /\ UNCHANGED <<made, client, net, slip, reused>>

-----------------------------------------------------------------------------
(* The tabs.                                                               *)

Idle(t) == tab[t].page = "chat" /\ tab[t].phase = "idle"

\* The callback of the lock is over, or its page is gone: the next one has its turn.
Places(t) == {i \in DOMAIN lockQ : lockQ[i] = t}
Unlock(t) ==
  lockQ' = IF Places(t) = {} THEN lockQ ELSE RemoveAt(lockQ, CHOOSE i \in Places(t) : TRUE)

\* logout() persists a store without a token and auth-storage is removed, of
\* which the other tabs hear.
RemoveStored(t) ==
  /\ stored' = FALSE
  /\ event' = (event \ {t}) \cup (IF stored THEN Tabs \ {t} ELSE {})

\* Mutant of SignOut: the persisted token is left in place.
SignOutInMemory(t) ==
  /\ tab' = [tab EXCEPT ![t] = SignedOut]
  /\ Unlock(t)
  /\ stored' = FALSE
  /\ event' = event \ {t}

\* A tab logs out and goes to the login page, which ends what it was doing.
SignOut(t) ==
  /\ tab' = [tab EXCEPT ![t] = SignedOut]
  /\ Unlock(t)
  /\ RemoveStored(t)

\* setAuth: the token is kept in memory and persisted.
Adopt(t, r) ==
  /\ cookie' = r.new
  /\ stored' = TRUE
  /\ tab' = [tab EXCEPT ![t] = [SignedOut EXCEPT !.page = "chat", !.access = TRUE]]
  /\ net' = net \ {r}

\* The chat page is opened: the store is rehydrated from auth-storage.
OpenChat(t) ==
  /\ tab[t] = SignedOut \/ tab[t] = [SignedOut EXCEPT !.access = TRUE]
  /\ tab' = [tab EXCEPT ![t].page = "chat", ![t].access = stored]
  /\ UNCHANGED <<server, cookie, stored, event, lockQ, net, slip, reused>>

\* The login form is submitted; its reply.
Login(t) ==
  /\ tab[t].page = "login" /\ tab[t].phase = "idle"
  /\ tab' = [tab EXCEPT ![t].phase = "login"]
  /\ Send(t, "login")
  /\ UNCHANGED <<server, cookie, stored, event, lockQ, reused>>
LoginReply(t) ==
  /\ tab[t].phase = "login"
  /\ \/ /\ \E r \in Live(t) : r.reply = "ok" /\ Adopt(t, r)
        /\ UNCHANGED slip
     \/ /\ tab' = [tab EXCEPT ![t].phase = "idle"]
        /\ Abandon(t)
        /\ UNCHANGED <<cookie, stored>>
  /\ UNCHANGED <<server, event, lockQ, reused>>

\* refreshAccessToken, called by the chat page, the socket and axios when the
\* access token is missing or about to expire, which is at any time here; a
\* call made while one is running shares its promise.
StartRefresh(t) ==
  /\ Idle(t)
  /\ tab' = [tab EXCEPT ![t].phase = "queued"]
  /\ lockQ' = Append(lockQ, t)
  /\ UNCHANGED <<server, cookie, stored, event, net, slip, reused>>

\* Mutant of HasLock: each tab has a lock of its own.
HasOwnLock(t) == lockQ # <<>>
HasLock(t) == Head(lockQ) = t

\* _doRefresh: the lock is granted, or a pause between attempts is over.
Ask(t) ==
  /\ tab[t].phase \in {"queued", "pausing"} /\ HasLock(t)
  /\ tab' = [tab EXCEPT ![t].phase = "asking"]
  /\ Send(t, "refresh")
  /\ UNCHANGED <<server, cookie, stored, event, lockQ, reused>>
Granted(t) ==
  /\ tab[t].phase = "asking"
  /\ \E r \in Live(t) : r.reply = "ok" /\ Adopt(t, r)
  /\ Unlock(t)
  /\ UNCHANGED <<server, event, slip, reused>>

\* Mutant of LastAttempt: one attempt too many.
OneMore(t) == tab[t].tries = Attempts
LastAttempt(t) == tab[t].tries = Attempts - 1

\* A 401: the first is retried after a pause, the second, or one on the last
\* attempt, logs out.
Denied(t) ==
  /\ tab[t].phase = "asking"
  /\ \E r \in Live(t) :
       /\ r.reply = "denied"
       /\ IF tab[t].refused \/ LastAttempt(t)
            THEN /\ tab' = [tab EXCEPT ![t].phase = "leaving"]
                 /\ net' = (net \ {r}) \cup {Request(t, "logout")}
            ELSE /\ tab' = [tab EXCEPT ![t].phase = "pausing", ![t].refused = TRUE,
                                       ![t].tries = @ + 1]
                 /\ net' = net \ {r}
  /\ UNCHANGED <<server, cookie, stored, event, lockQ, slip, reused>>

\* Mutant of Failed: the lock is kept when the attempts are used up.
FailedLocked(t) ==
  /\ tab[t].phase = "asking"
  /\ Abandon(t)
  /\ tab' = [tab EXCEPT ![t] = IF LastAttempt(t) THEN SignedOut
                               ELSE [@ EXCEPT !.phase = "pausing", !.tries = @ + 1]]
  /\ UNCHANGED <<server, cookie, stored, event, lockQ, reused>>

\* Any other failure, the 15 s timeout among them, is retried too; after the
\* last attempt the result is null, and a chat page that was opening goes to
\* the login page.
Failed(t) ==
  /\ tab[t].phase = "asking"
  /\ Abandon(t)
  /\ IF LastAttempt(t)
       THEN /\ \E p \in {"chat", "login"} :
                 tab' = [tab EXCEPT ![t] = [SignedOut EXCEPT !.page = p, !.access = tab[t].access]]
            /\ Unlock(t)
       ELSE /\ tab' = [tab EXCEPT ![t].phase = "pausing", ![t].tries = @ + 1]
            /\ UNCHANGED lockQ
  /\ UNCHANGED <<server, cookie, stored, event, reused>>

\* handleLogout of the chat page.
Logout(t) ==
  /\ Idle(t) /\ tab[t].access
  /\ tab' = [tab EXCEPT ![t].phase = "logout"]
  /\ Send(t, "logout")
  /\ UNCHANGED <<server, cookie, stored, event, lockQ, reused>>

\* The end of a log-out, the user's or that of a refused refresh: whatever the
\* server answered the tab signs out; an answer also clears the cookie.
LogoutReply(t) ==
  /\ tab[t].phase \in {"leaving", "logout"}
  /\ cookie' = IF \E r \in Live(t) : r.reply = "ok" THEN NoToken ELSE cookie
  /\ Abandon(t)
  /\ SignOut(t)
  /\ UNCHANGED <<server, reused>>

\* "Log out all" of the settings page.
LogoutAll(t) ==
  /\ Idle(t) /\ tab[t].access
  /\ sessions' = {} /\ cookie' = NoToken
  /\ SignOut(t)
  /\ UNCHANGED <<made, net, slip, reused>>

\* A tab hears that another removed the token: it logs out too, and leaves the
\* chat page.
HearLogout(t) ==
  /\ t \in event
  /\ IF tab[t].page = "chat"
       THEN SignOut(t) /\ Abandon(t)
       ELSE /\ tab' = [tab EXCEPT ![t].access = FALSE]
            /\ RemoveStored(t)
            /\ UNCHANGED <<lockQ, net, slip>>
  /\ UNCHANGED <<server, cookie, reused>>

Serve(r) == ReadLogin(r) \/ ReadRefresh(r) \/ Rotate(r) \/ Create(r) \/ ServeLogout(r)
Settle(t) == Ask(t) \/ Granted(t) \/ Denied(t) \/ Failed(t) \/ HearLogout(t)
Next ==
  \/ \E r \in net : Serve(r)
  \/ EndedElsewhere \/ Expire
  \/ \E t \in Tabs : \/ Settle(t) \/ LoginReply(t) \/ LogoutReply(t)
                     \/ OpenChat(t) \/ Login(t) \/ StartRefresh(t)
                     \/ Logout(t) \/ LogoutAll(t)

Spec == Init /\ [][Next]_vars

\* The pauses and the refresh's own timeout end (_doRefresh) and events are
\* delivered.  Nothing is assumed of the server, of the user, nor of the posts of
\* a login and of a log-out, which have no timeout.
FairSpec == Spec /\ \A t \in Tabs : WF_vars(Settle(t))

-----------------------------------------------------------------------------
\* The browser has no session that could be refreshed.
NothingLeft == \A s \in sessions : s.expired

\* A refused refresh logs a browser out only if its session is over: tabs that
\* refresh under refresh_token_lock never spend each other's token.  Excepted
\* are browsers that lost a reply or mixed a login with another request.
NotSignedOutNeedlessly ==
  [][\A t \in Tabs :
       (tab[t].phase = "asking" /\ tab'[t].phase = "leaving" /\ ~slip)
         => NothingLeft \/ cookie = NoToken]_vars

\* Once the persisted token is removed, every tab has dropped its own copy or
\* is about to hear of it, though tabs refresh and log in meanwhile ("if the
\* token is gone, log out and redirect", AuthSync.tsx).
SignedOutEverywhere == \A t \in Tabs : ~stored => ~tab[t].access \/ t \in event

\* Every value stays in its type, and a removed token is gone from every tab.
SessionInv == TypeOK /\ SignedOutEverywhere

\* "The old token is invalidated at once, reuse is impossible"
\* (auth.service.ts:401): no token is exchanged a second time.
OldTokenRefused == ~reused

\* A tab that waits for refresh_token_lock gets its turn, and an answer or a
\* failure, however the tabs before it fare: provided that no tab's log-out post
\* under the lock, after a refusal, stays without an answer for ever, which
\* nothing in the code prevents.
RefreshEnds ==
  (\A u \in Tabs : []<>(tab[u].phase # "leaving")) =>
    \A t \in Tabs : tab[t].phase = "queued" ~> tab[t].phase = "idle"
=============================================================================
