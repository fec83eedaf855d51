--------------------------- MODULE SessionProofs ---------------------------
(***************************************************************************)
(* Proofs about BrowserSession, for any tabs, attempts and tokens: why a   *)
(* refresh is not refused as long as the tabs take turns and no reply is   *)
(* lost, and that all tabs sign out together.  Then about Account, for any *)
(* devices and limits: the invariant of its rows under interleaved         *)
(* requests, and that a reset link replaces the password once.             *)
(***************************************************************************)
EXTENDS BrowserSession, Account, FiniteSetTheorems, SequenceTheorems, WellFoundedInduction, TLAPS

\* Who waits for what: a tab that refreshes is in the queue and asks when it has the
\* lock, a request has its tab waiting for it alone, and one that was given up is
\* a refresh without a reply.
AskerHasLock ==
  \A t \in Tabs : /\ tab[t].phase \in {"queued", "pausing", "asking"} => Places(t) # {}
                  /\ tab[t].phase = "asking" => HasLock(t)
Awaited(kind) ==
  CASE kind = "refresh" -> {"asking"} [] kind = "login" -> {"login"} [] OTHER -> {"leaving", "logout"}
OneRequest ==
  \A r \in net :
    /\ r.tab = Nobody => r.kind = "refresh" /\ r.reply = "none"
    /\ r.tab # Nobody => /\ tab[r.tab].phase \in Awaited(r.kind)
                         /\ \A q \in net : q.tab = r.tab => q = r

\* What the server has done for a request.
Stages ==
  \A r \in net :
    /\ r.step # "done" => r.reply = "none"
    /\ r.step = "read" => r.kind = "login" \/ (r.kind = "refresh" /\ r.row # 0)
    /\ r.new # NoToken => r.reply = "ok" /\ r.kind # "logout"

\* As long as nothing slipped: a login is alone,
LoginAlone == \A r \in net : r.kind = "login" => net = {r}
\* there is one session, and none when a login found none,
OneSession ==
  /\ \A s1, s2 \in sessions : s1 = s2
  /\ \A r \in net : r.step = "read" /\ r.row = 0 => sessions = {}
\* whose token is the cookie or under way to it,
TokenKnown ==
  /\ \A s \in sessions :
       cookie = NoToken \/ s.token = cookie \/ \E r \in net : r.tab # Nobody /\ r.new = s.token
  /\ \A r \in net : r.tab # Nobody /\ r.new # NoToken => \A s \in sessions : s.token = r.new
\* which a tab that asks has sent,
CookieSent ==
  \A r \in net : r.tab # Nobody /\ r.kind = "refresh" => cookie \in {r.token, NoToken}
\* so that it is refused for a reason.
RefusedForReason ==
  \A r \in net : r.tab # Nobody /\ r.kind = "refresh" /\ r.reply = "denied" =>
                   NothingLeft \/ cookie = NoToken

Straight == LoginAlone /\ OneSession /\ TokenKnown /\ CookieSent /\ RefusedForReason

SessionIndInv ==
  /\ TypeOK /\ AskerHasLock /\ OneRequest /\ Stages
  /\ ~slip => Straight

-----------------------------------------------------------------------------
LEMMA Bounded ==
  /\ Attempts \in Nat /\ Attempts > 0 /\ MaxTokens \in Nat /\ MaxLate \in Nat /\ Nobody \notin Tabs
BY BrowserBounds DEF BrowserBounds

LEMMA TypeOfSignedOut == SignedOut \in Page
BY Bounded DEF SignedOut, Page

LEMMA SessionInitially == Init => SessionIndInv
<1> SUFFICES ASSUME Init PROVE SessionIndInv
  OBVIOUS
<1>1. TypeOK
  <2>1. made \in 0 .. MaxTokens /\ tab \in [Tabs -> Page] /\ lockQ \in Seq(Tabs)
    BY TypeOfSignedOut, Bounded DEF Init
  <2> QED
    BY <2>1 DEF Init, TypeOK
<1>2. AskerHasLock /\ OneRequest /\ Stages
  BY DEF Init, SignedOut, AskerHasLock, OneRequest, Stages
<1>3. Straight
  BY DEF Init, Straight, LoginAlone, OneSession, TokenKnown, CookieSent, RefusedForReason
<1> QED
  BY <1>1, <1>2, <1>3 DEF SessionIndInv

\* The sequence without one of its elements.
LEMMA RemoveAtIs ==
  ASSUME NEW S, NEW q \in Seq(S), NEW i \in 1 .. Len(q)
  PROVE  /\ RemoveAt(q, i) \in Seq(S) /\ Len(RemoveAt(q, i)) = Len(q) - 1
         /\ \A j \in 1 .. Len(q) - 1 : RemoveAt(q, i)[j] = IF j < i THEN q[j] ELSE q[j + 1]
<1> DEFINE a == SubSeq(q, 1, i - 1)
           b == SubSeq(q, i + 1, Len(q))
<1>1. a \in Seq(S) /\ Len(a) = i - 1 /\ \A j \in 1 .. i - 1 : a[j] = q[j]
  OBVIOUS
<1>2. b \in Seq(S) /\ Len(b) = Len(q) - i /\ \A j \in 1 .. Len(q) - i : b[j] = q[j + i]
  OBVIOUS
<1>3. RemoveAt(q, i) = a \o b
  BY DEF RemoveAt
<1> HIDE DEF a, b
<1>4. a \o b \in Seq(S) /\ Len(a \o b) = Len(q) - 1
  <2>1. a \o b \in Seq(S) /\ Len(a \o b) = Len(a) + Len(b)
    BY <1>1, <1>2, ConcatProperties
  <2>2. i \in Nat /\ Len(q) \in Nat
    OBVIOUS
  <2>3. Len(a) + Len(b) = Len(q) - 1
    BY <1>1, <1>2, <2>2
  <2> QED
    BY <2>1, <2>3
<1>5. ASSUME NEW j \in 1 .. Len(q) - 1 PROVE (a \o b)[j] = IF j < i THEN q[j] ELSE q[j + 1]
  <2>1. CASE j < i
    BY <1>1, <1>2, <2>1
  <2>2. CASE ~(j < i)
    <3>1. j - (i - 1) \in 1 .. Len(q) - i /\ (a \o b)[j] = b[j - (i - 1)]
      BY <1>1, <1>2, <2>2
    <3> QED
      BY <1>2, <2>2, <3>1
  <2> QED
    BY <2>1, <2>2
<1> QED
  BY <1>3, <1>4, <1>5

\* A tab that leaves the queue leaves the others where they are.
LEMMA UnlockKeeps ==
  ASSUME TypeOK, NEW t \in Tabs, Unlock(t)
  PROVE  /\ lockQ' \in Seq(Tabs)
         /\ \A u \in Tabs \ {t} : /\ Places(u) # {} => Places(u)' # {}
                                  /\ Places(u) # {} /\ HasLock(u) => HasLock(u)'
<1>1. lockQ \in Seq(Tabs)
  BY DEF TypeOK
<1>2. CASE Places(t) = {}
  BY <1>1, <1>2 DEF Unlock, HasLock, Places
<1>3. CASE Places(t) # {}
  <2> DEFINE i == CHOOSE p \in Places(t) : TRUE
  <2>1. i \in Places(t) /\ lockQ' = RemoveAt(lockQ, i)
    BY <1>3 DEF Unlock
  <2> HIDE DEF i
  <2>2. i \in 1 .. Len(lockQ) /\ lockQ[i] = t
    BY <1>1, <2>1 DEF Places
  <2>3. lockQ' \in Seq(Tabs) /\ Len(lockQ') = Len(lockQ) - 1
    BY <1>1, <2>1, <2>2, RemoveAtIs
  <2>4. ASSUME NEW u \in Tabs \ {t}, HasLock(u), Places(u) # {} PROVE HasLock(u)'
    <3>1. i \in 2 .. Len(lockQ)
      BY <1>1, <2>2, <2>4 DEF HasLock
    <3>2. Head(RemoveAt(lockQ, i)) = Head(lockQ)
      BY <1>1, <3>1 DEF RemoveAt
    <3> QED
      BY <2>1, <2>4, <3>2 DEF HasLock
  <2>5. ASSUME NEW u \in Tabs \ {t}, Places(u) # {} PROVE Places(u)' # {}
    <3>1. PICK j \in 1 .. Len(lockQ) : lockQ[j] = u
      BY <1>1, <2>5 DEF Places
    <3>2. CASE j < i
      <4>0. Len(lockQ) \in Nat /\ i \in Nat /\ j \in Nat /\ j <= Len(lockQ') /\ j >= 1
        BY <1>1, <2>2, <2>3, <3>1, <3>2, LenProperties
      <4>1. j \in 1 .. Len(lockQ') /\ lockQ'[j] = lockQ[j]
        BY <1>1, <2>1, <2>2, <2>3, <3>2, <4>0, RemoveAtIs
      <4> QED
        BY <2>3, <3>1, <4>1 DEF Places
    <3>3. CASE j > i
      <4>0. /\ Len(lockQ) \in Nat /\ i \in Nat /\ j \in Nat /\ i >= 1 /\ j <= Len(lockQ)
            /\ j - 1 \in 1 .. Len(lockQ')
        BY <1>1, <2>1, <2>2, <2>3, <3>1, <3>3, LenProperties, RemoveAtIs
      <4>1. j - 1 \in 1 .. Len(lockQ') /\ lockQ'[j - 1] = u
        BY <1>1, <2>1, <2>2, <2>3, <3>1, <3>3, <4>0, RemoveAtIs
      <4> QED
        BY <2>3, <4>1 DEF Places
    <3> QED
      BY <2>2, <2>5, <3>1, <3>2, <3>3
  <2> QED
    BY <2>3, <2>4, <2>5
<1> QED
  BY <1>2, <1>3

\* A tab that waits for nothing has no request under way.
LEMMA NoneAwaited ==
  ASSUME SessionIndInv, NEW t \in Tabs, tab[t].phase \in {"idle", "queued", "pausing"}
  PROVE  Live(t) = {}
BY Bounded DEF SessionIndInv, OneRequest, Live, Awaited

\* The server goes on with a request, or is done with one nobody waits for.
LEMMA ServedKeeps ==
  ASSUME SessionIndInv, NEW r \in net, NEW q \in Requests,
         q.tab = r.tab, q.kind = r.kind, q.token = r.token,
         q.step # "done" => q.reply = "none",
         q.step = "read" => q.kind = "login" \/ (q.kind = "refresh" /\ q.row # 0),
         q.new # NoToken => q.reply = "ok" /\ q.kind # "logout",
         \/ net' = (net \ {r}) \cup {q} /\ (q.tab = Nobody => q.reply = "none")
         \/ net' = net \ {r},
         UNCHANGED client
  PROVE  /\ net' \subseteq Requests /\ AskerHasLock' /\ OneRequest' /\ Stages'
         /\ (LoginAlone => LoginAlone') /\ (CookieSent => CookieSent')
<1> USE DEF SessionIndInv, client
<1>1. \A p \in net' : p = q \/ (p \in net /\ p # r)
  OBVIOUS
<1>2. net' \subseteq Requests
  BY <1>1 DEF TypeOK
<1>3. AskerHasLock'
  BY DEF AskerHasLock, HasLock, Places
<1>4. OneRequest'
  BY <1>1 DEF OneRequest, Awaited
<1>5. Stages'
  BY <1>1 DEF Stages
<1>6. LoginAlone => LoginAlone'
  BY <1>1 DEF LoginAlone
<1>7. CookieSent => CookieSent'
  BY <1>1 DEF CookieSent
<1> QED
  BY <1>2, <1>3, <1>4, <1>5, <1>6, <1>7

\* A tab stops waiting: what it had is lost, or goes on without it.
LEMMA AbandonKeeps ==
  ASSUME SessionIndInv, NEW t \in Tabs, Abandon(t), UNCHANGED server,
         cookie' \in {cookie, NoToken}, \A u \in Tabs \ {t} : tab'[u].phase = tab[u].phase
  PROVE  /\ net' \subseteq Requests /\ slip' \in BOOLEAN /\ OneRequest' /\ Stages'
         /\ ~slip' => Straight'
<1> USE DEF SessionIndInv, server
<1> DEFINE waiting == {r \in Live(t) : r.kind = "refresh" /\ r.reply = "none"}
<1>1. \A q \in net' : \/ q \in net /\ q.tab # t
                      \/ \E r \in waiting : q = [r EXCEPT !.tab = Nobody]
  BY DEF Abandon, Live
<1>2. \A r \in waiting : /\ r \in net /\ r.tab = t /\ r \in Requests
                         /\ r.kind = "refresh" /\ r.reply = "none"
  BY DEF Live, TypeOK
<1> HIDE DEF waiting
<1>3. \A q \in net' : \/ q \in net /\ q.tab # t
                      \/ \E r \in net : /\ q.tab = Nobody /\ q \in Requests /\ q.kind = "refresh"
                                        /\ r.kind = "refresh" /\ q.reply = "none" /\ q.step = r.step
                                        /\ q.row = r.row /\ q.new = r.new /\ r.reply = "none"
  BY <1>1, <1>2, Bounded DEF Requests
<1>4. net' \subseteq Requests
  BY <1>3 DEF TypeOK
<1>5. slip' \in BOOLEAN /\ (~slip' => ~slip /\ \A r \in Live(t) : r.new = NoToken)
  BY DEF Abandon, TypeOK
<1>6. OneRequest'
  <2> SUFFICES ASSUME NEW q \in net'
               PROVE  /\ q.tab = Nobody => q.kind = "refresh" /\ q.reply = "none"
                      /\ q.tab # Nobody => /\ tab'[q.tab].phase \in Awaited(q.kind)
                                           /\ \A p \in net' : p.tab = q.tab => p = q
    BY DEF OneRequest, Awaited
  <2>1. CASE q.tab = Nobody
    BY <1>3, <2>1 DEF OneRequest
  <2>2. CASE q.tab # Nobody
    <3>1. q \in net /\ q.tab # t /\ q.tab \in Tabs
      BY <1>3, <2>2 DEF TypeOK, Requests
    <3>2. tab'[q.tab].phase \in Awaited(q.kind)
      BY <2>2, <3>1 DEF OneRequest
    <3>3. \A p \in net' : p.tab = q.tab => p = q
      BY <1>3, <2>2, <3>1 DEF OneRequest
    <3> QED
      BY <2>2, <3>2, <3>3
  <2> QED
    BY <2>1, <2>2
<1>7. Stages'
  BY <1>3 DEF Stages
<1>8. ASSUME ~slip' PROVE Straight'
  <2> USE <1>8, <1>5 DEF Straight
  <2>1. LoginAlone'
    BY <1>3 DEF LoginAlone
  <2>2. OneSession'
    BY <1>3 DEF OneSession
  <2>3. TokenKnown'
    <3>1. ASSUME NEW s \in sessions, cookie' # NoToken, s.token # cookie'
          PROVE  \E r \in net' : r.tab # Nobody /\ r.new = s.token
      <4>1. PICK r \in net : r.tab # Nobody /\ r.new = s.token
        BY <3>1 DEF TokenKnown
      <4>2. s.token # NoToken
        BY DEF TypeOK, LoginRows, Tokens, NoToken
      <4>3. r.tab # t
        BY <4>1, <4>2 DEF Live
      <4>4. r \in net'
        BY <4>3 DEF Abandon, Live
      <4> QED
        BY <4>1, <4>4
    <3>2. \A r \in net' : r.tab # Nobody /\ r.new # NoToken => \A s \in sessions : s.token = r.new
      BY <1>3 DEF TokenKnown
    <3> QED
      BY <3>1, <3>2 DEF TokenKnown
  <2>4. CookieSent' /\ RefusedForReason'
    BY <1>3 DEF CookieSent, RefusedForReason, NothingLeft
  <2> QED
    BY <2>1, <2>2, <2>3, <2>4
<1> QED
  BY <1>4, <1>5, <1>6, <1>7, <1>8

-----------------------------------------------------------------------------
(* The server's steps.                                                     *)

\* A reply, or the end of a request that nobody waits for.
LEMMA AnswerIs ==
  ASSUME TypeOK, NEW r \in net, NEW reply \in {"ok", "denied", "error"}, Answer(r, reply)
  PROVE  \E q \in Requests :
           /\ q.tab = r.tab /\ q.kind = r.kind /\ q.token = r.token /\ q.new = r.new
           /\ q.step = "done" /\ q.reply = reply /\ q.row = r.row
           /\ net' = IF r.tab # Nobody THEN (net \ {r}) \cup {q} ELSE net \ {r}
<1> DEFINE q == [r EXCEPT !.step = "done", !.reply = reply]
<1>1. r \in Requests
  BY DEF TypeOK
<1>2. /\ q \in Requests /\ q.tab = r.tab /\ q.kind = r.kind /\ q.token = r.token /\ q.new = r.new
      /\ q.step = "done" /\ q.reply = reply /\ q.row = r.row
  BY <1>1 DEF Requests
<1>3. net' = IF r.tab # Nobody THEN (net \ {r}) \cup {q} ELSE net \ {r}
  BY DEF Answer
<1> HIDE DEF q
<1> QED
  BY <1>2, <1>3

LEMMA ReadLoginKeeps ==
  ASSUME SessionIndInv, NEW r \in net, ReadLogin(r) PROVE SessionIndInv'
<1> USE DEF SessionIndInv
<1>1. PICK i \in (IF sessions = {} THEN {0} ELSE {s.id : s \in sessions}) :
        net' = (net \ {r}) \cup {[r EXCEPT !.step = "read", !.row = i]}
  BY DEF ReadLogin
<1> DEFINE q == [r EXCEPT !.step = "read", !.row = i]
<1>2. r \in Requests /\ i \in 0 .. MaxTokens /\ (i = 0 => sessions = {})
  BY Bounded DEF TypeOK, LoginRows, Tokens
<1>3. /\ q \in Requests /\ q.tab = r.tab /\ q.kind = "login" /\ r.kind = "login" /\ q.token = r.token
      /\ q.new = r.new /\ q.step = "read" /\ q.reply = "none" /\ r.reply = "none" /\ q.row = i
  BY <1>2 DEF Requests, ReadLogin, Stages
<1>4. net' = (net \ {r}) \cup {q} /\ UNCHANGED <<server, client, slip, reused>>
  BY <1>1 DEF ReadLogin
<1> HIDE DEF q
<1>5. q.new = NoToken /\ r.new = NoToken
  BY <1>3 DEF Stages
<1>6. /\ net' \subseteq Requests /\ AskerHasLock' /\ OneRequest' /\ Stages'
      /\ (LoginAlone => LoginAlone') /\ (CookieSent => CookieSent')
  BY <1>3, <1>4, <1>5, ServedKeeps
<1>7. TypeOK'
  BY <1>4, <1>6 DEF TypeOK, server, client
<1>8. ASSUME ~slip' PROVE Straight'
  <2>1. Straight /\ UNCHANGED <<sessions, cookie>>
    BY <1>4, <1>8 DEF server, client
  <2>2. OneSession'
    BY <1>2, <1>3, <1>4, <2>1 DEF Straight, OneSession
  <2>3. TokenKnown'
    <3>1. \A p \in net' : p.tab # Nobody /\ p.new # NoToken => p \in net
      BY <1>4, <1>5
    <3>2. \A p \in net : p.new # NoToken => p \in net'
      BY <1>4, <1>5
    <3>3. \A s \in sessions : s.token # NoToken
      BY DEF TypeOK, LoginRows, Tokens, NoToken
    <3> QED
      BY <2>1, <3>1, <3>2, <3>3 DEF Straight, TokenKnown
  <2>4. RefusedForReason'
    BY <1>3, <1>4, <2>1 DEF Straight, RefusedForReason, NothingLeft
  <2> QED
    BY <1>6, <2>1, <2>2, <2>3, <2>4 DEF Straight
<1> QED
  BY <1>6, <1>7, <1>8

\* Fewer sessions, and answers without tokens.
LEMMA FewerSessions ==
  ASSUME SessionIndInv, sessions' \subseteq sessions, UNCHANGED cookie, ~slip, Straight,
         net' \subseteq Requests, LoginAlone', CookieSent',
         \A p \in net : p.new # NoToken => p \in net',
         \A p \in net' : p.new # NoToken => p \in net,
         \A p \in net' : p.step = "read" /\ p.row = 0 => p \in net,
         \A p \in net' : p.tab # Nobody /\ p.kind = "refresh" /\ p.reply = "denied" =>
                           p \in net \/ NothingLeft' \/ cookie = NoToken
  PROVE  Straight'
<1> USE DEF SessionIndInv, Straight
<1>1. OneSession'
  BY DEF OneSession
<1>2. TokenKnown'
  <2>1. \A s \in sessions : s.token # NoToken
    BY DEF TypeOK, LoginRows, Tokens, NoToken
  <2> QED
    BY <2>1 DEF TokenKnown
<1>3. RefusedForReason'
  BY DEF RefusedForReason, NothingLeft
<1> QED
  BY <1>1, <1>2, <1>3

\* Nobody waits for a log-in or a refresh while another does.
LEMMA TakeTurns ==
  ASSUME SessionIndInv, ~slip, NEW r \in net, NEW q \in net, r.tab # Nobody, q.tab # Nobody,
         r.kind # "logout", q.kind # "logout"
  PROVE  q = r
<1> USE DEF SessionIndInv, Straight
<1>1. CASE r.kind = "login" \/ q.kind = "login"
  BY <1>1 DEF LoginAlone
<1>2. CASE r.kind # "login" /\ q.kind # "login"
  <2>1. q.kind = "refresh" /\ r.kind = "refresh" /\ q.tab \in Tabs /\ r.tab \in Tabs
    BY <1>2 DEF TypeOK, Requests
  <2>2. tab[q.tab].phase = "asking" /\ tab[r.tab].phase = "asking"
    BY <2>1 DEF OneRequest, Awaited
  <2>3. q.tab = r.tab
    BY <2>1, <2>2 DEF AskerHasLock, HasLock
  <2> QED
    BY <2>3 DEF OneRequest
<1> QED
  BY <1>1, <1>2

\* A refresh is denied for a reason: its token is that of the session, unless
\* the cookie is gone.
LEMMA DeniedForReason ==
  ASSUME SessionIndInv, ~slip, NEW r \in net, r.tab # Nobody, r.kind = "refresh", r.reply = "none",
         r.new = NoToken
  PROVE  cookie = NoToken \/ \A s \in sessions : s.token = r.token
<1> USE DEF SessionIndInv, Straight
<1> SUFFICES ASSUME cookie # NoToken, NEW s \in sessions, s.token # r.token PROVE FALSE
  OBVIOUS
<1>1. cookie = r.token
  BY DEF CookieSent
<1>2. PICK q \in net : q.tab # Nobody /\ q.new = s.token
  BY <1>1 DEF TokenKnown
<1>3. q.new # NoToken
  BY <1>2 DEF TypeOK, LoginRows, Tokens, NoToken
<1>4. q.kind # "logout" /\ q # r
  BY <1>3 DEF Stages
<1> QED
  BY <1>2, <1>4, TakeTurns

LEMMA ReadRefreshKeeps ==
  ASSUME SessionIndInv, NEW r \in net, ReadRefresh(r) PROVE SessionIndInv'
<1> USE DEF SessionIndInv
<1> DEFINE found == {s \in sessions : s.token = r.token /\ ~s.expired}
<1>1. /\ r.kind = "refresh" /\ r.step = "sent" /\ r.reply = "none" /\ r.new = NoToken /\ r \in Requests
      /\ UNCHANGED <<server, client, slip, reused>>
  BY DEF ReadRefresh, Stages, TypeOK
<1>2. CASE found = {} /\ Answer(r, "denied")
    <2>1. PICK q \in Requests :
           /\ q.tab = r.tab /\ q.kind = r.kind /\ q.token = r.token /\ q.new = r.new
           /\ q.step = "done" /\ q.reply = "denied" /\ q.row = r.row
           /\ net' = IF r.tab # Nobody THEN (net \ {r}) \cup {q} ELSE net \ {r}
      BY <1>2, AnswerIs
    <2>2. /\ net' \subseteq Requests /\ AskerHasLock' /\ OneRequest' /\ Stages'
          /\ (LoginAlone => LoginAlone') /\ (CookieSent => CookieSent')
      BY <1>1, <2>1, ServedKeeps
    <2>3. TypeOK'
      BY <1>1, <2>2 DEF TypeOK, server, client
    <2>4. ASSUME ~slip' PROVE Straight'
      <3>1. ~slip /\ UNCHANGED <<cookie, sessions>>
        BY <1>1, <2>4 DEF server, client
      <3>2. ASSUME r.tab # Nobody PROVE NothingLeft' \/ cookie = NoToken
        <4>1. cookie = NoToken \/ \A s \in sessions : s.token = r.token
          BY <1>1, <3>1, <3>2, DeniedForReason
        <4>2. \A s \in sessions : s.expired \in BOOLEAN
          BY DEF TypeOK, LoginRows
        <4> QED
          BY <1>2, <3>1, <4>1, <4>2 DEF NothingLeft
      <3>3. /\ \A p \in net : p.new # NoToken => p \in net'
            /\ \A p \in net' : p.new # NoToken => p \in net
            /\ \A p \in net' : p.step = "read" /\ p.row = 0 => p \in net
            /\ \A p \in net' : p.tab # Nobody /\ p.kind = "refresh" /\ p.reply = "denied" =>
                                 p \in net \/ NothingLeft' \/ cookie = NoToken
        BY <1>1, <2>1, <3>2
      <3> HIDE DEF found
      <3> QED
        BY <2>2, <3>1, <3>3, FewerSessions DEF Straight
    <2> QED
      BY <2>2, <2>3, <2>4
<1>3. CASE \E s \in found : net' = (net \ {r}) \cup {[r EXCEPT !.step = "read", !.row = s.id]}
    <2>1. PICK s \in found : net' = (net \ {r}) \cup {[r EXCEPT !.step = "read", !.row = s.id]}
      BY <1>3
    <2> DEFINE q == [r EXCEPT !.step = "read", !.row = s.id]
    <2>2. s.id \in 0 .. MaxTokens /\ s.id # 0
      BY Bounded DEF TypeOK, Tokens, LoginRows
    <2>3. /\ q \in Requests /\ q.tab = r.tab /\ q.kind = "refresh" /\ q.token = r.token
          /\ q.new = NoToken /\ q.step = "read" /\ q.reply = "none" /\ q.row # 0
      BY <1>1, <2>2 DEF Requests
    <2>4. net' = (net \ {r}) \cup {q}
      BY <2>1
    <2> HIDE DEF q, found
    <2>5. /\ net' \subseteq Requests /\ AskerHasLock' /\ OneRequest' /\ Stages'
          /\ (LoginAlone => LoginAlone') /\ (CookieSent => CookieSent')
      BY <1>1, <2>3, <2>4, ServedKeeps
    <2>6. TypeOK'
      BY <1>1, <2>5 DEF TypeOK, server, client
    <2>7. ASSUME ~slip' PROVE Straight'
      <3>1. ~slip /\ UNCHANGED <<cookie, sessions>>
        BY <1>1, <2>7 DEF server, client
      <3> QED
        BY <1>1, <2>3, <2>4, <2>5, <3>1, FewerSessions DEF Straight
    <2> QED
      BY <2>5, <2>6, <2>7
<1> QED
  BY <1>2, <1>3 DEF ReadRefresh

\* An expiry is no token's.
LEMMA ExpireKeeps ==
  ASSUME SessionIndInv, Expire PROVE SessionIndInv'
<1> USE DEF SessionIndInv, client
<1>1. PICK s \in sessions : ~s.expired /\ sessions' = (sessions \ {s}) \cup {[s EXCEPT !.expired = TRUE]}
  BY DEF Expire
<1>2. PICK x : x = [s EXCEPT !.expired = TRUE]
  OBVIOUS
<1>3. s \in LoginRows /\ x \in LoginRows /\ x.token = s.token /\ x.id = s.id /\ x.expired
  BY <1>2 DEF TypeOK, LoginRows
<1>4. sessions' = (sessions \ {s}) \cup {x} /\ UNCHANGED <<made, client, net, slip, reused>>
  BY <1>1, <1>2 DEF Expire
<1>5. TypeOK'
  BY <1>3, <1>4 DEF TypeOK
<1>6. AskerHasLock' /\ OneRequest' /\ Stages'
  BY <1>4 DEF AskerHasLock, HasLock, Places, OneRequest, Stages
<1>7. ASSUME ~slip' PROVE Straight'
  <2>1. Straight
    BY <1>4, <1>7
  <2>2. LoginAlone' /\ CookieSent'
    BY <1>4, <2>1 DEF Straight, LoginAlone, CookieSent
  <2>3. sessions = {s} /\ sessions' = {x}
    BY <1>4, <2>1 DEF Straight, OneSession
  <2>4. OneSession'
    BY <1>4, <2>1, <2>3 DEF Straight, OneSession
  <2>5. TokenKnown'
    BY <1>3, <1>4, <2>1, <2>3 DEF Straight, TokenKnown
  <2>6. RefusedForReason'
    BY <1>3, <1>4, <2>1, <2>3 DEF Straight, RefusedForReason, NothingLeft
  <2> QED
    BY <2>2, <2>4, <2>5, <2>6 DEF Straight
<1> QED
  BY <1>5, <1>6, <1>7

\* A pair of tokens is given out, of the only session there is unless something slipped.
LEMMA GrantKeeps ==
  ASSUME SessionIndInv, NEW r \in net, Grant(r), r.step = "read", UNCHANGED client,
         sessions' \subseteq LoginRows, reused' \in BOOLEAN,
         ~slip' => \E s \in sessions' : sessions' = {s} /\ s.token = made + 1
  PROVE  SessionIndInv'
<1> USE DEF SessionIndInv
<1> DEFINE q == [r EXCEPT !.step = "done", !.reply = "ok", !.new = made + 1]
<1>1. /\ made \in 0 .. MaxTokens /\ made < MaxTokens /\ made' = made + 1
      /\ slip' = (slip \/ r.tab = Nobody) /\ r \in Requests /\ r.kind # "logout"
  BY DEF Grant, TypeOK, Stages
<1>2. made + 1 \in 0 .. MaxTokens /\ made + 1 # NoToken
  BY <1>1, Bounded DEF NoToken
<1>3. /\ q \in Requests /\ q.tab = r.tab /\ q.kind = r.kind /\ q.token = r.token
      /\ q.step = "done" /\ q.reply = "ok" /\ q.new = made + 1
  BY <1>1, <1>2 DEF Requests
<1>4. net' = (net \ {r}) \cup (IF r.tab # Nobody THEN {q} ELSE {})
  BY DEF Grant
<1> HIDE DEF q
<1>5. /\ net' \subseteq Requests /\ AskerHasLock' /\ OneRequest' /\ Stages'
      /\ (LoginAlone => LoginAlone') /\ (CookieSent => CookieSent')
  BY <1>1, <1>3, <1>4, ServedKeeps
<1>6. TypeOK'
  BY <1>1, <1>2, <1>5 DEF TypeOK, client
<1>7. ASSUME ~slip' PROVE Straight'
  <2>1. ~slip /\ r.tab # Nobody /\ net' = (net \ {r}) \cup {q}
    BY <1>1, <1>4, <1>7
  <2>2. PICK s \in sessions' : sessions' = {s} /\ s.token = made + 1
    BY <1>7
  <2>3. \A p \in net \ {r} : p.tab = Nobody \/ p.kind = "logout"
    BY <1>1, <2>1, TakeTurns
  <2>4. OneSession'
    <3>1. \A p \in net' : p.step = "read" => p.row # 0
      BY <1>3, <2>1 DEF Stages, Straight, LoginAlone
    <3> QED
      BY <2>2, <3>1 DEF OneSession
  <2>5. TokenKnown'
    BY <1>3, <2>1, <2>2, <2>3 DEF TokenKnown, Stages
  <2>6. RefusedForReason'
    BY <1>3, <2>1, <2>3 DEF RefusedForReason
  <2> QED
    BY <1>5, <2>1, <2>4, <2>5, <2>6 DEF Straight
<1> QED
  BY <1>5, <1>6, <1>7

LEMMA RotateKeeps ==
  ASSUME SessionIndInv, NEW r \in net, Rotate(r) PROVE SessionIndInv'
<1> USE DEF SessionIndInv
<1>1. r.step = "read" /\ r.row # 0 /\ UNCHANGED client /\ r \in Requests /\ r.new = NoToken
      /\ r.reply = "none"
  BY DEF Rotate, Stages, TypeOK
<1>2. ASSUME NEW s \in sessions,
             sessions' = (sessions \ {s}) \cup {[s EXCEPT !.token = made + 1, !.expired = FALSE]},
             reused' = (reused \/ (r.kind = "refresh" /\ s.token # r.token)), Grant(r)
      PROVE  SessionIndInv'
  <2> DEFINE x == [s EXCEPT !.token = made + 1, !.expired = FALSE]
  <2>1. made + 1 \in Tokens /\ s \in LoginRows
        /\ sessions \subseteq LoginRows
    BY <1>2, Bounded DEF Grant, TypeOK, Tokens
  <2>2. x \in LoginRows /\ x.token = made + 1
    BY <2>1 DEF LoginRows
  <2>3. sessions' = (sessions \ {s}) \cup {x}
    BY <1>2
  <2> HIDE DEF x
  <2>4. sessions' \subseteq LoginRows
    BY <2>1, <2>2, <2>3
  <2>5. ~slip' => sessions' = {x}
    BY <2>3, <1>2 DEF Grant, Straight, OneSession
  <2>6. reused' \in BOOLEAN
    BY <1>2 DEF TypeOK
  <2> QED
    BY <1>1, <1>2, <2>2, <2>4, <2>5, <2>6, GrantKeeps
<1>3. CASE Answer(r, "error") /\ UNCHANGED <<server, slip, reused>>
  <2>1. PICK q \in Requests :
           /\ q.tab = r.tab /\ q.kind = r.kind /\ q.token = r.token /\ q.new = r.new
           /\ q.step = "done" /\ q.reply = "error" /\ q.row = r.row
           /\ net' = IF r.tab # Nobody THEN (net \ {r}) \cup {q} ELSE net \ {r}
    BY <1>3, AnswerIs
  <2>2. /\ net' \subseteq Requests /\ AskerHasLock' /\ OneRequest' /\ Stages'
        /\ (LoginAlone => LoginAlone') /\ (CookieSent => CookieSent')
    BY <1>1, <2>1, ServedKeeps
  <2>3. TypeOK'
    BY <1>1, <1>3, <2>2 DEF TypeOK, client, server
  <2>4. ASSUME ~slip' PROVE Straight'
    <3>1. ~slip /\ UNCHANGED <<cookie, sessions>>
      BY <1>1, <1>3, <2>4 DEF client, server
    <3> QED
      BY <1>1, <2>1, <2>2, <3>1, FewerSessions DEF Straight
  <2> QED
    BY <2>2, <2>3, <2>4
<1> QED
  BY <1>2, <1>3 DEF Rotate

LEMMA CreateKeeps ==
  ASSUME SessionIndInv, NEW r \in net, Create(r) PROVE SessionIndInv'
<1> USE DEF SessionIndInv
<1> DEFINE x == [id |-> made + 1, token |-> made + 1, expired |-> FALSE]
<1>1. r.step = "read" /\ r.row = 0 /\ Grant(r) /\ UNCHANGED <<client, reused>>
  BY DEF Create
<1>2. made + 1 \in Tokens
  BY <1>1, Bounded DEF Grant, TypeOK, Tokens
<1>3. x \in LoginRows /\ x.token = made + 1 /\ sessions' = sessions \cup {x}
  BY <1>2 DEF Create, LoginRows
<1> HIDE DEF x
<1>4. ~slip' => sessions' = {x}
  BY <1>1, <1>3 DEF Grant, Straight, OneSession
<1>5. sessions' \subseteq LoginRows /\ reused' \in BOOLEAN
  BY <1>1, <1>3 DEF TypeOK
<1> QED
  BY <1>1, <1>3, <1>4, <1>5, GrantKeeps

LEMMA ServeLogoutKeeps ==
  ASSUME SessionIndInv, NEW r \in net, ServeLogout(r) PROVE SessionIndInv'
<1> USE DEF SessionIndInv
<1>1. /\ r.kind = "logout" /\ r.step = "sent" /\ sessions' \subseteq sessions /\ Answer(r, "ok")
      /\ UNCHANGED <<made, client, slip, reused>> /\ r.new = NoToken
  BY DEF ServeLogout, Stages
<1>2. PICK q \in Requests :
         /\ q.tab = r.tab /\ q.kind = r.kind /\ q.token = r.token /\ q.new = r.new
         /\ q.step = "done" /\ q.reply = "ok" /\ q.row = r.row
         /\ net' = IF r.tab # Nobody THEN (net \ {r}) \cup {q} ELSE net \ {r}
  BY <1>1, AnswerIs
<1>3. r.tab # Nobody
  BY <1>1 DEF OneRequest
<1>4. /\ net' \subseteq Requests /\ AskerHasLock' /\ OneRequest' /\ Stages'
      /\ (LoginAlone => LoginAlone') /\ (CookieSent => CookieSent')
  BY <1>1, <1>2, <1>3, ServedKeeps
<1>5. TypeOK'
  BY <1>1, <1>4 DEF TypeOK, client
<1>6. ASSUME ~slip' PROVE Straight'
  <2>1. ~slip /\ UNCHANGED cookie
    BY <1>1, <1>6 DEF client
  <2> QED
    BY <1>1, <1>2, <1>4, <2>1, FewerSessions DEF Straight
<1> QED
  BY <1>4, <1>5, <1>6

LEMMA EndedKeeps ==
  ASSUME SessionIndInv, EndedElsewhere PROVE SessionIndInv'
<1> USE DEF SessionIndInv, EndedElsewhere, client
<1>1. TypeOK'
  BY DEF TypeOK
<1>2. AskerHasLock' /\ OneRequest' /\ Stages'
  BY DEF AskerHasLock, HasLock, Places, OneRequest, Stages
<1>3. ASSUME ~slip' PROVE Straight'
  <2>1. ~slip /\ LoginAlone' /\ CookieSent' /\ net' \subseteq Requests
    BY <1>3 DEF Straight, LoginAlone, CookieSent, TypeOK
  <2> QED
    BY <2>1, FewerSessions
<1> QED
  BY <1>1, <1>2, <1>3

-----------------------------------------------------------------------------
(* The tabs' steps.                                                        *)

\* A tab that waits for nothing sends a request.
LEMMA SendKeeps ==
  ASSUME SessionIndInv, NEW t \in Tabs, NEW kind \in {"refresh", "login", "logout"}, Send(t, kind),
         tab[t].phase \in {"idle", "queued", "pausing"},
         NEW phase \in Awaited(kind), tab' = [tab EXCEPT ![t].phase = phase],
         kind = "refresh" => Places(t) # {} /\ HasLock(t),
         UNCHANGED <<server, cookie, stored, event, lockQ, reused>>
  PROVE  SessionIndInv'
<1> USE DEF SessionIndInv, server
<1> DEFINE r == Request(t, kind)
<1>1. /\ r \in Requests /\ r.tab = t /\ r.kind = kind /\ r.token = cookie /\ r.step = "sent"
      /\ r.row = 0 /\ r.reply = "none" /\ r.new = NoToken
  BY Bounded DEF Request, Requests, TypeOK, NoToken
<1>2. net' = net \cup {r} /\ slip' = (slip \/ \E q \in net : "login" \in {q.kind, kind})
  BY DEF Send
<1> HIDE DEF r
<1>3. \A q \in net : q.tab # t
  BY NoneAwaited DEF Live
<1>4. /\ phase \in {"asking", "login", "leaving", "logout"} /\ (phase = "asking" <=> kind = "refresh")
      /\ tab \in [Tabs -> Page] /\ tab' \in [Tabs -> Page] /\ tab'[t].phase = phase
      /\ \A u \in Tabs \ {t} : tab'[u] = tab[u]
  BY DEF Awaited, TypeOK, Page
<1>5. TypeOK'
  BY <1>1, <1>2, <1>4 DEF TypeOK
<1>6. AskerHasLock'
  <2> SUFFICES ASSUME NEW u \in Tabs
               PROVE  /\ tab'[u].phase \in {"queued", "pausing", "asking"} => Places(u)' # {}
                      /\ tab'[u].phase = "asking" => HasLock(u)'
    BY DEF AskerHasLock
  <2> QED
    BY <1>4 DEF AskerHasLock, HasLock, Places
<1>7. OneRequest'
  <2> SUFFICES ASSUME NEW q \in net'
               PROVE  /\ q.tab = Nobody => q.kind = "refresh" /\ q.reply = "none"
                      /\ q.tab # Nobody => /\ tab'[q.tab].phase \in Awaited(q.kind)
                                           /\ \A p \in net' : p.tab = q.tab => p = q
    BY DEF OneRequest, Awaited
  <2>1. CASE q = r
    BY <1>1, <1>2, <1>3, <1>4, <2>1, Bounded
  <2>2. CASE q \in net
    <3>1. q.tab # Nobody => q.tab \in Tabs \ {t}
      BY <1>3, <2>2 DEF TypeOK, Requests
    <3> QED
      BY <1>1, <1>2, <1>4, <2>2, <3>1 DEF OneRequest
  <2> QED
    BY <1>2, <2>1, <2>2
<1>8. Stages'
  BY <1>1, <1>2 DEF Stages
<1>9. ASSUME ~slip' PROVE Straight'
  <2>1. ~slip /\ Straight
    BY <1>2, <1>9
  <2>2. LoginAlone'
    BY <1>1, <1>2, <1>9, <2>1 DEF LoginAlone
  <2>3. OneSession' /\ TokenKnown'
    BY <1>1, <1>2, <2>1 DEF Straight, OneSession, TokenKnown
  <2>4. CookieSent' /\ RefusedForReason'
    BY <1>1, <1>2, <2>1 DEF Straight, CookieSent, RefusedForReason, NothingLeft
  <2> QED
    BY <2>2, <2>3, <2>4 DEF Straight
<1> QED
  BY <1>5, <1>6, <1>7, <1>8, <1>9

\* A tab is given a pair of tokens: nobody else waits for one.
LEMMA AdoptKeeps ==
  ASSUME SessionIndInv, NEW t \in Tabs, NEW r \in Live(t), r.reply = "ok", r.kind # "logout",
         Adopt(t, r), lockQ' = lockQ \/ Unlock(t), UNCHANGED <<server, event, slip, reused>>
  PROVE  SessionIndInv'
<1> USE DEF SessionIndInv, server
<1>1. /\ r \in net /\ r.tab = t /\ r \in Requests /\ t # Nobody /\ net' = net \ {r}
      /\ cookie' = r.new /\ stored' = TRUE
      /\ tab' = [tab EXCEPT ![t] = [SignedOut EXCEPT !.page = "chat", !.access = TRUE]]
  BY Bounded DEF Live, Adopt, TypeOK
<1>2. r.new \in Tokens \cup {NoToken}
  BY <1>1 DEF Requests, Tokens, NoToken
<1>3. /\ tab \in [Tabs -> Page] /\ tab' \in [Tabs -> Page] /\ tab'[t].phase = "idle"
      /\ \A u \in Tabs \ {t} : tab'[u] = tab[u]
  BY <1>1, TypeOfSignedOut DEF TypeOK, Page, SignedOut
<1>4. /\ lockQ' \in Seq(Tabs)
      /\ \A u \in Tabs \ {t} : /\ Places(u) # {} => Places(u)' # {}
                               /\ Places(u) # {} /\ HasLock(u) => HasLock(u)'
  BY UnlockKeeps DEF TypeOK, HasLock, Places
<1>5. TypeOK'
  BY <1>1, <1>2, <1>3, <1>4 DEF TypeOK
<1>6. AskerHasLock'
  <2> SUFFICES ASSUME NEW u \in Tabs
               PROVE  /\ tab'[u].phase \in {"queued", "pausing", "asking"} => Places(u)' # {}
                      /\ tab'[u].phase = "asking" => HasLock(u)'
    BY DEF AskerHasLock
  <2> QED
    BY <1>3, <1>4 DEF AskerHasLock
<1>7. OneRequest'
  <2> SUFFICES ASSUME NEW q \in net'
               PROVE  /\ q.tab = Nobody => q.kind = "refresh" /\ q.reply = "none"
                      /\ q.tab # Nobody => /\ tab'[q.tab].phase \in Awaited(q.kind)
                                           /\ \A p \in net' : p.tab = q.tab => p = q
    BY DEF OneRequest, Awaited
  <2>1. q.tab # Nobody => q.tab \in Tabs \ {t}
    BY <1>1 DEF TypeOK, Requests, OneRequest
  <2> QED
    BY <1>1, <1>3, <2>1 DEF OneRequest
<1>8. Stages'
  BY <1>1 DEF Stages
<1>9. ASSUME ~slip' PROVE Straight'
  <2>1. ~slip /\ Straight
    BY <1>9
  <2>2. \A p \in net' : p.tab = Nobody \/ p.kind = "logout"
    BY <1>1, <2>1, TakeTurns
  <2>3. LoginAlone' /\ OneSession'
    BY <1>1, <2>1 DEF Straight, LoginAlone, OneSession
  <2>4. TokenKnown'
    BY <1>1, <2>1, <2>2 DEF Straight, TokenKnown, Stages
  <2>5. CookieSent' /\ RefusedForReason'
    BY <2>2 DEF CookieSent, RefusedForReason
  <2> QED
    BY <2>3, <2>4, <2>5 DEF Straight
<1> QED
  BY <1>5, <1>6, <1>7, <1>8, <1>9

\* A tab signs out, and leaves the queue.
LEMMA SignOutIs ==
  ASSUME TypeOK, AskerHasLock, NEW t \in Tabs, SignOut(t)
  PROVE  /\ tab' \in [Tabs -> Page] /\ lockQ' \in Seq(Tabs) /\ stored' \in BOOLEAN
         /\ event' \subseteq Tabs /\ AskerHasLock' /\ tab'[t] = SignedOut
         /\ \A u \in Tabs \ {t} : tab'[u] = tab[u]
<1>1. tab' = [tab EXCEPT ![t] = SignedOut] /\ Unlock(t) /\ RemoveStored(t)
  BY DEF SignOut
<1>2. /\ tab' \in [Tabs -> Page] /\ tab'[t] = SignedOut /\ tab'[t].phase = "idle"
      /\ \A u \in Tabs \ {t} : tab'[u] = tab[u]
  BY <1>1, TypeOfSignedOut DEF TypeOK, SignedOut
<1>3. stored' \in BOOLEAN /\ event' \subseteq Tabs
  BY <1>1 DEF RemoveStored, TypeOK
<1>4. /\ lockQ' \in Seq(Tabs)
      /\ \A u \in Tabs \ {t} : /\ Places(u) # {} => Places(u)' # {}
                               /\ Places(u) # {} /\ HasLock(u) => HasLock(u)'
  BY <1>1, UnlockKeeps
<1>5. AskerHasLock'
  <2> SUFFICES ASSUME NEW u \in Tabs
               PROVE  /\ tab'[u].phase \in {"queued", "pausing", "asking"} => Places(u)' # {}
                      /\ tab'[u].phase = "asking" => HasLock(u)'
    BY DEF AskerHasLock
  <2> QED
    BY <1>2, <1>4 DEF AskerHasLock
<1> QED
  BY <1>2, <1>3, <1>4, <1>5

\* No request changes, and those who wait for one go on waiting.
LEMMA RequestsKept ==
  ASSUME SessionIndInv, UNCHANGED <<net, slip>>,
         \A r \in net : r.tab # Nobody => tab'[r.tab].phase = tab[r.tab].phase,
         sessions' \subseteq sessions, cookie' = cookie \/ (cookie' = NoToken)
  PROVE  OneRequest' /\ Stages' /\ (~slip' => Straight')
<1> USE DEF SessionIndInv
<1>1. OneRequest' /\ Stages'
  BY DEF OneRequest, Stages, Awaited
<1>2. ASSUME ~slip' PROVE Straight'
  <2>1. Straight
    BY <1>2
  <2>2. LoginAlone' /\ OneSession'
    BY <2>1 DEF Straight, LoginAlone, OneSession
  <2>3. TokenKnown' /\ CookieSent' /\ RefusedForReason'
    BY <2>1 DEF Straight, TokenKnown, CookieSent, RefusedForReason, NothingLeft
  <2> QED
    BY <2>2, <2>3 DEF Straight
<1> QED
  BY <1>1, <1>2

\* The requests are those of tabs that wait for them.
LEMMA WaitersWait ==
  ASSUME SessionIndInv, NEW t \in Tabs, tab[t].phase \in {"idle", "queued", "pausing"}
  PROVE  \A r \in net : r.tab # Nobody => r.tab \in Tabs \ {t}
<1>1. Live(t) = {}
  BY NoneAwaited
<1> QED
  BY <1>1 DEF Live, SessionIndInv, TypeOK, Requests

LEMMA OpenChatKeeps ==
  ASSUME SessionIndInv, NEW t \in Tabs, OpenChat(t) PROVE SessionIndInv'
<1> USE DEF SessionIndInv
<1>1. /\ tab' = [tab EXCEPT ![t].page = "chat", ![t].access = stored] /\ tab[t].phase = "idle"
      /\ UNCHANGED <<server, cookie, stored, event, lockQ, net, slip, reused>>
  BY DEF OpenChat, SignedOut
<1>2. /\ tab \in [Tabs -> Page] /\ tab' \in [Tabs -> Page] /\ \A u \in Tabs : tab'[u].phase = tab[u].phase
  BY <1>1 DEF TypeOK, Page
<1>3. TypeOK'
  BY <1>1, <1>2 DEF TypeOK, server
<1>4. AskerHasLock'
  BY <1>1, <1>2 DEF AskerHasLock, HasLock, Places
<1>5. OneRequest' /\ Stages' /\ (~slip' => Straight')
  <2>1. \A r \in net : r.tab # Nobody => r.tab \in Tabs
    BY <1>1, WaitersWait
  <2> QED
    BY <1>1, <1>2, <2>1, RequestsKept DEF server
<1> QED
  BY <1>3, <1>4, <1>5

LEMMA StartRefreshKeeps ==
  ASSUME SessionIndInv, NEW t \in Tabs, StartRefresh(t) PROVE SessionIndInv'
<1> USE DEF SessionIndInv
<1>1. /\ tab' = [tab EXCEPT ![t].phase = "queued"] /\ tab[t].phase = "idle"
      /\ lockQ' = Append(lockQ, t) /\ lockQ \in Seq(Tabs)
      /\ UNCHANGED <<server, cookie, stored, event, net, slip, reused>>
  BY DEF StartRefresh, Idle, TypeOK
<1>2. /\ tab' \in [Tabs -> Page] /\ tab'[t].phase = "queued"
      /\ \A u \in Tabs \ {t} : tab'[u] = tab[u]
  BY <1>1 DEF TypeOK, Page
<1>3. /\ lockQ' \in Seq(Tabs) /\ Places(t)' # {}
      /\ \A u \in Tabs : /\ Places(u) # {} => Places(u)' # {}
                         /\ Places(u) # {} /\ HasLock(u) => HasLock(u)'
  <2>1. lockQ' \in Seq(Tabs) /\ Len(lockQ') = Len(lockQ) + 1 /\ lockQ'[Len(lockQ) + 1] = t
        /\ \A i \in 1 .. Len(lockQ) : lockQ'[i] = lockQ[i]
    BY <1>1
  <2>2. Places(t)' # {}
    BY <2>1 DEF Places
  <2>3. \A u \in Tabs : Places(u) # {} => Places(u)' # {}
    BY <1>1, <2>1 DEF Places
  <2>4. ASSUME NEW u \in Tabs, Places(u) # {}, HasLock(u) PROVE HasLock(u)'
    <3>1. lockQ # <<>>
      BY <2>4 DEF Places
    <3> QED
      BY <1>1, <2>4, <3>1 DEF HasLock
  <2> QED
    BY <2>1, <2>2, <2>3, <2>4
<1>4. TypeOK'
  BY <1>1, <1>2, <1>3 DEF TypeOK, server
<1>5. AskerHasLock'
  <2> SUFFICES ASSUME NEW u \in Tabs
               PROVE  /\ tab'[u].phase \in {"queued", "pausing", "asking"} => Places(u)' # {}
                      /\ tab'[u].phase = "asking" => HasLock(u)'
    BY DEF AskerHasLock
  <2> QED
    BY <1>2, <1>3 DEF AskerHasLock
<1>6. OneRequest' /\ Stages' /\ (~slip' => Straight')
  <2>1. \A r \in net : r.tab # Nobody => r.tab \in Tabs \ {t}
    BY <1>1, WaitersWait
  <2> QED
    BY <1>1, <1>2, <2>1, RequestsKept DEF server
<1> QED
  BY <1>4, <1>5, <1>6

LEMMA LogoutAllKeeps ==
  ASSUME SessionIndInv, NEW t \in Tabs, LogoutAll(t) PROVE SessionIndInv'
<1> USE DEF SessionIndInv
<1>1. /\ tab[t].phase = "idle" /\ sessions' = {} /\ cookie' = NoToken /\ SignOut(t)
      /\ UNCHANGED <<made, net, slip, reused>>
  BY DEF LogoutAll, Idle
<1>2. /\ tab' \in [Tabs -> Page] /\ lockQ' \in Seq(Tabs) /\ stored' \in BOOLEAN
      /\ event' \subseteq Tabs /\ AskerHasLock'
      /\ \A u \in Tabs \ {t} : tab'[u] = tab[u]
  BY <1>1, SignOutIs
<1>3. TypeOK'
  BY <1>1, <1>2 DEF TypeOK
<1>4. OneRequest' /\ Stages' /\ (~slip' => Straight')
  <2>1. \A r \in net : r.tab # Nobody => r.tab \in Tabs \ {t}
    BY <1>1, WaitersWait
  <2> QED
    BY <1>1, <1>2, <2>1, RequestsKept
<1> QED
  BY <1>2, <1>3, <1>4

LEMMA LogoutReplyKeeps ==
  ASSUME SessionIndInv, NEW t \in Tabs, LogoutReply(t) PROVE SessionIndInv'
<1> USE DEF SessionIndInv
<1>1. cookie' \in {cookie, NoToken} /\ Abandon(t) /\ SignOut(t) /\ UNCHANGED <<server, reused>>
  BY DEF LogoutReply
<1>2. /\ tab' \in [Tabs -> Page] /\ lockQ' \in Seq(Tabs) /\ stored' \in BOOLEAN
      /\ event' \subseteq Tabs /\ AskerHasLock'
      /\ \A u \in Tabs \ {t} : tab'[u] = tab[u]
  BY <1>1, SignOutIs
<1>3. /\ net' \subseteq Requests /\ slip' \in BOOLEAN /\ OneRequest' /\ Stages'
      /\ (~slip' => Straight')
  BY <1>1, <1>2, AbandonKeeps
<1>4. TypeOK'
  BY <1>1, <1>2, <1>3 DEF TypeOK, server
<1> QED
  BY <1>2, <1>3, <1>4

LEMMA HearLogoutKeeps ==
  ASSUME SessionIndInv, NEW t \in Tabs, HearLogout(t) PROVE SessionIndInv'
<1> USE DEF SessionIndInv
<1>1. CASE SignOut(t) /\ Abandon(t) /\ UNCHANGED <<server, cookie, reused>>
  <2>1. /\ tab' \in [Tabs -> Page] /\ lockQ' \in Seq(Tabs) /\ stored' \in BOOLEAN
        /\ event' \subseteq Tabs /\ AskerHasLock'
        /\ \A u \in Tabs \ {t} : tab'[u] = tab[u]
    BY <1>1, SignOutIs
  <2>2. /\ net' \subseteq Requests /\ slip' \in BOOLEAN /\ OneRequest' /\ Stages'
        /\ (~slip' => Straight')
    BY <1>1, <2>1, AbandonKeeps
  <2>3. TypeOK'
    BY <1>1, <2>1, <2>2 DEF TypeOK, server
  <2> QED
    BY <2>1, <2>2, <2>3
<1>2. CASE /\ tab' = [tab EXCEPT ![t].access = FALSE] /\ RemoveStored(t)
           /\ UNCHANGED <<server, cookie, reused, lockQ, net, slip>>
  <2>1. /\ tab \in [Tabs -> Page] /\ tab' \in [Tabs -> Page]
        /\ \A u \in Tabs : tab'[u].phase = tab[u].phase
    BY <1>2 DEF TypeOK, Page
  <2>2. stored' \in BOOLEAN /\ event' \subseteq Tabs
    BY <1>2 DEF RemoveStored, TypeOK
  <2>3. TypeOK'
    BY <1>2, <2>1, <2>2 DEF TypeOK, server
  <2>4. AskerHasLock'
    BY <1>2, <2>1 DEF AskerHasLock, HasLock, Places
  <2>5. OneRequest' /\ Stages' /\ (~slip' => Straight')
    <3>1. \A r \in net : r.tab # Nobody => r.tab \in Tabs
      BY DEF TypeOK, Requests
    <3> QED
      BY <1>2, <2>1, <3>1, RequestsKept DEF server
  <2> QED
    BY <2>3, <2>4, <2>5
<1> QED
  BY <1>1, <1>2 DEF HearLogout

LEMMA LoginReplyKeeps ==
  ASSUME SessionIndInv, NEW t \in Tabs, LoginReply(t) PROVE SessionIndInv'
<1> USE DEF SessionIndInv
<1>0. tab[t].phase = "login" /\ UNCHANGED <<server, event, lockQ, reused>>
  BY DEF LoginReply
<1>1. ASSUME NEW r \in Live(t), r.reply = "ok", Adopt(t, r), UNCHANGED slip PROVE SessionIndInv'
  <2>1. r.kind # "logout"
    BY <1>0, Bounded DEF Live, OneRequest, Awaited
  <2> QED
    BY <1>0, <1>1, <2>1, AdoptKeeps
<1>2. CASE tab' = [tab EXCEPT ![t].phase = "idle"] /\ Abandon(t) /\ UNCHANGED <<cookie, stored>>
  <2>1. /\ tab' \in [Tabs -> Page] /\ tab'[t].phase = "idle"
        /\ \A u \in Tabs \ {t} : tab'[u] = tab[u]
    BY <1>2 DEF TypeOK, Page
  <2>2. /\ net' \subseteq Requests /\ slip' \in BOOLEAN /\ OneRequest' /\ Stages'
        /\ (~slip' => Straight')
    BY <1>0, <1>2, <2>1, AbandonKeeps
  <2>3. TypeOK'
    BY <1>0, <1>2, <2>1, <2>2 DEF TypeOK, server
  <2>4. AskerHasLock'
    BY <1>0, <2>1 DEF AskerHasLock, HasLock, Places
  <2> QED
    BY <2>2, <2>3, <2>4
<1> QED
  BY <1>1, <1>2 DEF LoginReply

LEMMA GrantedKeeps ==
  ASSUME SessionIndInv, NEW t \in Tabs, Granted(t) PROVE SessionIndInv'
<1> USE DEF SessionIndInv
<1>1. PICK r \in Live(t) : r.reply = "ok" /\ Adopt(t, r)
  BY DEF Granted
<1>2. tab[t].phase = "asking" /\ Unlock(t) /\ UNCHANGED <<server, event, slip, reused>>
  BY DEF Granted
<1>3. r.kind # "logout"
  BY <1>2, Bounded DEF Live, OneRequest, Awaited
<1> QED
  BY <1>1, <1>2, <1>3, AdoptKeeps

LEMMA FailedKeeps ==
  ASSUME SessionIndInv, NEW t \in Tabs, Failed(t) PROVE SessionIndInv'
<1> USE DEF SessionIndInv
<1>0. tab[t].phase = "asking" /\ Abandon(t) /\ UNCHANGED <<server, cookie, stored, event, reused>>
  BY DEF Failed
<1>1. /\ tab \in [Tabs -> Page] /\ tab[t] \in Page /\ Attempts \in Nat /\ tab[t].tries \in 0 .. Attempts - 1
  BY Bounded DEF TypeOK, Page
<1>2. /\ tab' \in [Tabs -> Page] /\ lockQ' \in Seq(Tabs)
      /\ tab'[t].phase = "idle" \/ (tab'[t].phase = "pausing" /\ UNCHANGED lockQ)
      /\ \A u \in Tabs \ {t} : /\ tab'[u] = tab[u]
                               /\ Places(u) # {} => Places(u)' # {}
                               /\ Places(u) # {} /\ HasLock(u) => HasLock(u)'
  <2>1. CASE LastAttempt(t)
    <3>1. PICK p \in {"chat", "login"} :
            tab' = [tab EXCEPT ![t] = [SignedOut EXCEPT !.page = p, !.access = tab[t].access]]
      BY <2>1 DEF Failed
    <3> DEFINE new == [SignedOut EXCEPT !.page = p, !.access = tab[t].access]
    <3>2. new \in Page /\ new.phase = "idle"
      BY <1>1, TypeOfSignedOut DEF Page, SignedOut
    <3> HIDE DEF new
    <3>3. tab' \in [Tabs -> Page] /\ tab'[t].phase = "idle" /\ \A u \in Tabs \ {t} : tab'[u] = tab[u]
      BY <1>1, <3>1, <3>2 DEF new
    <3>4. Unlock(t)
      BY <2>1 DEF Failed
    <3> QED
      BY <3>3, <3>4, UnlockKeeps
  <2>2. CASE ~LastAttempt(t)
    <3>1. tab' = [tab EXCEPT ![t].phase = "pausing", ![t].tries = @ + 1] /\ UNCHANGED lockQ
      BY <2>2 DEF Failed
    <3>2. tab[t].tries + 1 \in 0 .. Attempts - 1
      BY <1>1, <2>2 DEF LastAttempt
    <3> DEFINE new == [tab[t] EXCEPT !.phase = "pausing", !.tries = @ + 1]
    <3>3. new \in Page /\ new.phase = "pausing" /\ tab' = [tab EXCEPT ![t] = new]
      BY <1>1, <3>1, <3>2 DEF Page
    <3> HIDE DEF new
    <3>4. tab' \in [Tabs -> Page] /\ tab'[t].phase = "pausing" /\ \A u \in Tabs \ {t} : tab'[u] = tab[u]
      BY <1>1, <3>3
    <3> QED
      BY <3>1, <3>4 DEF TypeOK, HasLock, Places
  <2> QED
    BY <2>1, <2>2
<1>3. /\ net' \subseteq Requests /\ slip' \in BOOLEAN /\ OneRequest' /\ Stages'
      /\ (~slip' => Straight')
  BY <1>0, <1>2, AbandonKeeps
<1>4. TypeOK'
  BY <1>0, <1>2, <1>3 DEF TypeOK, server
<1>5. AskerHasLock'
  <2> SUFFICES ASSUME NEW u \in Tabs
               PROVE  /\ tab'[u].phase \in {"queued", "pausing", "asking"} => Places(u)' # {}
                      /\ tab'[u].phase = "asking" => HasLock(u)'
    BY DEF AskerHasLock
  <2>1. CASE u = t
    BY <1>0, <1>2, <2>1 DEF AskerHasLock, Places
  <2>2. CASE u # t
    BY <1>2, <2>2 DEF AskerHasLock
  <2> QED
    BY <2>1, <2>2
<1> QED
  BY <1>3, <1>4, <1>5

LEMMA DeniedKeeps ==
  ASSUME SessionIndInv, NEW t \in Tabs, Denied(t) PROVE SessionIndInv'
<1> USE DEF SessionIndInv
<1>0. tab[t].phase = "asking" /\ UNCHANGED <<server, cookie, stored, event, lockQ, slip, reused>>
  BY DEF Denied
<1>1. PICK r \in Live(t) :
       /\ r.reply = "denied"
       /\ IF tab[t].refused \/ LastAttempt(t)
            THEN /\ tab' = [tab EXCEPT ![t].phase = "leaving"]
                 /\ net' = (net \ {r}) \cup {Request(t, "logout")}
            ELSE /\ tab' = [tab EXCEPT ![t].phase = "pausing", ![t].refused = TRUE,
                                       ![t].tries = @ + 1]
                 /\ net' = net \ {r}
  BY DEF Denied
<1>2. /\ r \in net /\ r.tab = t /\ t # Nobody /\ r.kind = "refresh" /\ r.new = NoToken
      /\ \A p \in net \ {r} : p.tab # t
  BY <1>0, <1>1, Bounded DEF Live, OneRequest, Awaited, Stages, TypeOK, Requests
<1> DEFINE q == Request(t, "logout")
<1>3. /\ q \in Requests /\ q.tab = t /\ q.kind = "logout" /\ q.step = "sent"
      /\ q.row = 0 /\ q.reply = "none" /\ q.new = NoToken
  BY Bounded DEF Request, Requests, TypeOK, NoToken
<1>4. /\ tab \in [Tabs -> Page] /\ tab[t] \in Page /\ Attempts \in Nat /\ tab[t].tries \in 0 .. Attempts - 1
  BY Bounded DEF TypeOK, Page
<1>5. /\ tab' \in [Tabs -> Page] /\ \A u \in Tabs \ {t} : tab'[u] = tab[u]
      /\ \/ tab'[t].phase = "leaving" /\ net' = (net \ {r}) \cup {q}
         \/ tab'[t].phase = "pausing" /\ net' = net \ {r}
  <2>1. CASE tab[t].refused \/ LastAttempt(t)
    <3>1. tab' = [tab EXCEPT ![t].phase = "leaving"] /\ net' = (net \ {r}) \cup {q}
      BY <1>1, <2>1
    <3> QED
      BY <1>4, <3>1 DEF Page
  <2>2. CASE ~(tab[t].refused \/ LastAttempt(t))
    <3>1. /\ tab' = [tab EXCEPT ![t].phase = "pausing", ![t].refused = TRUE, ![t].tries = @ + 1]
          /\ net' = net \ {r}
      BY <1>1, <2>2
    <3>2. tab[t].tries + 1 \in 0 .. Attempts - 1
      BY <1>4, <2>2 DEF LastAttempt
    <3> DEFINE new == [tab[t] EXCEPT !.phase = "pausing", !.refused = TRUE, !.tries = @ + 1]
    <3>3. new \in Page /\ new.phase = "pausing" /\ tab' = [tab EXCEPT ![t] = new]
      BY <1>4, <3>1, <3>2 DEF Page
    <3> HIDE DEF new
    <3>4. tab' \in [Tabs -> Page] /\ tab'[t].phase = "pausing" /\ \A u \in Tabs \ {t} : tab'[u] = tab[u]
      BY <1>4, <3>3
    <3> QED
      BY <3>1, <3>4
  <2> QED
    BY <2>1, <2>2
<1> HIDE DEF q
<1>6. \A p \in net' : (p = q /\ tab'[t].phase = "leaving") \/ (p \in net /\ p # r)
  BY <1>5
<1>7. TypeOK'
  BY <1>0, <1>3, <1>5, <1>6 DEF TypeOK, server
<1>8. AskerHasLock'
  BY <1>0, <1>5 DEF AskerHasLock, HasLock, Places
<1>9. OneRequest'
  <2> SUFFICES ASSUME NEW p \in net'
               PROVE  /\ p.tab = Nobody => p.kind = "refresh" /\ p.reply = "none"
                      /\ p.tab # Nobody => /\ tab'[p.tab].phase \in Awaited(p.kind)
                                           /\ \A o \in net' : o.tab = p.tab => o = p
    BY DEF OneRequest, Awaited
  <2>1. CASE p = q
    <3>1. tab'[t].phase \in Awaited("logout")
      BY <1>2, <1>3, <1>5, <1>6, <2>1 DEF Awaited
    <3> QED
      BY <1>2, <1>3, <1>6, <2>1, <3>1
  <2>2. CASE p \in net /\ p # r
    <3>1. p.tab # t /\ (p.tab # Nobody => p.tab \in Tabs \ {t})
      BY <1>2, <2>2 DEF TypeOK, Requests
    <3> QED
      BY <1>2, <1>3, <1>5, <1>6, <2>2, <3>1 DEF OneRequest
  <2> QED
    BY <1>6, <2>1, <2>2
<1>10. Stages'
  BY <1>3, <1>6 DEF Stages
<1>11. ASSUME ~slip' PROVE Straight'
  <2>1. ~slip /\ UNCHANGED <<sessions, cookie>>
    BY <1>0, <1>11 DEF server
  <2>2. LoginAlone' /\ CookieSent' /\ net' \subseteq Requests
    BY <1>2, <1>3, <1>6, <1>7, <2>1 DEF Straight, LoginAlone, CookieSent, TypeOK
  <2>3. /\ \A p \in net : p.new # NoToken => p \in net'
        /\ \A p \in net' : p.new # NoToken => p \in net
        /\ \A p \in net' : p.step = "read" /\ p.row = 0 => p \in net
        /\ \A p \in net' : p.tab # Nobody /\ p.kind = "refresh" /\ p.reply = "denied" =>
                             p \in net \/ NothingLeft' \/ cookie = NoToken
    BY <1>2, <1>3, <1>5, <1>6
  <2> QED
    BY <2>1, <2>2, <2>3, FewerSessions
<1> QED
  BY <1>7, <1>8, <1>9, <1>10, <1>11

LEMMA AskKeeps ==
  ASSUME SessionIndInv, NEW t \in Tabs, Login(t) \/ Ask(t) \/ Logout(t) PROVE SessionIndInv'
<1> USE DEF SessionIndInv
<1>1. CASE Login(t)
  BY <1>1, SendKeeps DEF Login, Awaited
<1>2. CASE Logout(t)
  BY <1>2, SendKeeps DEF Logout, Idle, Awaited
<1>3. CASE Ask(t)
  BY <1>3, SendKeeps DEF Ask, AskerHasLock, Awaited
<1> QED
  BY <1>1, <1>2, <1>3

LEMMA SessionStep == SessionIndInv /\ [Next]_vars => SessionIndInv'
<1> SUFFICES ASSUME SessionIndInv, [Next]_vars PROVE SessionIndInv'
  OBVIOUS
<1>1. ASSUME NEW r \in net, Serve(r) PROVE SessionIndInv'
  BY <1>1, ReadLoginKeeps, ReadRefreshKeeps, RotateKeeps, CreateKeeps, ServeLogoutKeeps DEF Serve
<1>2. CASE EndedElsewhere \/ Expire
  BY <1>2, EndedKeeps, ExpireKeeps
<1>3. ASSUME NEW t \in Tabs, Settle(t) \/ LoginReply(t) \/ LogoutReply(t) PROVE SessionIndInv'
  BY <1>3, AskKeeps, GrantedKeeps, DeniedKeeps, FailedKeeps, LoginReplyKeeps, LogoutReplyKeeps,
     HearLogoutKeeps DEF Settle
<1>4. ASSUME NEW t \in Tabs, OpenChat(t) \/ Login(t) \/ StartRefresh(t) \/ Logout(t) \/ LogoutAll(t)
      PROVE  SessionIndInv'
  BY <1>4, OpenChatKeeps, AskKeeps, StartRefreshKeeps, LogoutAllKeeps
<1>5. CASE UNCHANGED vars
  <2> USE <1>5 DEF SessionIndInv, vars, server, client
  <2>1. TypeOK' /\ AskerHasLock'
    BY DEF TypeOK, AskerHasLock, HasLock, Places
  <2>2. OneRequest' /\ Stages' /\ (~slip' => Straight')
    BY RequestsKept
  <2> QED
    BY <2>1, <2>2
<1> QED
  BY <1>1, <1>2, <1>3, <1>4, <1>5 DEF Next

LEMMA SessionAlways == Spec => []SessionIndInv
BY SessionInitially, SessionStep, PTL DEF Spec

-----------------------------------------------------------------------------
\* For any number of tabs, attempts and tokens: a tab whose refresh is refused
\* signs the browser out only if its session is over, since tabs take turns under
\* refresh_token_lock (axios.ts); except where a reply was lost or a login ran
\* with another request.
THEOREM NoNeedlessSignOut == Spec => NotSignedOutNeedlessly
<1>1. SessionIndInv /\ [Next]_vars =>
        [\A t \in Tabs : (tab[t].phase = "asking" /\ tab'[t].phase = "leaving" /\ ~slip)
                           => NothingLeft \/ cookie = NoToken]_vars
  <2> SUFFICES ASSUME SessionIndInv, Next, NEW t \in Tabs, ~slip,
                      tab[t].phase = "asking", tab'[t].phase = "leaving"
               PROVE  NothingLeft \/ cookie = NoToken
    OBVIOUS
  <2> USE DEF SessionIndInv
  <2>1. Denied(t)
    <3>1. tab \in [Tabs -> Page] /\ tab'[t] # tab[t]
      BY DEF TypeOK
    <3>2. ASSUME NEW u \in Tabs, u # t, Settle(u) \/ LoginReply(u) \/ LogoutReply(u) \/ OpenChat(u) \/ Login(u) \/ StartRefresh(u)
                                        \/ Logout(u) \/ LogoutAll(u)
          PROVE  tab'[t] = tab[t]
      BY <3>1, <3>2 DEF Settle, Ask, Granted, Denied, Failed, LoginReply, LogoutReply, HearLogout,
                        OpenChat, Login, StartRefresh, Logout, LogoutAll, Adopt, SignOut
    <3>3. \A r \in net : Serve(r) => UNCHANGED tab
      BY DEF Serve, ReadLogin, ReadRefresh, Rotate, Create, ServeLogout, client
    <3>4. EndedElsewhere \/ Expire => UNCHANGED tab
      BY DEF EndedElsewhere, Expire, client
    <3>5. Settle(t) \/ LoginReply(t) \/ LogoutReply(t) \/ OpenChat(t) \/ Login(t) \/ StartRefresh(t) \/ Logout(t) \/ LogoutAll(t)
      BY <3>1, <3>2, <3>3, <3>4 DEF Next
    <3>6. ~(Login(t) \/ StartRefresh(t) \/ Logout(t) \/ LogoutAll(t) \/ OpenChat(t) \/ Ask(t)
            \/ LoginReply(t) \/ LogoutReply(t))
      BY DEF Login, StartRefresh, Logout, LogoutAll, OpenChat, Ask, LoginReply, LogoutReply, Idle, SignedOut
    <3>7. ~(Granted(t) \/ Failed(t) \/ HearLogout(t))
      <4>1. ~Granted(t)
        BY <3>1 DEF Granted, Adopt, SignedOut
      <4>2. ~Failed(t)
        BY <3>1 DEF Failed, SignedOut, Page
      <4>3. ~HearLogout(t)
        BY <3>1 DEF HearLogout, SignOut, SignedOut, Page
      <4> QED
        BY <4>1, <4>2, <4>3
    <3> QED
      BY <3>5, <3>6, <3>7 DEF Settle
  <2>2. PICK r \in Live(t) : r.reply = "denied"
    BY <2>1 DEF Denied
  <2>3. r \in net /\ r.tab = t /\ t # Nobody /\ r.kind = "refresh"
    BY <2>2, Bounded DEF Live, OneRequest, Awaited, TypeOK, Requests
  <2> QED
    BY <2>2, <2>3 DEF Straight, RefusedForReason
<1> QED
  BY <1>1, SessionAlways, PTL DEF Spec, NotSignedOutNeedlessly

\* A tab's copy of the access token does not outlive the persisted one unknown to
\* the tab.
LEMMA SignedOutStep == SessionIndInv /\ SignedOutEverywhere /\ [Next]_vars => SignedOutEverywhere'
<1> SUFFICES ASSUME SessionIndInv, SignedOutEverywhere, [Next]_vars PROVE SignedOutEverywhere'
  OBVIOUS
<1>0. tab \in [Tabs -> Page] /\ stored \in BOOLEAN /\ event \subseteq Tabs
  BY DEF SessionIndInv, TypeOK
<1>1. ASSUME NEW t \in Tabs, SignOut(t) PROVE SignedOutEverywhere'
  BY <1>0, <1>1 DEF SignOut, RemoveStored, SignedOut, SignedOutEverywhere
<1>2. ASSUME NEW t \in Tabs, NEW r, Adopt(t, r) PROVE SignedOutEverywhere'
  BY <1>2 DEF Adopt, SignedOutEverywhere
<1>3. ASSUME UNCHANGED <<stored, event>>, tab' \in [Tabs -> Page],
             \A u \in Tabs : tab'[u].access = tab[u].access \/ tab'[u].access = stored
      PROVE  SignedOutEverywhere'
  BY <1>3 DEF SignedOutEverywhere
<1>4. TypeOK'
  BY SessionStep DEF SessionIndInv
<1>5. ASSUME NEW t \in Tabs, HearLogout(t) PROVE SignedOutEverywhere'
  <2>1. CASE ~SignOut(t)
    BY <1>0, <1>5, <2>1 DEF HearLogout, RemoveStored, SignedOutEverywhere, Page
  <2> QED
    BY <1>1, <2>1
<1>6. ASSUME NEW t \in Tabs,
             Ask(t) \/ Failed(t) \/ Denied(t) \/ OpenChat(t) \/ Login(t) \/ StartRefresh(t) \/ Logout(t)
      PROVE  SignedOutEverywhere'
  <2>1. tab[t] \in Page /\ tab' \in [Tabs -> Page] /\ UNCHANGED <<stored, event>>
    BY <1>0, <1>4, <1>6 DEF Ask, Failed, Denied, OpenChat, Login, StartRefresh, Logout, TypeOK
  <2> SUFFICES /\ \A u \in Tabs \ {t} : tab'[u] = tab[u]
               /\ tab'[t].access = tab[t].access \/ tab'[t].access = stored
    BY <1>3, <2>1
  <2>2. CASE OpenChat(t)
    BY <1>0, <2>1, <2>2 DEF OpenChat, Page
  <2>3. CASE Failed(t)
    <3>1. CASE LastAttempt(t)
      BY <1>0, <2>1, <2>3, <3>1 DEF Failed, SignedOut
    <3>2. CASE ~LastAttempt(t)
      BY <1>0, <2>1, <2>3, <3>2 DEF Failed, Page
    <3> QED
      BY <3>1, <3>2
  <2>4. CASE Denied(t)
    <3>1. CASE tab[t].refused \/ LastAttempt(t)
      BY <1>0, <2>1, <2>4, <3>1 DEF Denied, Page
    <3>2. CASE ~(tab[t].refused \/ LastAttempt(t))
      BY <1>0, <2>1, <2>4, <3>2 DEF Denied, Page
    <3> QED
      BY <3>1, <3>2
  <2>5. CASE Ask(t)
    BY <1>0, <2>1, <2>5 DEF Ask, Page
  <2>6. CASE Login(t)
    BY <1>0, <2>1, <2>6 DEF Login, Page
  <2>7. CASE StartRefresh(t)
    BY <1>0, <2>1, <2>7 DEF StartRefresh, Page
  <2>8. CASE Logout(t)
    BY <1>0, <2>1, <2>8 DEF Logout, Page
  <2> QED
    BY <1>6, <2>2, <2>3, <2>4, <2>5, <2>6, <2>7, <2>8
<1>7. ASSUME NEW t \in Tabs, LoginReply(t) PROVE SignedOutEverywhere'
  <2>1. CASE tab' = [tab EXCEPT ![t].phase = "idle"] /\ UNCHANGED <<stored, event>>
    BY <1>0, <1>3, <1>4, <2>1 DEF Page, TypeOK
  <2> QED
    BY <1>2, <1>7, <2>1 DEF LoginReply
<1>8. ASSUME NEW r \in net, Serve(r) PROVE SignedOutEverywhere'
  BY <1>0, <1>3, <1>4, <1>8 DEF Serve, ReadLogin, ReadRefresh, Rotate, Create, ServeLogout, client, TypeOK
<1>9. CASE EndedElsewhere \/ Expire \/ UNCHANGED vars
  BY <1>0, <1>3, <1>4, <1>9 DEF EndedElsewhere, Expire, vars, client, TypeOK
<1>10. ASSUME NEW t \in Tabs, Granted(t) \/ LogoutReply(t) \/ LogoutAll(t) PROVE SignedOutEverywhere'
  BY <1>1, <1>2, <1>10 DEF Granted, LogoutReply, LogoutAll
<1> QED
  BY <1>5, <1>6, <1>7, <1>8, <1>9, <1>10 DEF Next, Settle

\* For any number of tabs: when the persisted token is removed, every tab has
\* dropped its own or is about to hear of it (AuthSync.tsx, useAuthStore.ts).
THEOREM SessionSafe == Spec => []SessionInv
<1>1. Init => SignedOutEverywhere
  BY DEF Init, SignedOutEverywhere, SignedOut
<1>2. SessionIndInv /\ SignedOutEverywhere => SessionInv
  BY DEF SessionIndInv, SessionInv
<1> QED
  BY <1>1, <1>2, SignedOutStep, SessionAlways, PTL DEF Spec


-----------------------------------------------------------------------------
(* The account.                                                            *)

Running(d) == busy[d] # None
Op(d, op) == Running(d) /\ busy[d].op = op

\* What a request has read was there, and numbers are given in order.
NumbersAreOld ==
  /\ Exists => account.id <= serial /\ account.reset <= serial
  /\ \A d \in Devices : Running(d) => busy[d].user <= serial
  /\ \A d \in Devices : Op(d, "reset") => busy[d].token <= serial
  /\ spent \subseteq 1 .. serial
RowsFinite == IsFiniteSet(sessionRows) /\ (~Exists => sessionRows = {})

\* A log-in that can still write compared the password that stands.
LoginFits ==
  \A d \in Devices : Has(d, {"login"}) => busy[d].pw = account.password \/ busy[d].late

\* Unless two counted at once, there is room for the session about to be made.
OneCounts == ~overlap => \A d, e \in Devices : LoginReady(d) /\ LoginReady(e) => d = e
RoomForLogin ==
  ~overlap =>
    \A d \in Devices : LoginReady(d) /\ Has(d, {"login"}) /\ busy[d].row = 0 /\ busy[d].evict = 0 =>
      Cardinality(sessionRows) < MaxSessions

\* The code that was checked is of the secret that stands.
EnableFits ==
  ~crossed => \A d \in Devices : Has(d, {"enable"}) => account.secret = busy[d].secret

\* A link that replaced the password is stored no more.
LinksUnspent ==
  /\ Exists => account.reset \notin spent
  /\ \A d \in Devices : Op(d, "reset") /\ ~busy[d].late => busy[d].token \notin spent

AccountIndInv ==
  /\ AccountTypeOK /\ NumbersAreOld /\ RowsFinite /\ LoginFits /\ PasswordChangeEndsSessions
  /\ OneCounts /\ RoomForLogin /\ SessionLimit
  /\ EnableFits /\ TwoFactorConfirmed /\ LinksUnspent

\* A set of numbers has a least one.
LEMMA LeastOf ==
  ASSUME NEW S \in SUBSET Nat, S # {}
  PROVE  \E m \in S : \A j \in S : m <= j
<1>1. PICK m \in S : \A j \in S : ~ (<<j, m>> \in OpToRel(<, Nat))
  BY NatLessThanWellFounded, WFMin
<1>2. \A j \in S : ~ (j < m)
  BY <1>1 DEF OpToRel
<1> QED
  BY <1>2

LoginOp == [op : {"login"}, user : Serials, pw : Serials, late : BOOLEAN, read : BOOLEAN,
            row : Maybe(Serials), evict : Maybe(Serials)]
ResetOp == [op : {"reset"}, user : Serials, token : Serials, late : BOOLEAN]
OtherOp == [op : {"change", "resend", "delete", "disable"}, user : Serials]
EnableOp == [op : {"enable"}, user : Serials, secret : Serials]

LEMMA OpKinds == Ops = LoginOp \cup ResetOp \cup OtherOp \cup EnableOp
BY DEF Ops, LoginOp, ResetOp, OtherOp, EnableOp

LEMMA OpIs ==
  ASSUME NEW b \in Ops
  PROVE  /\ b # None /\ b.user \in Serials /\ b.user \in Nat
         /\ b.op = "login" => b \in LoginOp
         /\ b.op = "reset" => b \in ResetOp /\ b.token \in Nat
         /\ b.op = "enable" => b \in EnableOp
         /\ b.op \notin {"login", "reset", "enable"} => b \in OtherOp
<1>1. b # None
  BY AccountNone
<1>2. b.user \in Serials
  BY OpKinds DEF LoginOp, ResetOp, OtherOp, EnableOp
<1>3. b.op = "login" => b \in LoginOp
  BY OpKinds DEF LoginOp, ResetOp, OtherOp, EnableOp
<1>4. b.op = "reset" => b \in ResetOp /\ b.token \in Serials
  BY OpKinds DEF LoginOp, ResetOp, OtherOp, EnableOp
<1>5. b.op = "enable" => b \in EnableOp
  BY OpKinds DEF LoginOp, ResetOp, OtherOp, EnableOp
<1>6. b.op \notin {"login", "reset", "enable"} => b \in OtherOp
  BY OpKinds DEF LoginOp, ResetOp, OtherOp, EnableOp
<1> QED
  BY <1>1, <1>2, <1>3, <1>4, <1>5, <1>6, AccountBounds DEF Serials

LEMMA BusyIs ==
  ASSUME AccountTypeOK, NEW d \in Devices, Running(d)
  PROVE  busy[d] \in Ops
BY DEF AccountTypeOK, Running

LEMMA AccountIs ==
  ASSUME AccountTypeOK, Exists
  PROVE  /\ account \in Accounts /\ account.id \in Serials /\ account.password \in Serials
         /\ account.secret \in Maybe(Serials) /\ account.reset \in Maybe(Serials)
         /\ account.verify \in Maybe(Serials) /\ account.id \in Nat /\ account.reset \in Nat
BY AccountBounds DEF AccountTypeOK, Exists, Accounts, Serials, Maybe

\* What a request has read is no newer than the last number, nor than a later one.
LEMMA OldNumbers ==
  ASSUME AccountTypeOK, NumbersAreOld, NEW d \in Devices, Running(d), NEW n \in Nat, serial <= n
  PROVE  /\ serial \in Nat /\ busy[d].user <= n
         /\ Op(d, "reset") => busy[d].token \in Serials /\ busy[d].token \in 1 .. n
                              /\ busy[d].token <= n
<1>1. serial \in Nat
  BY AccountBounds DEF AccountTypeOK, Serials, Maybe
<1>2. busy[d].user \in Nat /\ busy[d].user <= serial
  <2>1. busy[d] \in Ops
    BY BusyIs
  <2>2. busy[d].user \in Nat
    BY <2>1, OpIs
  <2>3. busy[d].user <= serial
    BY DEF NumbersAreOld
  <2> QED
    BY <2>2, <2>3
<1>3. busy[d].user <= n
  BY <1>1, <1>2
<1>4. ASSUME Op(d, "reset")
      PROVE  busy[d].token \in Serials /\ busy[d].token \in 1 .. n /\ busy[d].token <= n
  <2>1. busy[d] \in ResetOp
    BY <1>4, BusyIs, OpIs DEF Op
  <2>2. busy[d].token \in Serials
    BY <2>1 DEF ResetOp
  <2>3. busy[d].token \in Nat /\ busy[d].token >= 1
    BY <2>2, AccountBounds DEF Serials
  <2>4. busy[d].token <= serial
    BY <1>4 DEF NumbersAreOld
  <2> QED
    BY <1>1, <2>2, <2>3, <2>4
<1> QED
  BY <1>1, <1>3, <1>4

LEMMA Numbers ==
  ASSUME AccountTypeOK, NEW n \in Nat, serial + n <= MaxSerials
  PROVE  /\ serial \in Nat /\ serial + n \in Maybe(Serials)
         /\ \A i \in 1 .. n : serial + i \in Serials /\ serial + i > serial
BY AccountBounds DEF AccountTypeOK, Serials, Maybe

\* The state after a step that starts no request and counts nothing.
Gentle ==
  /\ serial <= serial' /\ UNCHANGED history
  /\ \A e \in Devices : busy'[e] \in {busy[e], None}
  /\ \/ UNCHANGED account /\ sessionRows' \subseteq sessionRows
     \/ account' = None /\ sessionRows' = {}
     \/ /\ Exists /\ Exists' /\ sessionRows' \subseteq sessionRows
        /\ account'.id = account.id /\ account'.password = account.password
        /\ account'.secret = account.secret /\ account'.twoFactor = account.twoFactor
        /\ account'.reset \notin spent /\ account'.reset <= serial'

LEMMA GentleKeeps ==
  ASSUME AccountIndInv, AccountTypeOK', Gentle
  PROVE  AccountIndInv'
<1> USE DEF AccountIndInv
<1>0. serial <= serial' /\ UNCHANGED <<confirmed, spent, overlap, crossed>>
  BY DEF Gentle, history
<1>1. ASSUME NEW e \in Devices, Running(e)' PROVE busy'[e] = busy[e] /\ Running(e)
  BY <1>1 DEF Gentle, Running
<1>2. ASSUME NEW e \in Devices, NEW ops, Has(e, ops)'
      PROVE  /\ Has(e, ops) /\ busy'[e] = busy[e] /\ Exists /\ Exists'
             /\ account'.password = account.password /\ account'.secret = account.secret
  <2>1. busy'[e] = busy[e] /\ Running(e) /\ Exists'
    BY <1>1, <1>2 DEF Has, Running
  <2>2. Exists /\ account'.id = account.id
        /\ account'.password = account.password /\ account'.secret = account.secret
    BY <2>1 DEF Gentle, Exists
  <2> QED
    BY <1>2, <2>1, <2>2 DEF Has
<1>3. sessionRows' \subseteq sessionRows
  BY DEF Gentle
<1>4. NumbersAreOld'
  <2>1. serial \in Nat /\ serial' \in Nat
    BY AccountBounds DEF AccountTypeOK, Serials, Maybe
  <2>2. Exists' => Exists /\ account'.id = account.id
                   /\ (account'.reset = account.reset \/ account'.reset <= serial')
    BY DEF Gentle, Exists
  <2>3. Exists' => account'.id <= serial' /\ account'.reset <= serial'
    BY <1>0, <2>1, <2>2, AccountIs DEF NumbersAreOld
  <2>4. ASSUME NEW e \in Devices, Running(e)'
        PROVE  busy'[e].user <= serial' /\ (Op(e, "reset")' => busy'[e].token <= serial')
    <3>1. busy'[e] = busy[e] /\ Running(e) /\ busy[e].user \in Nat
      BY <1>1, <2>4, BusyIs, OpIs
    <3>2. busy[e].user <= serial' /\ (Op(e, "reset") => busy[e].token <= serial')
      BY <1>0, <2>1, <3>1, OldNumbers
    <3>3. Op(e, "reset")' => Op(e, "reset")
      BY <3>1 DEF Op
    <3> QED
      BY <3>1, <3>2, <3>3
  <2>5. spent' \subseteq 1 .. serial'
    BY <1>0, <2>1 DEF NumbersAreOld
  <2> QED
    BY <2>3, <2>4, <2>5 DEF NumbersAreOld, Op
<1>5. RowsFinite'
  <2>1. IsFiniteSet(sessionRows')
    BY <1>3, FS_Subset DEF RowsFinite
  <2>2. ~Exists' => sessionRows' = {}
    BY DEF Gentle, Exists, RowsFinite
  <2> QED
    BY <2>1, <2>2 DEF RowsFinite
<1>6. LoginFits'
  BY <1>2 DEF LoginFits
<1>7. PasswordChangeEndsSessions'
  BY DEF PasswordChangeEndsSessions, Gentle
<1>8. OneCounts'
  BY <1>0, <1>1 DEF OneCounts, LoginReady, Running
<1>9. Cardinality(sessionRows) \in Nat /\ Cardinality(sessionRows') \in Nat
      /\ Cardinality(sessionRows') <= Cardinality(sessionRows)
  BY <1>3, <1>5, FS_Subset, FS_CardinalityType DEF RowsFinite
<1>10. SessionLimit'
  BY <1>0, <1>9, AccountBounds DEF SessionLimit
<1>11. RoomForLogin'
  <2>1. ASSUME ~overlap', NEW e \in Devices, LoginReady(e)', Has(e, {"login"})',
               busy'[e].row = 0, busy'[e].evict = 0
        PROVE  Cardinality(sessionRows') < MaxSessions
    <3>1. Has(e, {"login"}) /\ busy'[e] = busy[e]
      BY <1>2, <2>1
    <3>2. LoginReady(e)
      BY <2>1, <3>1 DEF LoginReady, Has
    <3>3. Cardinality(sessionRows) < MaxSessions
      BY <1>0, <2>1, <3>1, <3>2 DEF RoomForLogin
    <3> QED
      BY <1>9, <3>3, AccountBounds
  <2> QED
    BY <2>1 DEF RoomForLogin
<1>12. EnableFits'
  BY <1>0, <1>2 DEF EnableFits
<1>13. TwoFactorConfirmed'
  BY <1>0 DEF TwoFactorConfirmed, Gentle, Exists
<1>14. LinksUnspent'
  <2>1. Exists' => account'.reset \notin spent'
    BY <1>0 DEF LinksUnspent, Gentle, Exists
  <2>2. \A e \in Devices : Op(e, "reset")' /\ ~busy'[e].late => busy'[e].token \notin spent'
    BY <1>0, <1>1 DEF LinksUnspent, Op
  <2> QED
    BY <2>1, <2>2 DEF LinksUnspent
<1> QED
  BY <1>4, <1>5, <1>6, <1>7, <1>8, <1>10, <1>11, <1>12, <1>13, <1>14

\* A request begins with what it has read.
Begins(d, q) ==
  /\ Exists /\ busy[d] = None /\ q \in Ops /\ q.user = account.id
  /\ busy' = [busy EXCEPT ![d] = q]
  /\ UNCHANGED <<account, sessionRows, serial, links, page, history>>
  /\ q.op = "login" => q.pw = account.password /\ ~q.read
  /\ q.op = "reset" => q.token = account.reset
  /\ q.op = "enable" => q.secret = account.secret

LEMMA BeginsKeeps ==
  ASSUME AccountIndInv, NEW d \in Devices, NEW q, Begins(d, q)
  PROVE  AccountIndInv'
<1> USE DEF AccountIndInv
<1>0. UNCHANGED <<account, sessionRows, serial, links, page, confirmed, spent, overlap, crossed>>
  BY DEF Begins, history
<1>1. /\ Exists /\ q \in Ops /\ q.user = account.id
      /\ q.op = "login" => q.pw = account.password /\ ~q.read
      /\ q.op = "reset" => q.token = account.reset
      /\ q.op = "enable" => q.secret = account.secret
  BY DEF Begins
<1>2. busy' \in [Devices -> Ops \cup {None}] /\ busy'[d] = q
      /\ \A e \in Devices : e # d => busy'[e] = busy[e]
  BY DEF Begins, AccountTypeOK
<1>3. AccountTypeOK'
  BY <1>0, <1>2 DEF AccountTypeOK
<1>4. NumbersAreOld'
  BY <1>0, <1>1, <1>2 DEF NumbersAreOld, Exists, Running, Op
<1>5. RowsFinite' /\ PasswordChangeEndsSessions' /\ SessionLimit' /\ TwoFactorConfirmed'
  BY <1>0 DEF RowsFinite, PasswordChangeEndsSessions, SessionLimit, TwoFactorConfirmed, Exists
<1>6. LoginFits'
  BY <1>0, <1>1, <1>2 DEF LoginFits, Has, Exists
<1>7. \A e \in Devices : LoginReady(e)' => e # d /\ LoginReady(e)
  BY <1>1, <1>2 DEF LoginReady
<1>8. OneCounts'
  BY <1>0, <1>7 DEF OneCounts
<1>9. RoomForLogin'
  BY <1>0, <1>2, <1>7 DEF RoomForLogin, Has, Exists
<1>10. EnableFits'
  BY <1>0, <1>1, <1>2 DEF EnableFits, Has, Exists
<1>11. LinksUnspent'
  BY <1>0, <1>1, <1>2 DEF LinksUnspent, Op, Running, Exists
<1> QED
  BY <1>3, <1>4, <1>5, <1>6, <1>8, <1>9, <1>10, <1>11

LEMMA PagesAre ==
  ASSUME NEW q \in Pages
  PROVE  /\ [q EXCEPT !.step = 0] \in Pages /\ [q EXCEPT !.secret = 0] \in Pages
         /\ q.at = "register" => q.step \in 0 .. 2 /\ \A n \in 0 .. 2 : [q EXCEPT !.step = n] \in Pages
         /\ q.at = "settings" => \A n \in Maybe(Serials) : [q EXCEPT !.secret = n] \in Pages
BY DEF Pages, Maybe

LEMMA ShowTyped ==
  ASSUME NEW p \in {"register", "login", "pending", "forgot", "settings"}
  PROVE  At(p) \in Pages
BY DEF At, Pages, Maybe

LEMMA PageChanges ==
  ASSUME AccountTypeOK, NEW d \in Devices, NEW q \in Pages, page' = [page EXCEPT ![d] = q]
  PROVE  page' \in [Devices -> Pages]
BY DEF AccountTypeOK

\* Requests that end and pages that change.
LEMMA QuietKeeps ==
  ASSUME AccountIndInv, NEW d \in Devices,
         \/ NextStep(d) \/ StepBack(d) \/ RegisterFails(d) \/ GoTo(d) \/ SessionOver(d)
         \/ LoginFails(d) \/ UserGone(d)
  PROVE  AccountIndInv'
<1> USE DEF AccountIndInv
<1>1. UNCHANGED <<account, sessionRows, serial, links, history>>
  BY DEF NextStep, StepBack, RegisterFails, GoTo, SessionOver, LoginFails, UserGone
<1>2. busy' \in [Devices -> Ops \cup {None}] /\ \A e \in Devices : busy'[e] \in {busy[e], None}
  <2>1. UNCHANGED busy \/ busy' = [busy EXCEPT ![d] = None]
    BY DEF NextStep, StepBack, RegisterFails, GoTo, SessionOver, LoginFails, UserGone, Done
  <2> QED
    BY <2>1 DEF AccountTypeOK
<1>3. page' \in [Devices -> Pages]
  <2>1. page[d] \in Pages
    BY DEF AccountTypeOK
  <2>2. CASE NextStep(d)
    <3>0. page[d].at = "register" /\ page[d].step < 2
      BY <2>2 DEF NextStep, On
    <3>1. page[d].step + 1 \in 0 .. 2 /\ page[d].at = "register"
      <4>1. page[d].step \in 0 .. 2
        BY <2>1, <3>0, PagesAre
      <4> QED
        BY <3>0, <4>1
    <3>2. page' = [page EXCEPT ![d] = [page[d] EXCEPT !.step = page[d].step + 1]]
      BY <2>2 DEF NextStep
    <3> QED
      BY <2>1, <3>1, <3>2, PagesAre, PageChanges
  <2>3. CASE StepBack(d)
    <3>0. page[d].at = "register" /\ page[d].step > 0
      BY <2>3 DEF StepBack, On
    <3>1. page[d].step - 1 \in 0 .. 2 /\ page[d].at = "register"
      <4>1. page[d].step \in 0 .. 2
        BY <2>1, <3>0, PagesAre
      <4> QED
        BY <3>0, <4>1
    <3>2. page' = [page EXCEPT ![d] = [page[d] EXCEPT !.step = page[d].step - 1]]
      BY <2>3 DEF StepBack
    <3> QED
      BY <2>1, <3>1, <3>2, PagesAre, PageChanges
  <2>4. CASE RegisterFails(d)
    <3>1. page' = [page EXCEPT ![d] = [page[d] EXCEPT !.step = 0]]
      BY <2>4 DEF RegisterFails
    <3> QED
      BY <2>1, <3>1, PagesAre, PageChanges
  <2>5. CASE GoTo(d) \/ SessionOver(d)
    BY <2>5, ShowTyped, PageChanges DEF GoTo, SessionOver, Show
  <2>6. CASE LoginFails(d) \/ UserGone(d)
    BY <2>6 DEF LoginFails, UserGone, AccountTypeOK
  <2> QED
    BY <2>2, <2>3, <2>4, <2>5, <2>6
<1>4. AccountTypeOK'
  BY <1>1, <1>2, <1>3 DEF AccountTypeOK, history
<1>5. Gentle
  <2>1. serial <= serial
    BY AccountBounds DEF AccountTypeOK, Serials, Maybe
  <2> QED
    BY <1>1, <1>2, <2>1 DEF Gentle
<1> QED
  BY <1>4, <1>5, GentleKeeps

LEMMA RequestsBegin ==
  ASSUME AccountIndInv, NEW d \in Devices,
         \/ ResendFind(d) \/ LoginCompare(d) \/ ResetFind(d) \/ ChangeCompare(d)
         \/ EnableCheck(d) \/ DisableCheck(d) \/ DeleteCheck(d)
  PROVE  AccountIndInv'
<1> USE DEF AccountIndInv
<1>1. Exists /\ busy[d] = None /\ UNCHANGED <<account, sessionRows, serial, links, page, history>>
  BY DEF ResendFind, LoginCompare, ResetFind, ChangeCompare, EnableCheck, DisableCheck, DeleteCheck, On
<1>2. /\ account.id \in Serials /\ account.password \in Serials
      /\ account.secret \in Maybe(Serials) /\ account.reset \in Maybe(Serials)
  BY <1>1, AccountIs
<1>3. ASSUME NEW op \in {"change", "resend", "delete", "disable"},
             Begin(d, [op |-> op, user |-> account.id])
      PROVE  AccountIndInv'
  <2>1. [op |-> op, user |-> account.id] \in Ops
    BY <1>2 DEF Ops
  <2>2. Begins(d, [op |-> op, user |-> account.id])
    BY <1>1, <1>3, <2>1 DEF Begins, Begin
  <2> QED
    BY <2>2, BeginsKeeps
<1>4. CASE ResendFind(d)
  BY <1>3, <1>4 DEF ResendFind
<1>5. CASE ChangeCompare(d)
  BY <1>3, <1>5 DEF ChangeCompare
<1>6. CASE DisableCheck(d)
  BY <1>3, <1>6 DEF DisableCheck
<1>7. CASE DeleteCheck(d)
  BY <1>3, <1>7 DEF DeleteCheck
<1>8. CASE LoginCompare(d)
  <2> DEFINE q == [op |-> "login", user |-> account.id, pw |-> account.password, late |-> FALSE,
                   read |-> FALSE, row |-> 0, evict |-> 0]
  <2>1. q \in Ops
    BY <1>2 DEF Ops, Maybe
  <2>2. q.user = account.id /\ q.op = "login" /\ q.pw = account.password /\ ~q.read
    OBVIOUS
  <2>3. busy' = [busy EXCEPT ![d] = q]
    BY <1>8 DEF LoginCompare, Begin
  <2> HIDE DEF q
  <2>4. Begins(d, q)
    BY <1>1, <2>1, <2>2, <2>3 DEF Begins
  <2> QED
    BY <2>4, BeginsKeeps
<1>9. CASE ResetFind(d)
  <2> DEFINE q == [op |-> "reset", user |-> account.id, token |-> account.reset, late |-> FALSE]
  <2>0. account.reset \in Serials
    BY <1>9 DEF ResetFind, AccountTypeOK
  <2>1. q \in Ops
    BY <1>2, <2>0 DEF Ops
  <2>2. q.user = account.id /\ q.op = "reset" /\ q.token = account.reset
    OBVIOUS
  <2>3. busy' = [busy EXCEPT ![d] = q]
    BY <1>9 DEF ResetFind, Begin
  <2> HIDE DEF q
  <2>4. Begins(d, q)
    BY <1>1, <2>1, <2>2, <2>3 DEF Begins
  <2> QED
    BY <2>4, BeginsKeeps
<1>10. CASE EnableCheck(d)
  <2> DEFINE q == [op |-> "enable", user |-> account.id, secret |-> page[d].secret]
  <2>0. page[d].secret = account.secret /\ account.secret \in Serials
    BY <1>2, <1>10 DEF EnableCheck, Maybe
  <2>1. q \in Ops
    BY <1>2, <2>0 DEF Ops
  <2>2. q.user = account.id /\ q.op = "enable" /\ q.secret = account.secret
    BY <2>0
  <2>3. busy' = [busy EXCEPT ![d] = q]
    BY <1>10 DEF EnableCheck, Begin
  <2> HIDE DEF q
  <2>4. Begins(d, q)
    BY <1>1, <2>1, <2>2, <2>3 DEF Begins
  <2> QED
    BY <2>4, BeginsKeeps
<1> QED
  BY <1>4, <1>5, <1>6, <1>7, <1>8, <1>9, <1>10

LEMMA SerialGrows ==
  ASSUME AccountTypeOK, NEW n \in Nat, Fresh(n)
  PROVE  /\ serial \in Nat /\ serial' \in Nat /\ serial' = serial + n /\ serial <= serial'
         /\ serial' \in Maybe(Serials) /\ \A i \in 1 .. n : serial + i \in Serials
BY Numbers, AccountBounds DEF Fresh

\* Tokens that are stored, sessions that end, and an account that is deleted.
LEMMA GentlySteps ==
  ASSUME AccountIndInv, NEW d \in Devices,
         \/ VerifyEmail(d) \/ ResendWrite(d) \/ ForgotPassword(d)
         \/ TerminateSession(d) \/ LogoutAllDevices(d) \/ DeleteWrite(d)
  PROVE  AccountIndInv'
<1> USE DEF AccountIndInv
<1>1. UNCHANGED history
  BY DEF VerifyEmail, ResendWrite, ForgotPassword, TerminateSession, LogoutAllDevices, DeleteWrite
<1>2. busy' \in [Devices -> Ops \cup {None}] /\ \A e \in Devices : busy'[e] \in {busy[e], None}
  <2>1. UNCHANGED busy \/ busy' = [busy EXCEPT ![d] = None]
    BY DEF VerifyEmail, ResendWrite, ForgotPassword, TerminateSession, LogoutAllDevices, DeleteWrite, Done
  <2> QED
    BY <2>1 DEF AccountTypeOK
<1>3. page' \in [Devices -> Pages]
  <2>1. UNCHANGED page \/ \E p \in {"register", "login", "pending"} : Show(d, p)
    BY DEF VerifyEmail, ResendWrite, ForgotPassword, TerminateSession, LogoutAllDevices, DeleteWrite
  <2>2. ASSUME NEW p \in {"register", "login", "pending"}, Show(d, p) PROVE page' \in [Devices -> Pages]
    BY <2>2, ShowTyped, PageChanges DEF Show
  <2> QED
    BY <2>1, <2>2 DEF AccountTypeOK
<1>4. serial \in Nat /\ serial <= serial /\ links \subseteq Serials
  BY AccountBounds DEF AccountTypeOK, Serials, Maybe
<1>5. serial' \in Nat /\ serial <= serial' /\ serial' \in Maybe(Serials) /\ links' \subseteq Serials
  <2>1. CASE UNCHANGED <<serial, links>>
    BY <1>4, <2>1 DEF AccountTypeOK
  <2>2. CASE Fresh(1) /\ Mail(serial + 1)
    <3>1. serial + 1 \in Serials
      BY <2>2, SerialGrows
    <3> QED
      BY <1>4, <2>2, <3>1, SerialGrows DEF Mail
  <2> QED
    BY <2>1, <2>2 DEF VerifyEmail, ResendWrite, ForgotPassword, TerminateSession, LogoutAllDevices, DeleteWrite
<1>6. ASSUME account' \in Accounts \cup {None}, sessionRows' \subseteq sessionRows
      PROVE  AccountTypeOK'
  BY <1>1, <1>2, <1>3, <1>5, <1>6 DEF AccountTypeOK, history
<1>7. CASE TerminateSession(d) \/ LogoutAllDevices(d)
  <2>1. UNCHANGED account /\ sessionRows' \subseteq sessionRows
    BY <1>7 DEF TerminateSession, LogoutAllDevices
  <2>2. AccountTypeOK'
    BY <1>6, <2>1 DEF AccountTypeOK
  <2>3. Gentle
    BY <1>1, <1>2, <1>5, <2>1 DEF Gentle
  <2> QED
    BY <2>2, <2>3, GentleKeeps
<1>8. CASE DeleteWrite(d)
  <2>1. account' = None /\ sessionRows' = {}
    BY <1>8 DEF DeleteWrite
  <2>2. AccountTypeOK'
    BY <1>6, <2>1
  <2>3. Gentle
    BY <1>1, <1>2, <1>5, <2>1 DEF Gentle
  <2> QED
    BY <2>2, <2>3, GentleKeeps
<1>9. ASSUME Exists, UNCHANGED sessionRows, account' \in Accounts,
             account'.id = account.id, account'.password = account.password,
             account'.secret = account.secret, account'.twoFactor = account.twoFactor,
             account'.reset \notin spent, account'.reset <= serial'
      PROVE  AccountIndInv'
  <2>1. Exists'
    BY <1>9, AccountNone DEF Exists
  <2>2. AccountTypeOK'
    BY <1>6, <1>9
  <2>3. Gentle
    BY <1>1, <1>2, <1>5, <1>9, <2>1 DEF Gentle
  <2> QED
    BY <2>2, <2>3, GentleKeeps
<1>10. CASE VerifyEmail(d)
  <2>1. UNCHANGED sessionRows
    BY <1>10 DEF VerifyEmail
  <2>2. CASE UNCHANGED account
    <3>1. AccountTypeOK'
      BY <1>6, <2>1, <2>2 DEF AccountTypeOK
    <3>2. Gentle
      BY <1>1, <1>2, <1>5, <2>1, <2>2 DEF Gentle
    <3> QED
      BY <3>1, <3>2, GentleKeeps
  <2>3. CASE Exists /\ account' = [account EXCEPT !.verified = TRUE, !.verify = 0]
    <3>1. account \in Accounts /\ account.reset \notin spent
      BY <2>3, AccountIs DEF LinksUnspent
    <3>2. account' \in Accounts /\ account'.id = account.id /\ account'.password = account.password
          /\ account'.secret = account.secret /\ account'.twoFactor = account.twoFactor
          /\ account'.reset = account.reset
      BY <2>3, <3>1 DEF Accounts, Maybe
    <3>3. account.reset <= serial'
      BY <1>4, <1>5, <2>3, <3>1, AccountIs DEF NumbersAreOld
    <3> QED
      BY <1>9, <2>1, <2>3, <3>1, <3>2, <3>3
  <2> QED
    BY <1>10, <2>2, <2>3 DEF VerifyEmail
<1>11. CASE ResendWrite(d)
  <2>1. account \in Accounts /\ account.reset \notin spent /\ Exists
    BY <1>11, AccountIs DEF LinksUnspent, ResendWrite, Has
  <2>2. serial + 1 \in Maybe(Serials)
    BY <1>11, SerialGrows DEF ResendWrite, Maybe
  <2>3. account' \in Accounts /\ account'.id = account.id /\ account'.password = account.password
        /\ account'.secret = account.secret /\ account'.twoFactor = account.twoFactor
        /\ account'.reset = account.reset
    BY <1>11, <2>1, <2>2 DEF Accounts, ResendWrite
  <2>4. UNCHANGED sessionRows
    BY <1>11 DEF ResendWrite
  <2>5. account.reset <= serial'
    BY <1>4, <1>5, <2>1, AccountIs DEF NumbersAreOld
  <2> QED
    BY <1>9, <2>1, <2>3, <2>4, <2>5
<1>12. CASE ForgotPassword(d)
  <2>1. account \in Accounts /\ Exists
    BY <1>12, AccountIs DEF ForgotPassword
  <2>2. serial + 1 \in Maybe(Serials) /\ serial + 1 \notin spent
    BY <1>4, <1>12, SerialGrows DEF ForgotPassword, Maybe, NumbersAreOld
  <2>3. account' \in Accounts /\ account'.id = account.id /\ account'.password = account.password
        /\ account'.secret = account.secret /\ account'.twoFactor = account.twoFactor
        /\ account'.reset = serial + 1
    BY <1>12, <2>1, <2>2 DEF Accounts, ForgotPassword
  <2>4. UNCHANGED sessionRows
    BY <1>12 DEF ForgotPassword
  <2>5. serial + 1 <= serial'
    BY <1>12, SerialGrows DEF ForgotPassword
  <2> QED
    BY <1>9, <2>1, <2>2, <2>3, <2>4, <2>5
<1> QED
  BY <1>7, <1>8, <1>10, <1>11, <1>12

\* A step that neither counts sessions nor writes any, of a user who stays.
LEMMA RowsKept ==
  ASSUME AccountIndInv, UNCHANGED <<sessionRows, overlap>>, Exists => Exists',
         \A e \in Devices : LoginReady(e)' => LoginReady(e) /\ busy'[e] = busy[e],
         account'.id = account.id, Exists' => Exists
  PROVE  RowsFinite' /\ OneCounts' /\ RoomForLogin' /\ SessionLimit'
<1> USE DEF AccountIndInv
<1>1. RowsFinite'
  BY DEF RowsFinite
<1>2. OneCounts'
  BY DEF OneCounts
<1>3. RoomForLogin'
  <2>1. ASSUME NEW e \in Devices, LoginReady(e)', Has(e, {"login"})'
        PROVE  LoginReady(e) /\ Has(e, {"login"}) /\ busy'[e] = busy[e]
    BY <2>1 DEF Has
  <2> QED
    BY <2>1 DEF RoomForLogin
<1>4. SessionLimit'
  BY DEF SessionLimit
<1> QED
  BY <1>1, <1>2, <1>3, <1>4

LEMMA Setup2FAKeeps ==
  ASSUME AccountIndInv, NEW d \in Devices, Setup2FA(d)
  PROVE  AccountIndInv'
<1> USE DEF AccountIndInv
<1>1. /\ UNCHANGED <<sessionRows, links, busy, confirmed, spent, overlap>>
      /\ Exists /\ page[d].at = "settings" /\ busy[d] = None /\ Fresh(1)
      /\ account' = [account EXCEPT !.secret = serial + 1, !.twoFactor = FALSE]
      /\ crossed' = (crossed \/ Crosses(d))
      /\ page' = [page EXCEPT ![d].secret = serial + 1]
  BY DEF Setup2FA, On
<1>2. /\ serial \in Nat /\ serial' \in Nat /\ serial <= serial' /\ serial' \in Maybe(Serials)
      /\ serial + 1 \in Serials /\ serial + 1 \in Maybe(Serials)
  BY <1>1, SerialGrows DEF Maybe
<1>3. account \in Accounts
  BY <1>1, AccountIs
<1>4. /\ account' \in Accounts /\ account'.id = account.id /\ account'.password = account.password
      /\ account'.reset = account.reset /\ ~account'.twoFactor
  BY <1>1, <1>2, <1>3 DEF Accounts
<1>5. Exists'
  BY <1>4, AccountNone DEF Exists
<1>6. page' \in [Devices -> Pages]
  <2>1. page[d] \in Pages
    BY DEF AccountTypeOK
  <2>2. page' = [page EXCEPT ![d] = [page[d] EXCEPT !.secret = serial + 1]]
    BY <1>1
  <2> QED
    BY <1>1, <1>2, <2>1, <2>2, PagesAre, PageChanges
<1>7. crossed' \in BOOLEAN
  BY <1>1 DEF AccountTypeOK, Crosses
<1>8. AccountTypeOK'
  BY <1>1, <1>2, <1>4, <1>6, <1>7 DEF AccountTypeOK
<1>9. NumbersAreOld'
  <2>1. account'.id <= serial' /\ account'.reset <= serial'
    BY <1>1, <1>2, <1>4, AccountIs DEF NumbersAreOld
  <2>2. ASSUME NEW e \in Devices, Running(e)
        PROVE  busy[e].user <= serial' /\ (Op(e, "reset") => busy[e].token <= serial')
    BY <1>2, <2>2, OldNumbers
  <2>3. spent' \subseteq 1 .. serial'
    BY <1>1, <1>2 DEF NumbersAreOld
  <2> QED
    BY <1>1, <2>1, <2>2, <2>3 DEF NumbersAreOld, Op, Running
<1>10. RowsFinite' /\ OneCounts' /\ RoomForLogin' /\ SessionLimit'
  BY <1>1, <1>4, <1>5, RowsKept DEF LoginReady
<1>11. LoginFits'
  BY <1>1, <1>4 DEF LoginFits, Has, Exists
<1>12. PasswordChangeEndsSessions'
  BY <1>1, <1>4 DEF PasswordChangeEndsSessions
<1>13. EnableFits'
  <2>1. ASSUME ~crossed', NEW e \in Devices PROVE ~Has(e, {"enable"})'
    BY <1>1, <2>1 DEF Crosses, Has
  <2> QED
    BY <2>1 DEF EnableFits
<1>14. TwoFactorConfirmed'
  BY <1>4 DEF TwoFactorConfirmed
<1>15. LinksUnspent'
  BY <1>1, <1>4 DEF LinksUnspent, Op, Running
<1> QED
  BY <1>8, <1>9, <1>10, <1>11, <1>12, <1>13, <1>14, <1>15

\* enable2FA and disable2FA, their writes.
LEMMA TwoFactorWrites ==
  ASSUME AccountIndInv, NEW d \in Devices, EnableWrite(d) \/ DisableWrite(d)
  PROVE  AccountIndInv'
<1> USE DEF AccountIndInv
<1>1. /\ UNCHANGED <<sessionRows, serial, links, spent, overlap>>
      /\ Exists /\ busy[d] # None /\ account.id = busy[d].user
      /\ busy' = [busy EXCEPT ![d] = None]
  BY DEF EnableWrite, DisableWrite, Has, Done
<1>2. account \in Accounts
  BY <1>1, AccountIs
<1>3. /\ account' \in Accounts /\ account'.id = account.id /\ account'.password = account.password
      /\ account'.reset = account.reset
  <2>1. CASE EnableWrite(d)
    BY <1>2, <2>1 DEF EnableWrite, Accounts
  <2>2. CASE DisableWrite(d)
    BY <1>2, <2>2 DEF DisableWrite, Accounts, Maybe
  <2> QED
    BY <2>1, <2>2
<1>4. Exists'
  BY <1>3, AccountNone DEF Exists
<1>5. /\ busy' \in [Devices -> Ops \cup {None}]
      /\ \A e \in Devices : busy'[e] # None => e # d /\ busy'[e] = busy[e]
  BY <1>1 DEF AccountTypeOK
<1>6. page' \in [Devices -> Pages]
  <2>1. page[d] \in Pages
    BY DEF AccountTypeOK
  <2>2. CASE page' = page
    BY <2>2 DEF AccountTypeOK
  <2>3. CASE page' = [page EXCEPT ![d] = [page[d] EXCEPT !.secret = 0]]
    BY <2>1, <2>3, PagesAre, PageChanges
  <2> QED
    BY <2>2, <2>3 DEF EnableWrite, DisableWrite
<1>7. crossed' \in BOOLEAN
  BY DEF AccountTypeOK, EnableWrite, DisableWrite, Crosses
<1>8. confirmed' \subseteq Serials
  <2>1. CASE EnableWrite(d)
    <3>1. busy[d].secret \in Serials
      BY <1>1, <2>1, BusyIs, OpIs DEF EnableWrite, Has, Running, EnableOp
    <3> QED
      BY <2>1, <3>1 DEF EnableWrite, AccountTypeOK
  <2>2. CASE DisableWrite(d)
    BY <2>2 DEF DisableWrite, AccountTypeOK
  <2> QED
    BY <2>1, <2>2
<1>9. AccountTypeOK'
  BY <1>1, <1>3, <1>5, <1>6, <1>7, <1>8 DEF AccountTypeOK
<1>10. NumbersAreOld'
  <2>1. \A e \in Devices : Running(e)' => Running(e) /\ busy'[e] = busy[e]
    BY <1>5 DEF Running
  <2>2. account'.id <= serial' /\ account'.reset <= serial' /\ spent' \subseteq 1 .. serial'
    BY <1>1, <1>3 DEF NumbersAreOld
  <2> QED
    BY <1>1, <2>1, <2>2 DEF NumbersAreOld, Op
<1>11. RowsFinite' /\ OneCounts' /\ RoomForLogin' /\ SessionLimit'
  BY <1>1, <1>3, <1>4, <1>5, RowsKept DEF LoginReady
<1>12. LoginFits'
  BY <1>1, <1>3, <1>5 DEF LoginFits, Has
<1>13. PasswordChangeEndsSessions'
  BY <1>1, <1>3 DEF PasswordChangeEndsSessions
<1>14. LinksUnspent'
  BY <1>1, <1>3, <1>5 DEF LinksUnspent, Op, Running
<1>15. CASE EnableWrite(d)
  <2>1. account' = [account EXCEPT !.twoFactor = TRUE] /\ UNCHANGED crossed
        /\ confirmed' = confirmed \cup {busy[d].secret} /\ Has(d, {"enable"})
    BY <1>15 DEF EnableWrite
  <2>2. account'.secret = account.secret
    BY <1>2, <2>1 DEF Accounts
  <2>3. EnableFits'
    BY <1>1, <1>3, <1>5, <2>1, <2>2 DEF EnableFits, Has
  <2>4. TwoFactorConfirmed'
    BY <2>1, <2>2 DEF TwoFactorConfirmed, EnableFits
  <2> QED
    BY <1>9, <1>10, <1>11, <1>12, <1>13, <1>14, <2>3, <2>4
<1>16. CASE DisableWrite(d)
  <2>1. account' = [account EXCEPT !.twoFactor = FALSE, !.secret = 0]
        /\ crossed' = (crossed \/ Crosses(d)) /\ busy[d].op = "disable"
    BY <1>16 DEF DisableWrite, Has
  <2>2. ASSUME ~crossed', NEW e \in Devices PROVE ~Has(e, {"enable"})'
    BY <1>5, <2>1, <2>2 DEF Crosses, Has
  <2>3. EnableFits'
    BY <2>2 DEF EnableFits
  <2>4. ~account'.twoFactor
    BY <1>2, <2>1 DEF Accounts
  <2>5. TwoFactorConfirmed'
    BY <2>4 DEF TwoFactorConfirmed
  <2> QED
    BY <1>9, <1>10, <1>11, <1>12, <1>13, <1>14, <2>3, <2>5
<1> QED
  BY <1>15, <1>16

\* resetPassword and changePassword, their transaction.
LEMMA SetPasswordKeeps ==
  ASSUME AccountIndInv, NEW d \in Devices, SetPassword(d)
  PROVE  AccountIndInv'
<1> USE DEF AccountIndInv
<1>1. /\ UNCHANGED <<links, page, confirmed, overlap, crossed>> /\ sessionRows' = {}
      /\ Exists /\ busy[d] # None /\ busy[d].op \in {"reset", "change"} /\ Fresh(1)
      /\ account' = [account EXCEPT !.password = serial + 1,
                                    !.reset = IF busy[d].op = "reset" THEN 0 ELSE account.reset]
      /\ spent' = IF busy[d].op = "reset" THEN spent \cup {busy[d].token} ELSE spent
  BY DEF SetPassword, Has, Spend
<1>2. /\ serial \in Nat /\ serial' \in Nat /\ serial <= serial' /\ serial' \in Maybe(Serials)
      /\ serial + 1 \in Serials
  BY <1>1, SerialGrows
<1>3. account \in Accounts /\ busy[d] \in Ops
  BY <1>1, AccountIs, BusyIs DEF Running
<1>4. /\ account' \in Accounts /\ account'.id = account.id /\ account'.secret = account.secret
      /\ account'.twoFactor = account.twoFactor
      /\ account'.reset = IF busy[d].op = "reset" THEN 0 ELSE account.reset
  BY <1>1, <1>2, <1>3 DEF Accounts, Maybe
<1>5. Exists'
  BY <1>4, AccountNone DEF Exists
<1>6. ASSUME NEW e \in Devices
      PROVE  \/ busy'[e] = None
             \/ /\ Running(e) /\ busy'[e] \in Ops /\ busy'[e].op = busy[e].op /\ busy'[e].user = busy[e].user
                /\ busy[e].op \in {"login", "reset"} => busy'[e].late
                /\ busy[e].op = "login" => busy'[e].read = busy[e].read
                /\ busy[e].op = "enable" => busy'[e].secret = busy[e].secret
  <2>1. busy'[e] = IF e = d THEN None
                   ELSE IF busy[e] # None /\ busy[e].op \in {"login", "reset"}
                        THEN [busy[e] EXCEPT !.late = TRUE] ELSE busy[e]
    BY DEF SetPassword, MarkLate
  <2>2. CASE e = d \/ ~Running(e)
    BY <2>1, <2>2 DEF Running
  <2>3. CASE e # d /\ Running(e) /\ busy[e].op \notin {"login", "reset"}
    BY <2>1, <2>3, BusyIs DEF Running
  <2>4. CASE e # d /\ Running(e) /\ busy[e].op = "login"
    <3>1. busy[e] \in LoginOp
      BY <2>4, BusyIs, OpIs
    <3>2. busy'[e] = [busy[e] EXCEPT !.late = TRUE]
      BY <2>1, <2>4 DEF Running
    <3>3. busy'[e] \in LoginOp /\ busy'[e].late /\ busy'[e].user = busy[e].user /\ busy'[e].read = busy[e].read
          /\ busy'[e].op = busy[e].op
      BY <3>1, <3>2 DEF LoginOp
    <3> QED
      BY <2>4, <3>3, OpKinds
  <2>5. CASE e # d /\ Running(e) /\ busy[e].op = "reset"
    <3>1. busy[e] \in ResetOp
      BY <2>5, BusyIs, OpIs
    <3>2. busy'[e] = [busy[e] EXCEPT !.late = TRUE]
      BY <2>1, <2>5 DEF Running
    <3>3. busy'[e] \in ResetOp /\ busy'[e].late /\ busy'[e].user = busy[e].user /\ busy'[e].op = busy[e].op
      BY <3>1, <3>2 DEF ResetOp
    <3> QED
      BY <2>5, <3>3, OpKinds
  <2> QED
    BY <2>2, <2>3, <2>4, <2>5
<1>7. busy' \in [Devices -> Ops \cup {None}]
  <2>1. busy' = [e \in Devices |-> busy'[e]]
    BY DEF SetPassword, MarkLate
  <2> QED
    BY <1>6, <2>1
<1>8. busy[d].op = "reset" => busy[d].token \in Serials /\ busy[d].token \in 1 .. serial'
  BY <1>1, <1>2, OldNumbers DEF Op, Running
<1>9. AccountTypeOK'
  <2>1. spent' \subseteq Serials
    BY <1>1, <1>8 DEF AccountTypeOK
  <2> QED
    BY <1>1, <1>2, <1>4, <1>7, <2>1 DEF AccountTypeOK
<1>10. NumbersAreOld'
  <2>1. account'.id <= serial' /\ account'.reset <= serial'
    BY <1>1, <1>2, <1>4, AccountIs DEF NumbersAreOld
  <2>2. ASSUME NEW e \in Devices, Running(e)' PROVE busy'[e].user <= serial'
    <3>1. Running(e) /\ busy'[e].user = busy[e].user
      BY <1>6, <2>2 DEF Running
    <3> QED
      BY <1>2, <3>1, OldNumbers
  <2>3. ASSUME NEW e \in Devices, Op(e, "reset")' PROVE busy'[e].token <= serial'
    <3>1. Op(e, "reset") /\ e # d
      BY <1>6, <2>3 DEF Op, Running, SetPassword, MarkLate
    <3>2. busy[e] \in ResetOp /\ busy[e].token <= serial'
      BY <1>2, <3>1, BusyIs, OpIs, OldNumbers DEF Op
    <3>3. busy'[e] = [busy[e] EXCEPT !.late = TRUE]
      BY <3>1 DEF Op, Running, SetPassword, MarkLate
    <3>4. busy'[e].token = busy[e].token
      BY <3>2, <3>3 DEF ResetOp
    <3> QED
      BY <3>2, <3>4
  <2>4. spent' \subseteq 1 .. serial'
    <3>1. spent \subseteq 1 .. serial'
      BY <1>2 DEF NumbersAreOld
    <3> QED
      BY <1>1, <1>8, <3>1
  <2> QED
    BY <2>1, <2>2, <2>3, <2>4 DEF NumbersAreOld
<1>11. RowsFinite' /\ PasswordChangeEndsSessions'
  BY <1>1, FS_EmptySet DEF RowsFinite, PasswordChangeEndsSessions
<1>12. SessionLimit' /\ RoomForLogin'
  BY <1>1, FS_EmptySet, AccountBounds DEF SessionLimit, RoomForLogin
<1>13. LoginFits'
  BY <1>6 DEF LoginFits, Has
<1>14. \A e \in Devices : LoginReady(e)' => LoginReady(e)
  BY <1>6 DEF LoginReady, Running
<1>15. OneCounts'
  BY <1>1, <1>14 DEF OneCounts
<1>16. \A e \in Devices : Has(e, {"enable"})' => Has(e, {"enable"}) /\ busy'[e].secret = busy[e].secret
  BY <1>1, <1>4, <1>6 DEF Has, Running
<1>17. EnableFits'
  BY <1>1, <1>4, <1>16 DEF EnableFits
<1>18. TwoFactorConfirmed'
  BY <1>1, <1>4 DEF TwoFactorConfirmed
<1>19. LinksUnspent'
  <2>1. account'.reset \notin spent'
    <3>1. 0 \notin spent'
      BY <1>9, AccountBounds DEF AccountTypeOK, Serials
    <3> QED
      BY <1>1, <1>4, <3>1 DEF LinksUnspent
  <2>2. \A e \in Devices : ~(Op(e, "reset")' /\ ~busy'[e].late)
    BY <1>6 DEF Op, Running
  <2> QED
    BY <2>1, <2>2 DEF LinksUnspent
<1> QED
  BY <1>9, <1>10, <1>11, <1>12, <1>13, <1>15, <1>17, <1>18, <1>19

\* issueTokens, its reads: without a session to rotate, and at the limit, there
\* is an oldest session to evict.
LEMMA LoginChooses ==
  ASSUME AccountIndInv, NEW d \in Devices, LoginRead(d)
  PROVE  \E r, v \in Maybe(Serials) :
           /\ busy' = [busy EXCEPT ![d] = [busy[d] EXCEPT !.read = TRUE, !.row = r, !.evict = v]]
           /\ r = 0 /\ v = 0 => Cardinality(sessionRows) < MaxSessions
<1> USE DEF AccountIndInv
<1>0. busy[d] \in LoginOp
  BY BusyIs, OpIs DEF LoginRead, Running
<1>1. busy[d].row \in Maybe(Serials) /\ busy[d].evict \in Maybe(Serials)
  BY <1>0 DEF LoginOp
<1>2. \A s \in sessionRows : s.id \in Serials /\ s.id \in Nat /\ s.id # 0 /\ s.id \in Maybe(Serials)
  BY AccountBounds DEF AccountTypeOK, Sessions, Serials, Maybe
<1>3. CASE \E s \in Same(d) : busy' = [busy EXCEPT ![d].read = TRUE, ![d].row = s.id]
  <2>1. PICK s \in Same(d) : busy' = [busy EXCEPT ![d].read = TRUE, ![d].row = s.id]
    BY <1>3
  <2>2. s.id \in Maybe(Serials) /\ s.id # 0
    BY <1>2 DEF Same
  <2>3. [busy[d] EXCEPT !.read = TRUE, !.row = s.id]
          = [busy[d] EXCEPT !.read = TRUE, !.row = s.id, !.evict = busy[d].evict]
    BY <1>0 DEF LoginOp
  <2>4. busy' = [busy EXCEPT ![d] = [busy[d] EXCEPT !.read = TRUE, !.row = s.id]]
    BY <2>1 DEF AccountTypeOK
  <2> QED
    BY <1>1, <2>2, <2>3, <2>4
<1>4. CASE busy' = [busy EXCEPT ![d].read = TRUE,
                ![d].evict = IF Cardinality(sessionRows) >= MaxSessions THEN Oldest.id ELSE 0]
  <2> DEFINE v == IF Cardinality(sessionRows) >= MaxSessions THEN Oldest.id ELSE 0
  <2>1. Cardinality(sessionRows) \in Nat /\ MaxSessions \in Nat /\ MaxSessions # 0
    BY FS_CardinalityType, AccountBounds DEF RowsFinite
  <2>2. v \in Maybe(Serials) /\ (v = 0 => Cardinality(sessionRows) < MaxSessions)
    <3>1. CASE Cardinality(sessionRows) >= MaxSessions
      <4>1. sessionRows # {}
        BY <2>1, <3>1, FS_EmptySet
      <4>2. {s.id : s \in sessionRows} \in SUBSET Nat /\ {s.id : s \in sessionRows} # {}
        BY <1>2, <4>1
      <4>3. PICK m \in {s.id : s \in sessionRows} : \A j \in {s.id : s \in sessionRows} : m <= j
        BY <4>2, LeastOf
      <4>4. \E s \in sessionRows : \A o \in sessionRows : s.id <= o.id
        BY <4>3
      <4>5. Oldest \in sessionRows
        BY <4>4 DEF Oldest
      <4>6. v = Oldest.id
        BY <3>1
      <4> QED
        BY <1>2, <4>5, <4>6
    <3>2. CASE ~(Cardinality(sessionRows) >= MaxSessions)
      BY <2>1, <3>2 DEF Maybe
    <3> QED
      BY <3>1, <3>2
  <2> HIDE DEF v
  <2>3. busy' = [busy EXCEPT ![d].read = TRUE, ![d].evict = v]
    BY <1>4 DEF v
  <2>4. [busy[d] EXCEPT !.read = TRUE, !.evict = v]
          = [busy[d] EXCEPT !.read = TRUE, !.row = busy[d].row, !.evict = v]
    BY <1>0 DEF LoginOp
  <2>5. busy' = [busy EXCEPT ![d] = [busy[d] EXCEPT !.read = TRUE, !.evict = v]]
    BY <2>3 DEF AccountTypeOK
  <2> QED
    BY <1>1, <2>2, <2>4, <2>5
<1> QED
  BY <1>3, <1>4 DEF LoginRead

LEMMA LoginReadKeeps ==
  ASSUME AccountIndInv, NEW d \in Devices, LoginRead(d)
  PROVE  AccountIndInv'
<1> USE DEF AccountIndInv
<1>1. /\ UNCHANGED <<account, sessionRows, serial, links, page, confirmed, spent, crossed>>
      /\ Running(d) /\ busy[d].op = "login"
      /\ overlap' = (overlap \/ \E e \in Devices \ {d} : LoginReady(e))
  BY DEF LoginRead, Running, LoginReady
<1>2. busy[d] \in LoginOp
  BY <1>1, BusyIs, OpIs
<1>3. PICK r, v \in Maybe(Serials) :
        /\ busy' = [busy EXCEPT ![d] = [busy[d] EXCEPT !.read = TRUE, !.row = r, !.evict = v]]
        /\ r = 0 /\ v = 0 => Cardinality(sessionRows) < MaxSessions
  BY LoginChooses
<1>4. PICK b : b = [busy[d] EXCEPT !.read = TRUE, !.row = r, !.evict = v]
  OBVIOUS
<1>5. /\ b \in LoginOp /\ b.op = "login" /\ b.user = busy[d].user /\ b.pw = busy[d].pw
      /\ b.late = busy[d].late /\ b.row = r /\ b.evict = v
  BY <1>2, <1>4 DEF LoginOp
<1>6. /\ busy' = [busy EXCEPT ![d] = b]
      /\ busy'[d] = b /\ \A e \in Devices : e # d => busy'[e] = busy[e]
  BY <1>3, <1>4 DEF AccountTypeOK
<1>7. b \in Ops /\ b # None
  BY <1>5, OpKinds, OpIs
<1>8. busy' \in [Devices -> Ops \cup {None}]
  BY <1>6, <1>7 DEF AccountTypeOK
<1>9. AccountTypeOK'
  BY <1>1, <1>8 DEF AccountTypeOK
<1>10. \A e \in Devices : Running(e)' =>
         Running(e) /\ busy'[e].user = busy[e].user /\ busy'[e].op = busy[e].op
  BY <1>1, <1>5, <1>6 DEF Running
<1>11. \A e \in Devices : busy'[e] # None /\ busy'[e].op # "login" => busy'[e] = busy[e]
  BY <1>5, <1>6
<1>12. NumbersAreOld'
  <2>1. \A e \in Devices : Op(e, "reset")' => Op(e, "reset") /\ busy'[e] = busy[e]
    BY <1>11 DEF Op, Running
  <2> QED
    BY <1>1, <1>10, <2>1 DEF NumbersAreOld, Exists
<1>13. RowsFinite' /\ PasswordChangeEndsSessions' /\ TwoFactorConfirmed'
  BY <1>1 DEF RowsFinite, PasswordChangeEndsSessions, TwoFactorConfirmed, Exists
<1>14. SessionLimit'
  BY <1>1 DEF SessionLimit
<1>15. LoginFits'
  <2>1. ASSUME NEW e \in Devices, Has(e, {"login"})'
        PROVE  Has(e, {"login"}) /\ busy'[e].pw = busy[e].pw /\ busy'[e].late = busy[e].late
    BY <1>1, <1>5, <1>6, <2>1 DEF Has, Exists, Running
  <2> QED
    BY <1>1, <2>1 DEF LoginFits
<1>16. ASSUME ~overlap', NEW e \in Devices, LoginReady(e)' PROVE e = d /\ ~overlap
  BY <1>1, <1>6, <1>16 DEF LoginReady
<1>17. OneCounts'
  BY <1>16 DEF OneCounts
<1>18. RoomForLogin'
  <2>1. ASSUME ~overlap', NEW e \in Devices, LoginReady(e)', busy'[e].row = 0, busy'[e].evict = 0
        PROVE  Cardinality(sessionRows') < MaxSessions
    BY <1>1, <1>3, <1>5, <1>6, <1>16, <2>1
  <2> QED
    BY <2>1 DEF RoomForLogin
<1>19. EnableFits'
  <2>1. ASSUME NEW e \in Devices, Has(e, {"enable"})' PROVE Has(e, {"enable"}) /\ busy'[e] = busy[e]
    BY <1>1, <1>11, <2>1 DEF Has, Exists
  <2> QED
    BY <1>1, <2>1 DEF EnableFits
<1>20. LinksUnspent'
  BY <1>1, <1>11 DEF LinksUnspent, Op, Running, Exists
<1> QED
  BY <1>9, <1>12, <1>13, <1>14, <1>15, <1>17, <1>18, <1>19, <1>20

\* A row put in the place of others.
LEMMA Replaced ==
  ASSUME NEW S, NEW T, NEW x, IsFiniteSet(S)
  PROVE  /\ IsFiniteSet((S \ T) \cup {x})
         /\ Cardinality((S \ T) \cup {x}) \in Nat /\ Cardinality(S) \in Nat
         /\ Cardinality((S \ T) \cup {x}) <= Cardinality(S) + 1
         /\ (\E t \in T : t \in S) => Cardinality((S \ T) \cup {x}) <= Cardinality(S)
<1>1. IsFiniteSet(S \ T) /\ Cardinality(S \ T) <= Cardinality(S)
  BY FS_Subset
<1>2. Cardinality(S) \in Nat /\ Cardinality(S \ T) \in Nat
  BY <1>1, FS_CardinalityType
<1>3. IsFiniteSet((S \ T) \cup {x}) /\ Cardinality((S \ T) \cup {x}) <= Cardinality(S \ T) + 1
  <2>1. PICK U : U = S \ T
    OBVIOUS
  <2>2. IsFiniteSet(U) /\ Cardinality(U) \in Nat
    BY <1>1, <1>2, <2>1
  <2>3. /\ IsFiniteSet(U \cup {x})
        /\ Cardinality(U \cup {x}) = IF x \in U THEN Cardinality(U) ELSE Cardinality(U) + 1
    BY <2>2, FS_AddElement
  <2>4. IsFiniteSet(U \cup {x}) /\ Cardinality(U \cup {x}) <= Cardinality(U) + 1
    BY <2>2, <2>3
  <2> QED
    BY <2>1, <2>4
<1>4. Cardinality((S \ T) \cup {x}) \in Nat
  BY <1>3, FS_CardinalityType
<1>5. ASSUME NEW t \in T, t \in S PROVE Cardinality((S \ T) \cup {x}) <= Cardinality(S)
  <2>1. IsFiniteSet(S \ {t}) /\ Cardinality(S \ {t}) = Cardinality(S) - 1
    BY <1>5, FS_RemoveElement
  <2>2. S \ T \subseteq S \ {t}
    BY <1>5
  <2>3. Cardinality(S \ T) <= Cardinality(S \ {t})
    BY <2>1, <2>2, FS_Subset
  <2> QED
    BY <1>2, <1>3, <1>4, <2>1, <2>3
<1> QED
  BY <1>1, <1>2, <1>3, <1>4, <1>5

\* issueTokens, its writes: a row takes the place of the one rotated or
\* evicted, or there was room when the sessions were counted.
LEMMA LoginWriteKeeps ==
  ASSUME AccountIndInv, NEW d \in Devices, LoginWrite(d)
  PROVE  AccountIndInv'
<1> USE DEF AccountIndInv
<1>1. /\ UNCHANGED <<account, links, confirmed, spent, overlap, crossed>>
      /\ LoginReady(d) /\ Has(d, {"login"}) /\ Running(d)
      /\ busy' = [busy EXCEPT ![d] = None] /\ Show(d, "settings")
  BY DEF LoginWrite, Done, history, LoginReady, Running
<1>2. busy[d] \in LoginOp /\ Exists
  BY <1>1, BusyIs, OpIs DEF Has, LoginReady
<1>3. PICK i, T, x :
        /\ i \in Serials /\ x = [id |-> i, agent |-> d, pw |-> busy[d].pw, late |-> busy[d].late]
        /\ sessionRows' = (sessionRows \ T) \cup {x}
        /\ \/ \E t \in T : t \in sessionRows
           \/ busy[d].row = 0 /\ busy[d].evict = 0
        /\ serial \in Nat /\ serial' \in Nat /\ serial <= serial' /\ serial' \in Maybe(Serials)
  <2>1. CASE /\ Row(busy[d].row) # {}
             /\ sessionRows' = (sessionRows \ Row(busy[d].row))
                  \cup {[id |-> busy[d].row, agent |-> d, pw |-> busy[d].pw, late |-> busy[d].late]}
             /\ UNCHANGED serial
    <3>1. PICK t \in Row(busy[d].row) : t \in sessionRows /\ t.id = busy[d].row
      BY <2>1 DEF Row
    <3>2. busy[d].row \in Serials
      BY <3>1 DEF AccountTypeOK, Sessions
    <3>3. serial \in Nat /\ serial <= serial /\ serial \in Maybe(Serials)
      BY AccountBounds DEF AccountTypeOK, Serials, Maybe
    <3> QED
      BY <2>1, <3>1, <3>2, <3>3
  <2>2. CASE /\ busy[d].row = 0
             /\ busy[d].evict # 0 => Row(busy[d].evict) # {}
             /\ Fresh(1)
             /\ sessionRows' = (sessionRows \ Row(busy[d].evict))
                  \cup {[id |-> serial + 1, agent |-> d, pw |-> busy[d].pw, late |-> busy[d].late]}
    <3>1. /\ serial \in Nat /\ serial' \in Nat /\ serial <= serial' /\ serial' \in Maybe(Serials)
          /\ serial + 1 \in Serials
      BY <2>2, SerialGrows
    <3>2. (\E t \in Row(busy[d].evict) : t \in sessionRows) \/ (busy[d].row = 0 /\ busy[d].evict = 0)
      BY <2>2 DEF Row
    <3> QED
      BY <2>2, <3>1, <3>2
  <2> QED
    BY <2>1, <2>2 DEF LoginWrite
<1>4. x \in Sessions /\ x.pw = busy[d].pw /\ x.late = busy[d].late
  BY <1>2, <1>3 DEF Sessions, LoginOp
<1>5. /\ busy' \in [Devices -> Ops \cup {None}]
      /\ \A e \in Devices : busy'[e] # None => e # d /\ busy'[e] = busy[e]
  BY <1>1 DEF AccountTypeOK
<1>6. page' \in [Devices -> Pages]
  BY <1>1, ShowTyped, PageChanges DEF Show
<1>7. AccountTypeOK'
  <2>1. sessionRows' \in SUBSET Sessions
    BY <1>3, <1>4 DEF AccountTypeOK
  <2> QED
    BY <1>1, <1>3, <1>5, <1>6, <2>1 DEF AccountTypeOK
<1>8. NumbersAreOld'
  <2>1. \A e \in Devices : Running(e)' => Running(e) /\ busy'[e] = busy[e]
    BY <1>5 DEF Running
  <2>2. account'.id <= serial' /\ account'.reset <= serial'
    BY <1>1, <1>2, <1>3, AccountIs DEF NumbersAreOld
  <2>3. ASSUME NEW e \in Devices, Running(e)'
        PROVE  busy'[e].user <= serial' /\ (Op(e, "reset")' => busy'[e].token <= serial')
    <3>1. busy[e].user <= serial' /\ (Op(e, "reset") => busy[e].token <= serial')
      BY <1>3, <2>1, <2>3, OldNumbers
    <3>2. Op(e, "reset")' => Op(e, "reset")
      BY <2>1, <2>3 DEF Op
    <3> QED
      BY <2>1, <2>3, <3>1, <3>2
  <2>4. spent' \subseteq 1 .. serial'
    BY <1>1, <1>3 DEF NumbersAreOld
  <2> QED
    BY <2>2, <2>3, <2>4 DEF NumbersAreOld, Op
<1>9. /\ IsFiniteSet(sessionRows') /\ Cardinality(sessionRows') \in Nat /\ Cardinality(sessionRows) \in Nat
      /\ Cardinality(sessionRows') <= Cardinality(sessionRows) + 1
      /\ (\E t \in T : t \in sessionRows) => Cardinality(sessionRows') <= Cardinality(sessionRows)
  <2>1. IsFiniteSet(sessionRows)
    BY DEF RowsFinite
  <2> QED
    BY <1>3, <2>1, Replaced
<1>10. RowsFinite'
  BY <1>1, <1>2, <1>9 DEF RowsFinite, Exists
<1>11. SessionLimit'
  <2>1. ASSUME ~overlap PROVE Cardinality(sessionRows') <= MaxSessions
    <3>1. CASE \E t \in T : t \in sessionRows
      BY <1>9, <2>1, <3>1, AccountBounds DEF SessionLimit
    <3>2. CASE busy[d].row = 0 /\ busy[d].evict = 0
      <4>1. Cardinality(sessionRows) < MaxSessions
        BY <1>1, <2>1, <3>2 DEF RoomForLogin
      <4> QED
        BY <1>9, <4>1, AccountBounds
    <3> QED
      BY <1>3, <3>1, <3>2
  <2> QED
    BY <1>1, <2>1 DEF SessionLimit
<1>12. \A e \in Devices : LoginReady(e)' => LoginReady(e) /\ e # d
  BY <1>5 DEF LoginReady
<1>13. OneCounts'
  BY <1>1, <1>12 DEF OneCounts
<1>14. RoomForLogin'
  BY <1>1, <1>12 DEF RoomForLogin, OneCounts
<1>15. \A e \in Devices : \A ops : Has(e, ops)' => Has(e, ops) /\ busy'[e] = busy[e]
  BY <1>1, <1>5 DEF Has, Exists
<1>16. LoginFits' /\ EnableFits'
  BY <1>1, <1>15 DEF LoginFits, EnableFits
<1>17. PasswordChangeEndsSessions'
  <2>1. x.pw = account.password \/ x.late
    BY <1>1, <1>4 DEF LoginFits
  <2> QED
    BY <1>1, <1>3, <2>1 DEF PasswordChangeEndsSessions
<1>18. TwoFactorConfirmed'
  BY <1>1 DEF TwoFactorConfirmed, Exists
<1>19. LinksUnspent'
  BY <1>1, <1>5 DEF LinksUnspent, Op, Running, Exists
<1> QED
  BY <1>7, <1>8, <1>10, <1>11, <1>13, <1>14, <1>16, <1>17, <1>18, <1>19

\* register: the new account's number is above that of every request begun.
LEMMA RegisterKeeps ==
  ASSUME AccountIndInv, NEW d \in Devices, Register(d)
  PROVE  AccountIndInv'
<1> USE DEF AccountIndInv
<1>1. /\ UNCHANGED <<busy, confirmed, spent, overlap, crossed>> /\ ~Exists /\ Fresh(4)
      /\ account' = [id |-> serial + 4, verified |-> FALSE, verify |-> serial + 1,
                     password |-> serial + 2, reset |-> 0, secret |-> 0, twoFactor |-> FALSE]
      /\ links' = links \cup {serial + 1} /\ Show(d, "pending")
      /\ sessionRows' = {[id |-> serial + 3, agent |-> d, pw |-> serial + 2, late |-> FALSE]}
  BY DEF Register, history, Exists
<1>2. /\ serial \in Nat /\ serial' \in Nat /\ serial' = serial + 4 /\ serial <= serial'
      /\ serial' \in Maybe(Serials)
      /\ serial + 1 \in Serials /\ serial + 2 \in Serials /\ serial + 3 \in Serials
      /\ serial + 4 \in Serials
  <2>1. /\ serial \in Nat /\ serial' \in Nat /\ serial' = serial + 4 /\ serial <= serial'
        /\ serial' \in Maybe(Serials) /\ \A i \in 1 .. 4 : serial + i \in Serials
    BY <1>1, SerialGrows
  <2>2. 1 \in 1 .. 4 /\ 2 \in 1 .. 4 /\ 3 \in 1 .. 4 /\ 4 \in 1 .. 4
    OBVIOUS
  <2> QED
    BY <2>1, <2>2
<1>3. account' \in Accounts /\ Exists'
  <2>1. account' \in Accounts
    BY <1>1, <1>2 DEF Accounts, Maybe
  <2> QED
    BY <2>1, AccountNone DEF Exists
<1>4. page' \in [Devices -> Pages]
  BY <1>1, ShowTyped, PageChanges DEF Show
<1>5. AccountTypeOK'
  <2>1. sessionRows' \in SUBSET Sessions
    BY <1>1, <1>2 DEF Sessions
  <2>2. links' \in SUBSET Serials
    BY <1>1, <1>2 DEF AccountTypeOK
  <2> QED
    BY <1>1, <1>2, <1>3, <1>4, <2>1, <2>2 DEF AccountTypeOK
<1>6. ASSUME NEW e \in Devices, Running(e)
      PROVE  /\ busy[e].user <= serial' /\ busy[e].user # account'.id
             /\ Op(e, "reset") => busy[e].token <= serial'
  <2>1. busy[e].user <= serial /\ busy[e].user \in Nat
    BY <1>2, <1>6, OldNumbers, BusyIs, OpIs
  <2>2. busy[e].user <= serial' /\ (Op(e, "reset") => busy[e].token <= serial')
    BY <1>2, <1>6, OldNumbers
  <2>3. account'.id = serial + 4
    BY <1>1
  <2> QED
    BY <1>2, <2>1, <2>2, <2>3
<1>7. NumbersAreOld'
  <2>1. account'.id <= serial' /\ account'.reset <= serial'
    BY <1>1, <1>2
  <2>2. spent' \subseteq 1 .. serial'
    BY <1>1, <1>2 DEF NumbersAreOld
  <2>3. \A e \in Devices : Op(e, "reset")' => Running(e)
    BY <1>1 DEF Op, Running
  <2> QED
    BY <1>1, <1>6, <2>1, <2>2, <2>3 DEF NumbersAreOld, Op, Running
<1>8. ASSUME NEW e \in Devices, NEW ops PROVE ~Has(e, ops)'
  BY <1>1, <1>6 DEF Has, Running
<1>9. LoginFits' /\ EnableFits' /\ RoomForLogin'
  BY <1>8 DEF LoginFits, EnableFits, RoomForLogin
<1>10. IsFiniteSet(sessionRows') /\ Cardinality(sessionRows') = 1
  BY <1>1, FS_Singleton
<1>11. RowsFinite' /\ SessionLimit'
  BY <1>3, <1>10, AccountBounds DEF RowsFinite, SessionLimit
<1>12. PasswordChangeEndsSessions' /\ TwoFactorConfirmed'
  BY <1>1 DEF PasswordChangeEndsSessions, TwoFactorConfirmed
<1>13. OneCounts'
  BY <1>1 DEF OneCounts, LoginReady
<1>14. LinksUnspent'
  <2>1. account'.reset \notin spent'
    BY <1>1, <1>2 DEF NumbersAreOld
  <2> QED
    BY <1>1, <2>1 DEF LinksUnspent, Op, Running
<1> QED
  BY <1>5, <1>7, <1>9, <1>11, <1>12, <1>13, <1>14

LEMMA AccountStep ==
  ASSUME AccountIndInv, [AccountNext]_accountVars
  PROVE  AccountIndInv'
<1>1. CASE UNCHANGED accountVars
  <2>1. /\ UNCHANGED <<account, sessionRows, serial, links, page, busy, confirmed, spent, overlap, crossed>>
    BY <1>1 DEF accountVars, history
  <2> QED
    BY <2>1 DEF AccountIndInv, AccountTypeOK, NumbersAreOld, RowsFinite, LoginFits, PasswordChangeEndsSessions,
                OneCounts, RoomForLogin, SessionLimit, EnableFits, TwoFactorConfirmed, LinksUnspent,
                LoginReady, Has, Op, Running, Exists
<1>2. ASSUME NEW d \in Devices,
             \/ NextStep(d) \/ StepBack(d) \/ Register(d) \/ RegisterFails(d)
             \/ VerifyEmail(d) \/ ResendFind(d) \/ ResendWrite(d) \/ GoTo(d)
             \/ LoginCompare(d) \/ LoginRead(d) \/ LoginWrite(d) \/ LoginFails(d)
             \/ TerminateSession(d) \/ LogoutAllDevices(d) \/ SessionOver(d)
             \/ ForgotPassword(d) \/ ResetFind(d) \/ ChangeCompare(d) \/ SetPassword(d)
             \/ Setup2FA(d) \/ EnableCheck(d) \/ EnableWrite(d)
             \/ DisableCheck(d) \/ DisableWrite(d)
             \/ DeleteCheck(d) \/ DeleteWrite(d) \/ UserGone(d)
      PROVE  AccountIndInv'
  BY <1>2, QuietKeeps, RequestsBegin, GentlySteps, Setup2FAKeeps, TwoFactorWrites, SetPasswordKeeps,
     LoginReadKeeps, LoginWriteKeeps, RegisterKeeps
<1> QED
  BY <1>1, <1>2 DEF AccountNext

LEMMA AccountInitially == AccountInit => AccountIndInv
<1> SUFFICES ASSUME AccountInit PROVE AccountIndInv
  OBVIOUS
<1>1. /\ account = None /\ sessionRows = {} /\ serial = 0 /\ links = {}
      /\ page = [d \in Devices |-> At("register")] /\ busy = [d \in Devices |-> None]
      /\ confirmed = {} /\ spent = {} /\ overlap = FALSE /\ crossed = FALSE
  BY DEF AccountInit
<1>2. AccountTypeOK
  BY <1>1, ShowTyped DEF AccountTypeOK, Maybe
<1>3. \A d \in Devices : ~Running(d)
  BY <1>1 DEF Running
<1>4. NumbersAreOld /\ RowsFinite /\ LinksUnspent
  BY <1>1, <1>3, FS_EmptySet DEF NumbersAreOld, RowsFinite, LinksUnspent, Exists, Op
<1>5. LoginFits /\ OneCounts /\ RoomForLogin /\ EnableFits
  BY <1>3 DEF LoginFits, OneCounts, RoomForLogin, EnableFits, Has, LoginReady, Running
<1>6. PasswordChangeEndsSessions /\ SessionLimit /\ TwoFactorConfirmed
  BY <1>1, FS_EmptySet, AccountBounds DEF PasswordChangeEndsSessions, SessionLimit, TwoFactorConfirmed, Exists
<1> QED
  BY <1>2, <1>4, <1>5, <1>6 DEF AccountIndInv

\* For any number of devices, any limit and any number of things made: the
\* sessions stay within MAX_SESSIONS unless two log-ins counted at once, none
\* was begun with a password that has been replaced, and a second factor that
\* is on can be answered by its owner.
THEOREM AccountSafe == AccountSpec => []AccountInv
<1>1. AccountIndInv => AccountInv
  BY DEF AccountIndInv, AccountInv
<1>2. AccountIndInv /\ [AccountNext]_accountVars => AccountIndInv'
  BY AccountStep
<1> QED
  BY <1>1, <1>2, AccountInitially, PTL DEF AccountSpec

\* A reset link replaces the password once: the link a request carries is
\* spent only by another that replaced the password meanwhile, and that makes
\* the request late.
THEOREM LinkReplacesOnce == AccountSpec => ResetSpendsLink
<1>1. ASSUME AccountIndInv
      PROVE  [\A d \in Devices :
                (/\ busy[d] # None /\ busy[d].op = "reset" /\ ~busy[d].late
                 /\ account' # account /\ busy'[d] = None)
                  => busy[d].token \notin spent]_accountVars
  BY <1>1 DEF AccountIndInv, LinksUnspent, Op, Running
<1>2. AccountIndInv /\ [AccountNext]_accountVars => AccountIndInv'
  BY AccountStep
<1> QED
  BY <1>1, <1>2, AccountInitially, PTL DEF AccountSpec, ResetSpendsLink
=============================================================================
