------------------------------ MODULE Account ------------------------------
(***************************************************************************)
(* The account of one user: registration, e-mail verification, log-in and  *)
(* the sessions of all devices, password change and reset, two-factor      *)
(* authentication, deletion.  The server side is auth.service.ts behind    *)
(* auth.controller.ts; the devices run the pages of client/src/app/auth    *)
(* and the settings page.  Handlers that read, compute (bcrypt, one-time   *)
(* codes) and write outside a transaction are split at the write: `busy'   *)
(* holds what a request has read.  Refresh tokens are in BrowserSession.   *)
(***************************************************************************)
EXTENDS Naturals, FiniteSets

CONSTANTS Devices,      \* each with its own user agent
          None,         \* no account, nothing in progress
          MaxSessions,  \* MAX_SESSIONS (5)
          MaxSerials    \* bound: accounts, sessions, links, secrets and passwords made

ASSUME AccountBounds ==
  MaxSessions \in Nat \ {0} /\ MaxSerials \in Nat

Serials == 1 .. MaxSerials
Maybe(S) == S \cup {0}

VARIABLES
  account,   \* the User row, or None
  sessionRows, \* the Session rows: [id, agent, pw, late]
  serial,    \* the last number given to anything that is made
  links,     \* the links in the user's mailbox: verification and reset tokens
  page,      \* per device: the register wizard's step, or the page shown
  busy,      \* per device: the request being handled, with what it read
  confirmed, \* history: the 2FA secrets whose code was checked
  spent,     \* history: the reset links that replaced a password
  overlap,   \* history: two log-ins counted the sessions at the same time
  crossed    \* history: a 2FA setup ran while another 2FA request was handled

history == <<confirmed, spent, overlap, crossed>>
accountVars == <<account, sessionRows, serial, links, page, busy, history>>

Accounts ==
  [id : Serials, verified : BOOLEAN, verify : Maybe(Serials), password : Serials,
   reset : Maybe(Serials), secret : Maybe(Serials), twoFactor : BOOLEAN]
Sessions == [id : Serials, agent : Devices, pw : Serials, late : BOOLEAN]
Ops == \* `late': the password was replaced since the request read it or its link
  [op : {"login"}, user : Serials, pw : Serials, late : BOOLEAN, read : BOOLEAN,
   row : Maybe(Serials), evict : Maybe(Serials)]
    \cup [op : {"reset"}, user : Serials, token : Serials, late : BOOLEAN]
    \cup [op : {"change", "resend", "delete", "disable"}, user : Serials]
    \cup [op : {"enable"}, user : Serials, secret : Serials]
\* A null value is not a value.
ASSUME AccountNone == None \notin Devices \cup Accounts \cup Ops

\* The pages a device shows; "2fa" with the secret of the QR code on it.
Pages == [at : {"register", "login", "pending", "forgot"}, step : 0 .. 2, secret : {0}]
           \cup [at : {"settings"}, step : {0}, secret : Maybe(Serials)]

AccountTypeOK ==
  /\ account \in Accounts \cup {None}
  /\ sessionRows \in SUBSET Sessions
  /\ serial \in Maybe(Serials)
  /\ links \in SUBSET Serials
  /\ page \in [Devices -> Pages]
  /\ busy \in [Devices -> Ops \cup {None}]
  /\ confirmed \in SUBSET Serials /\ spent \in SUBSET Serials
  /\ overlap \in BOOLEAN /\ crossed \in BOOLEAN

At(p) == [at |-> p, step |-> 0, secret |-> 0]

AccountInit ==
  /\ account = None /\ sessionRows = {} /\ serial = 0 /\ links = {}
  /\ page = [d \in Devices |-> At("register")]
  /\ busy = [d \in Devices |-> None]
  /\ confirmed = {} /\ spent = {} /\ overlap = FALSE /\ crossed = FALSE

Fresh(n) == serial + n <= MaxSerials /\ serial' = serial + n
Exists == account # None
On(d, p) == page[d].at = p /\ busy[d] = None
Show(d, p) == page' = [page EXCEPT ![d] = At(p)]
Done(d) == busy' = [busy EXCEPT ![d] = None]
Begin(d, op) == busy' = [busy EXCEPT ![d] = op]

\* A request at its write, whose user is still there.
Has(d, ops) == busy[d] # None /\ busy[d].op \in ops /\ Exists /\ account.id = busy[d].user

\* A mail is sent after its token was stored; it may fail to leave.
Mail(token) == links' \in {links, links \cup {token}}

-----------------------------------------------------------------------------
(* Registration and verification.                                          *)

\* The wizard: handleNext validates the fields of the step, Back does not.
NextStep(d) ==
  /\ On(d, "register") /\ page[d].step < 2
  /\ page' = [page EXCEPT ![d].step = @ + 1]
  /\ UNCHANGED <<account, sessionRows, serial, links, busy, history>>
\* Mutant of StepBack: Back is offered on the first step.
StepBackFreely(d) ==
  /\ On(d, "register")
  /\ page' = [page EXCEPT ![d].step = @ - 1]
  /\ UNCHANGED <<account, sessionRows, serial, links, busy, history>>
StepBack(d) ==
  /\ On(d, "register") /\ page[d].step > 0
  /\ page' = [page EXCEPT ![d].step = @ - 1]
  /\ UNCHANGED <<account, sessionRows, serial, links, busy, history>>

\* register: in one transaction the user is created, the verification mail is
\* sent (its failure undoes everything) and a session is issued whose cookie
\* nobody gets.
Register(d) ==
  /\ On(d, "register") /\ page[d].step = 2
  /\ account = None
  /\ Fresh(4)
  /\ account' = [id |-> serial + 4, verified |-> FALSE, verify |-> serial + 1, password |-> serial + 2,
                 reset |-> 0, secret |-> 0, twoFactor |-> FALSE]
  /\ links' = links \cup {serial + 1}
  /\ sessionRows' = {[id |-> serial + 3, agent |-> d, pw |-> serial + 2, late |-> FALSE]}
  /\ Show(d, "pending")
  /\ UNCHANGED <<busy, history>>

\* The e-mail address or nickname is taken, or the mail cannot be sent: an
\* error, and back to the first step.
RegisterFails(d) ==
  /\ On(d, "register") /\ page[d].step = 2
  /\ page' = [page EXCEPT ![d].step = 0]
  /\ UNCHANGED <<account, sessionRows, serial, links, busy, history>>

\* The link of a verification mail; redirects to the login page or, when the
\* token is no longer the stored one, to verify-pending.
VerifyEmail(d) ==
  /\ busy[d] = None
  /\ \E token \in links :
       IF Exists /\ account.verify = token
         THEN /\ account' = [account EXCEPT !.verified = TRUE, !.verify = 0]
              /\ Show(d, "login")
         ELSE /\ Show(d, "pending")
              /\ UNCHANGED account
  /\ UNCHANGED <<sessionRows, serial, links, busy, history>>

\* resendVerificationEmail: for an unverified account a new token replaces the
\* one in earlier mails.
ResendFind(d) ==
  /\ On(d, "pending")
  /\ Exists /\ ~account.verified
  /\ Begin(d, [op |-> "resend", user |-> account.id])
  /\ UNCHANGED <<account, sessionRows, serial, links, page, history>>
ResendWrite(d) ==
  /\ Has(d, {"resend"}) /\ Fresh(1)
  /\ account' = [account EXCEPT !.verify = serial + 1]
  /\ Mail(serial + 1)
  /\ Done(d)
  /\ UNCHANGED <<sessionRows, page, history>>

\* Links between the pages.
GoTo(d) ==
  /\ busy[d] = None /\ page[d].at # "settings"
  /\ \E p \in {"register", "login", "pending", "forgot"} : Show(d, p)
  /\ UNCHANGED <<account, sessionRows, serial, links, busy, history>>

-----------------------------------------------------------------------------
(* Log-in and sessions.                                                    *)

\* login: the password is compared and the e-mail must be verified; a failure
\* only shows an error.
LoginCompare(d) ==
  /\ On(d, "login")
  /\ Exists /\ account.verified
  /\ Begin(d, [op |-> "login", user |-> account.id, pw |-> account.password, late |-> FALSE,
               read |-> FALSE, row |-> 0, evict |-> 0])
  /\ UNCHANGED <<account, sessionRows, serial, links, page, history>>

Oldest == CHOOSE s \in sessionRows : \A o \in sessionRows : s.id <= o.id
Same(d) == {s \in sessionRows : s.agent = d}

\* Mutant of LoginRead: the oldest session is never evicted.
LoginReadKeep(d) ==
  /\ busy[d] # None /\ busy[d].op = "login" /\ ~busy[d].read
  /\ busy' = [busy EXCEPT ![d].read = TRUE]
  /\ overlap' = (overlap \/ \E e \in Devices \ {d} :
       busy[e] # None /\ busy[e].op = "login" /\ busy[e].read)
  /\ UNCHANGED <<account, sessionRows, serial, links, page, confirmed, spent, crossed>>

\* issueTokens, its reads: the session of this user agent is rotated; without
\* one, the oldest session makes room when the limit is reached.
LoginRead(d) ==
  /\ busy[d] # None /\ busy[d].op = "login" /\ ~busy[d].read
  /\ \/ \E s \in Same(d) :
          busy' = [busy EXCEPT ![d].read = TRUE, ![d].row = s.id]
     \/ /\ Same(d) = {}
        /\ busy' = [busy EXCEPT ![d].read = TRUE,
             ![d].evict = IF Cardinality(sessionRows) >= MaxSessions THEN Oldest.id ELSE 0]
  /\ overlap' = (overlap \/ \E e \in Devices \ {d} :
       busy[e] # None /\ busy[e].op = "login" /\ busy[e].read)
  /\ UNCHANGED <<account, sessionRows, serial, links, page, confirmed, spent, crossed>>

Row(i) == {s \in sessionRows : s.id = i}
LoginReady(d) == busy[d] # None /\ busy[d].op = "login" /\ busy[d].read

\* issueTokens, its writes: a session is rotated or created.
LoginWrite(d) ==
  /\ LoginReady(d) /\ Has(d, {"login"})
  /\ LET session(i) == [id |-> i, agent |-> d, pw |-> busy[d].pw, late |-> busy[d].late]
     IN \/ /\ Row(busy[d].row) # {}
           /\ sessionRows' = (sessionRows \ Row(busy[d].row)) \cup {session(busy[d].row)}
           /\ UNCHANGED serial
        \/ /\ busy[d].row = 0
           /\ busy[d].evict # 0 => Row(busy[d].evict) # {}
           /\ Fresh(1)
           /\ sessionRows' = (sessionRows \ Row(busy[d].evict)) \cup {session(serial + 1)}
  /\ Show(d, "settings")
  /\ Done(d)
  /\ UNCHANGED <<account, links, history>>

\* A write fails when the row it is about, or the user, is gone.
LoginFails(d) ==
  /\ LoginReady(d)
  /\ \/ ~Has(d, {"login"})
     \/ \E i \in {busy[d].row, busy[d].evict} \ {0} : Row(i) = {}
  /\ Done(d)
  /\ UNCHANGED <<account, sessionRows, serial, links, page, history>>

\* The list of devices: all but the session created last can be terminated.
TerminateSession(d) ==
  /\ On(d, "settings")
  /\ \E s, newest \in sessionRows : s.id < newest.id /\ sessionRows' = sessionRows \ {s}
  /\ UNCHANGED <<account, serial, links, page, busy, history>>
LogoutAllDevices(d) ==
  /\ On(d, "settings")
  /\ sessionRows' = {}
  /\ Show(d, "login")
  /\ UNCHANGED <<account, serial, links, busy, history>>

\* A device whose session is over is refused its next refresh.
SessionOver(d) ==
  /\ On(d, "settings") /\ Same(d) = {}
  /\ Show(d, "login")
  /\ UNCHANGED <<account, sessionRows, serial, links, busy, history>>

-----------------------------------------------------------------------------
(* Passwords.                                                              *)

\* forgotPassword: a new token replaces the one in earlier mails.
ForgotPassword(d) ==
  /\ On(d, "forgot")
  /\ Exists /\ account.verified
  /\ Fresh(1)
  /\ account' = [account EXCEPT !.reset = serial + 1]
  /\ Mail(serial + 1)
  /\ UNCHANGED <<sessionRows, page, busy, history>>

\* resetPassword, its read: the link's token is stored and less than an hour old.
ResetFind(d) ==
  /\ busy[d] = None /\ Exists
  /\ account.reset \in links
  /\ Begin(d, [op |-> "reset", user |-> account.id, token |-> account.reset, late |-> FALSE])
  /\ UNCHANGED <<account, sessionRows, serial, links, page, history>>

\* changePassword, its read: the current password is compared.
ChangeCompare(d) ==
  /\ On(d, "settings") /\ Exists
  /\ Begin(d, [op |-> "change", user |-> account.id])
  /\ UNCHANGED <<account, sessionRows, serial, links, page, history>>

\* Log-ins that compared the old password, and requests that found its link.
MarkLate(d) ==
  busy' = [e \in Devices |->
    IF e = d THEN None
    ELSE IF busy[e] # None /\ busy[e].op \in {"login", "reset"}
      THEN [busy[e] EXCEPT !.late = TRUE]
    ELSE busy[e]]
Spend(d) ==
  spent' = IF busy[d].op = "reset" THEN spent \cup {busy[d].token} ELSE spent

\* Mutants of SetPassword: the sessions stay; the link stays valid.
SetPasswordOnly(d) ==
  /\ Has(d, {"reset", "change"}) /\ Fresh(1)
  /\ account' = [account EXCEPT !.password = serial + 1,
                                !.reset = IF busy[d].op = "reset" THEN 0 ELSE @]
  /\ MarkLate(d) /\ Spend(d)
  /\ UNCHANGED <<sessionRows, links, page, confirmed, overlap, crossed>>
SetPasswordKeepLink(d) ==
  /\ Has(d, {"reset", "change"}) /\ Fresh(1)
  /\ account' = [account EXCEPT !.password = serial + 1]
  /\ sessionRows' = {}
  /\ MarkLate(d) /\ Spend(d)
  /\ UNCHANGED <<links, page, confirmed, overlap, crossed>>

\* resetPassword and changePassword, their transaction: the new password and
\* the end of all sessions, and a reset also removes the stored token.
SetPassword(d) ==
  /\ Has(d, {"reset", "change"}) /\ Fresh(1)
  /\ account' = [account EXCEPT !.password = serial + 1,
                                !.reset = IF busy[d].op = "reset" THEN 0 ELSE @]
  /\ sessionRows' = {}
  /\ MarkLate(d) /\ Spend(d)
  /\ UNCHANGED <<links, page, confirmed, overlap, crossed>>

-----------------------------------------------------------------------------
(* Two-factor authentication and deletion.                                 *)

Crosses(d) == \E e \in Devices \ {d} : busy[e] # None /\ busy[e].op = "enable"

\* setup2FA stores a new secret and turns 2FA off; the page offers it when it
\* does not show 2FA as enabled, as it was when the page was loaded.
Setup2FA(d) ==
  /\ On(d, "settings") /\ Exists /\ Fresh(1)
  /\ account' = [account EXCEPT !.secret = serial + 1, !.twoFactor = FALSE]
  /\ page' = [page EXCEPT ![d].secret = serial + 1]
  /\ crossed' = (crossed \/ Crosses(d))
  /\ UNCHANGED <<sessionRows, links, busy, confirmed, spent, overlap>>

\* Mutant of EnableCheck: the code is not checked against the stored secret.
EnableUnchecked(d) ==
  /\ On(d, "settings") /\ Exists
  /\ page[d].secret # 0 /\ account.secret # 0
  /\ Begin(d, [op |-> "enable", user |-> account.id, secret |-> page[d].secret])
  /\ UNCHANGED <<account, sessionRows, serial, links, page, history>>

\* enable2FA, its read and check: the code of the QR code on this page matches
\* the stored secret.
EnableCheck(d) ==
  /\ On(d, "settings") /\ Exists
  /\ page[d].secret # 0 /\ page[d].secret = account.secret
  /\ Begin(d, [op |-> "enable", user |-> account.id, secret |-> page[d].secret])
  /\ UNCHANGED <<account, sessionRows, serial, links, page, history>>
EnableWrite(d) ==
  /\ Has(d, {"enable"})
  /\ account' = [account EXCEPT !.twoFactor = TRUE]
  /\ confirmed' = confirmed \cup {busy[d].secret}
  /\ page' = [page EXCEPT ![d].secret = 0]
  /\ Done(d)
  /\ UNCHANGED <<sessionRows, serial, links, spent, overlap, crossed>>

\* disable2FA, its read and checks: the password and, if 2FA is on, a code; the
\* user's authenticator has the secrets that were confirmed.
HasCode == account.twoFactor => account.secret \in confirmed
DisableCheck(d) ==
  /\ On(d, "settings") /\ Exists /\ HasCode
  /\ Begin(d, [op |-> "disable", user |-> account.id])
  /\ UNCHANGED <<account, sessionRows, serial, links, page, history>>
DisableWrite(d) ==
  /\ Has(d, {"disable"})
  /\ account' = [account EXCEPT !.twoFactor = FALSE, !.secret = 0]
  /\ crossed' = (crossed \/ Crosses(d))
  /\ Done(d)
  /\ UNCHANGED <<sessionRows, serial, links, page, confirmed, spent, overlap>>

\* deleteAccount: the password, and a code if 2FA is on; the user's sessions go
\* with the row.
DeleteCheck(d) ==
  /\ On(d, "settings") /\ Exists /\ HasCode
  /\ Begin(d, [op |-> "delete", user |-> account.id])
  /\ UNCHANGED <<account, sessionRows, serial, links, page, history>>
DeleteWrite(d) ==
  /\ Has(d, {"delete"})
  /\ account' = None /\ sessionRows' = {}
  /\ Show(d, "register")
  /\ Done(d)
  /\ UNCHANGED <<serial, links, history>>

\* Any other request whose user has been deleted meanwhile fails.
UserGone(d) ==
  /\ busy[d] # None /\ ~Has(d, {"login", busy[d].op})
  /\ busy[d].op # "login"
  /\ Done(d)
  /\ UNCHANGED <<account, sessionRows, serial, links, page, history>>

AccountNext ==
  \E d \in Devices :
    \/ NextStep(d) \/ StepBack(d) \/ Register(d) \/ RegisterFails(d)
    \/ VerifyEmail(d) \/ ResendFind(d) \/ ResendWrite(d) \/ GoTo(d)
    \/ LoginCompare(d) \/ LoginRead(d) \/ LoginWrite(d) \/ LoginFails(d)
    \/ TerminateSession(d) \/ LogoutAllDevices(d) \/ SessionOver(d)
    \/ ForgotPassword(d) \/ ResetFind(d) \/ ChangeCompare(d) \/ SetPassword(d)
    \/ Setup2FA(d) \/ EnableCheck(d) \/ EnableWrite(d)
    \/ DisableCheck(d) \/ DisableWrite(d)
    \/ DeleteCheck(d) \/ DeleteWrite(d) \/ UserGone(d)

AccountSpec == AccountInit /\ [][AccountNext]_accountVars

-----------------------------------------------------------------------------
\* At most MAX_SESSIONS sessions, unless two log-ins counted them at once: the
\* count, the eviction and the creation are separate statements.
SessionLimit == ~overlap => Cardinality(sessionRows) <= MaxSessions

\* A new or reset password ends every session ("Інвалідуємо всі сесії"): one
\* begun with an earlier password belongs to a log-in that was between its
\* comparison and its last write at that moment.
PasswordChangeEndsSessions ==
  \A s \in sessionRows : s.pw = account.password \/ s.late

\* 2FA is only ever on with a secret whose code the user has entered, so that
\* the account can still be deleted and 2FA turned off, unless a setup ran
\* while a code was being checked.
TwoFactorConfirmed ==
  (Exists /\ account.twoFactor /\ ~crossed) => account.secret \in confirmed

\* The account's rows agree under interleaved requests: the session limit, no
\* session of an earlier password, and a second factor its owner can answer.
AccountInv == AccountTypeOK /\ SessionLimit /\ PasswordChangeEndsSessions /\ TwoFactorConfirmed

\* A reset link replaces the password once, however many newer links were asked
\* for meanwhile; excepted is a request that had found the link before another
\* replaced the password.
ResetSpendsLink ==
  [][\A d \in Devices :
       (/\ busy[d] # None /\ busy[d].op = "reset" /\ ~busy[d].late
        /\ account' # account /\ busy'[d] = None)
         => busy[d].token \notin spent]_accountVars
=============================================================================
