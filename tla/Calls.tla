------------------------------- MODULE Calls -------------------------------
(***************************************************************************)
(* Audio and video calls: useWebRTC.ts in every open chat tab, the call    *)
(* handlers of chat.gateway.ts, and the socket between them.  The server   *)
(* sends to a user's room, so every tab of the user hears every event.     *)
(* Media, candidates, muting and screen sharing carry no control and are   *)
(* left out; what the browser reports of the connection is IceConnected    *)
(* and IceLost.  Timers have no duration.                                  *)
(***************************************************************************)
EXTENDS Naturals, Sequences, SequencesExt

CONSTANTS Tabs,     \* chat pages, each with its socket
          Users,
          Owner,    \* Owner[t]: the user whose tab t is
          MaxCalls, \* bound: calls ever started
          Fragile   \* bound: the tabs that lose their socket or leave the chat, once

ASSUME CallsOwner == Owner \in [Tabs -> Users] /\ MaxCalls \in Nat /\ Fragile \subseteq Tabs

Calls == 1 .. MaxCalls
Maybe(S) == S \cup {0}

VARIABLES
  page,      \* per tab: callStateRef, the refs of useWebRTC and its timers
  up, down,  \* per tab: what its socket has not yet carried to and from the server
  online,    \* the tabs whose socket is connected
  started,   \* per call: [from, to], the users; the calls ever started
  active,    \* the calls in activeCalls
  naming,    \* the calls whose callUser is reading the caller's name
  drops,     \* the tabs that lost their socket or left the chat
  astray,    \* history: tabs where a late answer or timer hit another call
  excused    \* history: calls some page of which may not hear of their end

callVars == <<page, up, down, online, started, active, naming, drops, astray, excused>>
net == <<up, down, online, drops>>
server == <<active, naming>>

Statuses == {"idle", "calling", "incoming", "connecting", "active", "ended", "away"}
Rings == [at : {"calling", "incoming"}, call : Calls]
Asks == [for : {"start", "accept"}, call : Calls]
NoRing == [at |-> "none", call |-> 0]
NoPC == [call |-> 0, caller |-> FALSE, ready |-> FALSE]

Pages ==
  [status : Statuses, call : Maybe(Calls),
   asks : SUBSET Asks,           \* getUserMedia not yet answered
   stream : Maybe(Calls),        \* localStreamRef
   live : SUBSET Calls,          \* streams whose microphone is on
   pc : [call : Maybe(Calls), caller : BOOLEAN, ready : BOOLEAN],
   rings : SUBSET Rings,         \* 45 s timers not yet fired
   ring : Rings \cup {NoRing},   \* ringTimeoutRef
   idles : Nat]                  \* timers back to `idle' not yet fired

Messages == [m : {"call", "accept", "reject", "end", "busy", "offer", "answer"}, call : Calls]

Fresh ==
  [status |-> "idle", call |-> 0, asks |-> {}, stream |-> 0, live |-> {}, pc |-> NoPC,
   rings |-> {}, ring |-> NoRing, idles |-> 0]

CallsTypeOK ==
  /\ page \in [Tabs -> Pages]
  /\ up \in [Tabs -> Seq(Messages)] /\ down \in [Tabs -> Seq(Messages)]
  /\ online \in SUBSET Tabs
  /\ started \in Seq([from : Users, to : Users]) /\ Len(started) <= MaxCalls
  /\ active \in SUBSET Calls /\ naming \in SUBSET Calls
  /\ drops \in SUBSET Fragile
  /\ astray \in SUBSET Tabs /\ excused \in SUBSET Calls

CallsInit ==
  /\ page = [t \in Tabs |-> Fresh]
  /\ up = [t \in Tabs |-> <<>>] /\ down = [t \in Tabs |-> <<>>]
  /\ online = Tabs
  /\ started = <<>> /\ active = {} /\ naming = {}
  /\ drops = {} /\ astray = {} /\ excused = {}

Msg(m, c) == [m |-> m, call |-> c]
Emit(t, m, c) == up' = [up EXCEPT ![t] = Append(@, Msg(m, c))]
ToUser(u, m, c, queues) ==
  [t \in Tabs |-> IF t \in online /\ Owner[t] = u THEN Append(queues[t], Msg(m, c)) ELSE queues[t]]

From(c) == started[c].from
To(c) == started[c].to
Remote(t, c) == IF Owner[t] = From(c) THEN To(c) ELSE From(c)
ManyTabs(u) == \E t, o \in Tabs : t # o /\ Owner[t] = u /\ Owner[o] = u

\* Mutant of Cleaned: the microphone is left on.
CleanedSilently(p) ==
  [p EXCEPT !.stream = 0, !.pc = NoPC, !.rings = @ \ {p.ring}, !.ring = NoRing]

\* cleanup: the microphone and the connection are closed, the ring timer stopped.
Cleaned(p) ==
  [p EXCEPT !.live = @ \ {p.stream}, !.stream = 0, !.pc = NoPC,
            !.rings = @ \ {p.ring}, !.ring = NoRing]

Idle(p) == [p EXCEPT !.status = "idle", !.call = 0]

\* Mutant of Ended: the reason is stored as the status.
EndedReason(p) == [p EXCEPT !.status = "no-answer", !.call = 0, !.idles = @ + 1]
Ended(p) == [p EXCEPT !.status = "ended", !.call = 0, !.idles = @ + 1]

-----------------------------------------------------------------------------
(* The user's own steps.                                                   *)

\* startCall, up to getMedia.  (Bound: the button is not pressed again while
\* the browser asks.)
StartCall(t) ==
  /\ page[t].status = "idle" /\ page[t].asks = {}
  /\ Len(started) < MaxCalls
  /\ \E u \in Users \ {Owner[t]} : started' = Append(started, [from |-> Owner[t], to |-> u])
  /\ page' = [page EXCEPT ![t].asks = @ \cup {[for |-> "start", call |-> Len(started) + 1]}]
  /\ UNCHANGED <<net, server, astray, excused>>

\* startCall after getMedia: the call is announced whatever happened meanwhile.
StartGranted(t) ==
  \E a \in page[t].asks :
    /\ a.for = "start"
    /\ LET ring == [at |-> "calling", call |-> a.call]
           p == [page[t] EXCEPT !.asks = @ \ {a},
                   !.stream = a.call, !.live = @ \cup {a.call},
                   !.status = IF @ = "away" THEN @ ELSE "calling",
                   !.call = IF page[t].status = "away" THEN 0 ELSE a.call,
                   !.rings = @ \cup {ring}, !.ring = ring]
       IN page' = [page EXCEPT ![t] = p]
    /\ Emit(t, "call", a.call)
    /\ astray' = astray \cup {o \in {t} : page[t].status # "idle"}
    /\ excused' = excused \cup {c \in Calls : page[t].status # "idle" /\ c \in {a.call, page[t].call}}
    /\ UNCHANGED <<down, online, started, server, drops>>

\* startCall's catch.
StartDenied(t) ==
  \E a \in page[t].asks :
    /\ a.for = "start"
    /\ LET p == Cleaned([page[t] EXCEPT !.asks = @ \ {a}])
       IN page' = [page EXCEPT ![t] = IF p.status = "away" THEN p ELSE Idle(p)]
    /\ astray' = astray \cup {o \in {t} : page[t].status # "idle"}
    /\ excused' = excused \cup {c \in Calls : c = page[t].call}
    /\ UNCHANGED <<net, started, server>>

\* acceptCall, up to getMedia.
AcceptCall(t) ==
  /\ page[t].status = "incoming"
  /\ [for |-> "accept", call |-> page[t].call] \notin page[t].asks
  /\ LET p == [page[t] EXCEPT !.asks = @ \cup {[for |-> "accept", call |-> page[t].call]},
                              !.rings = @ \ {page[t].ring}, !.ring = NoRing]
     IN page' = [page EXCEPT ![t] = p]
  /\ UNCHANGED <<net, started, server, astray, excused>>

\* Still on the dialog the user pressed.
StillRinging(t, a) == page[t].status = "incoming" /\ page[t].call = a.call

\* acceptCall after getMedia: the call is accepted whatever happened meanwhile.
AcceptGranted(t) ==
  \E a \in page[t].asks :
    /\ a.for = "accept"
    /\ LET p == [page[t] EXCEPT !.asks = @ \ {a},
                   !.stream = a.call, !.live = @ \cup {a.call},
                   !.status = IF @ = "away" THEN @ ELSE "connecting",
                   !.call = IF page[t].status = "away" THEN 0 ELSE a.call]
       IN page' = [page EXCEPT ![t] = p]
    /\ Emit(t, "accept", a.call)
    /\ astray' = astray \cup {o \in {t} : ~StillRinging(t, a)}
    /\ excused' = excused \cup {c \in Calls : ~StillRinging(t, a) /\ c \in {a.call, page[t].call}}
    /\ UNCHANGED <<down, online, started, server, drops>>

\* rejectCall: the dialog's button, and acceptCall's catch, which rejects the
\* call shown by then, if any.
Rejected(t, p) == page' = [page EXCEPT ![t] = Idle(Cleaned(p))] /\ Emit(t, "reject", p.call)
RejectCall(t) ==
  /\ page[t].status = "incoming"
  /\ Rejected(t, page[t])
  /\ UNCHANGED <<down, online, started, server, drops, astray, excused>>
AcceptDenied(t) ==
  \E a \in page[t].asks :
    /\ a.for = "accept"
    /\ LET p == [page[t] EXCEPT !.asks = @ \ {a}]
       IN IF p.status = "incoming"
            THEN Rejected(t, p)
            ELSE page' = [page EXCEPT ![t] = p] /\ UNCHANGED up
    /\ UNCHANGED <<down, online, started, server, drops, astray, excused>>

\* endCall, from the overlay of a call shown.  (Bound: not pressed once the call
\* has ended, where it would only set one more timer.)
EndCall(t) ==
  /\ page[t].status \in {"calling", "connecting", "active"}
  /\ Emit(t, "end", page[t].call)
  /\ page' = [page EXCEPT ![t] = Ended(Cleaned(page[t]))]
  /\ UNCHANGED <<down, online, started, server, drops, astray, excused>>

-----------------------------------------------------------------------------
(* Timers of a tab.                                                        *)

\* Mutant of RingTimeout: only the caller gives up.
RingTimeoutCaller(t) ==
  \E r \in page[t].rings :
    LET p == [page[t] EXCEPT !.rings = @ \ {r}] IN
    IF r.at # "calling" \/ p.status # "calling"
      THEN /\ page' = [page EXCEPT ![t] = p]
           /\ UNCHANGED <<net, started, server, astray, excused>>
      ELSE /\ page' = [page EXCEPT ![t] = Ended(Cleaned(p))]
           /\ Emit(t, "end", r.call)
           /\ UNCHANGED <<down, online, started, server, drops, astray, excused>>

\* The 45 s timers of startCall and onIncomingCall look only at the status.
RingTimeout(t) ==
  \E r \in page[t].rings :
    LET p == [page[t] EXCEPT !.rings = @ \ {r}] IN
    IF p.status # r.at
      THEN /\ page' = [page EXCEPT ![t] = p]
           /\ UNCHANGED <<net, started, server, astray, excused>>
      ELSE /\ page' = [page EXCEPT ![t] =
                IF r.at = "calling" THEN Ended(Cleaned(p)) ELSE Idle(Cleaned(p))]
           /\ Emit(t, IF r.at = "calling" THEN "end" ELSE "reject", r.call)
           /\ excused' = excused \cup {c \in Calls : c = p.call /\ c # r.call}
           /\ UNCHANGED <<down, online, started, server, drops, astray>>

\* The timers that end the display of an ended call set `idle' in any status.
IdleTimer(t) ==
  /\ page[t].idles > 0
  /\ LET p == [page[t] EXCEPT !.idles = @ - 1]
     IN page' = [page EXCEPT ![t] = IF p.status = "away" THEN p ELSE Idle(p)]
  /\ astray' = astray \cup {o \in {t} : page[t].status \notin {"ended", "idle", "away"}}
  /\ excused' = excused \cup {c \in Calls : c = page[t].call}
  /\ UNCHANGED <<net, started, server>>

-----------------------------------------------------------------------------
(* What a tab does with an event of the server.                            *)

Head1(t) == Head(down[t])
Take(t, m) == down[t] # <<>> /\ Head1(t).m = m /\ down' = [down EXCEPT ![t] = Tail(@)]
Listening(t) == page[t].status # "away"

\* onIncomingCall.
OnIncomingCall(t) ==
  LET c == Head1(t).call
      ring == [at |-> "incoming", call |-> c]
      p == [page[t] EXCEPT !.status = "incoming", !.call = c, !.rings = @ \cup {ring}, !.ring = ring]
  IN /\ Take(t, "call") /\ Listening(t)
     /\ IF page[t].status # "idle"
          THEN Emit(t, "busy", c) /\ UNCHANGED page
          ELSE page' = [page EXCEPT ![t] = p] /\ UNCHANGED up
     /\ UNCHANGED <<online, started, server, drops, astray, excused>>

\* onCallAccepted: whichever call is being called, its offer is for this one.
OnCallAccepted(t) ==
  LET c == Head1(t).call
      p == [page[t] EXCEPT !.status = "connecting", !.rings = @ \ {page[t].ring}, !.ring = NoRing,
                           !.pc = [call |-> c, caller |-> TRUE, ready |-> FALSE]]
  IN
  /\ Take(t, "accept")
  /\ IF page[t].status # "calling"
       THEN UNCHANGED <<page, up>>
       ELSE page' = [page EXCEPT ![t] = p] /\ Emit(t, "offer", c)
  /\ UNCHANGED <<online, started, server, drops, astray, excused>>

\* onSdpOffer: also in a tab that still rings for the call.
OnSdpOffer(t) ==
  LET c == Head1(t).call IN
  /\ Take(t, "offer")
  /\ IF page[t].status \notin {"connecting", "incoming"}
       THEN UNCHANGED <<page, up>>
       ELSE /\ page' = [page EXCEPT ![t].pc = [call |-> c, caller |-> FALSE, ready |-> TRUE]]
            /\ Emit(t, "answer", c)
  /\ UNCHANGED <<online, started, server, drops, astray, excused>>

\* onSdpAnswer: a connection that expects no answer refuses it.
OnSdpAnswer(t) ==
  /\ Take(t, "answer")
  /\ page' = [page EXCEPT ![t].pc.ready = @ \/ page[t].pc.caller]
  /\ UNCHANGED <<up, online, started, server, drops, astray, excused>>

\* onCallRejected, onCallEnded, onCallBusy: whatever call they are about.
OnCallOver(t) ==
  /\ \E m \in {"reject", "end", "busy"} : Take(t, m)
  /\ Listening(t)
  /\ page' = [page EXCEPT ![t] = Ended(Cleaned(page[t]))]
  /\ excused' = excused \cup {c \in Calls : c = page[t].call /\ c # Head1(t).call}
  /\ UNCHANGED <<up, online, started, server, drops, astray>>

\* Without the chat page nobody listens.
Unheard(t) ==
  /\ ~Listening(t) /\ \E m \in {"call", "reject", "end", "busy"} : Take(t, m)
  /\ UNCHANGED <<page, up, online, started, server, drops, astray, excused>>

\* oniceconnectionstatechange.
IceConnected(t) ==
  /\ page[t].status = "connecting" /\ page[t].pc.ready
  /\ \E o \in Tabs \ {t} : page[o].pc.call = page[t].pc.call /\ page[o].pc.ready
  /\ page' = [page EXCEPT ![t].status = "active"]
  /\ UNCHANGED <<net, started, server, astray, excused>>
IceLost(t) ==
  /\ page[t].status \in {"connecting", "active"} /\ page[t].pc.ready
  /\ page' = [page EXCEPT ![t] = Ended(Cleaned(page[t]))]
  /\ UNCHANGED <<net, started, server, astray, excused>>

-----------------------------------------------------------------------------
(* The server.                                                             *)

Sent(t, m) == t \in online /\ up[t] # <<>> /\ Head(up[t]).m = m /\ up' = [up EXCEPT ![t] = Tail(@)]
Asked(t) == Head(up[t]).call

\* handleCallUser, up to the read of the caller's name; or the user made too many
\* calls in the last minute, and the server drops this one: it never becomes
\* active, no page listens to the notice, and the caller's goes on calling.
HandleCallUser(t) ==
  /\ Sent(t, "call")
  /\ \/ /\ active' = active \cup {Asked(t)}
        /\ naming' = naming \cup {Asked(t)}
        /\ UNCHANGED excused
     \/ excused' = excused \cup {Asked(t)} /\ UNCHANGED server
  /\ UNCHANGED <<page, down, online, started, drops, astray>>

\* handleCallUser after the read: the callee's tabs ring, even for a call
\* that is over.
NameRead(c) ==
  /\ c \in naming
  /\ naming' = naming \ {c}
  /\ down' = ToUser(To(c), "call", c, down)
  /\ excused' = excused \cup ({c} \ active)
  /\ UNCHANGED <<page, up, online, started, active, drops, astray>>

\* handleCallAccept.
HandleCallAccept(t) ==
  /\ Sent(t, "accept")
  /\ down' = IF Asked(t) \in active THEN ToUser(From(Asked(t)), "accept", Asked(t), down) ELSE down
  /\ UNCHANGED <<page, online, started, server, drops, astray, excused>>

\* handleCallReject and handleCallBusy: only the caller is told; the other
\* tabs of the callee are not.
HandleCallRefused(t, m) ==
  LET c == Asked(t) IN
  /\ m \in {"reject", "busy"} /\ Sent(t, m)
  /\ down' = IF c \in active THEN ToUser(From(c), m, c, down) ELSE down
  /\ active' = active \ {c}
  /\ excused' = excused \cup {x \in {c} : ManyTabs(To(x))}
  /\ UNCHANGED <<page, online, started, naming, drops, astray>>

\* Mutant of HandleCallEnd: the caller is told, whoever ended the call.
HandleCallEndToCaller(t) ==
  LET c == Asked(t) IN
  /\ Sent(t, "end")
  /\ down' = IF c \in active THEN ToUser(From(c), "end", c, down) ELSE down
  /\ active' = active \ {c}
  /\ excused' = excused \cup {x \in {c} : ManyTabs(Owner[t])}
  /\ UNCHANGED <<page, online, started, naming, drops, astray>>

\* handleCallEnd: the other user is told; other tabs of this user are not.
HandleCallEnd(t) ==
  LET c == Asked(t) IN
  /\ Sent(t, "end")
  /\ down' = IF c \in active THEN ToUser(Remote(t, c), "end", c, down) ELSE down
  /\ active' = active \ {c}
  /\ excused' = excused \cup {x \in {c} : ManyTabs(Owner[t])}
  /\ UNCHANGED <<page, online, started, naming, drops, astray>>

\* handleSdpOffer and handleSdpAnswer: to the other user.
HandleSdp(t, m) ==
  LET c == Asked(t) IN
  /\ m \in {"offer", "answer"} /\ Sent(t, m)
  /\ down' = IF c \in active THEN ToUser(Remote(t, c), m, c, down) ELSE down
  /\ UNCHANGED <<page, online, started, server, drops, astray, excused>>

-----------------------------------------------------------------------------
(* Sockets and pages.                                                      *)

Mine(t) == {c \in DOMAIN started : Owner[t] \in {From(c), To(c)}}

\* handleDisconnect: any socket of a user ends all calls of that user.
Hung(t, o) == {Msg("end", c) : c \in {x \in active \cap Mine(t) : Remote(t, x) = Owner[o]}}
Disconnected(t) ==
  /\ online' = online \ {t}
  /\ down' = [o \in Tabs |-> IF o = t THEN <<>>
                             ELSE IF o \in online THEN down[o] \o SetToSeq(Hung(t, o)) ELSE down[o]]
  /\ active' = active \ Mine(t)
  /\ drops' = drops \cup {t}
  /\ excused' = excused \cup Mine(t)

\* The socket is lost, with what it carried; later emits wait for the next one.
SocketLost(t) ==
  /\ t \in online /\ t \in Fragile \ drops
  /\ Disconnected(t)
  /\ up' = [up EXCEPT ![t] = <<>>]
  /\ UNCHANGED <<page, started, naming, astray>>
Reconnect(t) ==
  /\ t \notin online
  /\ online' = online \cup {t}
  /\ UNCHANGED <<page, up, down, started, server, drops, astray, excused>>

\* The user leaves the chat page for another one: the hook is unmounted, the
\* socket stays; and comes back to a new chat page.
LeaveChat(t) ==
  /\ Listening(t) /\ t \in Fragile \ drops
  /\ page' = [page EXCEPT ![t] = [Cleaned(page[t]) EXCEPT !.status = "away", !.call = 0]]
  /\ drops' = drops \cup {t}
  /\ excused' = excused \cup Mine(t)
  /\ UNCHANGED <<up, down, online, started, server, astray>>
OpenChat(t) ==
  /\ ~Listening(t) /\ page[t].asks = {} /\ page[t].live = {}
  /\ page' = [page EXCEPT ![t] = Fresh]
  /\ UNCHANGED <<net, started, server, astray, excused>>

\* A tab's next step waits for the server to take what it sent: since events
\* to the tab may be delayed in `down' at will, this loses no order of the
\* server's steps.
Settled(t) == t \in online => up[t] = <<>>

Tab(t) ==
  \/ StartCall(t) \/ StartGranted(t) \/ StartDenied(t)
  \/ AcceptCall(t) \/ AcceptGranted(t) \/ AcceptDenied(t) \/ RejectCall(t) \/ EndCall(t)
  \/ RingTimeout(t) \/ IdleTimer(t)
  \/ OnIncomingCall(t) \/ OnCallAccepted(t) \/ OnSdpOffer(t) \/ OnSdpAnswer(t)
  \/ OnCallOver(t) \/ Unheard(t) \/ IceConnected(t) \/ IceLost(t)
  \/ LeaveChat(t) \/ OpenChat(t)
Serve(t) ==
  \/ HandleCallUser(t) \/ HandleCallAccept(t) \/ HandleCallEnd(t)
  \/ \E m \in {"reject", "busy"} : HandleCallRefused(t, m)
  \/ \E m \in {"offer", "answer"} : HandleSdp(t, m)

CallsNext ==
  \/ \E t \in Tabs : Settled(t) /\ Tab(t)
  \/ \E t \in Tabs : Serve(t) \/ SocketLost(t) \/ Reconnect(t)
  \/ \E c \in Calls : NameRead(c)

CallsSpec == CallsInit /\ [][CallsNext]_callVars

\* The server runs, timers fire, and the user answers the browser's question.
FairSpec ==
  CallsSpec /\ \A t \in Tabs :
    /\ WF_callVars(Serve(t))
    /\ WF_callVars(Settled(t) /\ RingTimeout(t))
    /\ WF_callVars(Settled(t) /\ (StartGranted(t) \/ StartDenied(t)))
    /\ WF_callVars(Settled(t) /\ (AcceptGranted(t) \/ AcceptDenied(t)))

-----------------------------------------------------------------------------
\* The microphone is only on while the page shows a call, unless the user
\* answered the browser's question too late or the timer of an earlier call
\* fired into this one.
MicrophoneShown ==
  \A t \in Tabs : page[t].live # {} => page[t].status \notin {"idle", "ended", "away"} \/ t \in astray

\* Every value stays in its type, and no microphone is on behind a quiet page.
CallInv == CallsTypeOK /\ MicrophoneShown

\* When a call is over and everything sent has arrived, no page shows it any
\* more: whoever hangs up, refuses or gives up, and however these cross.
\* Excused are calls of a lost socket or a left page, those hit by the
\* cross-talk between calls or between tabs of one user, and those the rate
\* limit dropped, which the caller's page shows until it gives up.
Quiet == naming = {} /\ \A t \in Tabs : up[t] = <<>> /\ down[t] = <<>>
HangUpReachesEveryPage ==
  Quiet => \A t \in Tabs : page[t].call \in {0} \cup active \cup excused

\* No page calls or rings for ever, even if nothing is ever heard again.
RingingEnds ==
  \A t \in Tabs : []<>(page[t].status \notin {"calling", "incoming"})
=============================================================================
