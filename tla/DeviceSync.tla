----------------------------- MODULE DeviceSync -----------------------------
(***************************************************************************)
(* VSP-1, the transfer of a device's records to new devices of the same    *)
(* account: useDeviceSync.ts on each device, the deviceSync handlers of    *)
(* chat.gateway.ts with SyncSessionService (a Redis store, each call a     *)
(* round trip), the export and import of cryptoDb.ts, and the keys, chunks *)
(* and manifest of device_sync.rs.  A key is named by the two devices that *)
(* derived it: a chunk opens only under the same key, at its own number.   *)
(***************************************************************************)
EXTENDS Naturals, Sequences, FiniteSets

CONSTANTS Source, Targets, None,
          Records,     \* how many records the source's stores hold
          MaxSessions, \* bound: QR codes the source shows
          MaxScans,    \* bound: scans, over all targets
          Fragile      \* bound: the devices that lose their socket or leave the page, once, for good

ASSUME SyncDevices ==
  /\ Source \notin Targets
  /\ None \notin Targets \cup {Source} /\ None \notin [target : Targets \cup {None}]
  /\ Records \in Nat /\ MaxSessions \in Nat /\ MaxScans \in Nat
  /\ Fragile \subseteq Targets \cup {Source}

Devices == Targets \cup {Source}
Sessions == 1 .. MaxSessions
Maybe(S) == S \cup {0}
Manifest == Records + 1   \* its frame follows the chunks

VARIABLES
  dev,      \* per device: phase and refs of useDeviceSync
  recv,     \* per target: the frames its handlers are working on, and their results
  chan,     \* per target: the data channel from the source
  up, down, \* per device: what its socket has not yet carried
  store,    \* per session: the server's record, or None
  opening,  \* the session handleDeviceSyncStart is about to store
  joining,  \* per target: the session handleDeviceSyncJoin has read
  aborting, \* per device: the session handleDeviceSyncAbort is about to delete, and the peer it read
  made, scans, gone, \* sessions made, scans, devices of Fragile that dropped
  overlap,  \* history: sessions read by two joins before either wrote
  lost      \* history: sessions with an end that is told to nobody

net == <<up, down>>
bounds == <<made, scans, gone>>
history == <<overlap, lost>>
server == <<store, opening, joining, aborting>>
vars == <<dev, recv, chan, net, server, bounds, history>>

Phases == {"idle", "generating", "waiting_peer", "handshaking", "transferring",
           "verifying", "done", "error",
           "away"}                       \* the page was left, and its listeners are gone
Dev ==
  [phase : Phases,
   starting : Maybe(Sessions),       \* startAsSource or startAsTarget in its awaits
   at : {"none", "keys", "qr", "offer", \* the one it waits for,
         "closed", "kept"},          \* its connection was closed, a left page ran to its end
   session : Maybe(Sessions),        \* sessionRef: the secrets in memory
   keys : Devices \cup {None},       \* with whom its keys are derived
   deriving : Devices \cup {None},   \* onPeerJoined waits for the worker
   pc : Maybe(Sessions),             \* pcRef
   remote : Devices \cup {None},     \* whose description is set
   aborted : BOOLEAN]                \* abortedRef
Frames == 1 .. Manifest
Recv == [on : BOOLEAN, opening : Seq(Frames), hashing : SUBSET Frames, hashed : SUBSET Frames,
         importing : SUBSET Frames, imported : SUBSET Frames, manifest : BOOLEAN, verified : BOOLEAN]
Chan == [open : BOOLEAN, sent : 0 .. Manifest, frames : Seq(Frames), closed : BOOLEAN, key : Devices \cup {None}]
Messages == [m : {"start", "join", "answer", "abort", "offer", "joined", "aborted", "error"},
             session : Sessions, from : Devices \cup {None}]
NoAbort == [session |-> 0, peer |-> None]

Fresh == [phase |-> "idle", starting |-> 0, at |-> "none", session |-> 0, keys |-> None, deriving |-> None,
          pc |-> 0, remote |-> None, aborted |-> FALSE]
NoRecv == [on |-> FALSE, opening |-> <<>>, hashing |-> {}, hashed |-> {}, importing |-> {},
           imported |-> {}, manifest |-> FALSE, verified |-> FALSE]
NoChan == [open |-> FALSE, sent |-> 0, frames |-> <<>>, closed |-> FALSE, key |-> None]

TypeOK ==
  /\ dev \in [Devices -> Dev] /\ recv \in [Targets -> Recv] /\ chan \in [Targets -> Chan]
  /\ up \in [Devices -> Seq(Messages)] /\ down \in [Devices -> Seq(Messages)]
  /\ \A s \in Sessions : store[s] = None \/ store[s] \in [target : Targets \cup {None}]
  /\ opening \in Maybe(Sessions) /\ joining \in [Targets -> Maybe(Sessions)]
  /\ aborting \in [Devices -> [session : Maybe(Sessions), peer : Devices \cup {None}]]
  /\ made \in Maybe(Sessions) /\ scans \in 0 .. MaxScans /\ gone \in SUBSET Fragile
  /\ overlap \in SUBSET Sessions /\ lost \in SUBSET Sessions

Init ==
  /\ dev = [d \in Devices |-> Fresh]
  /\ recv = [t \in Targets |-> NoRecv] /\ chan = [t \in Targets |-> NoChan]
  /\ up = [d \in Devices |-> <<>>] /\ down = [d \in Devices |-> <<>>]
  /\ store = [s \in Sessions |-> None] /\ opening = 0
  /\ joining = [t \in Targets |-> 0] /\ aborting = [d \in Devices |-> NoAbort]
  /\ made = 0 /\ scans = 0 /\ gone = {}
  /\ overlap = {} /\ lost = {}

Msg(m, s, d) == [m |-> m, session |-> s, from |-> d]
Emit(d, m, s) == up' = [up EXCEPT ![d] = Append(@, Msg(m, s, d))]

\* Mutant of Wiped: the secrets stay.
WipedNot(p) ==
  [p EXCEPT !.keys = None, !.deriving = None, !.pc = 0, !.remote = None, !.aborted = TRUE,
            !.at = IF p.at = "offer" THEN "closed" ELSE p.at]
\* cleanup: channel and connection are closed, one-time password, secret and
\* keys are zeroed; a start that is under way goes on.
Wiped(p) ==
  [p EXCEPT !.session = 0, !.keys = None, !.deriving = None, !.pc = 0, !.remote = None, !.aborted = TRUE,
            !.at = IF p.at = "offer" THEN "closed" ELSE p.at]

\* Either end closes its side; what was under way may or may not arrive.
Closed(d) ==
  [t \in Targets |-> IF chan[t].open /\ (t = d \/ (d = Source /\ dev[d].remote = t))
                     THEN [chan[t] EXCEPT !.closed = TRUE] ELSE chan[t]]
\* Mutant of Fail: the reason is stored as the phase.
FailReason(d) == dev' = [dev EXCEPT ![d] = [Wiped(@) EXCEPT !.phase = "peer_aborted"]] /\ chan' = Closed(d)
Fail(d) == dev' = [dev EXCEPT ![d] = [Wiped(@) EXCEPT !.phase = "error"]] /\ chan' = Closed(d)

-----------------------------------------------------------------------------
(* The pages.                                                              *)

\* startAsSource and startAsTarget, up to their first wait.  Bound: a second
\* start waits for the first, also after that one was cancelled.
Start ==
  /\ dev[Source].phase = "idle" /\ dev[Source].starting = 0 /\ made < MaxSessions
  /\ made' = made + 1
  /\ dev' = [dev EXCEPT ![Source] = [@ EXCEPT !.phase = "generating", !.aborted = FALSE,
                                              !.starting = made + 1, !.at = "keys"]]
  /\ UNCHANGED <<recv, chan, net, server, scans, gone, history>>
Scan(t) ==
  /\ dev[t].phase = "idle" /\ dev[t].starting = 0 /\ scans < MaxScans
  /\ dev[Source].phase = "waiting_peer" /\ dev[Source].pc # 0
  /\ scans' = scans + 1
  /\ dev' = [dev EXCEPT ![t] = [@ EXCEPT !.phase = "generating", !.aborted = FALSE,
                                         !.starting = dev[Source].pc, !.at = "keys"]]
  /\ recv' = [recv EXCEPT ![t] = NoRecv] /\ chan' = [chan EXCEPT ![t] = NoChan]
  /\ UNCHANGED <<net, server, made, gone, history>>

\* The source's waits, which no cancellation stops: the secrets are in memory
\* before the code is drawn, the connection is made after.
Generated ==
  /\ dev[Source].at = "keys"
  /\ dev' = [dev EXCEPT ![Source] = [@ EXCEPT !.at = "qr", !.session = dev[Source].starting,
                                              !.keys = None, !.deriving = None]]
  /\ UNCHANGED <<recv, chan, net, server, bounds, history>>
BuildPC ==
  /\ dev[Source].at = "qr"
  /\ dev' = [dev EXCEPT ![Source] = [@ EXCEPT !.at = "offer", !.pc = dev[Source].starting,
                                              !.remote = None]]
  /\ UNCHANGED <<recv, chan, net, server, bounds, history>>

\* The ends of the starts; a page that was left stays that, with the secrets.
Ran(p, phase) ==
  IF p.phase = "away" THEN [p EXCEPT !.starting = 0, !.at = "kept"]
                      ELSE [p EXCEPT !.starting = 0, !.at = "none", !.phase = phase]
Offers ==
  /\ dev[Source].at = "offer"
  /\ dev' = [dev EXCEPT ![Source] = Ran(@, "waiting_peer")]
  /\ Emit(Source, "start", dev[Source].starting)
  /\ lost' = IF dev[Source].aborted THEN lost \cup {dev[Source].starting} ELSE lost
  /\ UNCHANGED <<recv, chan, down, server, bounds, overlap>>
Joins(t) ==
  /\ t \in Targets /\ dev[t].at = "keys"
  /\ LET p == [dev[t] EXCEPT !.session = dev[t].starting, !.pc = dev[t].starting, !.remote = None,
                             !.keys = None]
     IN dev' = [dev EXCEPT ![t] = Ran(p, "handshaking")]
  /\ Emit(t, "join", dev[t].starting)
  /\ lost' = IF dev[t].aborted THEN lost \cup {dev[t].starting} ELSE lost
  /\ UNCHANGED <<recv, chan, down, server, bounds, overlap>>
\* A malformed QR code, too little storage, no worker, a closed connection.
StartFails(d) ==
  /\ dev[d].starting # 0
  /\ dev' = [dev EXCEPT ![d] = [Wiped(@) EXCEPT !.starting = 0, !.at = "none",
                                                !.phase = IF dev[d].phase = "away" THEN "away" ELSE "error"]]
  /\ UNCHANGED <<recv, chan, net, server, bounds, history>>
\* The description of a closed connection is never set.
StartHangs ==
  /\ dev[Source].at = "closed"
  /\ dev' = [dev EXCEPT ![Source] = [@ EXCEPT !.starting = 0, !.at = "none"]]
  /\ UNCHANGED <<recv, chan, net, server, bounds, history>>

\* abort, from the dialog's buttons.
Abort(d) ==
  /\ dev[d].phase # "away" /\ (dev[d].phase # "idle" \/ dev[d].starting # 0)
  /\ IF dev[d].session # 0 THEN Emit(d, "abort", dev[d].session) ELSE UNCHANGED up
  /\ dev' = [dev EXCEPT ![d] = [Wiped(@) EXCEPT !.phase = "idle"]]
  /\ chan' = Closed(d)
  /\ UNCHANGED <<recv, down, server, bounds, history>>

\* The settings page is left: cleanup, and no listeners any more.
Leave(d) ==
  /\ d \in Fragile \ gone
  /\ dev[d].phase # "idle" \/ dev[d].starting # 0
  /\ gone' = gone \cup {d}
  /\ dev' = [dev EXCEPT ![d] = [Wiped(@) EXCEPT !.phase = "away"]]
  /\ chan' = Closed(d)
  /\ lost' = lost \cup ({dev[d].session, dev[d].starting} \ {0})
  /\ UNCHANGED <<recv, net, server, made, scans, overlap>>
Unheard(d) ==
  /\ dev[d].phase = "away" /\ down[d] # <<>>
  /\ down' = [down EXCEPT ![d] = <<>>]
  /\ UNCHANGED <<dev, recv, chan, up, server, bounds, history>>

-----------------------------------------------------------------------------
(* Events of the server at a device.                                       *)

Heard(d, m) ==
  /\ down[d] # <<>> /\ Head(down[d]).m = m /\ dev[d].phase # "away"
  /\ down' = [down EXCEPT ![d] = Tail(@)]
Ours(d) == dev[d].session = Head(down[d]).session
Live(d) == Ours(d) /\ dev[d].pc # 0 /\ ~dev[d].aborted

\* onPeerJoined: the keys are derived with the latest target.
OnPeerJoined ==
  /\ Heard(Source, "joined")
  /\ dev' = IF ~Live(Source) THEN dev
            ELSE [dev EXCEPT ![Source] = [@ EXCEPT !.phase = "handshaking",
                    !.deriving = Head(down[Source]).from]]
  /\ UNCHANGED <<recv, chan, up, server, bounds, history>>
Derived ==
  /\ dev[Source].deriving # None
  /\ dev' = [dev EXCEPT ![Source] = [@ EXCEPT !.keys = dev[Source].deriving, !.deriving = None]]
  /\ UNCHANGED <<recv, chan, net, server, bounds, history>>

\* onOffer: keys, description, answer.
OnOffer(t) ==
  /\ t \in Targets /\ Heard(t, "offer")
  /\ IF ~Live(t) THEN UNCHANGED <<dev, up>>
     ELSE /\ dev' = [dev EXCEPT ![t] = [@ EXCEPT !.keys = Source, !.remote = Source]]
          /\ Emit(t, "answer", dev[t].session)
  /\ UNCHANGED <<recv, chan, server, bounds, history>>

\* onPeerAnswer: a second answer is an error.
OnPeerAnswer ==
  /\ Heard(Source, "answer")
  /\ IF ~Live(Source) THEN UNCHANGED <<dev, chan, lost>>
     ELSE IF dev[Source].remote # None
       THEN Fail(Source) /\ lost' = lost \cup {dev[Source].session}
     ELSE /\ dev' = [dev EXCEPT ![Source].remote = Head(down[Source]).from]
          /\ UNCHANGED <<chan, lost>>
  /\ UNCHANGED <<recv, up, server, bounds, overlap>>

\* onAborted: an idle dialog shows no error.
OnAborted(d) ==
  /\ Heard(d, "aborted")
  /\ IF ~Ours(d) THEN UNCHANGED <<dev, chan>>
     ELSE /\ dev' = [dev EXCEPT ![d] =
               [Wiped(@) EXCEPT !.phase = IF dev[d].phase = "idle" THEN "idle" ELSE "error"]]
          /\ chan' = Closed(d)
  /\ UNCHANGED <<recv, up, server, bounds, history>>

\* onError: whatever session it is about.
OnError(d) ==
  /\ Heard(d, "error")
  /\ Fail(d)
  /\ lost' = lost \cup ({dev[d].session} \ {0})
  /\ UNCHANGED <<recv, up, server, bounds, overlap>>

-----------------------------------------------------------------------------
(* The server.                                                             *)

Sent(d, m) ==
  /\ up[d] # <<>> /\ Head(up[d]).m = m
  /\ up' = [up EXCEPT ![d] = Tail(@)]
For(d) == Head(up[d]).session
Tell(d, m, s, from, queues) == [queues EXCEPT ![d] = Append(@, Msg(m, s, from))]

\* handleDeviceSyncStart: dropped by the limiter, or stored two round trips later.
HandleStart ==
  /\ opening = 0 /\ Sent(Source, "start")
  /\ opening' \in {0, For(Source)}
  /\ UNCHANGED <<dev, recv, chan, down, store, joining, aborting, bounds, history>>
StoreStart ==
  /\ opening # 0
  /\ store' = [store EXCEPT ![opening] = [target |-> None]]
  /\ opening' = 0
  /\ UNCHANGED <<dev, recv, chan, net, joining, aborting, bounds, history>>

Joinable(s) == store[s] # None /\ store[s].target = None
\* handleDeviceSyncJoin, its read and checks, unless the limiter drops it.
JoinRead(t) ==
  /\ t \in Targets /\ joining[t] = 0 /\ Sent(t, "join")
  /\ \/ /\ lost' = lost \cup {For(t)}
        /\ UNCHANGED <<down, joining, overlap>>
     \/ /\ ~Joinable(For(t))
        /\ down' = Tell(t, "error", For(t), None, down)
        /\ UNCHANGED <<joining, history>>
     \/ /\ Joinable(For(t))
        /\ joining' = [joining EXCEPT ![t] = For(t)]
        /\ overlap' = overlap \cup {s \in {For(t)} : \E o \in Targets : joining[o] = s}
        /\ UNCHANGED <<down, lost>>
  /\ UNCHANGED <<dev, recv, chan, store, opening, aborting, bounds>>
\* Its update, which reads and writes: a session that is gone stays so, or
\* comes back; the events are sent all the same.
JoinWrite(t) ==
  LET s == joining[t] IN
  /\ s # 0
  /\ \/ store' = [store EXCEPT ![s] = [target |-> t]]
     \/ store[s] = None /\ UNCHANGED store
  /\ down' = Tell(Source, "joined", s, t, Tell(t, "offer", s, Source, down))
  /\ joining' = [joining EXCEPT ![t] = 0]
  /\ lost' = IF store[s] = None THEN lost \cup {s} ELSE lost
  /\ UNCHANGED <<dev, recv, chan, up, opening, aborting, bounds, overlap>>

\* handleDeviceSyncRelayAnswer.
HandleAnswer(t) ==
  /\ t \in Targets /\ Sent(t, "answer")
  /\ down' = IF store[For(t)] # None /\ store[For(t)].target = t
               THEN Tell(Source, "answer", For(t), t, down) ELSE down
  /\ UNCHANGED <<dev, recv, chan, server, bounds, history>>

Party(d, s) == store[s] # None /\ (d = Source \/ store[s].target = d)
Peer(d, s) == IF d = Source THEN store[s].target ELSE Source
TellThe(peer, s, queues) == IF peer = None THEN queues ELSE Tell(peer, "aborted", s, None, queues)

\* handleDeviceSyncAbort: the session is read, and who the other device is by
\* then; a start still being stored is not found.  Bound: one abort of a device at
\* a time.
AbortRead(d) ==
  LET s == For(d) IN
  /\ aborting[d] = NoAbort /\ Sent(d, "abort")
  /\ aborting' = IF Party(d, s) THEN [aborting EXCEPT ![d] = [session |-> s, peer |-> Peer(d, s)]]
                 ELSE aborting
  /\ lost' = IF opening = s THEN lost \cup {s} ELSE lost
  /\ UNCHANGED <<dev, recv, chan, down, store, opening, joining, bounds, overlap>>


\* The deletion, and the devices that are told: not one that joined in between.
AbortWrite(d) ==
  LET s == aborting[d].session IN
  /\ s # 0
  /\ store' = [store EXCEPT ![s] = None]
  /\ down' = Tell(d, "aborted", s, None, TellThe(aborting[d].peer, s, down))
  /\ lost' = IF Party(d, s) /\ Peer(d, s) # aborting[d].peer THEN lost \cup {s} ELSE lost
  /\ aborting' = [aborting EXCEPT ![d] = NoAbort]
  /\ UNCHANGED <<dev, recv, chan, up, opening, joining, bounds, overlap>>

\* A socket is lost with what it carried, and comes back; handleDisconnect
\* ends the session the old socket was part of, unless it is not tracked yet.
SocketLost(d) ==
  /\ d \in Fragile \ gone
  /\ gone' = gone \cup {d}
  /\ up' = [up EXCEPT ![d] = <<>>]
  /\ LET mine == {s \in Sessions : Party(d, s)}
         last == CHOOSE s \in mine : \A o \in mine : o <= s
     IN \/ /\ down' = [down EXCEPT ![d] = <<>>]
           /\ UNCHANGED store
        \/ /\ mine # {}
           /\ store' = [store EXCEPT ![last] = None]
           /\ down' = [TellThe(Peer(d, last), last, down) EXCEPT ![d] = <<>>]
  /\ lost' = Sessions
  /\ UNCHANGED <<dev, recv, chan, opening, joining, aborting, made, scans, overlap>>

\* Five minutes are over.
Expire(s) ==
  /\ store[s] # None
  /\ store' = [store EXCEPT ![s] = None]
  /\ lost' = lost \cup {s}
  /\ UNCHANGED <<dev, recv, chan, net, opening, joining, aborting, bounds, overlap>>

-----------------------------------------------------------------------------
(* The data channel.                                                       *)

\* Both descriptions are set: the channel opens at the source.
SourceOpen(t) ==
  /\ dev[Source].remote = t /\ dev[t].remote = Source
  /\ dev[t].pc = dev[Source].pc /\ ~chan[t].open
  /\ ~dev[Source].aborted
  /\ IF dev[Source].keys = None THEN Fail(Source) /\ lost' = lost \cup {dev[Source].session}
     ELSE /\ dev' = [dev EXCEPT ![Source].phase = "transferring"]
          /\ chan' = [chan EXCEPT ![t] = [NoChan EXCEPT !.open = TRUE, !.key = dev[Source].keys]]
          /\ UNCHANGED lost
  /\ UNCHANGED <<recv, net, server, bounds, overlap>>

\* runSourceTransfer: the records, sealed and numbered, then the manifest.
Send(t) ==
  /\ dev[Source].remote = t /\ chan[t].open /\ ~chan[t].closed /\ chan[t].sent < Manifest
  /\ chan' = [chan EXCEPT ![t] = [chan[t] EXCEPT !.sent = @ + 1, !.frames = Append(@, chan[t].sent + 1)]]
  /\ UNCHANGED <<dev, recv, net, server, bounds, history>>
\* After the manifest the source is done, and closes at once.
SourceDone(t) ==
  /\ dev[Source].remote = t /\ chan[t].sent = Manifest /\ ~dev[Source].aborted
  /\ dev' = [dev EXCEPT ![Source] = [Wiped(@) EXCEPT !.phase = "done"]]
  /\ chan' = Closed(Source)
  /\ UNCHANGED <<recv, net, server, bounds, history>>

\* The channel opens at the target.
TargetOpen(t) ==
  /\ chan[t].open /\ ~recv[t].on /\ ~dev[t].aborted /\ dev[t].keys # None
  /\ recv' = [recv EXCEPT ![t].on = TRUE]
  /\ UNCHANGED <<dev, chan, net, server, bounds, history>>

\* dc.onmessage: a handler of its own for every frame; the worker opens the
\* frames one after the other.
OnFrame(t) ==
  /\ recv[t].on /\ ~dev[t].aborted /\ chan[t].frames # <<>>
  /\ recv' = [recv EXCEPT ![t].opening = Append(@, Head(chan[t].frames))]
  /\ chan' = [chan EXCEPT ![t].frames = Tail(@)]
  /\ UNCHANGED <<dev, net, server, bounds, history>>
OpenFrame(t) ==
  LET frame == Head(recv[t].opening) IN
  /\ recv[t].opening # <<>>
  /\ IF chan[t].key # t
       THEN /\ recv' = [recv EXCEPT ![t].opening = Tail(@)]
            /\ IF dev[t].aborted THEN UNCHANGED <<dev, chan>> ELSE Fail(t)
       ELSE /\ recv' = [recv EXCEPT ![t] = [recv[t] EXCEPT !.opening = Tail(@),
                 !.hashing = @ \cup ({frame} \ {Manifest}), !.manifest = @ \/ frame = Manifest]]
            /\ dev' = IF frame = Manifest /\ ~dev[t].aborted
                        THEN [dev EXCEPT ![t].phase = "verifying"] ELSE dev
            /\ UNCHANGED chan
  /\ UNCHANGED <<net, server, bounds, history>>
Hash(t) ==
  /\ \E n \in recv[t].hashing :
       recv' = [recv EXCEPT ![t] = [recv[t] EXCEPT !.hashing = @ \ {n}, !.hashed = @ \cup {n},
                                                   !.importing = @ \cup {n}]]
  /\ UNCHANGED <<dev, chan, net, server, bounds, history>>
\* importSyncRecord; once the transfer is settled a failure is ignored.
Import(t) ==
  \E n \in recv[t].importing :
    /\ \/ /\ recv' = [recv EXCEPT ![t] = [recv[t] EXCEPT !.importing = @ \ {n}, !.imported = @ \cup {n}]]
          /\ UNCHANGED <<dev, chan>>
       \/ /\ recv' = [recv EXCEPT ![t].importing = @ \ {n}]
          /\ IF dev[t].aborted THEN UNCHANGED <<dev, chan>> ELSE Fail(t)
    /\ UNCHANGED <<net, server, bounds, history>>

Finish(t) == dev' = [dev EXCEPT ![t] = [Wiped(@) EXCEPT !.phase = "done"]] /\ chan' = Closed(t)

\* Mutant of Verify: the count and the hashes are not compared.
VerifyTagOnly(t) ==
  /\ recv[t].manifest /\ ~dev[t].aborted
  /\ recv' = [recv EXCEPT ![t] = [@ EXCEPT !.manifest = FALSE, !.verified = TRUE]]
  /\ Finish(t)
  /\ UNCHANGED <<net, server, bounds, history>>

\* The manifest's count and hashes against the records hashed by now.
Verify(t) ==
  /\ recv[t].manifest /\ ~dev[t].aborted
  /\ IF recv[t].hashed = 1 .. Records
       THEN /\ recv' = [recv EXCEPT ![t] = [@ EXCEPT !.manifest = FALSE, !.verified = TRUE]]
            /\ Finish(t)
       ELSE /\ recv' = [recv EXCEPT ![t].manifest = FALSE]
            /\ Fail(t)
  /\ UNCHANGED <<net, server, bounds, history>>

\* dc.onclose and dc.onerror at the target, also before frames under way.
ChannelClosed(t) ==
  /\ recv[t].on /\ chan[t].closed /\ ~dev[t].aborted
  /\ Fail(t)
  /\ UNCHANGED <<recv, net, server, bounds, history>>

\* oniceconnectionstatechange at either end.
IceLost(d) ==
  /\ dev[d].remote # None /\ ~dev[d].aborted
  /\ Fail(d)
  /\ lost' = lost \cup {dev[d].session}
  /\ UNCHANGED <<recv, net, server, bounds, overlap>>

-----------------------------------------------------------------------------
\* A device's next step waits until the server has taken what it sent.
Page(d) ==
  /\ up[d] = <<>>
  /\ \/ StartFails(d) \/ Abort(d) \/ Leave(d) \/ Unheard(d) \/ IceLost(d)
     \/ OnAborted(d) \/ OnError(d) \/ OnOffer(d) \/ Joins(d)
     \/ d = Source /\ (Start \/ Generated \/ BuildPC \/ Offers \/ StartHangs)
     \/ d = Source /\ (OnPeerJoined \/ Derived \/ OnPeerAnswer)
     \/ d = Source /\ \E t \in Targets : SourceOpen(t) \/ Send(t) \/ SourceDone(t)
     \/ d \in Targets /\
          (Scan(d) \/ TargetOpen(d) \/ OnFrame(d) \/ OpenFrame(d) \/ Hash(d) \/ Import(d)
             \/ Verify(d) \/ ChannelClosed(d))
Serve ==
  \/ HandleStart \/ StoreStart
  \/ \E t \in Targets : JoinRead(t) \/ JoinWrite(t) \/ HandleAnswer(t)
  \/ \E d \in Devices : AbortRead(d) \/ AbortWrite(d) \/ SocketLost(d)
  \/ \E s \in Sessions : Expire(s)

Next == Serve \/ \E d \in Devices : Page(d)
Spec == Init /\ [][Next]_vars

-----------------------------------------------------------------------------
\* A target that reports success received every record the source counted,
\* under the keys of this QR code.
DoneIsComplete ==
  \A t \in Targets : dev[t].phase = "done" => recv[t].hashed = 1 .. Records /\ chan[t].key = t

\* One target is offered a session, unless two joins read it before either
\* wrote ("max 2 participants").
Offered(s) == {t \in Targets :
  \/ dev[t].session = s /\ dev[t].keys # None
  \/ \E i \in DOMAIN down[t] : down[t][i].m = "offer" /\ down[t][i].session = s}
OneTarget == \A s \in Sessions \ overlap : Cardinality(Offered(s)) <= 1

\* When the dialog shows the end of a transfer, or its page was left, no one-time
\* password or secret is in memory, but of a start that was cancelled and still
\* runs, or that ran to its end for a page that was left.
SecretsWiped ==
  \A d \in Devices :
    dev[d].phase \in {"idle", "done", "error", "away"} =>
      \/ dev[d].session \in {0, dev[d].starting}
      \/ dev[d].phase = "away" /\ dev[d].at = "kept"

\* A session is between two devices, and no secret outlives it in memory.
SyncInv == TypeOK /\ OneTarget /\ SecretsWiped /\ DoneIsComplete

\* A cancelled session is not waited for on the other device once all events
\* have arrived.  Excused are sessions that expired, that were not stored yet
\* when ended or not any more when joined, that a device joined while they were
\* ended, whose join the limiter dropped, whose device left or failed without
\* saying so, and ones that two targets joined at once.
Quiet ==
  /\ \A d \in Devices : up[d] = <<>> /\ down[d] = <<>> /\ dev[d].starting = 0 /\ aborting[d] = NoAbort
  /\ opening = 0
Waiting(t) == dev[t].phase = "handshaking" /\ ~chan[t].open /\ joining[t] = 0

\* "The target verifies the HMAC, then checks the SHA-256 of every received
\* record against the manifest before importing anything."
NothingImportedUnverified ==
  \A t \in Targets : recv[t].imported # {} => recv[t].verified
=============================================================================
