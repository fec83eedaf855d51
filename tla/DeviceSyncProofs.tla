-------------------------- MODULE DeviceSyncProofs --------------------------
(***************************************************************************)
(* Proofs about DeviceSync, for any source, targets, records, sessions and *)
(* scans.  SyncIndInv says who may be offered, join and have opened what;  *)
(* SyncTellInv says how the end of a session is still going to reach       *)
(* the device that waits for it.                                           *)
(***************************************************************************)
EXTENDS DeviceSync, FiniteSetTheorems, SequenceTheorems, WellFoundedInduction, TLAPS

LEMMA LeastOf ==
  ASSUME NEW S \in SUBSET Nat, S # {}
  PROVE  \E m \in S : \A j \in S : m <= j
<1>1. PICK m \in S : \A j \in S : ~ (<<j, m>> \in OpToRel(<, Nat))
  BY NatLessThanWellFounded, WFMin
<1>2. \A j \in S : ~ (j < m)
  BY <1>1 DEF OpToRel
<1> QED
  BY <1>2

LEMMA GreatestOf ==
  ASSUME NEW n \in Nat, NEW S \in SUBSET (1 .. n), S # {}
  PROVE  \E m \in S : \A j \in S : j <= m
<1> DEFINE T == {n - i : i \in S}
<1>0. \A i \in S : i \in Nat /\ i <= n /\ n - i \in Nat
  OBVIOUS
<1>1. T \in SUBSET Nat /\ T # {}
  BY <1>0
<1>2. PICK t \in T : \A j \in T : t <= j
  BY <1>1, LeastOf
<1>3. PICK m \in S : t = n - m
  BY <1>2
<1>4. ASSUME NEW j \in S PROVE j <= m
  <2>1. n - j \in T /\ t <= n - j
    BY <1>2
  <2> QED
    BY <2>1, <1>0, <1>3
<1> QED
  BY <1>4

-----------------------------------------------------------------------------
(* The transfer between devices.                                           *)

\* A session a message of this kind is about is in the queue.
Has(queue, m, s) == \E i \in DOMAIN queue : queue[i].m = m /\ queue[i].session = s

\* The stores, connections and queues, by their types.
Aborts == [session : Maybe(Sessions), peer : Devices \cup {None}]
SyncTyped ==
  /\ dev \in [Devices -> Dev] /\ recv \in [Targets -> Recv] /\ chan \in [Targets -> Chan]
  /\ up \in [Devices -> Seq(Messages)] /\ down \in [Devices -> Seq(Messages)]
  /\ store \in [Sessions -> {None} \cup [target : Targets \cup {None}]]
  /\ opening \in Maybe(Sessions) /\ joining \in [Targets -> Maybe(Sessions)]
  /\ aborting \in [Devices -> Aborts]
  /\ made \in Maybe(Sessions) /\ scans \in 0 .. MaxScans /\ gone \in SUBSET Fragile
  /\ overlap \in SUBSET Sessions /\ lost \in SUBSET Sessions

\* A page waits until what it sent is taken.
OneAtATime == \A d \in Devices : Len(up[d]) <= 1

\* A start that is under way waits for something; cleanup ended its session
\* when it closed its connection.
FlowOk(p) == /\ p.starting = 0 <=> p.at \in {"none", "kept"}
             /\ p.at = "closed" => p.session = 0

\* Only a page with a session has heard of the other device.
PagesAgree ==
  \A d \in Devices : /\ dev[d].remote # None => dev[d].session # 0
                     /\ FlowOk(dev[d])

\* What was opened are records, and was opened under the keys of this channel.
OpenedUnderKey ==
  \A t \in Targets :
    /\ recv[t].hashing \cup recv[t].hashed \subseteq 1 .. Records
    /\ chan[t].key # None => chan[t].open
    /\ recv[t].manifest => chan[t].key = t

\* Nobody has used a session whose start the server has not handled.
Unstarted(s) == s > made \/ dev[Source].starting = s \/ Has(up[Source], "start", s) \/ opening = s
Untouched(s) == store[s] = None /\ Offered(s) = {} /\ \A t \in Targets : joining[t] # s
StartsFirst == \A s \in Sessions : Unstarted(s) => Untouched(s)
StartsOnce ==
  /\ dev[Source].starting <= made /\ opening <= made
  /\ opening # 0 => dev[Source].starting # opening
  /\ \A s \in Sessions : Has(up[Source], "start", s) =>
       s <= made /\ dev[Source].starting # s /\ opening # s

\* A session that still has no target was offered to nobody, and the one that
\* is about to join it is alone.
OneJoins ==
  \A s \in Sessions \ overlap :
    /\ store[s] # None /\ store[s].target = None => Offered(s) = {}
    /\ \A t \in Targets : joining[t] = s => Offered(s) = {} /\ \A o \in Targets : joining[o] = s => o = t
    /\ \A t, o \in Offered(s) : t = o

SyncIndInv ==
  /\ SyncTyped /\ OneAtATime /\ PagesAgree /\ SecretsWiped
  /\ OpenedUnderKey /\ DoneIsComplete
  /\ StartsFirst /\ StartsOnce /\ OneJoins

LEMMA SyncSets ==
  /\ Source \in Devices /\ Targets \subseteq Devices /\ Source \notin Targets /\ None \notin Devices
  /\ Devices = Targets \cup {Source}
  /\ Sessions \subseteq Nat \ {0} /\ 0 \notin Sessions /\ Maybe(Sessions) = Sessions \cup {0}
  /\ Maybe(Sessions) \subseteq Nat /\ MaxSessions \in Nat /\ Records \in Nat
  /\ Manifest \in Nat /\ Manifest \in Frames /\ Manifest = Records + 1
BY SyncDevices DEF Devices, Sessions, Maybe, Manifest, Frames

LEMMA SyncTypesSuffice == SyncTyped => TypeOK
BY DEF SyncTyped, TypeOK, Aborts

LEMMA MsgTyped ==
  ASSUME NEW m \in {"start", "join", "answer", "abort", "offer", "joined", "aborted", "error"},
         NEW s \in Sessions, NEW d \in Devices \cup {None}
  PROVE  Msg(m, s, d) \in Messages /\ Msg(m, s, d).m = m /\ Msg(m, s, d).session = s
BY DEF Msg, Messages

LEMMA HasAppend ==
  ASSUME NEW q \in Seq(Messages), NEW e \in Messages, NEW m, NEW s, Has(Append(q, e), m, s)
  PROVE  Has(q, m, s) \/ (e.m = m /\ e.session = s)
BY AppendProperties DEF Has

LEMMA HasTail ==
  ASSUME NEW q \in Seq(Messages), q # <<>>, NEW m, NEW s, Has(Tail(q), m, s)
  PROVE  Has(q, m, s)
BY HeadTailProperties DEF Has

LEMMA HasHead ==
  ASSUME NEW q \in Seq(Messages), q # <<>>
  PROVE  Has(q, Head(q).m, Head(q).session) /\ Head(q) \in Messages /\ Tail(q) \in Seq(Messages)
         /\ Len(Tail(q)) = Len(q) - 1 /\ Len(q) \in Nat
BY HeadTailProperties DEF Has

LEMMA HasNot == ASSUME NEW m, NEW s PROVE ~Has(<<>>, m, s)
BY DEF Has

LEMMA OfferedIs ==
  ASSUME NEW s
  PROVE  /\ Offered(s) = {t \in Targets : \/ dev[t].session = s /\ dev[t].keys # None
                                          \/ Has(down[t], "offer", s)}
BY DEF Offered, Has

\* What a page's step leaves of the promises about its record.
GoodDev(d, q) ==
  /\ q \in Dev
  /\ q.remote # None => q.session # 0
  /\ FlowOk(q)
  /\ q.phase \in {"idle", "done", "error", "away"} =>
       q.session \in {0, q.starting} \/ (q.phase = "away" /\ q.at = "kept")
DevSafe == dev' \in [Devices -> Dev] /\ PagesAgree' /\ SecretsWiped'

LEMMA OneDev ==
  ASSUME SyncTyped, PagesAgree, SecretsWiped, NEW d \in Devices, NEW q,
         GoodDev(d, q), dev' = [dev EXCEPT ![d] = q]
  PROVE  /\ DevSafe /\ dev'[d] = q /\ \A x \in Devices : x # d => dev'[x] = dev[x]
<1>1. /\ dev \in [Devices -> Dev] /\ q \in Dev
  BY DEF SyncTyped, GoodDev
<1>2. dev' \in [Devices -> Dev] /\ dev'[d] = q /\ \A x \in Devices : x # d => dev'[x] = dev[x]
  BY <1>1
<1>3. PagesAgree'
  BY <1>2 DEF PagesAgree, GoodDev
<1>4. SecretsWiped'
  BY <1>2 DEF SecretsWiped, GoodDev
<1> QED
  BY <1>2, <1>3, <1>4 DEF DevSafe

LEMMA NoDev ==
  ASSUME SyncTyped, PagesAgree, SecretsWiped, dev' = dev
  PROVE  DevSafe
BY DEF SyncTyped, PagesAgree, SecretsWiped, DevSafe

\* The steps that end a session: cleanup and a phase.
LEMMA WipedIs ==
  ASSUME NEW p \in Dev
  PROVE  /\ Wiped(p) \in Dev /\ Wiped(p).session = 0 /\ Wiped(p).keys = None /\ Wiped(p).remote = None
         /\ Wiped(p).starting = p.starting /\ Wiped(p).phase = p.phase /\ Wiped(p).aborted
         /\ Wiped(p).at \in {"none", "kept"} <=> p.at \in {"none", "kept"}
<1>1. 0 \in Maybe(Sessions) /\ None \in Devices \cup {None}
  BY SyncSets
<1> QED
  BY <1>1 DEF Wiped, Dev

LEMMA EndedIs ==
  ASSUME NEW p \in Dev, NEW ph \in {"idle", "done", "error", "away"}, NEW d,
         FlowOk(p)
  PROVE  LET q == [Wiped(p) EXCEPT !.phase = ph] IN
         /\ GoodDev(d, q) /\ q.session = 0 /\ q.keys = None /\ q.phase = ph /\ q.starting = p.starting
         /\ q.at \in {"none", "kept"} <=> p.at \in {"none", "kept"}
<1> DEFINE w == Wiped(p)
<1> DEFINE q == [w EXCEPT !.phase = ph]
<1>1. /\ w \in Dev /\ w.session = 0 /\ w.keys = None /\ w.remote = None /\ w.starting = p.starting
      /\ w.at \in {"none", "kept"} <=> p.at \in {"none", "kept"}
  BY WipedIs
<1>2. ph \in Phases
  BY DEF Phases
<1> HIDE DEF w
<1>3. q \in Dev /\ q.session = 0 /\ q.keys = None /\ q.remote = None /\ q.phase = ph /\ q.starting = p.starting
      /\ q.at = w.at
  BY <1>1, <1>2 DEF Dev
<1>4. GoodDev(d, q)
  BY <1>1, <1>3 DEF GoodDev, FlowOk
<1> QED
  BY <1>1, <1>3, <1>4 DEF w

\* What the other invariants ask of a step that makes no news: nobody starts,
\* is offered or joins a session.
NoNews ==
  /\ made' = made /\ opening' = opening /\ joining' = joining /\ overlap \subseteq overlap'
  /\ dev'[Source].starting \in {dev[Source].starting, 0}
  /\ \A s \in Sessions : /\ Offered(s)' \subseteq Offered(s)
                         /\ store'[s] = None \/ store'[s] = store[s]
                         /\ Has(up'[Source], "start", s) => Has(up[Source], "start", s)

LEMMA NoNewsKeeps ==
  ASSUME SyncTyped, StartsFirst, StartsOnce, OneJoins, NoNews
  PROVE  StartsFirst' /\ StartsOnce' /\ OneJoins'
<1>1. made \in Nat /\ dev[Source].starting \in Nat /\ dev'[Source].starting \in Nat /\ opening \in Nat
  BY SyncSets DEF SyncTyped, NoNews, Dev
<1>2. StartsOnce'
  BY <1>1, SyncSets DEF StartsOnce, NoNews
<1>3. ASSUME NEW s \in Sessions, Unstarted(s)' PROVE Untouched(s)'
  <2>1. Unstarted(s)
    <3>1. s # 0
      BY SyncSets
    <3> QED
      BY <3>1, <1>3 DEF Unstarted, NoNews
  <2>2. Untouched(s)
    BY <2>1 DEF StartsFirst
  <2>3. store'[s] = None
    BY <2>2 DEF Untouched, NoNews
  <2>4. Offered(s)' = {}
    BY <2>2 DEF Untouched, NoNews
  <2>5. \A t \in Targets : joining'[t] # s
    BY <2>2 DEF Untouched, NoNews
  <2> QED
    BY <2>3, <2>4, <2>5 DEF Untouched
<1>4. StartsFirst'
  BY <1>3 DEF StartsFirst
<1>5. ASSUME NEW s \in Sessions, s \notin overlap'
      PROVE  /\ store'[s] # None /\ store'[s].target = None => Offered(s)' = {}
             /\ \A t \in Targets : joining'[t] = s => Offered(s)' = {} /\ \A o \in Targets : joining'[o] = s => o = t
             /\ \A t, o \in Offered(s)' : t = o
  <2>1. s \in Sessions \ overlap
    BY <1>5 DEF NoNews
  <2>2. /\ store[s] # None /\ store[s].target = None => Offered(s) = {}
        /\ \A t \in Targets : joining[t] = s => Offered(s) = {} /\ \A o \in Targets : joining[o] = s => o = t
        /\ \A t, o \in Offered(s) : t = o
    BY <2>1 DEF OneJoins
  <2>3. Offered(s)' \subseteq Offered(s) /\ joining' = joining /\ (store'[s] = None \/ store'[s] = store[s])
    BY DEF NoNews
  <2> QED
    BY <2>2, <2>3
<1>6. OneJoins'
  BY <1>5 DEF OneJoins
<1> QED
  BY <1>2, <1>4, <1>6

\* The channels stay under the keys they were opened with.
ChanQuiet ==
  /\ chan' \in [Targets -> Chan]
  /\ \A t \in Targets : chan'[t].key = chan[t].key /\ chan'[t].open = chan[t].open
RecvQuiet ==
  /\ recv' \in [Targets -> Recv]
  /\ \A t \in Targets : /\ recv'[t].hashing \subseteq recv[t].hashing
                        /\ recv'[t].hashed = recv[t].hashed
                        /\ recv'[t].manifest => recv[t].manifest
NobodySucceeds == \A t \in Targets : dev'[t].phase = "done" => dev[t].phase = "done"
QueuesQuiet ==
  \A s \in Sessions :
    /\ Has(up'[Source], "start", s) => Has(up[Source], "start", s)
    /\ \A t \in Targets : Has(down'[t], "offer", s) => Has(down[t], "offer", s)

LEMMA ClosedQuiet ==
  ASSUME SyncTyped, NEW d, chan' = chan \/ chan' = Closed(d)
  PROVE  ChanQuiet
<1>1. chan \in [Targets -> Chan]
  BY DEF SyncTyped
<1>2. CASE chan' = chan
  BY <1>1, <1>2 DEF ChanQuiet
<1>3. CASE chan' = Closed(d)
  <2>1. ASSUME NEW c \in Chan
        PROVE  LET x == [c EXCEPT !.closed = TRUE] IN x \in Chan /\ x.key = c.key /\ x.open = c.open
    BY DEF Chan
  <2> DEFINE Shut(c) == [c EXCEPT !.closed = TRUE]
  <2>2. \A c \in Chan : Shut(c) \in Chan /\ Shut(c).key = c.key /\ Shut(c).open = c.open
    BY <2>1
  <2>3. chan' = [t \in Targets |-> IF chan[t].open /\ (t = d \/ (d = Source /\ dev[d].remote = t))
                                    THEN Shut(chan[t]) ELSE chan[t]]
    BY <1>3 DEF Closed
  <2> HIDE DEF Shut
  <2> QED
    BY <1>1, <2>2, <2>3 DEF ChanQuiet
<1> QED
  BY <1>2, <1>3

LEMMA QuietNews ==
  ASSUME SyncTyped, NEW d \in Devices, NEW q, dev' = [dev EXCEPT ![d] = q],
         d \in Targets => (q.keys # None => dev[d].keys # None /\ q.session = dev[d].session),
         d = Source => q.starting \in {dev[Source].starting, 0},
         UNCHANGED <<made, opening, joining, overlap, store>>, QueuesQuiet
  PROVE  NoNews
<1>1. dev'[d] = q /\ \A x \in Devices : x # d => dev'[x] = dev[x]
  BY DEF SyncTyped
<1>2. dev'[Source].starting \in {dev[Source].starting, 0}
  BY <1>1, SyncSets
<1>3. ASSUME NEW s \in Sessions PROVE Offered(s)' \subseteq Offered(s)
  <2>1. ASSUME NEW t \in Targets, dev'[t].session = s, dev'[t].keys # None
        PROVE  dev[t].session = s /\ dev[t].keys # None
    BY <1>1, <2>1, SyncSets
  <2>2. \A t \in Targets : Has(down'[t], "offer", s) => Has(down[t], "offer", s)
    BY DEF QueuesQuiet
  <2>3. Offered(s)' = {t \in Targets : \/ dev'[t].session = s /\ dev'[t].keys # None
                                       \/ Has(down'[t], "offer", s)}
    BY DEF Offered, Has
  <2> QED
    BY <2>1, <2>2, <2>3, OfferedIs
<1> QED
  BY <1>2, <1>3 DEF NoNews, QueuesQuiet

\* A step that changes no device's record.
LEMMA QuietStill ==
  ASSUME SyncTyped, dev' = dev, opening' = opening, joining' = joining, made' = made, overlap \subseteq overlap', QueuesQuiet,
         \A s \in Sessions : store'[s] = None \/ store'[s] = store[s]
  PROVE  NoNews
<1>1. ASSUME NEW s \in Sessions PROVE Offered(s)' \subseteq Offered(s)
  <2>1. Offered(s)' = {t \in Targets : \/ dev'[t].session = s /\ dev'[t].keys # None
                                       \/ Has(down'[t], "offer", s)}
    BY DEF Offered, Has
  <2> QED
    BY <2>1, OfferedIs DEF QueuesQuiet
<1> QED
  BY <1>1 DEF NoNews, QueuesQuiet

\* Nothing new is opened, and nobody succeeds.
LEMMA QuietChannel ==
  ASSUME SyncTyped, OpenedUnderKey, DoneIsComplete, NobodySucceeds, ChanQuiet, RecvQuiet
  PROVE  OpenedUnderKey' /\ DoneIsComplete'
<1>1. OpenedUnderKey'
  BY DEF OpenedUnderKey, ChanQuiet, RecvQuiet
<1>2. DoneIsComplete'
  BY DEF DoneIsComplete, NobodySucceeds, ChanQuiet, RecvQuiet
<1> QED
  BY <1>1, <1>2

LEMMA SameChannels ==
  ASSUME SyncTyped
  PROVE  (chan' = chan => ChanQuiet) /\ (recv' = recv => RecvQuiet)
BY DEF ChanQuiet, RecvQuiet, SyncTyped

LEMMA EndsKeeps ==
  ASSUME SyncIndInv, NEW d \in Devices, NEW ph \in {"idle", "done", "error", "away"}, ph = "done" => d = Source,
         NEW q, \/ q = [Wiped(dev[d]) EXCEPT !.phase = ph]
                \/ q = [Wiped(dev[d]) EXCEPT !.starting = 0, !.at = "none", !.phase = ph],
         dev' = [dev EXCEPT ![d] = q], chan' = chan \/ chan' = Closed(d),
         UNCHANGED <<made, opening, joining, overlap, store>>, QueuesQuiet, RecvQuiet
  PROVE  /\ DevSafe /\ chan' \in [Targets -> Chan]
         /\ OpenedUnderKey' /\ DoneIsComplete' /\ StartsFirst' /\ StartsOnce' /\ OneJoins'
<1>0. SyncTyped /\ PagesAgree /\ SecretsWiped /\ OpenedUnderKey /\ DoneIsComplete
      /\ StartsFirst /\ StartsOnce /\ OneJoins
  BY DEF SyncIndInv
<1>1. dev[d] \in Dev /\ FlowOk(dev[d])
  BY <1>0 DEF SyncTyped, PagesAgree
<1>2. /\ GoodDev(d, q) /\ q.session = 0 /\ q.keys = None /\ q.phase = ph
      /\ q.starting \in {dev[d].starting, 0}
  <2>1. CASE q = [Wiped(dev[d]) EXCEPT !.phase = ph]
    BY <1>1, <2>1, EndedIs
  <2>2. CASE q = [Wiped(dev[d]) EXCEPT !.starting = 0, !.at = "none", !.phase = ph]
    <3>1. PICK p : p = [Wiped(dev[d]) EXCEPT !.phase = ph]
      OBVIOUS
    <3>2. p \in Dev /\ p.session = 0 /\ p.keys = None /\ p.phase = ph /\ GoodDev(d, p)
      BY <1>1, <3>1, EndedIs DEF GoodDev
    <3>3. q = [p EXCEPT !.starting = 0, !.at = "none"]
      <4>1. Wiped(dev[d]) \in Dev
        BY <1>1, WipedIs
      <4> QED
        BY <2>2, <3>1, <4>1 DEF Dev
    <3>4. 0 \in Maybe(Sessions)
      BY SyncSets
    <3>5. q \in Dev /\ q.session = p.session /\ q.keys = p.keys /\ q.phase = p.phase
          /\ q.remote = p.remote /\ q.starting = 0 /\ q.at = "none"
      BY <3>2, <3>3, <3>4 DEF Dev
    <3> QED
      BY <3>2, <3>5 DEF GoodDev, FlowOk
  <2> QED
    BY <2>1, <2>2
<1>3. DevSafe /\ dev'[d] = q /\ \A x \in Devices : x # d => dev'[x] = dev[x]
  BY <1>0, <1>2, OneDev
<1>4. NoNews
  BY <1>0, <1>2, QuietNews
<1>5. NobodySucceeds
  BY <1>2, <1>3, SyncSets DEF NobodySucceeds
<1>6. ChanQuiet
  BY <1>0, ClosedQuiet
<1>7. OpenedUnderKey' /\ DoneIsComplete'
  BY <1>0, <1>5, <1>6, QuietChannel
<1> QED
  BY <1>0, <1>3, <1>4, <1>6, <1>7, NoNewsKeeps DEF ChanQuiet

\* A page sends.
LEMMA EmitIs ==
  ASSUME SyncTyped, OneAtATime, NEW d \in Devices, up[d] = <<>>,
         NEW m \in {"start", "join", "answer", "abort"}, NEW s \in Sessions, Emit(d, m, s)
  PROVE  /\ up' \in [Devices -> Seq(Messages)] /\ OneAtATime'
         /\ \A x \in Sessions : Has(up'[Source], "start", x) =>
              Has(up[Source], "start", x) \/ (d = Source /\ m = "start" /\ x = s)
<1> DEFINE e == Msg(m, s, d)
<1>1. e \in Messages /\ e.m = m /\ e.session = s
  BY MsgTyped
<1> HIDE DEF e
<1>2. up' = [up EXCEPT ![d] = Append(@, e)]
  BY DEF Emit, e
<1>3. up \in [Devices -> Seq(Messages)]
  BY DEF SyncTyped
<1>4. Append(up[d], e) \in Seq(Messages) /\ Len(Append(up[d], e)) = 1
  BY <1>1, <1>3, AppendProperties
<1>5. up' \in [Devices -> Seq(Messages)]
  BY <1>2, <1>3, <1>4
<1>6. OneAtATime'
  BY <1>2, <1>3, <1>4 DEF OneAtATime
<1>7. ASSUME NEW x \in Sessions, Has(up'[Source], "start", x)
      PROVE  Has(up[Source], "start", x) \/ (d = Source /\ m = "start" /\ x = s)
  <2>1. CASE d = Source
    <3>1. Has(Append(up[d], e), "start", x) /\ up[d] \in Seq(Messages)
      BY <1>2, <1>3, <1>7, <2>1
    <3> QED
      BY <1>1, <2>1, <3>1, HasAppend
  <2>2. CASE d # Source
    BY <1>2, <1>3, <1>7, <2>2, SyncSets
  <2> QED
    BY <2>1, <2>2
<1> QED
  BY <1>5, <1>6, <1>7

\* A page takes an event.
LEMMA HeardIs ==
  ASSUME SyncTyped, NEW d \in Devices, NEW m, Heard(d, m)
  PROVE  /\ down' \in [Devices -> Seq(Messages)]
         /\ Head(down[d]) \in Messages /\ Head(down[d]).m = m /\ Has(down[d], m, Head(down[d]).session)
         /\ \A x \in Devices : \A k, s : Has(down'[x], k, s) => Has(down[x], k, s)
<1>1. down \in [Devices -> Seq(Messages)] /\ down[d] \in Seq(Messages)
  BY DEF SyncTyped
<1>2. down[d] # <<>> /\ Head(down[d]).m = m /\ down' = [down EXCEPT ![d] = Tail(down[d])]
  BY DEF Heard
<1>3. Head(down[d]) \in Messages /\ Tail(down[d]) \in Seq(Messages) /\ Has(down[d], m, Head(down[d]).session)
  BY <1>1, <1>2, HasHead
<1>4. \A k, s : Has(Tail(down[d]), k, s) => Has(down[d], k, s)
  BY <1>1, <1>2, HasTail
<1>5. down' \in [Devices -> Seq(Messages)]
  BY <1>1, <1>2, <1>3
<1>6. \A x \in Devices : \A k, s : Has(down'[x], k, s) => Has(down[x], k, s)
  BY <1>1, <1>2, <1>4
<1> QED
  BY <1>2, <1>3, <1>5, <1>6

\* The server takes a message.
LEMMA SentIs ==
  ASSUME SyncTyped, OneAtATime, NEW d \in Devices, NEW m, Sent(d, m)
  PROVE  /\ up' \in [Devices -> Seq(Messages)] /\ OneAtATime'
         /\ For(d) \in Sessions /\ Has(up[d], m, For(d)) /\ up'[d] = <<>>
         /\ \A s : Has(up'[Source], "start", s) => Has(up[Source], "start", s)
<1>1. up \in [Devices -> Seq(Messages)] /\ up[d] \in Seq(Messages)
  BY DEF SyncTyped
<1>2. up[d] # <<>> /\ Head(up[d]).m = m /\ up' = [up EXCEPT ![d] = Tail(up[d])]
  BY DEF Sent
<1>3. /\ Head(up[d]) \in Messages /\ Tail(up[d]) \in Seq(Messages) /\ Has(up[d], m, Head(up[d]).session)
      /\ Len(Tail(up[d])) = Len(up[d]) - 1 /\ Len(up[d]) \in Nat
  BY <1>1, <1>2, HasHead
<1>4. Head(up[d]).session \in Sessions
  BY <1>3 DEF Messages
<1>5. \A k, s : Has(Tail(up[d]), k, s) => Has(up[d], k, s)
  BY <1>1, <1>2, HasTail
<1>6. Tail(up[d]) = <<>>
  <2>1. Len(up[d]) <= 1
    BY DEF OneAtATime
  <2>2. Len(Tail(up[d])) = 0
    <3>1. Len(up[d]) # 0
      BY <1>1, <1>2, EmptySeq
    <3>2. Len(up[d]) = 1
      <4>1. PICK n : n = Len(up[d])
        OBVIOUS
      <4>2. n \in Nat
        BY <1>3, <4>1
      <4>3. n # 0 /\ n <= 1
        BY <2>1, <3>1, <4>1
      <4>4. n = 1
        BY <4>2, <4>3
      <4> QED
        BY <4>1, <4>4
    <3>3. Len(Tail(up[d])) = 1 - 1
      BY <1>3, <3>2
    <3> QED
      BY <3>3
  <2> QED
    BY <1>3, <2>2, EmptySeq
<1>7. up' \in [Devices -> Seq(Messages)] /\ up'[d] = <<>> /\ \A x \in Devices : x # d => up'[x] = up[x]
  BY <1>1, <1>2, <1>3, <1>6
<1>8. OneAtATime'
  BY <1>7 DEF OneAtATime
<1>9. \A s : Has(up'[Source], "start", s) => Has(up[Source], "start", s)
  <2>1. CASE d = Source
    BY <1>7, <2>1, HasNot
  <2>2. CASE d # Source
    BY <1>7, <2>2, SyncSets
  <2> QED
    BY <2>1, <2>2
<1> QED
  BY <1>3, <1>4, <1>7, <1>8, <1>9 DEF For

\* The server sends an event.
Told(old, new, d, m, s) ==
  /\ new \in [Devices -> Seq(Messages)]
  /\ \A x \in Devices : \A k, z : Has(new[x], k, z) => Has(old[x], k, z) \/ (x = d /\ k = m /\ z = s)

LEMMA TellIs ==
  ASSUME NEW queues \in [Devices -> Seq(Messages)], NEW d \in Devices,
         NEW m \in {"start", "join", "answer", "abort", "offer", "joined", "aborted", "error"},
         NEW s \in Sessions, NEW from \in Devices \cup {None}
  PROVE  Told(queues, Tell(d, m, s, from, queues), d, m, s)
<1> DEFINE e == Msg(m, s, from)
<1> DEFINE new == Tell(d, m, s, from, queues)
<1>1. e \in Messages /\ e.m = m /\ e.session = s
  BY MsgTyped
<1> HIDE DEF e
<1>2. new = [queues EXCEPT ![d] = Append(queues[d], e)]
  BY DEF Tell, e
<1> HIDE DEF new
<1>3. queues[d] \in Seq(Messages) /\ Append(queues[d], e) \in Seq(Messages)
  BY <1>1, AppendProperties
<1>4. new \in [Devices -> Seq(Messages)] /\ new[d] = Append(queues[d], e)
      /\ \A x \in Devices : x # d => new[x] = queues[x]
  BY <1>2, <1>3
<1>5. \A k, z : Has(Append(queues[d], e), k, z) => Has(queues[d], k, z) \/ (k = m /\ z = s)
  BY <1>1, <1>3, HasAppend
<1>6. Told(queues, new, d, m, s)
  BY <1>4, <1>5 DEF Told
<1> QED
  BY <1>6 DEF new

LEMMA ToldOthers ==
  ASSUME NEW old, NEW new, NEW d, NEW m, NEW s, Told(old, new, d, m, s), m # "offer"
  PROVE  /\ new \in [Devices -> Seq(Messages)]
         /\ \A x \in Devices : \A z : Has(new[x], "offer", z) => Has(old[x], "offer", z)
BY DEF Told

LEMMA ToldOffer ==
  ASSUME NEW old, NEW new, NEW d, NEW s, Told(old, new, d, "offer", s)
  PROVE  \A x \in Devices : \A z : Has(new[x], "offer", z) => Has(old[x], "offer", z) \/ (x = d /\ z = s)
BY DEF Told

LEMMA PeerIs ==
  ASSUME SyncTyped, NEW d \in Devices, NEW s \in Sessions, Party(d, s)
  PROVE  Peer(d, s) \in Devices \cup {None} /\ store[s] # None /\ store[s].target \in Targets \cup {None}
<1>1. store[s] # None /\ store[s].target \in Targets \cup {None}
  BY DEF SyncTyped, Party
<1> QED
  BY <1>1, SyncSets DEF Peer

\* The other device of a session is told of its end.
LEMMA TellTheIs ==
  ASSUME SyncTyped, NEW p \in Devices \cup {None}, NEW s \in Sessions
  PROVE  /\ TellThe(p, s, down) \in [Devices -> Seq(Messages)]
         /\ \A x \in Devices : \A z : Has(TellThe(p, s, down)[x], "offer", z) => Has(down[x], "offer", z)
<1>1. down \in [Devices -> Seq(Messages)]
  BY DEF SyncTyped
<1>2. CASE p = None
  BY <1>1, <1>2 DEF TellThe
<1>3. CASE p # None
  <2>1. PICK new : new = Tell(p, "aborted", s, None, down)
    OBVIOUS
  <2>2. Told(down, new, p, "aborted", s)
    BY <1>1, <1>3, <2>1, TellIs
  <2>3. /\ new \in [Devices -> Seq(Messages)]
        /\ \A x \in Devices : \A z : Has(new[x], "offer", z) => Has(down[x], "offer", z)
    BY <2>2 DEF Told
  <2>4. TellThe(p, s, down) = new
    BY <1>3, <2>1 DEF TellThe
  <2> QED
    BY <2>3, <2>4
<1> QED
  BY <1>2, <1>3

\* The queues a page's step leaves, or sends other things through.
LEMMA SameQueues == ASSUME UNCHANGED <<up, down>> PROVE QueuesQuiet
BY DEF QueuesQuiet

LEMMA StartFailsKeeps ==
  ASSUME SyncIndInv, NEW d \in Devices, StartFails(d)
  PROVE  SyncIndInv'
<1>1. SyncTyped /\ OneAtATime
  BY DEF SyncIndInv
<1>2. UNCHANGED <<recv, chan, up, down, store, opening, joining, aborting, made, scans, gone, overlap, lost>>
  BY DEF StartFails, net, server, bounds, history
<1>3. PICK ph : ph = IF dev[d].phase = "away" THEN "away" ELSE "error"
  OBVIOUS
<1> DEFINE q == [Wiped(dev[d]) EXCEPT !.starting = 0, !.at = "none", !.phase = ph]
<1>4. dev' = [dev EXCEPT ![d] = q] /\ ph \in {"error", "away"}
  BY <1>3 DEF StartFails
<1> HIDE DEF q
<1>5. /\ DevSafe /\ chan' \in [Targets -> Chan]
      /\ OpenedUnderKey' /\ DoneIsComplete' /\ StartsFirst' /\ StartsOnce' /\ OneJoins'
  <2>1. RecvQuiet /\ QueuesQuiet
    BY <1>1, <1>2, SameChannels, SameQueues
  <2> QED
    BY <1>2, <1>4, <2>1, EndsKeeps DEF q
<1> QED
  BY <1>1, <1>2, <1>5 DEF SyncIndInv, SyncTyped, OneAtATime, DevSafe

LEMMA AbortKeeps ==
  ASSUME SyncIndInv, NEW d \in Devices, up[d] = <<>>, Abort(d)
  PROVE  SyncIndInv'
<1>1. SyncTyped /\ OneAtATime /\ dev[d] \in Dev
  BY DEF SyncIndInv, SyncTyped
<1>2. UNCHANGED <<recv, down, store, opening, joining, aborting, made, scans, gone, overlap, lost>>
  BY DEF Abort, server, bounds, history
<1>3. PICK q : q = [Wiped(dev[d]) EXCEPT !.phase = "idle"]
  OBVIOUS
<1>4. dev' = [dev EXCEPT ![d] = q] /\ chan' = Closed(d)
  BY <1>3 DEF Abort
<1>5. /\ up' \in [Devices -> Seq(Messages)] /\ OneAtATime'
      /\ \A x \in Sessions : Has(up'[Source], "start", x) => Has(up[Source], "start", x)
  <2>1. CASE dev[d].session # 0
    <3>1. dev[d].session \in Sessions /\ Emit(d, "abort", dev[d].session)
      BY <1>1, <2>1, SyncSets DEF Dev, Abort
    <3> QED
      BY <1>1, <3>1, EmitIs
  <2>2. CASE dev[d].session = 0
    BY <1>1, <2>2 DEF Abort, SyncTyped, OneAtATime
  <2> QED
    BY <2>1, <2>2
<1>6. QueuesQuiet
  BY <1>2, <1>5 DEF QueuesQuiet
<1>7. /\ DevSafe /\ chan' \in [Targets -> Chan]
      /\ OpenedUnderKey' /\ DoneIsComplete' /\ StartsFirst' /\ StartsOnce' /\ OneJoins'
  BY <1>1, <1>2, <1>3, <1>4, <1>6, SameChannels, EndsKeeps
<1> QED
  BY <1>1, <1>2, <1>5, <1>7 DEF SyncIndInv, SyncTyped, DevSafe

LEMMA LeaveKeeps ==
  ASSUME SyncIndInv, NEW d \in Devices, Leave(d)
  PROVE  SyncIndInv'
<1>1. SyncTyped /\ OneAtATime /\ dev[d] \in Dev
  BY DEF SyncIndInv, SyncTyped
<1>2. UNCHANGED <<recv, up, down, store, opening, joining, aborting, made, scans, overlap>>
  BY DEF Leave, net, server
<1>3. PICK q : q = [Wiped(dev[d]) EXCEPT !.phase = "away"]
  OBVIOUS
<1>4. dev' = [dev EXCEPT ![d] = q] /\ chan' = Closed(d)
  BY <1>3 DEF Leave
<1>5. /\ DevSafe /\ chan' \in [Targets -> Chan]
      /\ OpenedUnderKey' /\ DoneIsComplete' /\ StartsFirst' /\ StartsOnce' /\ OneJoins'
  BY <1>1, <1>2, <1>3, <1>4, SameChannels, EndsKeeps, SameQueues
<1>6. gone' \in SUBSET Fragile /\ lost' \in SUBSET Sessions
  BY <1>1, SyncSets DEF Leave, SyncTyped, Dev
<1> QED
  BY <1>1, <1>2, <1>5, <1>6 DEF SyncIndInv, SyncTyped, OneAtATime, DevSafe

\* The other ends are failures, told of or not.
Ends(d, ph) == dev' = [dev EXCEPT ![d] = [Wiped(@) EXCEPT !.phase = ph]] /\ chan' = Closed(d)
LEMMA EndKeeps ==
  ASSUME SyncIndInv, NEW d \in Devices, NEW ph \in {"error", "idle"}, Ends(d, ph), QueuesQuiet, RecvQuiet,
         UNCHANGED <<up, store, opening, joining, aborting, made, scans, gone, overlap>>,
         down' \in [Devices -> Seq(Messages)], lost' \in SUBSET Sessions
  PROVE  SyncIndInv'
<1> DEFINE q == [Wiped(dev[d]) EXCEPT !.phase = ph]
<1>1. SyncTyped /\ OneAtATime
  BY DEF SyncIndInv
<1>2. dev' = [dev EXCEPT ![d] = q] /\ chan' = Closed(d)
  BY DEF Ends
<1> HIDE DEF q
<1>3. q = [Wiped(dev[d]) EXCEPT !.phase = ph]
  BY DEF q
<1>4. /\ DevSafe /\ chan' \in [Targets -> Chan]
      /\ OpenedUnderKey' /\ DoneIsComplete' /\ StartsFirst' /\ StartsOnce' /\ OneJoins'
  BY <1>2, <1>3, EndsKeeps
<1> QED
  BY <1>1, <1>4 DEF SyncIndInv, SyncTyped, OneAtATime, DevSafe, RecvQuiet

LEMMA FailKeeps ==
  ASSUME SyncIndInv, NEW d \in Devices, Fail(d), QueuesQuiet, RecvQuiet,
         UNCHANGED <<up, store, opening, joining, aborting, made, scans, gone, overlap>>,
         down' \in [Devices -> Seq(Messages)], lost' \in SUBSET Sessions
  PROVE  SyncIndInv'
<1>1. Ends(d, "error")
  BY DEF Fail, Ends
<1> QED
  BY <1>1, EndKeeps

LEMMA IceLostKeeps ==
  ASSUME SyncIndInv, NEW d \in Devices, IceLost(d)
  PROVE  SyncIndInv'
<1>1. SyncTyped
  BY DEF SyncIndInv
<1>2. dev[d].session \in Sessions /\ lost \in SUBSET Sessions /\ down \in [Devices -> Seq(Messages)]
  BY SyncSets DEF SyncIndInv, SyncTyped, PagesAgree, IceLost, Dev
<1>3. UNCHANGED <<recv, up, down, store, opening, joining, aborting, made, scans, gone, overlap>>
  BY DEF IceLost, net, server, bounds
<1>4. lost' \in SUBSET Sessions /\ Fail(d)
  BY <1>2 DEF IceLost
<1> QED
  BY <1>1, <1>2, <1>3, <1>4, SameQueues, SameChannels, FailKeeps

LEMMA OnErrorKeeps ==
  ASSUME SyncIndInv, NEW d \in Devices, OnError(d)
  PROVE  SyncIndInv'
<1>1. SyncTyped /\ dev[d] \in Dev
  BY DEF SyncIndInv, SyncTyped
<1>2. UNCHANGED <<recv, up, store, opening, joining, aborting, made, scans, gone, overlap>>
  BY DEF OnError, server, bounds
<1>3. lost' \in SUBSET Sessions /\ Fail(d)
  BY <1>1, SyncSets DEF OnError, SyncTyped, Dev
<1>4. /\ down' \in [Devices -> Seq(Messages)]
      /\ \A x \in Devices : \A k, s : Has(down'[x], k, s) => Has(down[x], k, s)
  BY <1>1, HeardIs DEF OnError
<1>5. QueuesQuiet
  BY <1>2, <1>4, SyncSets DEF QueuesQuiet
<1> QED
  BY <1>1, <1>2, <1>3, <1>4, <1>5, SameChannels, FailKeeps

\* Steps that leave every record and channel alone.
LEMMA StillKeeps ==
  ASSUME SyncIndInv, QueuesQuiet, UNCHANGED <<dev, chan, opening, joining, made, scans>>,
         aborting' \in [Devices -> Aborts],
         RecvQuiet,
         up' \in [Devices -> Seq(Messages)], OneAtATime', down' \in [Devices -> Seq(Messages)],
         store' \in [Sessions -> {None} \cup [target : Targets \cup {None}]],
         \A s \in Sessions : store'[s] = None \/ store'[s] = store[s],
         gone' \in SUBSET Fragile, overlap \subseteq overlap', overlap' \in SUBSET Sessions,
         lost' \in SUBSET Sessions
  PROVE  SyncIndInv'
<1>1. /\ SyncTyped /\ PagesAgree /\ SecretsWiped /\ OpenedUnderKey /\ DoneIsComplete
      /\ StartsFirst /\ StartsOnce /\ OneJoins
  BY DEF SyncIndInv
<1>2. NoNews
  BY <1>1, QuietStill
<1>3. DevSafe
  BY <1>1, NoDev
<1>4. OpenedUnderKey' /\ DoneIsComplete'
  <2>1. NobodySucceeds /\ ChanQuiet
    BY <1>1 DEF NobodySucceeds, ChanQuiet, SyncTyped
  <2> QED
    BY <1>1, <2>1, QuietChannel
<1>5. StartsFirst' /\ StartsOnce' /\ OneJoins'
  BY <1>1, <1>2, NoNewsKeeps
<1>6. SyncTyped'
  BY <1>1 DEF SyncTyped, RecvQuiet
<1> QED
  BY <1>3, <1>4, <1>5, <1>6 DEF SyncIndInv, DevSafe

LEMMA OnAbortedKeeps ==
  ASSUME SyncIndInv, NEW d \in Devices, OnAborted(d)
  PROVE  SyncIndInv'
<1>1. SyncTyped /\ OneAtATime
  BY DEF SyncIndInv
<1>2. UNCHANGED <<recv, up, store, opening, joining, aborting, made, scans, gone, overlap, lost>>
  BY DEF OnAborted, server, bounds, history
<1>3. /\ down' \in [Devices -> Seq(Messages)]
      /\ \A x \in Devices : \A k, s : Has(down'[x], k, s) => Has(down[x], k, s)
  BY <1>1, HeardIs DEF OnAborted
<1>4. QueuesQuiet
  BY <1>2, <1>3, SyncSets DEF QueuesQuiet
<1>5. CASE Ours(d)
  <2>1. PICK ph : ph = IF dev[d].phase = "idle" THEN "idle" ELSE "error"
    OBVIOUS
  <2>2. Ends(d, ph) /\ ph \in {"idle", "error"} /\ lost' \in SUBSET Sessions
    BY <1>1, <1>2, <1>5, <2>1 DEF OnAborted, Ends, SyncTyped
  <2> QED
    BY <1>1, <1>2, <1>3, <1>4, <2>2, SameChannels, EndKeeps
<1>6. CASE ~Ours(d)
  <2>1. UNCHANGED <<dev, chan>>
    BY <1>6 DEF OnAborted
  <2> QED
    BY <1>1, <1>2, <1>3, <1>4, <2>1, SameChannels, StillKeeps DEF SyncTyped, OneAtATime
<1> QED
  BY <1>5, <1>6

\* A page's record moves on: nobody succeeds, no target gets keys.
LEMMA MoveKeeps ==
  ASSUME SyncIndInv, NEW d \in Devices, NEW q, GoodDev(d, q), dev' = [dev EXCEPT ![d] = q],
         d \in Targets => /\ q.keys # None => dev[d].keys # None /\ q.session = dev[d].session
                          /\ q.phase = "done" => dev[d].phase = "done",
         d = Source => q.starting \in {dev[Source].starting, 0},
         UNCHANGED <<made, opening, joining, overlap, store>>, QueuesQuiet, ChanQuiet, RecvQuiet
  PROVE  /\ DevSafe /\ OpenedUnderKey' /\ DoneIsComplete' /\ StartsFirst' /\ StartsOnce' /\ OneJoins'
<1>1. /\ SyncTyped /\ PagesAgree /\ SecretsWiped /\ OpenedUnderKey /\ DoneIsComplete
      /\ StartsFirst /\ StartsOnce /\ OneJoins
  BY DEF SyncIndInv
<1>2. DevSafe /\ dev'[d] = q /\ \A x \in Devices : x # d => dev'[x] = dev[x]
  BY <1>1, OneDev
<1>3. NobodySucceeds
  BY <1>2, SyncSets DEF NobodySucceeds
<1>4. NoNews
  BY <1>1, QuietNews
<1>5. OpenedUnderKey' /\ DoneIsComplete'
  BY <1>1, <1>3, QuietChannel
<1> QED
  BY <1>1, <1>2, <1>4, <1>5, NoNewsKeeps

LEMMA OnPeerJoinedKeeps ==
  ASSUME SyncIndInv, OnPeerJoined
  PROVE  SyncIndInv'
<1>1. SyncTyped /\ OneAtATime /\ dev[Source] \in Dev /\ PagesAgree
  BY SyncSets DEF SyncIndInv, SyncTyped
<1>2. UNCHANGED <<recv, chan, up, store, opening, joining, aborting, made, scans, gone, overlap, lost>>
  BY DEF OnPeerJoined, server, bounds, history
<1>3. /\ down' \in [Devices -> Seq(Messages)] /\ Head(down[Source]) \in Messages
      /\ \A x \in Devices : \A k, s : Has(down'[x], k, s) => Has(down[x], k, s)
  BY <1>1, SyncSets, HeardIs DEF OnPeerJoined
<1>4. QueuesQuiet
  BY <1>2, <1>3, SyncSets DEF QueuesQuiet
<1>5. CASE Live(Source)
  <2>1. PICK q : q = [dev[Source] EXCEPT !.phase = "handshaking", !.deriving = Head(down[Source]).from]
    OBVIOUS
  <2>2. dev' = [dev EXCEPT ![Source] = q]
    BY <1>5, <2>1 DEF OnPeerJoined
  <2>3. Head(down[Source]).from \in Devices \cup {None} /\ "handshaking" \in Phases
    BY <1>3 DEF Messages, Phases
  <2>4. /\ q \in Dev /\ q.remote = dev[Source].remote /\ q.session = dev[Source].session
        /\ q.phase = "handshaking" /\ q.starting = dev[Source].starting /\ q.at = dev[Source].at
    BY <1>1, <2>1, <2>3 DEF Dev
  <2>5. GoodDev(Source, q)
    BY <1>1, <2>4, SyncSets DEF GoodDev, PagesAgree, FlowOk
  <2>6. /\ DevSafe /\ OpenedUnderKey' /\ DoneIsComplete' /\ StartsFirst' /\ StartsOnce' /\ OneJoins'
    BY <1>1, <1>2, <1>4, <2>2, <2>4, <2>5, SyncSets, SameChannels, MoveKeeps
  <2> QED
    BY <1>1, <1>2, <1>3, <2>6 DEF SyncIndInv, SyncTyped, OneAtATime, DevSafe
<1>6. CASE ~Live(Source)
  <2>1. dev' = dev
    BY <1>6 DEF OnPeerJoined
  <2> QED
    BY <1>1, <1>2, <1>3, <1>4, <2>1, SameChannels, StillKeeps DEF SyncTyped, OneAtATime
<1> QED
  BY <1>5, <1>6

LEMMA DerivedKeeps ==
  ASSUME SyncIndInv, Derived
  PROVE  SyncIndInv'
<1>1. SyncTyped /\ OneAtATime /\ dev[Source] \in Dev /\ PagesAgree /\ SecretsWiped
  BY SyncSets DEF SyncIndInv, SyncTyped
<1>2. UNCHANGED <<recv, chan, up, down, store, opening, joining, aborting, made, scans, gone, overlap, lost>>
  BY DEF Derived, net, server, bounds, history
<1>3. PICK q : q = [dev[Source] EXCEPT !.keys = dev[Source].deriving, !.deriving = None]
  OBVIOUS
<1>4. dev' = [dev EXCEPT ![Source] = q]
  BY <1>3 DEF Derived
<1>5. /\ q \in Dev /\ q.remote = dev[Source].remote /\ q.session = dev[Source].session
      /\ q.phase = dev[Source].phase /\ q.starting = dev[Source].starting /\ q.at = dev[Source].at
  BY <1>1, <1>3 DEF Dev
<1>6. GoodDev(Source, q)
  BY <1>1, <1>2, <1>5, SyncSets DEF GoodDev, PagesAgree, FlowOk, SecretsWiped
<1>7. /\ DevSafe /\ OpenedUnderKey' /\ DoneIsComplete' /\ StartsFirst' /\ StartsOnce' /\ OneJoins'
  BY <1>1, <1>2, <1>4, <1>5, <1>6, SyncSets, SameQueues, SameChannels, MoveKeeps
<1> QED
  BY <1>1, <1>2, <1>7 DEF SyncIndInv, SyncTyped, OneAtATime, DevSafe

LEMMA OnPeerAnswerKeeps ==
  ASSUME SyncIndInv, OnPeerAnswer
  PROVE  SyncIndInv'
<1>1. SyncTyped /\ OneAtATime /\ dev[Source] \in Dev /\ PagesAgree /\ SecretsWiped
  BY SyncSets DEF SyncIndInv, SyncTyped
<1>2. UNCHANGED <<recv, up, store, opening, joining, aborting, made, scans, gone, overlap>>
  BY DEF OnPeerAnswer, server, bounds
<1>3. /\ down' \in [Devices -> Seq(Messages)] /\ Head(down[Source]) \in Messages
      /\ \A x \in Devices : \A k, s : Has(down'[x], k, s) => Has(down[x], k, s)
  BY <1>1, SyncSets, HeardIs DEF OnPeerAnswer
<1>4. QueuesQuiet
  BY <1>2, <1>3, SyncSets DEF QueuesQuiet
<1>5. CASE ~Live(Source)
  <2>1. UNCHANGED <<dev, chan, lost>>
    BY <1>5 DEF OnPeerAnswer
  <2> QED
    BY <1>1, <1>2, <1>3, <1>4, <2>1, SameChannels, StillKeeps DEF SyncTyped, OneAtATime
<1>6. CASE Live(Source)
  <2>1. dev[Source].session \in Sessions
    BY <1>3, <1>6 DEF Live, Ours, Messages
  <2>2. CASE dev[Source].remote # None
    <3>1. Fail(Source) /\ lost' \in SUBSET Sessions
      BY <1>1, <1>6, <2>1, <2>2 DEF OnPeerAnswer, SyncTyped
    <3> QED
      BY <1>1, <1>2, <1>3, <1>4, <3>1, SyncSets, SameChannels, FailKeeps
  <2>3. CASE dev[Source].remote = None
    <3>1. PICK q : q = [dev[Source] EXCEPT !.remote = Head(down[Source]).from]
      OBVIOUS
    <3>2. dev' = [dev EXCEPT ![Source] = q] /\ UNCHANGED <<chan, lost>>
      BY <1>6, <2>3, <3>1 DEF OnPeerAnswer
    <3>3. Head(down[Source]).from \in Devices \cup {None}
      BY <1>3 DEF Messages
    <3>4. /\ q \in Dev /\ q.session = dev[Source].session
          /\ q.phase = dev[Source].phase /\ q.starting = dev[Source].starting /\ q.at = dev[Source].at
      BY <1>1, <3>1, <3>3 DEF Dev
    <3>5. GoodDev(Source, q)
      BY <1>1, <1>2, <2>1, <3>4, SyncSets DEF GoodDev, PagesAgree, FlowOk, SecretsWiped
    <3>6. /\ DevSafe /\ OpenedUnderKey' /\ DoneIsComplete' /\ StartsFirst' /\ StartsOnce' /\ OneJoins'
      BY <1>1, <1>2, <1>4, <3>2, <3>4, <3>5, SyncSets, SameChannels, MoveKeeps
    <3> QED
      BY <1>1, <1>2, <1>3, <3>2, <3>6 DEF SyncIndInv, SyncTyped, OneAtATime, DevSafe
  <2> QED
    BY <2>2, <2>3
<1> QED
  BY <1>5, <1>6

LEMMA SourceDoneKeeps ==
  ASSUME SyncIndInv, NEW t \in Targets, SourceDone(t)
  PROVE  SyncIndInv'
<1>1. SyncTyped /\ OneAtATime
  BY DEF SyncIndInv
<1>2. UNCHANGED <<recv, up, down, store, opening, joining, aborting, made, scans, gone, overlap, lost>>
  BY DEF SourceDone, net, server, bounds, history
<1>3. PICK q : q = [Wiped(dev[Source]) EXCEPT !.phase = "done"]
  OBVIOUS
<1>4. dev' = [dev EXCEPT ![Source] = q] /\ chan' = Closed(Source)
  BY <1>3 DEF SourceDone
<1>5. /\ DevSafe /\ chan' \in [Targets -> Chan]
      /\ OpenedUnderKey' /\ DoneIsComplete' /\ StartsFirst' /\ StartsOnce' /\ OneJoins'
  BY <1>1, <1>2, <1>3, <1>4, SyncSets, SameChannels, EndsKeeps, SameQueues
<1> QED
  BY <1>1, <1>2, <1>5 DEF SyncIndInv, SyncTyped, OneAtATime, DevSafe

LEMMA ChannelClosedKeeps ==
  ASSUME SyncIndInv, NEW t \in Targets, ChannelClosed(t)
  PROVE  SyncIndInv'
<1>1. SyncTyped
  BY DEF SyncIndInv
<1>2. UNCHANGED <<recv, up, down, store, opening, joining, aborting, made, scans, gone, overlap, lost>> /\ Fail(t)
  BY DEF ChannelClosed, net, server, bounds, history
<1> QED
  BY <1>1, <1>2, SyncSets, SameQueues, SameChannels, FailKeeps DEF SyncTyped

LEMMA SendKeeps ==
  ASSUME SyncIndInv, NEW t \in Targets, Send(t)
  PROVE  SyncIndInv'
<1>1. /\ SyncTyped /\ OneAtATime /\ PagesAgree /\ SecretsWiped /\ OpenedUnderKey /\ DoneIsComplete
      /\ StartsFirst /\ StartsOnce /\ OneJoins
  BY DEF SyncIndInv
<1>2. UNCHANGED <<dev, recv, up, down, store, opening, joining, aborting, made, scans, gone, overlap, lost>>
  BY DEF Send, net, server, bounds, history
<1>3. chan \in [Targets -> Chan] /\ chan[t] \in Chan
  BY <1>1 DEF SyncTyped
<1>4. PICK c : c = [chan[t] EXCEPT !.sent = @ + 1, !.frames = Append(@, chan[t].sent + 1)]
  OBVIOUS
<1>5. chan[t].sent + 1 \in 0 .. Manifest /\ Append(chan[t].frames, chan[t].sent + 1) \in Seq(Frames)
  <2>1. chan[t].sent \in 0 .. Manifest /\ chan[t].sent < Manifest /\ chan[t].frames \in Seq(Frames)
    BY <1>3 DEF Chan, Send
  <2>2. chan[t].sent + 1 \in 0 .. Manifest /\ chan[t].sent + 1 \in Frames
    BY <2>1, SyncSets DEF Frames
  <2> QED
    BY <2>1, <2>2, AppendProperties
<1>6. c \in Chan /\ c.key = chan[t].key /\ c.open = chan[t].open
  BY <1>3, <1>4, <1>5 DEF Chan
<1>7. chan' = [chan EXCEPT ![t] = c]
  BY <1>4 DEF Send
<1>8. ChanQuiet
  BY <1>3, <1>6, <1>7 DEF ChanQuiet
<1>9. NoNews
  BY <1>1, <1>2, SameQueues, QuietStill
<1>10. DevSafe
  BY <1>1, <1>2, NoDev
<1>11. OpenedUnderKey' /\ DoneIsComplete'
  BY <1>1, <1>2, <1>8, SameChannels, QuietChannel DEF NobodySucceeds
<1>12. StartsFirst' /\ StartsOnce' /\ OneJoins'
  BY <1>1, <1>9, NoNewsKeeps
<1> QED
  BY <1>1, <1>2, <1>8, <1>10, <1>11, <1>12 DEF SyncIndInv, SyncTyped, OneAtATime, DevSafe, ChanQuiet

LEMMA TargetOpenKeeps ==
  ASSUME SyncIndInv, NEW t \in Targets, TargetOpen(t)
  PROVE  SyncIndInv'
<1>1. SyncTyped /\ OneAtATime
  BY DEF SyncIndInv
<1>2. UNCHANGED <<dev, chan, up, down, store, opening, joining, aborting, made, scans, gone, overlap, lost>>
  BY DEF TargetOpen, net, server, bounds, history
<1>3. RecvQuiet
  BY <1>1 DEF TargetOpen, RecvQuiet, SyncTyped, Recv
<1> QED
  BY <1>1, <1>2, <1>3, SameQueues, StillKeeps DEF SyncTyped, OneAtATime

\* Steps of a target's handlers: no record, queue or session changes.
LEMMA HandlerKeeps ==
  ASSUME SyncIndInv, ChanQuiet, recv' \in [Targets -> Recv], OpenedUnderKey', DoneIsComplete',
         UNCHANGED <<dev, up, down, store, opening, joining, aborting, made, scans, gone, overlap, lost>>
  PROVE  SyncIndInv'
<1>1. /\ SyncTyped /\ OneAtATime /\ PagesAgree /\ SecretsWiped
      /\ StartsFirst /\ StartsOnce /\ OneJoins
  BY DEF SyncIndInv
<1>2. NoNews
  BY <1>1, SameQueues, QuietStill
<1>3. DevSafe
  BY <1>1, NoDev
<1>4. StartsFirst' /\ StartsOnce' /\ OneJoins'
  BY <1>1, <1>2, NoNewsKeeps
<1> QED
  BY <1>1, <1>3, <1>4 DEF SyncIndInv, SyncTyped, OneAtATime, DevSafe, ChanQuiet

LEMMA OnFrameKeeps ==
  ASSUME SyncIndInv, NEW t \in Targets, OnFrame(t)
  PROVE  SyncIndInv'
<1>1. SyncTyped /\ OpenedUnderKey /\ DoneIsComplete /\ recv[t] \in Recv /\ chan[t] \in Chan
  BY DEF SyncIndInv, SyncTyped
<1>2. UNCHANGED <<dev, up, down, store, opening, joining, aborting, made, scans, gone, overlap, lost>>
  BY DEF OnFrame, net, server, bounds, history
<1>3. Head(chan[t].frames) \in Frames /\ Tail(chan[t].frames) \in Seq(Frames)
  BY <1>1, HeadTailProperties DEF OnFrame, Chan
<1>4. Append(recv[t].opening, Head(chan[t].frames)) \in Seq(Frames)
  BY <1>1, <1>3, AppendProperties DEF Recv
<1>5. PICK r : r = [recv[t] EXCEPT !.opening = Append(@, Head(chan[t].frames))]
  OBVIOUS
<1>6. r \in Recv /\ r.hashing = recv[t].hashing /\ r.hashed = recv[t].hashed /\ r.manifest = recv[t].manifest
  BY <1>1, <1>4, <1>5 DEF Recv
<1>7. recv' = [recv EXCEPT ![t] = r]
  BY <1>5 DEF OnFrame
<1>8. RecvQuiet
  BY <1>1, <1>6, <1>7 DEF RecvQuiet, SyncTyped
<1>9. PICK c : c = [chan[t] EXCEPT !.frames = Tail(@)]
  OBVIOUS
<1>10. c \in Chan /\ c.key = chan[t].key /\ c.open = chan[t].open
  BY <1>1, <1>3, <1>9 DEF Chan
<1>11. chan' = [chan EXCEPT ![t] = c]
  BY <1>9 DEF OnFrame
<1>12. ChanQuiet
  BY <1>1, <1>10, <1>11 DEF ChanQuiet, SyncTyped
<1>13. OpenedUnderKey' /\ DoneIsComplete'
  BY <1>1, <1>2, <1>8, <1>12, QuietChannel DEF NobodySucceeds
<1> QED
  BY <1>2, <1>8, <1>12, <1>13, HandlerKeeps DEF RecvQuiet

LEMMA HashKeeps ==
  ASSUME SyncIndInv, NEW t \in Targets, Hash(t)
  PROVE  SyncIndInv'
<1>1. SyncTyped /\ OpenedUnderKey /\ DoneIsComplete /\ recv[t] \in Recv
  BY DEF SyncIndInv, SyncTyped
<1>2. UNCHANGED <<dev, chan, up, down, store, opening, joining, aborting, made, scans, gone, overlap, lost>>
  BY DEF Hash, net, server, bounds, history
<1>3. PICK n \in recv[t].hashing :
        recv' = [recv EXCEPT ![t] = [recv[t] EXCEPT !.hashing = @ \ {n}, !.hashed = @ \cup {n},
                                                    !.importing = @ \cup {n}]]
  BY DEF Hash
<1>4. PICK r : r = [recv[t] EXCEPT !.hashing = @ \ {n}, !.hashed = @ \cup {n}, !.importing = @ \cup {n}]
  OBVIOUS
<1>5. n \in 1 .. Records /\ n \in Frames
  BY <1>1, <1>3 DEF OpenedUnderKey, Recv
<1>6. /\ r \in Recv /\ r.hashing \subseteq recv[t].hashing /\ r.hashed = recv[t].hashed \cup {n}
      /\ r.manifest = recv[t].manifest
  BY <1>1, <1>4, <1>5 DEF Recv
<1>7. recv' = [recv EXCEPT ![t] = r]
  BY <1>3, <1>4
<1>8. recv' \in [Targets -> Recv] /\ recv'[t] = r /\ \A x \in Targets : x # t => recv'[x] = recv[x]
  BY <1>1, <1>6, <1>7 DEF SyncTyped
<1>9. ASSUME NEW x \in Targets
      PROVE  /\ recv'[x].hashing \cup recv'[x].hashed \subseteq 1 .. Records
             /\ chan'[x].key # None => chan'[x].open
             /\ recv'[x].manifest => chan'[x].key = x
             /\ dev'[x].phase = "done" => recv'[x].hashed = 1 .. Records /\ chan'[x].key = x
  <2>1. CASE x = t
    BY <1>1, <1>2, <1>5, <1>6, <1>8, <2>1 DEF OpenedUnderKey, DoneIsComplete
  <2>2. CASE x # t
    BY <1>1, <1>2, <1>8, <2>2 DEF OpenedUnderKey, DoneIsComplete
  <2> QED
    BY <2>1, <2>2
<1>10. OpenedUnderKey' /\ DoneIsComplete'
  BY <1>9 DEF OpenedUnderKey, DoneIsComplete
<1> QED
  BY <1>1, <1>2, <1>8, <1>10, HandlerKeeps, SameChannels

LEMMA ImportKeeps ==
  ASSUME SyncIndInv, NEW t \in Targets, Import(t)
  PROVE  SyncIndInv'
<1>1. SyncTyped /\ OneAtATime /\ recv[t] \in Recv
  BY DEF SyncIndInv, SyncTyped
<1>2. UNCHANGED <<up, down, store, opening, joining, aborting, made, scans, gone, overlap, lost>>
  BY DEF Import, net, server, bounds, history
<1>3. PICK n \in recv[t].importing :
        \/ /\ recv' = [recv EXCEPT ![t] = [recv[t] EXCEPT !.importing = @ \ {n}, !.imported = @ \cup {n}]]
           /\ UNCHANGED <<dev, chan>>
        \/ /\ recv' = [recv EXCEPT ![t] = [recv[t] EXCEPT !.importing = @ \ {n}]]
           /\ IF dev[t].aborted THEN UNCHANGED <<dev, chan>> ELSE Fail(t)
  BY DEF Import
<1>4. RecvQuiet /\ (UNCHANGED <<dev, chan>> \/ Fail(t))
  <2>1. n \in Frames
    BY <1>1 DEF Recv
  <2>2. CASE /\ recv' = [recv EXCEPT ![t] = [recv[t] EXCEPT !.importing = @ \ {n}, !.imported = @ \cup {n}]]
             /\ UNCHANGED <<dev, chan>>
    <3>1. PICK r : r = [recv[t] EXCEPT !.importing = @ \ {n}, !.imported = @ \cup {n}]
      OBVIOUS
    <3>2. r \in Recv /\ r.hashing = recv[t].hashing /\ r.hashed = recv[t].hashed /\ r.manifest = recv[t].manifest
      BY <1>1, <2>1, <3>1 DEF Recv
    <3>3. recv' = [recv EXCEPT ![t] = r]
      BY <2>2, <3>1
    <3> QED
      BY <1>1, <2>2, <3>2, <3>3 DEF RecvQuiet, SyncTyped
  <2>3. CASE /\ recv' = [recv EXCEPT ![t] = [recv[t] EXCEPT !.importing = @ \ {n}]]
             /\ IF dev[t].aborted THEN UNCHANGED <<dev, chan>> ELSE Fail(t)
    <3>1. PICK r : r = [recv[t] EXCEPT !.importing = @ \ {n}]
      OBVIOUS
    <3>2. r \in Recv /\ r.hashing = recv[t].hashing /\ r.hashed = recv[t].hashed /\ r.manifest = recv[t].manifest
      BY <1>1, <3>1 DEF Recv
    <3>3. recv' = [recv EXCEPT ![t] = r]
      BY <2>3, <3>1
    <3> QED
      BY <1>1, <2>3, <3>2, <3>3 DEF RecvQuiet, SyncTyped
  <2> QED
    BY <1>3, <2>2, <2>3
<1>5. CASE UNCHANGED <<dev, chan>>
  BY <1>1, <1>2, <1>4, <1>5, SameQueues, StillKeeps DEF SyncTyped, OneAtATime
<1>6. CASE Fail(t)
  BY <1>1, <1>2, <1>4, <1>6, SyncSets, SameQueues, FailKeeps DEF SyncTyped
<1> QED
  BY <1>4, <1>5, <1>6

LEMMA OpenFrameKeeps ==
  ASSUME SyncIndInv, NEW t \in Targets, OpenFrame(t)
  PROVE  SyncIndInv'
<1>1. /\ SyncTyped /\ OneAtATime /\ OpenedUnderKey /\ DoneIsComplete /\ recv[t] \in Recv
      /\ dev[t] \in Dev /\ PagesAgree /\ SecretsWiped
  BY SyncSets DEF SyncIndInv, SyncTyped
<1>2. UNCHANGED <<up, down, store, opening, joining, aborting, made, scans, gone, overlap, lost>>
  BY DEF OpenFrame, net, server, bounds, history
<1> DEFINE frame == Head(recv[t].opening)
<1>3. frame \in Frames /\ Tail(recv[t].opening) \in Seq(Frames)
  BY <1>1, HeadTailProperties DEF OpenFrame, Recv
<1>4. CASE chan[t].key # t
  <2>1. PICK r : r = [recv[t] EXCEPT !.opening = Tail(@)]
    OBVIOUS
  <2>2. r \in Recv /\ r.hashing = recv[t].hashing /\ r.hashed = recv[t].hashed /\ r.manifest = recv[t].manifest
    BY <1>1, <1>3, <2>1 DEF Recv
  <2>3. recv' = [recv EXCEPT ![t] = r] /\ (UNCHANGED <<dev, chan>> \/ Fail(t))
    BY <1>4, <2>1 DEF OpenFrame
  <2>4. RecvQuiet
    BY <1>1, <2>2, <2>3 DEF RecvQuiet, SyncTyped
  <2>5. CASE UNCHANGED <<dev, chan>>
    BY <1>1, <1>2, <2>4, <2>5, SameQueues, StillKeeps DEF SyncTyped, OneAtATime
  <2>6. CASE Fail(t)
    BY <1>1, <1>2, <2>4, <2>6, SyncSets, SameQueues, FailKeeps DEF SyncTyped
  <2> QED
    BY <2>3, <2>5, <2>6
<1>5. CASE chan[t].key = t
  <2>1. PICK r : r = [recv[t] EXCEPT !.opening = Tail(@), !.hashing = @ \cup ({frame} \ {Manifest}),
                                     !.manifest = @ \/ frame = Manifest]
    OBVIOUS
  <2>2. /\ recv' = [recv EXCEPT ![t] = r] /\ chan' = chan
        /\ dev' = IF frame = Manifest /\ ~dev[t].aborted THEN [dev EXCEPT ![t].phase = "verifying"] ELSE dev
    BY <1>5, <2>1 DEF OpenFrame
  <2>3. {frame} \ {Manifest} \subseteq 1 .. Records
    BY <1>3, SyncSets DEF Frames
  <2> HIDE DEF frame
  <2>4. PICK b \in BOOLEAN : b = (recv[t].manifest \/ frame = Manifest)
    OBVIOUS
  <2>5. r = [recv[t] EXCEPT !.opening = Tail(@), !.hashing = @ \cup ({frame} \ {Manifest}), !.manifest = b]
    BY <2>1, <2>4
  <2>6. r \in Recv /\ r.hashing = recv[t].hashing \cup ({frame} \ {Manifest}) /\ r.hashed = recv[t].hashed
    BY <1>1, <1>3, <2>3, <2>5 DEF Recv
  <2>7. recv' \in [Targets -> Recv] /\ recv'[t] = r /\ \A x \in Targets : x # t => recv'[x] = recv[x]
    BY <1>1, <2>2, <2>6 DEF SyncTyped
  <2>8. OpenedUnderKey'
    BY <1>1, <1>5, <2>2, <2>3, <2>6, <2>7 DEF OpenedUnderKey
  <2>9. ASSUME NobodySucceeds PROVE DoneIsComplete'
    BY <1>1, <2>2, <2>6, <2>7, <2>9 DEF DoneIsComplete, NobodySucceeds
  <2>10. CASE dev' = dev
    <3>1. DoneIsComplete' /\ ChanQuiet
      BY <1>1, <2>2, <2>9, <2>10, SameChannels DEF NobodySucceeds
    <3> QED
      BY <1>2, <2>7, <2>8, <2>10, <3>1, HandlerKeeps
  <2>11. CASE dev' = [dev EXCEPT ![t].phase = "verifying"]
    <3>1. PICK q : q = [dev[t] EXCEPT !.phase = "verifying"]
      OBVIOUS
    <3>2. dev' = [dev EXCEPT ![t] = q]
      BY <2>11, <3>1
    <3>3. "verifying" \in Phases
      BY DEF Phases
    <3>4. /\ q \in Dev /\ q.remote = dev[t].remote /\ q.session = dev[t].session /\ q.keys = dev[t].keys
          /\ q.phase = "verifying" /\ q.at = dev[t].at /\ q.starting = dev[t].starting
      BY <1>1, <3>1, <3>3 DEF Dev
    <3>5. GoodDev(t, q)
      BY <1>1, <3>4, SyncSets DEF GoodDev, PagesAgree, FlowOk
    <3>6. DevSafe /\ dev'[t] = q /\ \A x \in Devices : x # t => dev'[x] = dev[x]
      BY <1>1, <1>2, <3>2, <3>5, SyncSets, OneDev
    <3>7. DoneIsComplete' /\ ChanQuiet
      BY <1>1, <2>2, <2>9, <3>4, <3>6, SyncSets, SameChannels DEF NobodySucceeds
    <3>8. NoNews
      BY <1>1, <1>2, <3>2, <3>4, SyncSets, SameQueues, QuietNews
    <3>9. StartsFirst' /\ StartsOnce' /\ OneJoins'
      BY <3>8, NoNewsKeeps DEF SyncIndInv
    <3> QED
      BY <1>1, <1>2, <2>7, <2>8, <3>6, <3>7, <3>9 DEF SyncIndInv, SyncTyped, OneAtATime, DevSafe, ChanQuiet
  <2> QED
    BY <2>2, <2>10, <2>11
<1> QED
  BY <1>4, <1>5

LEMMA VerifyKeeps ==
  ASSUME SyncIndInv, NEW t \in Targets, Verify(t)
  PROVE  SyncIndInv'
<1>1. /\ SyncTyped /\ OneAtATime /\ OpenedUnderKey /\ DoneIsComplete /\ recv[t] \in Recv
      /\ dev[t] \in Dev /\ PagesAgree /\ SecretsWiped
  BY SyncSets DEF SyncIndInv, SyncTyped
<1>2. UNCHANGED <<up, down, store, opening, joining, aborting, made, scans, gone, overlap, lost>>
  BY DEF Verify, net, server, bounds, history
<1>3. CASE recv[t].hashed # 1 .. Records
  <2>1. PICK r : r = [recv[t] EXCEPT !.manifest = FALSE]
    OBVIOUS
  <2>2. r \in Recv /\ r.hashing = recv[t].hashing /\ r.hashed = recv[t].hashed /\ ~r.manifest
    BY <1>1, <2>1 DEF Recv
  <2>3. recv' = [recv EXCEPT ![t] = r] /\ Fail(t)
    BY <1>3, <2>1 DEF Verify
  <2>4. RecvQuiet
    BY <1>1, <2>2, <2>3 DEF RecvQuiet, SyncTyped
  <2> QED
    BY <1>1, <1>2, <2>3, <2>4, SyncSets, SameQueues, FailKeeps DEF SyncTyped
<1>4. CASE recv[t].hashed = 1 .. Records
  <2>1. PICK r : r = [recv[t] EXCEPT !.manifest = FALSE, !.verified = TRUE]
    OBVIOUS
  <2>2. r \in Recv /\ r.hashing = recv[t].hashing /\ r.hashed = recv[t].hashed /\ ~r.manifest
    BY <1>1, <2>1 DEF Recv
  <2>3. PICK q : q = [Wiped(dev[t]) EXCEPT !.phase = "done"]
    OBVIOUS
  <2>4. recv' = [recv EXCEPT ![t] = r] /\ dev' = [dev EXCEPT ![t] = q] /\ chan' = Closed(t)
    BY <1>4, <2>1, <2>3 DEF Verify, Finish
  <2>5. RecvQuiet /\ recv'[t] = r
    BY <1>1, <2>2, <2>4 DEF RecvQuiet, SyncTyped
  <2>6. GoodDev(t, q) /\ q.keys = None
    BY <1>1, <2>3, SyncSets, EndedIs DEF PagesAgree
  <2>7. DevSafe /\ dev'[t] = q /\ \A x \in Devices : x # t => dev'[x] = dev[x]
    BY <1>1, <1>2, <2>4, <2>6, SyncSets, OneDev
  <2>8. ChanQuiet
    BY <1>1, <2>4, ClosedQuiet
  <2>9. chan[t].key = t
    BY <1>1 DEF Verify, OpenedUnderKey
  <2>10. OpenedUnderKey'
    BY <1>1, <2>5, <2>8 DEF OpenedUnderKey, RecvQuiet, ChanQuiet
  <2>11. DoneIsComplete'
    <3>1. ASSUME NEW x \in Targets, dev'[x].phase = "done"
          PROVE  recv'[x].hashed = 1 .. Records /\ chan'[x].key = x
      <4>1. CASE x = t
        BY <1>4, <2>5, <2>8, <2>9, <4>1 DEF RecvQuiet, ChanQuiet
      <4>2. CASE x # t
        BY <1>1, <2>5, <2>7, <2>8, <3>1, <4>2, SyncSets DEF RecvQuiet, ChanQuiet, DoneIsComplete
      <4> QED
        BY <4>1, <4>2
    <3> QED
      BY <3>1 DEF DoneIsComplete
  <2>12. NoNews
    BY <1>1, <1>2, <2>4, <2>6, SyncSets, SameQueues, QuietNews
  <2>13. StartsFirst' /\ StartsOnce' /\ OneJoins'
    BY <2>12, NoNewsKeeps DEF SyncIndInv
  <2> QED
    BY <1>1, <1>2, <2>5, <2>7, <2>8, <2>10, <2>11, <2>13
       DEF SyncIndInv, SyncTyped, OneAtATime, DevSafe, ChanQuiet, RecvQuiet
<1> QED
  BY <1>3, <1>4

\* The channel that opens was not open, so nothing came through it.
LEMMA SourceOpenKeeps ==
  ASSUME SyncIndInv, NEW t \in Targets, SourceOpen(t)
  PROVE  SyncIndInv'
<1>1. /\ SyncTyped /\ OneAtATime /\ OpenedUnderKey /\ DoneIsComplete
      /\ dev[Source] \in Dev /\ PagesAgree /\ SecretsWiped
  BY SyncSets DEF SyncIndInv, SyncTyped
<1>2. UNCHANGED <<recv, up, down, store, opening, joining, aborting, made, scans, gone, overlap>>
  BY DEF SourceOpen, net, server, bounds
<1>3. dev[Source].session \in Sessions
  BY <1>1, SyncSets DEF SourceOpen, PagesAgree, Dev
<1>4. CASE dev[Source].keys = None
  <2>1. Fail(Source) /\ lost' \in SUBSET Sessions
    BY <1>1, <1>3, <1>4 DEF SourceOpen, SyncTyped
  <2> QED
    BY <1>1, <1>2, <2>1, SyncSets, SameQueues, SameChannels, FailKeeps DEF SyncTyped
<1>5. CASE dev[Source].keys # None
  <2>1. PICK q : q = [dev[Source] EXCEPT !.phase = "transferring"]
    OBVIOUS
  <2>2. PICK c : c = [NoChan EXCEPT !.open = TRUE, !.key = dev[Source].keys]
    OBVIOUS
  <2>3. dev' = [dev EXCEPT ![Source] = q] /\ chan' = [chan EXCEPT ![t] = c] /\ lost' = lost
    BY <1>5, <2>1, <2>2 DEF SourceOpen
  <2>4. "transferring" \in Phases
    BY DEF Phases
  <2>5. /\ q \in Dev /\ q.remote = dev[Source].remote /\ q.session = dev[Source].session
        /\ q.phase = "transferring" /\ q.starting = dev[Source].starting /\ q.at = dev[Source].at
    BY <1>1, <2>1, <2>4 DEF Dev
  <2>6. GoodDev(Source, q)
    BY <1>1, <2>5, SyncSets DEF GoodDev, PagesAgree, FlowOk
  <2>7. DevSafe /\ dev'[Source] = q /\ \A x \in Devices : x # Source => dev'[x] = dev[x]
    BY <1>1, <1>2, <2>3, <2>6, SyncSets, OneDev
  <2>8. c \in Chan /\ c.open
    <3>1. dev[Source].keys \in Devices \cup {None} /\ 0 \in 0 .. Manifest /\ <<>> \in Seq(Frames)
      BY <1>1, SyncSets DEF Dev
    <3>2. c = [open |-> TRUE, sent |-> 0, frames |-> <<>>, closed |-> FALSE, key |-> dev[Source].keys]
      BY <2>2 DEF NoChan
    <3> QED
      BY <3>1, <3>2 DEF Chan
  <2>9. chan' \in [Targets -> Chan] /\ chan'[t] = c /\ \A x \in Targets : x # t => chan'[x] = chan[x]
    BY <1>1, <2>3, <2>8 DEF SyncTyped
  <2>10. ~chan[t].open /\ chan[t].key # t
    <3>1. t # None
      BY SyncSets
    <3> QED
      BY <1>1, <3>1 DEF SourceOpen, OpenedUnderKey
  <2>11. OpenedUnderKey'
    BY <1>1, <1>2, <2>8, <2>9, <2>10 DEF OpenedUnderKey
  <2>12. DoneIsComplete'
    <3>1. dev[t].phase # "done"
      BY <1>1, <2>10 DEF DoneIsComplete
    <3> QED
      BY <1>1, <1>2, <2>7, <2>9, <3>1, SyncSets DEF DoneIsComplete
  <2>13. NoNews
    BY <1>1, <1>2, <2>3, <2>5, SyncSets, SameQueues, QuietNews
  <2>14. StartsFirst' /\ StartsOnce' /\ OneJoins'
    BY <2>13, NoNewsKeeps DEF SyncIndInv
  <2> QED
    BY <1>1, <1>2, <2>3, <2>7, <2>9, <2>11, <2>12, <2>14 DEF SyncIndInv, SyncTyped, OneAtATime, DevSafe
<1> QED
  BY <1>4, <1>5

LEMMA ScanKeeps ==
  ASSUME SyncIndInv, NEW t \in Targets, Scan(t)
  PROVE  SyncIndInv'
<1>1. /\ SyncTyped /\ OneAtATime /\ OpenedUnderKey /\ DoneIsComplete
      /\ dev[Source] \in Dev /\ dev[t] \in Dev /\ PagesAgree /\ SecretsWiped
  BY SyncSets DEF SyncIndInv, SyncTyped
<1>2. UNCHANGED <<up, down, store, opening, joining, aborting, made, gone, overlap, lost>>
  BY DEF Scan, net, server, history
<1>3. PICK q : q = [dev[t] EXCEPT !.phase = "generating", !.aborted = FALSE,
                                  !.starting = dev[Source].pc, !.at = "keys"]
  OBVIOUS
<1>4. /\ dev' = [dev EXCEPT ![t] = q] /\ recv' = [recv EXCEPT ![t] = NoRecv]
      /\ chan' = [chan EXCEPT ![t] = NoChan]
  BY <1>3 DEF Scan
<1>5. "generating" \in Phases /\ dev[Source].pc \in Maybe(Sessions)
  BY <1>1 DEF Phases, Dev
<1>6. /\ q \in Dev /\ q.remote = dev[t].remote /\ q.session = dev[t].session /\ q.keys = dev[t].keys
      /\ q.phase = "generating" /\ q.starting = dev[Source].pc /\ q.at = "keys"
  BY <1>1, <1>3, <1>5 DEF Dev
<1>7. GoodDev(t, q)
  BY <1>1, <1>6, SyncSets DEF Scan, GoodDev, PagesAgree, FlowOk
<1>8. DevSafe /\ dev'[t] = q /\ \A x \in Devices : x # t => dev'[x] = dev[x]
  BY <1>1, <1>2, <1>4, <1>7, SyncSets, OneDev
<1>9. /\ NoRecv \in Recv /\ NoRecv.hashing = {} /\ NoRecv.hashed = {} /\ ~NoRecv.manifest
      /\ NoChan \in Chan /\ NoChan.key = None
  <2>1. 0 \in 0 .. Manifest /\ <<>> \in Seq(Frames)
    BY SyncSets
  <2> QED
    BY <2>1 DEF NoRecv, NoChan, Recv, Chan
<1>10. /\ recv' \in [Targets -> Recv] /\ recv'[t] = NoRecv /\ \A x \in Targets : x # t => recv'[x] = recv[x]
       /\ chan' \in [Targets -> Chan] /\ chan'[t] = NoChan /\ \A x \in Targets : x # t => chan'[x] = chan[x]
  BY <1>1, <1>4, <1>9 DEF SyncTyped
<1>11. OpenedUnderKey'
  BY <1>1, <1>9, <1>10 DEF OpenedUnderKey
<1>12. DoneIsComplete'
  BY <1>1, <1>6, <1>8, <1>10, SyncSets DEF DoneIsComplete
<1>13. NoNews
  BY <1>1, <1>2, <1>4, <1>6, SyncSets, SameQueues, QuietNews
<1>14. StartsFirst' /\ StartsOnce' /\ OneJoins'
  BY <1>13, NoNewsKeeps DEF SyncIndInv
<1>15. scans' \in 0 .. MaxScans
  BY <1>1, SyncDevices DEF Scan, SyncTyped
<1> QED
  BY <1>1, <1>2, <1>8, <1>10, <1>11, <1>12, <1>14, <1>15 DEF SyncIndInv, SyncTyped, OneAtATime, DevSafe

\* The offer a target has heard is the one it was offered by.
LEMMA OnOfferKeeps ==
  ASSUME SyncIndInv, NEW t \in Targets, up[t] = <<>>, OnOffer(t)
  PROVE  SyncIndInv'
<1>1. /\ SyncTyped /\ OneAtATime /\ OpenedUnderKey /\ DoneIsComplete
      /\ dev[t] \in Dev /\ PagesAgree /\ SecretsWiped /\ t \in Devices /\ t # Source
  BY SyncSets DEF SyncIndInv, SyncTyped
<1>2. UNCHANGED <<recv, chan, store, opening, joining, aborting, made, scans, gone, overlap, lost>>
  BY DEF OnOffer, server, bounds, history
<1>3. /\ down' \in [Devices -> Seq(Messages)] /\ Head(down[t]) \in Messages
      /\ Has(down[t], "offer", Head(down[t]).session)
      /\ \A x \in Devices : \A k, s : Has(down'[x], k, s) => Has(down[x], k, s)
  BY <1>1, HeardIs DEF OnOffer
<1>4. CASE ~Live(t)
  <2>1. UNCHANGED <<dev, up>>
    BY <1>4 DEF OnOffer
  <2>2. QueuesQuiet
    BY <1>3, <2>1, SyncSets DEF QueuesQuiet
  <2> QED
    BY <1>1, <1>2, <1>3, <2>1, <2>2, SameChannels, StillKeeps DEF SyncTyped, OneAtATime
<1>5. CASE Live(t)
  <2>1. dev[t].session = Head(down[t]).session /\ dev[t].session \in Sessions
    BY <1>3, <1>5 DEF Live, Ours, Messages
  <2>2. PICK q : q = [dev[t] EXCEPT !.keys = Source, !.remote = Source]
    OBVIOUS
  <2>3. dev' = [dev EXCEPT ![t] = q] /\ Emit(t, "answer", dev[t].session)
    BY <1>5, <2>2 DEF OnOffer
  <2>4. /\ q \in Dev /\ q.session = dev[t].session /\ q.phase = dev[t].phase
        /\ q.at = dev[t].at /\ q.starting = dev[t].starting
    BY <1>1, <2>2, SyncSets DEF Dev
  <2>5. GoodDev(t, q)
    BY <1>1, <1>2, <2>1, <2>4, SyncSets DEF GoodDev, PagesAgree, FlowOk, SecretsWiped
  <2>6. DevSafe /\ dev'[t] = q /\ \A x \in Devices : x # t => dev'[x] = dev[x]
    BY <1>1, <1>2, <2>3, <2>5, OneDev
  <2>7. /\ up' \in [Devices -> Seq(Messages)] /\ OneAtATime'
        /\ \A x \in Sessions : Has(up'[Source], "start", x) => Has(up[Source], "start", x)
    BY <1>1, <2>1, <2>3, EmitIs
  <2>8. OpenedUnderKey' /\ DoneIsComplete'
    <3>1. NobodySucceeds
      BY <2>4, <2>6, SyncSets DEF NobodySucceeds
    <3> QED
      BY <1>1, <1>2, <3>1, SameChannels, QuietChannel
  <2>9. ASSUME NEW s \in Sessions PROVE Offered(s)' \subseteq Offered(s)
    <3>1. ASSUME NEW x \in Targets, x # t, dev'[x].session = s, dev'[x].keys # None
          PROVE  dev[x].session = s /\ dev[x].keys # None
      BY <2>6, <3>1, SyncSets
    <3>2. dev'[t].session = s => Has(down[t], "offer", s)
      BY <1>3, <2>1, <2>4, <2>6
    <3>3. \A x \in Targets : Has(down'[x], "offer", s) => Has(down[x], "offer", s)
      BY <1>3, SyncSets
    <3>4. Offered(s)' = {x \in Targets : \/ dev'[x].session = s /\ dev'[x].keys # None
                                         \/ Has(down'[x], "offer", s)}
      BY DEF Offered, Has
    <3> QED
      BY <3>1, <3>2, <3>3, <3>4, OfferedIs
  <2>10. NoNews
    BY <1>1, <1>2, <2>6, <2>7, <2>9, SyncSets DEF NoNews
  <2>11. StartsFirst' /\ StartsOnce' /\ OneJoins'
    BY <2>10, NoNewsKeeps DEF SyncIndInv
  <2> QED
    BY <1>1, <1>2, <1>3, <2>6, <2>7, <2>8, <2>11 DEF SyncIndInv, SyncTyped, DevSafe
<1> QED
  BY <1>4, <1>5

\* A number is given to one session, and nobody has used it yet.
LEMMA StartKeeps ==
  ASSUME SyncIndInv, up[Source] = <<>>, Start
  PROVE  SyncIndInv'
<1>1. /\ SyncTyped /\ OneAtATime /\ OpenedUnderKey /\ DoneIsComplete
      /\ StartsFirst /\ StartsOnce /\ OneJoins
      /\ dev[Source] \in Dev /\ PagesAgree /\ SecretsWiped
  BY SyncSets DEF SyncIndInv, SyncTyped
<1>2. UNCHANGED <<recv, chan, up, down, store, opening, joining, aborting, scans, gone, overlap, lost>>
  BY DEF Start, net, server, history
<1>3. made' = made + 1 /\ made + 1 \in Sessions /\ made \in Nat /\ made + 1 # 0
  BY <1>1, SyncSets DEF Start, SyncTyped, Sessions
<1>4. PICK q : q = [dev[Source] EXCEPT !.phase = "generating", !.aborted = FALSE, !.starting = made + 1,
                                       !.at = "keys"]
  OBVIOUS
<1>5. dev' = [dev EXCEPT ![Source] = q]
  BY <1>4 DEF Start
<1>6. "generating" \in Phases /\ made + 1 \in Maybe(Sessions)
  BY <1>3, SyncSets DEF Phases
<1>7. /\ q \in Dev /\ q.remote = dev[Source].remote /\ q.session = dev[Source].session
      /\ q.phase = "generating" /\ q.starting = made + 1 /\ q.at = "keys" /\ made + 1 # 0
  BY <1>1, <1>3, <1>4, <1>6 DEF Dev
<1>8. GoodDev(Source, q)
  BY <1>1, <1>7, SyncSets DEF GoodDev, PagesAgree, FlowOk
<1>9. DevSafe /\ dev'[Source] = q /\ \A x \in Devices : x # Source => dev'[x] = dev[x]
  BY <1>1, <1>2, <1>5, <1>8, SyncSets, OneDev
<1>10. OpenedUnderKey' /\ DoneIsComplete'
  <2>1. NobodySucceeds
    BY <1>9, SyncSets DEF NobodySucceeds
  <2> QED
    BY <1>1, <1>2, <2>1, SameChannels, QuietChannel
<1>11. \A s : Offered(s)' = Offered(s)
  <2>1. \A x \in Targets : dev'[x] = dev[x]
    BY <1>9, SyncSets
  <2> QED
    BY <1>2, <2>1 DEF Offered
<1>12. \A s \in Sessions : ~Has(up'[Source], "start", s)
  BY <1>2, HasNot
<1>13. ASSUME NEW s \in Sessions, Unstarted(s)' PROVE Untouched(s)'
  <2>1. s > made + 1 \/ s = made + 1 \/ opening = s
    BY <1>2, <1>3, <1>7, <1>9, <1>12, <1>13 DEF Unstarted
  <2>2. Unstarted(s)
    BY <1>3, <2>1, SyncSets DEF Unstarted
  <2> QED
    BY <1>1, <1>2, <1>11, <2>2 DEF StartsFirst, Untouched
<1>14. StartsFirst'
  BY <1>13 DEF StartsFirst
<1>15. StartsOnce'
  <2>1. opening <= made /\ opening \in Nat /\ opening' = opening
    BY <1>1, <1>2, SyncSets DEF StartsOnce, SyncTyped
  <2> QED
    BY <1>3, <1>7, <1>9, <1>12, <2>1 DEF StartsOnce
<1>16. OneJoins'
  BY <1>1, <1>2, <1>11 DEF OneJoins
<1> QED
  BY <1>1, <1>2, <1>3, <1>6, <1>9, <1>10, <1>14, <1>15, <1>16
     DEF SyncIndInv, SyncTyped, OneAtATime, DevSafe

\* The source's waits: its number stays, and nobody hears of it.
LEMMA GeneratedKeeps ==
  ASSUME SyncIndInv, Generated
  PROVE  SyncIndInv'
<1>1. SyncTyped /\ OneAtATime /\ dev[Source] \in Dev /\ PagesAgree
  BY SyncSets DEF SyncIndInv, SyncTyped
<1>2. UNCHANGED <<recv, chan, up, down, store, opening, joining, aborting, made, scans, gone, overlap, lost>>
  BY DEF Generated, net, server, bounds, history
<1>3. PICK q : q = [dev[Source] EXCEPT !.at = "qr", !.session = dev[Source].starting, !.keys = None,
                                       !.deriving = None]
  OBVIOUS
<1>4. dev' = [dev EXCEPT ![Source] = q] /\ dev[Source].starting # 0
  BY <1>1, <1>3, SyncSets DEF Generated, PagesAgree, FlowOk
<1>5. /\ q \in Dev /\ q.session = q.starting /\ q.starting = dev[Source].starting /\ q.at = "qr"
  BY <1>1, <1>3 DEF Dev
<1>6. GoodDev(Source, q)
  BY <1>4, <1>5 DEF GoodDev, FlowOk
<1>7. /\ DevSafe /\ OpenedUnderKey' /\ DoneIsComplete' /\ StartsFirst' /\ StartsOnce' /\ OneJoins'
  BY <1>1, <1>2, <1>4, <1>5, <1>6, SyncSets, SameQueues, SameChannels, MoveKeeps
<1> QED
  BY <1>1, <1>2, <1>7 DEF SyncIndInv, SyncTyped, OneAtATime, DevSafe

LEMMA BuildPCKeeps ==
  ASSUME SyncIndInv, BuildPC
  PROVE  SyncIndInv'
<1>1. SyncTyped /\ OneAtATime /\ dev[Source] \in Dev /\ PagesAgree /\ SecretsWiped
  BY SyncSets DEF SyncIndInv, SyncTyped
<1>2. UNCHANGED <<recv, chan, up, down, store, opening, joining, aborting, made, scans, gone, overlap, lost>>
  BY DEF BuildPC, net, server, bounds, history
<1>3. PICK q : q = [dev[Source] EXCEPT !.at = "offer", !.pc = dev[Source].starting, !.remote = None]
  OBVIOUS
<1>4. dev' = [dev EXCEPT ![Source] = q] /\ dev[Source].at = "qr" /\ dev[Source].starting # 0
  BY <1>1, <1>3, SyncSets DEF BuildPC, PagesAgree, FlowOk
<1>5. /\ q \in Dev /\ q.session = dev[Source].session /\ q.starting = dev[Source].starting
      /\ q.at = "offer" /\ q.remote = None /\ q.phase = dev[Source].phase
  BY <1>1, <1>3 DEF Dev
<1>6. GoodDev(Source, q)
  BY <1>1, <1>4, <1>5, SyncSets DEF GoodDev, FlowOk, SecretsWiped
<1>7. /\ DevSafe /\ OpenedUnderKey' /\ DoneIsComplete' /\ StartsFirst' /\ StartsOnce' /\ OneJoins'
  BY <1>1, <1>2, <1>4, <1>5, <1>6, SyncSets, SameQueues, SameChannels, MoveKeeps
<1> QED
  BY <1>1, <1>2, <1>7 DEF SyncIndInv, SyncTyped, OneAtATime, DevSafe

LEMMA StartHangsKeeps ==
  ASSUME SyncIndInv, StartHangs
  PROVE  SyncIndInv'
<1>1. SyncTyped /\ OneAtATime /\ dev[Source] \in Dev /\ PagesAgree
  BY SyncSets DEF SyncIndInv, SyncTyped
<1>2. UNCHANGED <<recv, chan, up, down, store, opening, joining, aborting, made, scans, gone, overlap, lost>>
  BY DEF StartHangs, net, server, bounds, history
<1>3. PICK q : q = [dev[Source] EXCEPT !.starting = 0, !.at = "none"]
  OBVIOUS
<1>4. dev' = [dev EXCEPT ![Source] = q] /\ dev[Source].session = 0 /\ 0 \in Maybe(Sessions)
  BY <1>1, <1>3, SyncSets DEF StartHangs, PagesAgree, FlowOk
<1>5. /\ q \in Dev /\ q.session = 0 /\ q.starting = 0 /\ q.at = "none" /\ q.remote = dev[Source].remote
  BY <1>1, <1>3, <1>4 DEF Dev
<1>6. GoodDev(Source, q)
  BY <1>1, <1>4, <1>5, SyncSets DEF GoodDev, FlowOk, PagesAgree
<1>7. /\ DevSafe /\ OpenedUnderKey' /\ DoneIsComplete' /\ StartsFirst' /\ StartsOnce' /\ OneJoins'
  BY <1>1, <1>2, <1>4, <1>5, <1>6, SyncSets, SameQueues, SameChannels, MoveKeeps
<1> QED
  BY <1>1, <1>2, <1>7 DEF SyncIndInv, SyncTyped, OneAtATime, DevSafe

\* A start that ran to its end.
LEMMA RanIs ==
  ASSUME NEW p \in Dev, NEW ph \in {"waiting_peer", "handshaking"}, NEW d,
         p.remote # None => p.session # 0
  PROVE  LET q == Ran(p, ph) IN
         /\ GoodDev(d, q) /\ q.session = p.session /\ q.keys = p.keys /\ q.starting = 0
         /\ q.remote = p.remote /\ q.pc = p.pc /\ q.aborted = p.aborted /\ q.deriving = p.deriving
         /\ q.phase = IF p.phase = "away" THEN "away" ELSE ph
<1> DEFINE q == Ran(p, ph)
<1>1. 0 \in Maybe(Sessions) /\ ph \in Phases
  BY SyncSets DEF Phases
<1>2. CASE p.phase = "away"
  <2>1. q = [p EXCEPT !.starting = 0, !.at = "kept"]
    BY <1>2 DEF Ran
  <2> HIDE DEF q
  <2>2. /\ q \in Dev /\ q.session = p.session /\ q.keys = p.keys /\ q.starting = 0 /\ q.phase = "away"
        /\ q.remote = p.remote /\ q.pc = p.pc /\ q.aborted = p.aborted /\ q.deriving = p.deriving
        /\ q.at = "kept"
    BY <1>1, <1>2, <2>1 DEF Dev
  <2>3. GoodDev(d, q)
    BY <2>2 DEF GoodDev, FlowOk
  <2> QED
    BY <1>2, <2>2, <2>3 DEF q
<1>3. CASE p.phase # "away"
  <2>1. q = [p EXCEPT !.starting = 0, !.at = "none", !.phase = ph]
    BY <1>3 DEF Ran
  <2> HIDE DEF q
  <2>2. /\ q \in Dev /\ q.session = p.session /\ q.keys = p.keys /\ q.starting = 0 /\ q.phase = ph
        /\ q.remote = p.remote /\ q.pc = p.pc /\ q.aborted = p.aborted /\ q.deriving = p.deriving
        /\ q.at = "none"
    BY <1>1, <2>1 DEF Dev
  <2>3. GoodDev(d, q)
    BY <2>2 DEF GoodDev, FlowOk
  <2> QED
    BY <1>3, <2>2, <2>3 DEF q
<1> QED
  BY <1>2, <1>3

LEMMA JoinsKeeps ==
  ASSUME SyncIndInv, NEW t \in Targets, up[t] = <<>>, Joins(t)
  PROVE  SyncIndInv'
<1>1. SyncTyped /\ OneAtATime /\ dev[t] \in Dev /\ PagesAgree /\ t \in Devices /\ t # Source
  BY SyncSets DEF SyncIndInv, SyncTyped
<1>2. UNCHANGED <<recv, chan, down, store, opening, joining, aborting, made, scans, gone, overlap>>
  BY DEF Joins, server, bounds
<1>3. PICK s : s = dev[t].starting
  OBVIOUS
<1>4. s \in Sessions
  BY <1>1, <1>3, SyncSets DEF Joins, Dev, PagesAgree, FlowOk
<1>5. PICK p : p = [dev[t] EXCEPT !.session = s, !.pc = s, !.remote = None, !.keys = None]
  OBVIOUS
<1>6. p \in Dev /\ p.session = s /\ p.remote = None /\ p.keys = None
  BY <1>1, <1>4, <1>5, SyncSets DEF Dev
<1>7. PICK q : q = Ran(p, "handshaking")
  OBVIOUS
<1>8. dev' = [dev EXCEPT ![t] = q] /\ Emit(t, "join", s)
  BY <1>3, <1>5, <1>7 DEF Joins
<1>9. GoodDev(t, q) /\ q.keys = None /\ q.phase \in {"away", "handshaking"}
  BY <1>6, <1>7, RanIs
<1>10. lost' \in SUBSET Sessions
  BY <1>1, <1>3, <1>4 DEF Joins, SyncTyped
<1>11. /\ up' \in [Devices -> Seq(Messages)] /\ OneAtATime'
       /\ \A x \in Sessions : Has(up'[Source], "start", x) => Has(up[Source], "start", x)
  BY <1>1, <1>4, <1>8, EmitIs
<1>12. QueuesQuiet
  BY <1>2, <1>11 DEF QueuesQuiet
<1>13. /\ DevSafe /\ OpenedUnderKey' /\ DoneIsComplete' /\ StartsFirst' /\ StartsOnce' /\ OneJoins'
  BY <1>1, <1>2, <1>8, <1>9, <1>12, SameChannels, MoveKeeps
<1> QED
  BY <1>1, <1>2, <1>10, <1>11, <1>13 DEF SyncIndInv, SyncTyped, DevSafe

LEMMA OffersKeeps ==
  ASSUME SyncIndInv, up[Source] = <<>>, Offers
  PROVE  SyncIndInv'
<1>1. /\ SyncTyped /\ OneAtATime /\ OpenedUnderKey /\ DoneIsComplete
      /\ StartsFirst /\ StartsOnce /\ OneJoins
      /\ dev[Source] \in Dev /\ PagesAgree /\ SecretsWiped /\ Source \in Devices
  BY SyncSets DEF SyncIndInv, SyncTyped
<1>2. UNCHANGED <<recv, chan, down, store, opening, joining, aborting, made, scans, gone, overlap>>
  BY DEF Offers, server, bounds
<1>3. PICK s : s = dev[Source].starting
  OBVIOUS
<1>4. s \in Sessions
  BY <1>1, <1>3, SyncSets DEF Offers, Dev, PagesAgree, FlowOk
<1>5. PICK q : q = Ran(dev[Source], "waiting_peer")
  OBVIOUS
<1>6. dev' = [dev EXCEPT ![Source] = q] /\ Emit(Source, "start", s)
  BY <1>3, <1>5 DEF Offers
<1>7. GoodDev(Source, q) /\ q.starting = 0
  BY <1>1, <1>5, RanIs DEF PagesAgree
<1>8. lost' \in SUBSET Sessions
  BY <1>1, <1>3, <1>4 DEF Offers, SyncTyped
<1>9. DevSafe /\ dev'[Source] = q /\ \A x \in Devices : x # Source => dev'[x] = dev[x]
  BY <1>1, <1>6, <1>7, OneDev
<1>10. /\ up' \in [Devices -> Seq(Messages)] /\ OneAtATime'
       /\ \A x \in Sessions : Has(up'[Source], "start", x) => Has(up[Source], "start", x) \/ x = s
  BY <1>1, <1>4, <1>6, EmitIs
<1>11. \A x \in Sessions : Has(up'[Source], "start", x) => x = s
  BY <1>10, HasNot
<1>12. OpenedUnderKey' /\ DoneIsComplete'
  <2>1. NobodySucceeds
    BY <1>9, SyncSets DEF NobodySucceeds
  <2> QED
    BY <1>1, <1>2, <2>1, SameChannels, QuietChannel
<1>13. \A x : Offered(x)' = Offered(x)
  <2>1. \A x \in Targets : dev'[x] = dev[x]
    BY <1>9, SyncSets
  <2> QED
    BY <1>2, <2>1 DEF Offered
<1>14. dev'[Source].starting = 0 /\ dev[Source].starting = s
  BY <1>3, <1>7, <1>9
<1>15. ASSUME NEW x \in Sessions, Unstarted(x)' PROVE Untouched(x)'
  <2>1. Unstarted(x)
    BY <1>2, <1>11, <1>14, <1>15, SyncSets DEF Unstarted
  <2> QED
    BY <1>1, <1>2, <1>13, <2>1 DEF StartsFirst, Untouched
<1>16. StartsFirst'
  BY <1>15 DEF StartsFirst
<1>17. StartsOnce'
  <2>1. s <= made /\ made \in Nat /\ s # 0 /\ opening <= made /\ opening # s
    BY <1>1, <1>4, <1>14, SyncSets DEF StartsOnce, SyncTyped
  <2> QED
    BY <1>2, <1>11, <1>14, <2>1 DEF StartsOnce
<1>18. OneJoins'
  BY <1>1, <1>2, <1>13 DEF OneJoins
<1> QED
  BY <1>1, <1>2, <1>8, <1>9, <1>10, <1>12, <1>16, <1>17, <1>18 DEF SyncIndInv, SyncTyped, DevSafe

\* What the server's handlers leave alone.
LEMMA ServerKeeps ==
  ASSUME SyncTyped, PagesAgree, SecretsWiped, OpenedUnderKey, DoneIsComplete,
         UNCHANGED <<dev, recv, chan>>
  PROVE  DevSafe /\ OpenedUnderKey' /\ DoneIsComplete'
<1>1. DevSafe
  BY NoDev
<1>2. OpenedUnderKey' /\ DoneIsComplete'
  BY SameChannels, QuietChannel DEF NobodySucceeds
<1> QED
  BY <1>1, <1>2

LEMMA HandleStartKeeps ==
  ASSUME SyncIndInv, HandleStart
  PROVE  SyncIndInv'
<1>1. /\ SyncTyped /\ OneAtATime /\ OpenedUnderKey /\ DoneIsComplete
      /\ StartsFirst /\ StartsOnce /\ OneJoins /\ PagesAgree /\ SecretsWiped
  BY DEF SyncIndInv
<1>2. UNCHANGED <<dev, recv, chan, down, store, joining, aborting, made, scans, gone, overlap, lost>>
  BY DEF HandleStart, bounds, history
<1>3. PICK s : s = For(Source)
  OBVIOUS
<1>4. /\ up' \in [Devices -> Seq(Messages)] /\ OneAtATime'
      /\ s \in Sessions /\ Has(up[Source], "start", s) /\ up'[Source] = <<>>
  BY <1>1, <1>3, SyncSets, SentIs DEF HandleStart
<1>5. opening' \in {0, s} /\ opening = 0 /\ opening' \in Maybe(Sessions)
  BY <1>3, <1>4, SyncSets DEF HandleStart
<1>6. Unstarted(s) /\ s <= made /\ dev[Source].starting # s
  BY <1>1, <1>4 DEF StartsOnce, Unstarted
<1>7. \A x : Offered(x)' = Offered(x)
  BY <1>2 DEF Offered
<1>8. \A x \in Sessions : ~Has(up'[Source], "start", x)
  BY <1>4, HasNot
<1>9. ASSUME NEW x \in Sessions, Unstarted(x)' PROVE Untouched(x)'
  <2>1. Unstarted(x)
    BY <1>2, <1>5, <1>6, <1>8, <1>9, SyncSets DEF Unstarted
  <2> QED
    BY <1>1, <1>2, <1>7, <2>1 DEF StartsFirst, Untouched
<1>10. StartsFirst'
  BY <1>9 DEF StartsFirst
<1>11. StartsOnce'
  BY <1>1, <1>2, <1>5, <1>6, <1>8 DEF StartsOnce
<1>12. OneJoins'
  BY <1>1, <1>2, <1>7 DEF OneJoins
<1>13. DevSafe /\ OpenedUnderKey' /\ DoneIsComplete'
  BY <1>1, <1>2, ServerKeeps
<1> QED
  BY <1>1, <1>2, <1>4, <1>5, <1>10, <1>11, <1>12, <1>13 DEF SyncIndInv, SyncTyped, DevSafe

LEMMA StoreStartKeeps ==
  ASSUME SyncIndInv, StoreStart
  PROVE  SyncIndInv'
<1>1. /\ SyncTyped /\ OneAtATime /\ OpenedUnderKey /\ DoneIsComplete
      /\ StartsFirst /\ StartsOnce /\ OneJoins /\ PagesAgree /\ SecretsWiped
  BY DEF SyncIndInv
<1>2. UNCHANGED <<dev, recv, chan, up, down, joining, aborting, made, scans, gone, overlap, lost>>
  BY DEF StoreStart, net, bounds, history
<1>3. PICK s : s = opening
  OBVIOUS
<1>4. s \in Sessions /\ opening' = 0
  BY <1>1, <1>3, SyncSets DEF StoreStart, SyncTyped
<1>5. store' = [store EXCEPT ![s] = [target |-> None]]
  BY <1>3 DEF StoreStart
<1>6. /\ store' \in [Sessions -> {None} \cup [target : Targets \cup {None}]]
      /\ \A x \in Sessions : x # s => store'[x] = store[x]
  BY <1>1, <1>4, <1>5 DEF SyncTyped
<1>7. Untouched(s) /\ s <= made /\ dev[Source].starting # s /\ ~Has(up[Source], "start", s)
  BY <1>1, <1>3, <1>4, SyncSets DEF StartsFirst, StartsOnce, Unstarted
<1>8. \A x : Offered(x)' = Offered(x)
  BY <1>2 DEF Offered
<1>9. ASSUME NEW x \in Sessions, Unstarted(x)' PROVE Untouched(x)'
  <2>1. x > made \/ dev[Source].starting = x \/ Has(up[Source], "start", x)
    BY <1>2, <1>4, <1>9, SyncSets DEF Unstarted
  <2>2. made \in Nat /\ s \in Nat
    BY <1>1, <1>4, SyncSets DEF SyncTyped
  <2>3. x # s
    BY <1>7, <2>1, <2>2
  <2>4. Untouched(x)
    BY <1>1, <2>1 DEF StartsFirst, Unstarted
  <2> QED
    BY <1>2, <1>6, <1>8, <2>3, <2>4 DEF Untouched
<1>10. StartsFirst'
  BY <1>9 DEF StartsFirst
<1>11. StartsOnce'
  <2>1. made \in Nat
    BY <1>1, SyncSets DEF SyncTyped
  <2> QED
    BY <1>1, <1>2, <1>4, <2>1, SyncSets DEF StartsOnce
<1>12. OneJoins'
  <2>1. ASSUME NEW x \in Sessions \ overlap, store'[x] # None, store'[x].target = None
        PROVE  Offered(x) = {}
    BY <1>1, <1>6, <1>7, <2>1 DEF OneJoins, Untouched
  <2> QED
    BY <1>1, <1>2, <1>8, <2>1 DEF OneJoins
<1>13. DevSafe /\ OpenedUnderKey' /\ DoneIsComplete'
  BY <1>1, <1>2, ServerKeeps
<1> QED
  BY <1>1, <1>2, <1>4, <1>6, <1>10, <1>11, <1>12, <1>13, SyncSets
     DEF SyncIndInv, SyncTyped, OneAtATime, DevSafe

\* A join is refused, or it is the only one of a session offered to nobody.
LEMMA JoinReadKeeps ==
  ASSUME SyncIndInv, NEW t \in Targets, JoinRead(t)
  PROVE  SyncIndInv'
<1>1. /\ SyncTyped /\ OneAtATime /\ OpenedUnderKey /\ DoneIsComplete
      /\ StartsFirst /\ StartsOnce /\ OneJoins /\ PagesAgree /\ SecretsWiped
  BY DEF SyncIndInv
<1>2. UNCHANGED <<dev, recv, chan, store, opening, aborting, made, scans, gone>>
  BY DEF JoinRead, bounds
<1>3. PICK s : s = For(t)
  OBVIOUS
<1>4. /\ up' \in [Devices -> Seq(Messages)] /\ OneAtATime' /\ s \in Sessions
      /\ \A x : Has(up'[Source], "start", x) => Has(up[Source], "start", x)
  BY <1>1, <1>3, SyncSets, SentIs DEF JoinRead
<1>0. CASE lost' = lost \cup {s} /\ UNCHANGED <<down, joining, overlap>>
  <2>1. QueuesQuiet /\ lost' \in SUBSET Sessions
    BY <1>0, <1>1, <1>4 DEF QueuesQuiet, SyncTyped
  <2> QED
    BY <1>0, <1>1, <1>2, <1>4, <2>1, SameChannels, StillKeeps DEF SyncTyped
<1>5. CASE down' = Tell(t, "error", s, None, down) /\ UNCHANGED <<joining, overlap, lost>>
  <2>1. down' = Tell(t, "error", s, None, down) /\ UNCHANGED <<joining, overlap, lost>>
    BY <1>5
  <2>2. down \in [Devices -> Seq(Messages)]
    BY <1>1 DEF SyncTyped
  <2>3. Told(down, down', t, "error", s)
    BY <1>4, <2>1, <2>2, SyncSets, TellIs
  <2>4. /\ down' \in [Devices -> Seq(Messages)]
        /\ \A x \in Devices : \A z : Has(down'[x], "offer", z) => Has(down[x], "offer", z)
    BY <2>3, ToldOthers
  <2>5. QueuesQuiet
    BY <1>4, <2>4, SyncSets DEF QueuesQuiet
  <2> QED
    BY <1>1, <1>2, <1>4, <2>1, <2>4, <2>5, SameChannels, StillKeeps DEF SyncTyped
<1>6. CASE /\ store[s] # None /\ store[s].target = None
           /\ joining' = [joining EXCEPT ![t] = s] /\ down' = down /\ lost' = lost
           /\ overlap' = overlap \cup {x \in {s} : \E o \in Targets : joining[o] = x}
  <2>1. /\ joining' = [joining EXCEPT ![t] = s] /\ down' = down /\ lost' = lost
        /\ overlap' = overlap \cup {x \in {s} : \E o \in Targets : joining[o] = x}
    BY <1>6
  <2>2. joining' \in [Targets -> Maybe(Sessions)] /\ joining'[t] = s
        /\ \A x \in Targets : x # t => joining'[x] = joining[x]
    BY <1>1, <1>4, <2>1, SyncSets DEF SyncTyped
  <2>3. \A x : Offered(x)' = Offered(x)
    BY <1>2, <2>1 DEF Offered
  <2>4. ASSUME NEW x \in Sessions, Unstarted(x)' PROVE Untouched(x)'
    <3>1. Untouched(x)
      BY <1>1, <1>2, <1>4, <2>4 DEF StartsFirst, Unstarted
    <3>2. x # s
      BY <1>6, <3>1 DEF Untouched
    <3> QED
      BY <1>2, <2>2, <2>3, <3>1, <3>2 DEF Untouched
  <2>5. StartsFirst'
    BY <2>4 DEF StartsFirst
  <2>6. StartsOnce'
    BY <1>1, <1>2, <1>4 DEF StartsOnce
  <2>7. overlap \subseteq overlap' /\ overlap' \in SUBSET Sessions
    BY <1>1, <1>4, <2>1 DEF SyncTyped
  <2>8. ASSUME NEW x \in Sessions \ overlap', NEW a \in Targets, joining'[a] = x
        PROVE  Offered(x)' = {} /\ \A o \in Targets : joining'[o] = x => o = a
    <3>1. CASE x = s
      <4>1. \A o \in Targets : joining[o] # s
        BY <2>1, <2>8, <3>1
      <4>2. a = t /\ Offered(s) = {}
        BY <1>1, <1>6, <2>2, <2>7, <2>8, <3>1, <4>1 DEF OneJoins
      <4> QED
        BY <2>2, <2>3, <3>1, <4>1, <4>2
    <3>2. CASE x # s
      <4>1. a # t /\ joining[a] = x /\ x \in Sessions \ overlap
        BY <2>2, <2>7, <2>8, <3>2
      <4> QED
        BY <1>1, <2>2, <2>3, <3>2, <4>1 DEF OneJoins
    <3> QED
      BY <3>1, <3>2
  <2>9. OneJoins'
    BY <1>1, <1>2, <2>3, <2>7, <2>8 DEF OneJoins
  <2>10. DevSafe /\ OpenedUnderKey' /\ DoneIsComplete'
    BY <1>1, <1>2, ServerKeeps
  <2> QED
    BY <1>1, <1>2, <1>4, <2>1, <2>2, <2>5, <2>6, <2>7, <2>9, <2>10 DEF SyncIndInv, SyncTyped, DevSafe
<1> QED
  BY <1>3, <1>0, <1>5, <1>6 DEF JoinRead, Joinable, history

\* The one that joins is the only one offered.
LEMMA JoinWriteKeeps ==
  ASSUME SyncIndInv, NEW t \in Targets, JoinWrite(t)
  PROVE  SyncIndInv'
<1>1. /\ SyncTyped /\ OneAtATime /\ OpenedUnderKey /\ DoneIsComplete
      /\ StartsFirst /\ StartsOnce /\ OneJoins /\ PagesAgree /\ SecretsWiped
  BY DEF SyncIndInv
<1>2. UNCHANGED <<dev, recv, chan, up, opening, aborting, made, scans, gone, overlap>>
  BY DEF JoinWrite, bounds
<1>3. PICK s : s = joining[t]
  OBVIOUS
<1>4. s \in Sessions
  BY <1>1, <1>3, SyncSets DEF JoinWrite, SyncTyped
<1>5. /\ store' = [store EXCEPT ![s] = [target |-> t]] \/ (store[s] = None /\ store' = store)
      /\ down' = Tell(Source, "joined", s, t, Tell(t, "offer", s, Source, down))
      /\ joining' = [joining EXCEPT ![t] = 0]
      /\ lost' = IF store[s] = None THEN lost \cup {s} ELSE lost
  BY <1>3 DEF JoinWrite
<1>6. PICK mid : mid = Tell(t, "offer", s, Source, down)
  OBVIOUS
<1>7. Told(down, mid, t, "offer", s)
  BY <1>1, <1>4, <1>6, SyncSets, TellIs DEF SyncTyped
<1>8. mid \in [Devices -> Seq(Messages)]
  BY <1>7 DEF Told
<1>9. Told(mid, down', Source, "joined", s)
  BY <1>4, <1>5, <1>6, <1>8, SyncSets, TellIs
<1>10. /\ down' \in [Devices -> Seq(Messages)]
       /\ \A x \in Targets : \A z : Has(down'[x], "offer", z) => Has(down[x], "offer", z) \/ (x = t /\ z = s)
  <2>1. \A x \in Devices : \A z : Has(mid[x], "offer", z) => Has(down[x], "offer", z) \/ (x = t /\ z = s)
    BY <1>7, ToldOffer
  <2>2. /\ down' \in [Devices -> Seq(Messages)]
        /\ \A x \in Devices : \A z : Has(down'[x], "offer", z) => Has(mid[x], "offer", z)
    BY <1>9, ToldOthers
  <2> QED
    BY <2>1, <2>2, SyncSets
<1>11. /\ store' \in [Sessions -> {None} \cup [target : Targets \cup {None}]]
       /\ \A x \in Sessions : x # s => store'[x] = store[x]
       /\ store'[s] = None \/ store'[s].target = t
  <2>1. PICK w : w = [target |-> t]
    OBVIOUS
  <2>2. w \in [target : Targets \cup {None}] /\ w.target = t
    BY <2>1
  <2>3. store' = [store EXCEPT ![s] = w] \/ (store[s] = None /\ store' = store)
    BY <1>5, <2>1
  <2> QED
    BY <1>1, <1>4, <2>2, <2>3 DEF SyncTyped
<1>12. /\ joining' \in [Targets -> Maybe(Sessions)] /\ joining'[t] = 0
       /\ \A x \in Targets : x # t => joining'[x] = joining[x]
  BY <1>1, <1>5, SyncSets DEF SyncTyped
<1>13. \A z : Offered(z)' \subseteq Offered(z) \cup {x \in {t} : z = s}
  <2>1. ASSUME NEW z, NEW x \in Offered(z)', x \notin Offered(z) PROVE x = t /\ z = s
    <3>1. Offered(z)' = {y \in Targets : \/ dev'[y].session = z /\ dev'[y].keys # None
                                         \/ Has(down'[y], "offer", z)}
      BY DEF Offered, Has
    <3>2. x \in Targets /\ ~(dev[x].session = z /\ dev[x].keys # None) /\ ~Has(down[x], "offer", z)
      BY <2>1, <3>1, OfferedIs
    <3>3. Has(down'[x], "offer", z)
      BY <1>2, <2>1, <3>1, <3>2
    <3> QED
      BY <1>10, <3>2, <3>3
  <2> QED
    BY <2>1
<1>14. \A z \in Sessions : z # s => Offered(z)' \subseteq Offered(z)
  BY <1>13
<1>15. ASSUME NEW x \in Sessions, Unstarted(x)' PROVE Untouched(x)'
  <2>1. Untouched(x)
    BY <1>1, <1>2, <1>15 DEF StartsFirst, Unstarted
  <2>2. x # s /\ x # 0
    BY <1>3, <2>1, SyncSets DEF Untouched
  <2>3. Offered(x)' = {}
    BY <1>14, <2>1, <2>2 DEF Untouched
  <2>4. \A y \in Targets : joining'[y] # x
    BY <1>12, <2>1, <2>2 DEF Untouched
  <2> QED
    BY <1>11, <2>1, <2>2, <2>3, <2>4 DEF Untouched
<1>16. StartsFirst'
  BY <1>15 DEF StartsFirst
<1>17. StartsOnce'
  BY <1>1, <1>2 DEF StartsOnce
<1>18. ASSUME NEW z \in Sessions, z \notin overlap'
       PROVE  /\ store'[z] # None /\ store'[z].target = None => Offered(z)' = {}
              /\ \A a \in Targets : joining'[a] = z => Offered(z)' = {} /\ \A o \in Targets : joining'[o] = z => o = a
              /\ \A a, o \in Offered(z)' : a = o
  <2>1. z \in Sessions \ overlap
    BY <1>2, <1>18
  <2>2. /\ store[z] # None /\ store[z].target = None => Offered(z) = {}
        /\ \A a \in Targets : joining[a] = z => Offered(z) = {} /\ \A o \in Targets : joining[o] = z => o = a
        /\ \A a, o \in Offered(z) : a = o
    BY <1>1, <2>1 DEF OneJoins
  <2>3. CASE z # s
    <3>1. Offered(z)' \subseteq Offered(z) /\ store'[z] = store[z]
      BY <1>11, <1>14, <2>3
    <3>2. z # 0
      BY SyncSets
    <3>3. \A a \in Targets : joining'[a] = z => joining[a] = z
      BY <1>12, <3>2
    <3> QED
      BY <2>2, <3>1, <3>3
  <2>4. CASE z = s
    <3>1. Offered(z) = {} /\ \A o \in Targets : joining[o] = z => o = t
      BY <1>3, <2>2, <2>4
    <3>2. Offered(z)' \subseteq {t}
      BY <1>13, <3>1
    <3>3. z # 0
      BY SyncSets
    <3>4. \A a \in Targets : joining'[a] # z
      BY <1>12, <3>1, <3>3
    <3>5. t # None
      BY SyncSets
    <3>6. store'[z] = None \/ store'[z].target # None
      BY <1>11, <2>4, <3>5
    <3> QED
      BY <3>2, <3>4, <3>6
  <2> QED
    BY <2>3, <2>4
<1>19. OneJoins'
  BY <1>18 DEF OneJoins
<1>20. DevSafe /\ OpenedUnderKey' /\ DoneIsComplete'
  BY <1>1, <1>2, ServerKeeps
<1>21. lost' \in SUBSET Sessions
  BY <1>1, <1>4, <1>5 DEF SyncTyped
<1> QED
  BY <1>1, <1>2, <1>10, <1>11, <1>12, <1>16, <1>17, <1>19, <1>20, <1>21
     DEF SyncIndInv, SyncTyped, OneAtATime, DevSafe

LEMMA HandleAnswerKeeps ==
  ASSUME SyncIndInv, NEW t \in Targets, HandleAnswer(t)
  PROVE  SyncIndInv'
<1>1. SyncTyped /\ OneAtATime /\ down \in [Devices -> Seq(Messages)]
  BY DEF SyncIndInv, SyncTyped
<1>2. UNCHANGED <<dev, recv, chan, store, opening, joining, aborting, made, scans, gone, overlap, lost>>
  BY DEF HandleAnswer, server, bounds, history
<1>3. PICK s : s = For(t)
  OBVIOUS
<1>4. /\ up' \in [Devices -> Seq(Messages)] /\ OneAtATime' /\ s \in Sessions
      /\ \A x : Has(up'[Source], "start", x) => Has(up[Source], "start", x)
  BY <1>1, <1>3, SyncSets, SentIs DEF HandleAnswer
<1>5. down' = down \/ down' = Tell(Source, "answer", s, t, down)
  BY <1>3 DEF HandleAnswer
<1>6. QueuesQuiet /\ down' \in [Devices -> Seq(Messages)]
  <2>1. CASE down' = down
    BY <1>1, <1>4, <2>1 DEF QueuesQuiet
  <2>2. CASE down' = Tell(Source, "answer", s, t, down)
    <3>1. Told(down, down', Source, "answer", s)
      BY <1>1, <1>4, <2>2, SyncSets, TellIs
    <3>2. /\ down' \in [Devices -> Seq(Messages)]
          /\ \A x \in Devices : \A z : Has(down'[x], "offer", z) => Has(down[x], "offer", z)
      BY <3>1, ToldOthers
    <3> QED
      BY <1>4, <3>2, SyncSets DEF QueuesQuiet
  <2> QED
    BY <1>5, <2>1, <2>2
<1> QED
  BY <1>1, <1>2, <1>4, <1>6, SameChannels, StillKeeps DEF SyncTyped

LEMMA AbortReadKeeps ==
  ASSUME SyncIndInv, NEW d \in Devices, AbortRead(d)
  PROVE  SyncIndInv'
<1>1. SyncTyped /\ OneAtATime
  BY DEF SyncIndInv
<1>2. UNCHANGED <<dev, recv, chan, down, store, opening, joining, made, scans, gone, overlap>>
  BY DEF AbortRead, bounds
<1>3. PICK s : s = For(d)
  OBVIOUS
<1>4. /\ up' \in [Devices -> Seq(Messages)] /\ OneAtATime' /\ s \in Sessions
      /\ \A x : Has(up'[Source], "start", x) => Has(up[Source], "start", x)
  BY <1>1, <1>3, SentIs DEF AbortRead
<1>5. lost' \in SUBSET Sessions
  BY <1>1, <1>3, <1>4 DEF AbortRead, SyncTyped
<1>6. aborting' \in [Devices -> Aborts]
  <2>1. Party(d, s) => [session |-> s, peer |-> Peer(d, s)] \in Aborts
    BY <1>1, <1>4, PeerIs, SyncSets DEF Aborts
  <2> QED
    BY <1>1, <1>3, <2>1 DEF AbortRead, SyncTyped
<1>7. QueuesQuiet
  BY <1>2, <1>4 DEF QueuesQuiet
<1> QED
  BY <1>1, <1>2, <1>4, <1>5, <1>6, <1>7, SameChannels, StillKeeps DEF SyncTyped

LEMMA AbortWriteKeeps ==
  ASSUME SyncIndInv, NEW d \in Devices, AbortWrite(d)
  PROVE  SyncIndInv'
<1>1. SyncTyped /\ OneAtATime /\ aborting[d] \in Aborts
  BY DEF SyncIndInv, SyncTyped
<1>2. UNCHANGED <<dev, recv, chan, up, opening, joining, made, scans, gone, overlap>>
  BY DEF AbortWrite, bounds
<1>3. PICK s, p : s = aborting[d].session /\ p = aborting[d].peer
  OBVIOUS
<1>4. s \in Sessions /\ p \in Devices \cup {None} /\ NoAbort \in Aborts
  BY <1>1, <1>3, SyncSets DEF AbortWrite, Aborts, NoAbort
<1>5. PICK mid : mid = TellThe(p, s, down)
  OBVIOUS
<1>6. store' = [store EXCEPT ![s] = None] /\ down' = Tell(d, "aborted", s, None, mid)
  BY <1>3, <1>5 DEF AbortWrite
<1>7. /\ mid \in [Devices -> Seq(Messages)]
      /\ \A x \in Devices : \A z : Has(mid[x], "offer", z) => Has(down[x], "offer", z)
  BY <1>1, <1>4, <1>5, TellTheIs
<1>8. Told(mid, down', d, "aborted", s)
  BY <1>4, <1>6, <1>7, TellIs
<1>9. QueuesQuiet /\ down' \in [Devices -> Seq(Messages)]
  <2>1. /\ down' \in [Devices -> Seq(Messages)]
        /\ \A x \in Devices : \A z : Has(down'[x], "offer", z) => Has(mid[x], "offer", z)
    BY <1>8, ToldOthers
  <2> QED
    BY <1>2, <1>7, <2>1, SyncSets DEF QueuesQuiet
<1>10. /\ store' \in [Sessions -> {None} \cup [target : Targets \cup {None}]]
       /\ \A x \in Sessions : store'[x] = None \/ store'[x] = store[x]
  BY <1>1, <1>6 DEF SyncTyped
<1>11. lost' \in SUBSET Sessions /\ aborting' \in [Devices -> Aborts]
  BY <1>1, <1>3, <1>4 DEF AbortWrite, SyncTyped
<1> QED
  BY <1>1, <1>2, <1>9, <1>10, <1>11, SameChannels, StillKeeps DEF SyncTyped, OneAtATime

\* A page that was left hears nothing.
LEMMA UnheardKeeps ==
  ASSUME SyncIndInv, NEW d \in Devices, Unheard(d)
  PROVE  SyncIndInv'
<1>1. SyncTyped /\ OneAtATime
  BY DEF SyncIndInv
<1>2. UNCHANGED <<dev, recv, chan, up, store, opening, joining, aborting, made, scans, gone, overlap, lost>>
  BY DEF Unheard, server, bounds, history
<1>3. /\ down' \in [Devices -> Seq(Messages)] /\ down'[d] = <<>>
      /\ \A x \in Devices : x # d => down'[x] = down[x]
  BY <1>1 DEF Unheard, SyncTyped
<1>4. QueuesQuiet
  BY <1>2, <1>3, HasNot, SyncSets DEF QueuesQuiet
<1> QED
  BY <1>1, <1>2, <1>3, <1>4, SameChannels, StillKeeps DEF SyncTyped, OneAtATime

LEMMA SocketLostKeeps ==
  ASSUME SyncIndInv, NEW d \in Devices, SocketLost(d)
  PROVE  SyncIndInv'
<1>1. /\ SyncTyped /\ OneAtATime /\ down \in [Devices -> Seq(Messages)] /\ up \in [Devices -> Seq(Messages)]
      /\ store \in [Sessions -> {None} \cup [target : Targets \cup {None}]]
  BY DEF SyncIndInv, SyncTyped
<1>2. UNCHANGED <<dev, recv, chan, opening, joining, aborting, made, scans, overlap>>
  BY DEF SocketLost
<1>3. up' = [up EXCEPT ![d] = <<>>] /\ gone' \in SUBSET Fragile /\ lost' \in SUBSET Sessions
  BY <1>1 DEF SocketLost, SyncTyped
<1>4. up' \in [Devices -> Seq(Messages)] /\ up'[d] = <<>> /\ \A x \in Devices : x # d => up'[x] = up[x]
  BY <1>1, <1>3
<1>5. OneAtATime'
  BY <1>1, <1>4 DEF OneAtATime
<1>6. \A x : Has(up'[Source], "start", x) => Has(up[Source], "start", x)
  BY <1>4, HasNot, SyncSets
<1> DEFINE mine == {s \in Sessions : Party(d, s)}
<1> DEFINE last == CHOOSE s \in mine : \A o \in mine : o <= s
<1>7. CASE down' = [down EXCEPT ![d] = <<>>] /\ store' = store
  <2>1. down' = [down EXCEPT ![d] = <<>>] /\ store' = store
    BY <1>7
  <2>2. /\ down' \in [Devices -> Seq(Messages)] /\ down'[d] = <<>>
        /\ \A x \in Devices : x # d => down'[x] = down[x]
    BY <1>1, <2>1
  <2>3. QueuesQuiet
    BY <1>6, <2>2, HasNot, SyncSets DEF QueuesQuiet
  <2> QED
    BY <1>1, <1>2, <1>3, <1>4, <1>5, <2>1, <2>2, <2>3, SameChannels, StillKeeps DEF SyncTyped
<1>8. CASE /\ mine # {} /\ store' = [store EXCEPT ![last] = None]
           /\ down' = [TellThe(Peer(d, last), last, down) EXCEPT ![d] = <<>>]
  <2>1. last \in mine
    <3>1. mine \in SUBSET (1 .. MaxSessions) /\ MaxSessions \in Nat
      BY SyncSets DEF Sessions
    <3> HIDE DEF mine
    <3>2. \E s \in mine : \A o \in mine : o <= s
      BY <1>8, <3>1, GreatestOf
    <3> QED
      BY <3>2
  <2>2. PICK s \in Sessions : s = last /\ Party(d, s)
    BY <2>1
  <2>3. PICK mid : mid = TellThe(Peer(d, s), s, down)
    OBVIOUS
  <2>4. store' = [store EXCEPT ![s] = None] /\ down' = [mid EXCEPT ![d] = <<>>]
    <3> HIDE DEF last
    <3> QED
      BY <1>8, <2>2, <2>3
  <2>5. /\ mid \in [Devices -> Seq(Messages)]
        /\ \A x \in Devices : \A z : Has(mid[x], "offer", z) => Has(down[x], "offer", z)
    BY <1>1, <2>2, <2>3, PeerIs, TellTheIs
  <2>6. /\ down' \in [Devices -> Seq(Messages)] /\ down'[d] = <<>>
        /\ \A x \in Devices : x # d => down'[x] = mid[x]
    BY <2>4, <2>5
  <2>7. QueuesQuiet
    <3>1. ASSUME NEW x \in Devices, NEW z, Has(down'[x], "offer", z) PROVE Has(down[x], "offer", z)
      <4>1. x # d
        BY <2>6, <3>1, HasNot
      <4>2. Has(mid[x], "offer", z)
        BY <2>6, <3>1, <4>1
      <4> QED
        BY <2>5, <4>2
    <3> QED
      BY <1>6, <3>1, SyncSets DEF QueuesQuiet
  <2>8. /\ store' \in [Sessions -> {None} \cup [target : Targets \cup {None}]]
        /\ \A x \in Sessions : store'[x] = None \/ store'[x] = store[x]
    BY <1>1, <2>4
  <2> QED
    BY <1>1, <1>2, <1>3, <1>4, <1>5, <2>6, <2>7, <2>8, SameChannels, StillKeeps DEF SyncTyped
<1> QED
  BY <1>7, <1>8 DEF SocketLost

LEMMA ExpireKeeps ==
  ASSUME SyncIndInv, NEW s \in Sessions, Expire(s)
  PROVE  SyncIndInv'
<1>1. SyncTyped /\ OneAtATime
  BY DEF SyncIndInv
<1>2. UNCHANGED <<dev, recv, chan, up, down, opening, joining, aborting, made, scans, gone, overlap>>
  BY DEF Expire, net, bounds
<1>3. store' = [store EXCEPT ![s] = None] /\ lost' \in SUBSET Sessions
  BY <1>1 DEF Expire, SyncTyped
<1>4. /\ store' \in [Sessions -> {None} \cup [target : Targets \cup {None}]]
      /\ \A x \in Sessions : store'[x] = None \/ store'[x] = store[x]
  BY <1>1, <1>3 DEF SyncTyped
<1> QED
  BY <1>1, <1>2, <1>3, <1>4, SameQueues, SameChannels, StillKeeps DEF SyncTyped, OneAtATime

LEMMA SyncInitially == Init => SyncIndInv
<1> SUFFICES ASSUME Init PROVE SyncIndInv
  OBVIOUS
<1>1. 0 \in 0 .. Manifest /\ <<>> \in Seq(Frames) /\ <<>> \in Seq(Messages) /\ 0 \in 0 .. MaxScans
      /\ 0 \in Maybe(Sessions) /\ 0 \in Nat
  BY SyncSets, SyncDevices
<1>2. Fresh \in Dev /\ Fresh.phase = "idle" /\ Fresh.session = 0 /\ Fresh.remote = None
      /\ Fresh.keys = None /\ Fresh.starting = 0 /\ Fresh.at = "none"
  BY <1>1, SyncSets DEF Fresh, Dev, Phases
<1>3. NoRecv \in Recv /\ NoRecv.hashing = {} /\ NoRecv.hashed = {} /\ ~NoRecv.manifest
  BY <1>1 DEF NoRecv, Recv
<1>4. NoChan \in Chan /\ NoChan.key = None
  BY <1>1 DEF NoChan, Chan
<1>5. SyncTyped
  BY <1>1, <1>2, <1>3, <1>4 DEF Init, SyncTyped, Aborts, NoAbort
<1>6. OneAtATime
  BY DEF Init, OneAtATime
<1>7. PagesAgree /\ SecretsWiped
  BY <1>2 DEF Init, PagesAgree, FlowOk, SecretsWiped
<1>8. OpenedUnderKey /\ DoneIsComplete
  BY <1>2, <1>3, <1>4, SyncSets DEF Init, OpenedUnderKey, DoneIsComplete
<1>9. \A s : Offered(s) = {}
  <2>1. \A t \in Targets : dev[t].keys = None /\ down[t] = <<>>
    BY <1>2, SyncSets DEF Init
  <2> QED
    BY <2>1, HasNot, OfferedIs
<1>10. StartsFirst /\ OneJoins
  BY <1>9, SyncSets DEF Init, StartsFirst, Untouched, OneJoins
<1>11. StartsOnce
  BY <1>1, <1>2, SyncSets, HasNot DEF Init, StartsOnce
<1> QED
  BY <1>5, <1>6, <1>7, <1>8, <1>10, <1>11 DEF SyncIndInv

LEMMA SyncStep == SyncIndInv /\ [Next]_vars => SyncIndInv'
<1> SUFFICES ASSUME SyncIndInv, [Next]_vars PROVE SyncIndInv'
  OBVIOUS
<1>1. CASE Serve
  BY <1>1, HandleStartKeeps, StoreStartKeeps, JoinReadKeeps, JoinWriteKeeps, HandleAnswerKeeps,
     AbortReadKeeps, AbortWriteKeeps, SocketLostKeeps, ExpireKeeps DEF Serve
<1>2. ASSUME NEW d \in Devices, Page(d) PROVE SyncIndInv'
  <2>1. up[d] = <<>>
    BY <1>2 DEF Page
  <2>2. CASE StartFails(d) \/ Abort(d) \/ Leave(d) \/ Unheard(d) \/ IceLost(d)
    BY <2>1, <2>2, StartFailsKeeps, AbortKeeps, LeaveKeeps, UnheardKeeps, IceLostKeeps
  <2>9. CASE Joins(d)
    <3>1. d \in Targets
      BY <2>9 DEF Joins
    <3> QED
      BY <2>1, <2>9, <3>1, JoinsKeeps
  <2>10. CASE d = Source /\ (Start \/ Generated \/ BuildPC \/ Offers \/ StartHangs)
    BY <2>1, <2>10, StartKeeps, GeneratedKeeps, BuildPCKeeps, OffersKeeps, StartHangsKeeps
  <2>3. CASE OnAborted(d) \/ OnError(d)
    BY <2>3, OnAbortedKeeps, OnErrorKeeps
  <2>4. CASE OnOffer(d)
    <3>1. d \in Targets
      BY <2>4 DEF OnOffer
    <3> QED
      BY <2>1, <2>4, <3>1, OnOfferKeeps
  <2>5. CASE d = Source /\ (OnPeerJoined \/ Derived \/ OnPeerAnswer)
    BY <2>5, OnPeerJoinedKeeps, DerivedKeeps, OnPeerAnswerKeeps
  <2>6. CASE \E t \in Targets : SourceOpen(t) \/ Send(t) \/ SourceDone(t)
    BY <2>6, SourceOpenKeeps, SendKeeps, SourceDoneKeeps
  <2>7. CASE d \in Targets /\ (Scan(d) \/ TargetOpen(d) \/ OnFrame(d) \/ OpenFrame(d))
    BY <2>7, ScanKeeps, TargetOpenKeeps, OnFrameKeeps, OpenFrameKeeps
  <2>8. CASE d \in Targets /\ (Hash(d) \/ Import(d) \/ Verify(d) \/ ChannelClosed(d))
    BY <2>8, HashKeeps, ImportKeeps, VerifyKeeps, ChannelClosedKeeps
  <2> QED
    BY <1>2, <2>2, <2>3, <2>4, <2>5, <2>6, <2>7, <2>8, <2>9, <2>10 DEF Page
<1>3. CASE UNCHANGED vars
  <2>1. UNCHANGED <<dev, recv, chan, up, down, store, opening, joining, aborting, made, scans, gone, overlap, lost>>
    BY <1>3 DEF vars, net, server, bounds, history
  <2>2. SyncTyped /\ OneAtATime
    BY DEF SyncIndInv
  <2> QED
    BY <2>1, <2>2, SameQueues, SameChannels, StillKeeps DEF SyncTyped, OneAtATime
<1> QED
  BY <1>1, <1>2, <1>3 DEF Next

\* A session is offered to one target, unless two joins read it before either
\* wrote (handleDeviceSyncJoin); the end of a transfer leaves no secret in
\* memory (cleanup); and a target that reports success has hashed every record,
\* opened under the keys of this channel (dc.onmessage).
THEOREM SyncSafe == Spec => []SyncInv
<1>1. SyncIndInv => SyncInv
  <2> SUFFICES ASSUME SyncIndInv PROVE SyncInv
    OBVIOUS
  <2>1. ASSUME NEW s \in Sessions \ overlap PROVE Cardinality(Offered(s)) <= 1
    <3>1. \A t, o \in Offered(s) : t = o
      BY DEF SyncIndInv, OneJoins
    <3>2. Offered(s) = {} \/ \E t : Offered(s) = {t}
      BY <3>1
    <3>3. Cardinality(Offered(s)) \in {0, 1}
      BY <3>2, FS_EmptySet, FS_Singleton
    <3> QED
      BY <3>3
  <2> QED
    BY <2>1, SyncTypesSuffice DEF SyncIndInv, SyncInv, OneTarget
<1> QED
  BY <1>1, SyncInitially, SyncStep, PTL DEF Spec

=============================================================================
