-------------------------- MODULE ServerDataProofs -------------------------
(***************************************************************************)
(* Proofs about Vault and MessageStore, what the server keeps of a user    *)
(* and of a conversation, for any users, pages, browsers and bounds.       *)
(*                                                                         *)
(* The invariant of Vault speaks of one page at a time (PageInv) and of    *)
(* what the pages share: a step changes one page, and of the others it can *)
(* disturb only what they read on the disk of a common browser, which is   *)
(* when the history says "shared".  The published identity is kept because *)
(* it is on a disk before it is published, and a PIN is asked for because  *)
(* the page that publishes another identity owes one until it has it.      *)
(*                                                                         *)
(* The invariant of MessageStore says, part by part, what a handler of the *)
(* server that is between two steps may still rely on.                     *)
(***************************************************************************)
EXTENDS Vault, MessageStore, FiniteSetTheorems, SequenceTheorems, TLAPS

-----------------------------------------------------------------------------
(* The vault and the identity.                                             *)

\* Where a flow of a page is, and which kind the user's flow is of.
Steps(p, s, steps) == flow[p][s] # None /\ flow[p][s].step \in steps
InFlow(p, kind) == flow[p]["user"] # None /\ flow[p]["user"].kind = kind

\* A flow replaced an identity that another one of its browser had, or was to
\* have: two flows at the same time, or an import.
Disturbed == history \cap {"shared", "imported"} # {}

\* The steps of each kind of flow; a flow that registers has a pair of keys.
ShapeOf(p) ==
  /\ \A s \in Inits : flow[p][s] # None =>
       /\ flow[p][s].kind = "init" /\ flow[p][s].step # "encrypt"
       /\ flow[p][s].step # "ask" => flow[p][s].id # NoKey
  /\ flow[p]["user"] # None =>
       /\ flow[p]["user"].kind # "init" /\ flow[p]["user"].step # "ask"
       /\ flow[p]["user"].id # NoKey
       /\ flow[p]["user"].step = "encrypt" <=> flow[p]["user"].kind = "setup"
       /\ flow[p]["user"].kind = "unlock" => flow[p]["user"].step # "publish"
  /\ \A s \in Slots : Registering(p, s) => flow[p][s].keys.dh # NoKey

\* The identity of a flow that found or saved one is on a disk that has one still.
OnDiskOf(p) ==
  (\/ \E s \in Inits : Steps(p, s, {"ask", "publish", "mint", "register"}) /\ flow[p][s].id # NoKey
   \/ Steps(p, "user", {"publish", "mint", "register"}))
    => Disk(p).identity # NoKey \/ Disturbed

\* An init that found no identity on disk finds none when it asks.
StillNoneOf(p) ==
  \A s \in Inits :
    In(p, s, "ask") /\ flow[p][s].id = NoKey => Disk(p).identity = NoKey \/ Disturbed

\* A recovery blob once there stays; an init that makes a new identity beside an
\* unlock does so before the unlock has saved its own.
RecoverableOf(p) ==
  /\ page[p].blob # NoKey \/ InFlow(p, "unlock") => recovery # NoKey
  /\ \A s \in Inits : Steps(p, s, {"save", "publish"}) /\ InFlow(p, "unlock")
       => In(p, "user", "save") \/ Disturbed

\* A page that asks for a new PIN is not about to ask for an old one.
AskingOf(p) ==
  \A s \in Inits :
    In(p, s, "ask") /\ flow[p][s].id = NoKey => page[p].status # "needs-setup" \/ Disturbed

\* What is being published is on the disk of its browser.
OnItsDiskOf(p) ==
  \A s \in Slots : In(p, s, "publish") => Disk(p).identity = flow[p][s].id \/ Disturbed

\* A page without a user that was emptied with no flow running has none.
NoUserOf(p) ==
  ~page[p].user /\ ~page[p].left
    => page[p].identity = NoKey /\ \A s \in Slots : flow[p][s] = None

\* Where the flows of a page have not crossed, one of them registers, with the
\* keys of the page, and the id that comes of it is that of those keys.
OneRegistersOf(p) ==
  ~page[p].crossed =>
    /\ \A r \in Slots, s \in Slots : Registering(p, r) /\ Registering(p, s) => r = s
    /\ \A s \in Slots : In(p, s, "register") => page[p].keys = flow[p][s].keys
    /\ \/ page[p].assumed \/ page[p].device = NoKey \/ page[p].device = page[p].keys.dh
       \/ \E s \in Slots : Registering(p, s)

PageInv(p) ==
  /\ ShapeOf(p) /\ OnDiskOf(p) /\ StillNoneOf(p) /\ RecoverableOf(p)
  /\ AskingOf(p) /\ OnItsDiskOf(p) /\ NoUserOf(p) /\ OneRegistersOf(p)

\* What was published is on a disk.
PublishedHeld ==
  (/\ bundle # NoKey /\ history \cap {"unpublished", "shared", "imported"} = {}
   /\ ~\E p \in Pages, s \in Slots : In(p, s, "publish"))
    => \E b \in Browsers : store[b].identity = bundle

\* A page that will ask for a PIN for the published identity.
Owes(p) == InFlow(p, "reset") \/ (page[p].status = "needs-setup" /\ ~InFlow(p, "unlock"))
PinOwed == recovery # NoKey /\ recovery # bundle /\ history = {} => \E p \in Pages : Owes(p)

\* The key pairs there are: on disks, in pages, in flows, and in the rows.
Seen(k) ==
  \/ \E b \in Browsers : k = store[b].keys
  \/ \E p \in Pages : k = page[p].keys
  \/ \E p \in Pages, s \in Slots : flow[p][s] # None /\ k = flow[p][s].keys
  \/ \E d \in devices : k = [dh |-> d.dh, by |-> d.ik]

\* A key pair was made, and one identity signed it.
SignedOnce ==
  /\ \A k \in DeviceKeys : Seen(k) => k.dh <= made
  /\ \A k, l \in DeviceKeys : Seen(k) /\ Seen(l) /\ k.dh = l.dh /\ k.dh # NoKey => k = l

\* On a disk there is a pair or nothing.
WholeOnDisk == \A b \in Browsers : store[b].keys # NoDevice => store[b].keys.dh # NoKey

SharedInv == PublishedHeld /\ PinOwed /\ SignedOnce /\ WholeOnDisk

IndInv == VaultTypeOK /\ (\A p \in Pages : PageInv(p)) /\ SharedInv

LEMMA IndInvGives == IndInv => VaultInv /\ IdentityKept
<1> SUFFICES ASSUME IndInv PROVE VaultInv /\ IdentityKept
  OBVIOUS
<1>1. SignedOutForgets
  BY DEF IndInv, PageInv, NoUserOf, SignedOutForgets
<1>2. DeviceKeysHeld
  <2> SUFFICES ASSUME NEW p \in Pages, NEW d \in devices,
                      page[p].device = d.dh, ~page[p].assumed, ~page[p].crossed,
                      ~\E s \in Slots : Registering(p, s)
               PROVE  page[p].keys = [dh |-> d.dh, by |-> d.ik]
    BY DEF DeviceKeysHeld
  <2> DEFINE k == page[p].keys
             l == [dh |-> d.dh, by |-> d.ik]
  <2>1. d.dh \in Keys /\ d.dh # NoKey /\ l \in DeviceKeys /\ k \in DeviceKeys
    BY DEF IndInv, VaultTypeOK, PageStates, DeviceKeys, MaybeKey, Keys, NoKey
  <2>2. k.dh = d.dh
    BY <2>1 DEF IndInv, PageInv, OneRegistersOf
  <2>3. Seen(k) /\ Seen(l)
    BY DEF Seen
  <2> HIDE DEF k
  <2> QED
    BY <2>1, <2>2, <2>3 DEF IndInv, SharedInv, SignedOnce, k
<1>3. IdentityHeld
  BY DEF IndInv, SharedInv, PublishedHeld, IdentityHeld
<1>4. PinAsked
  <2> SUFFICES ASSUME recovery \notin {NoKey, bundle}, history = {}
               PROVE  \E p \in Pages :
                         \/ page[p].status = "needs-setup"
                         \/ flow[p]["user"] # None /\ flow[p]["user"].kind = "reset"
    BY DEF PinAsked
  <2> QED
    BY DEF IndInv, SharedInv, PinOwed, Owes, InFlow
<1> QED
  BY <1>1, <1>2, <1>3, <1>4 DEF IndInv, VaultInv, IdentityKept

LEMMA InitIndInv == VaultInit => IndInv
<1> SUFFICES ASSUME VaultInit PROVE IndInv
  OBVIOUS
<1>1. /\ \A p \in Pages : page[p] = Fresh /\ \A s \in Slots : flow[p][s] = None
      /\ "user" \in Slots /\ Inits \subseteq Slots /\ history = {}
  BY DEF VaultInit, Idle, Slots, Inits
<1>2. VaultTypeOK
  <2>1. 1 \in Keys /\ 2 \in Keys /\ NoKey \in MaybeKey /\ Keys \subseteq MaybeKey
    BY VaultBounds DEF Keys, MaybeKey
  <2>2. Fresh \in PageStates /\ NoDevice \in DeviceKeys
    BY <2>1 DEF Fresh, PageStates, NoDevice, DeviceKeys, Status
  <2>3. /\ store \in [Browsers -> [identity : MaybeKey, keys : DeviceKeys, device : MaybeKey]]
        /\ bundle \in MaybeKey /\ recovery \in MaybeKey /\ made \in MaybeKey
        /\ devices \subseteq [dh : Keys, ik : Keys]
    <3>1. CASE NewUser
      BY <2>1, <2>2, <3>1 DEF NewUser, NoKey
    <3>2. ASSUME NEW b \in Browsers, KnownUser(b) PROVE <2>3
      <4>1. [dh |-> 2, by |-> 1] \in DeviceKeys /\ [dh |-> 2, ik |-> 1] \in [dh : Keys, ik : Keys]
        BY <2>1 DEF DeviceKeys
      <4> QED
        BY <2>1, <2>2, <3>2, <4>1 DEF KnownUser
    <3> QED
      BY <3>1, <3>2 DEF VaultInit
  <2> QED
    BY <2>2, <2>3, VaultBounds DEF VaultInit, VaultTypeOK, Idle
<1>3. ASSUME NEW p \in Pages PROVE PageInv(p)
  BY <1>1 DEF PageInv, ShapeOf, OnDiskOf, StillNoneOf, RecoverableOf, AskingOf, OnItsDiskOf,
              NoUserOf, OneRegistersOf, Steps, In, InFlow, Registering, Fresh
<1>4. PublishedHeld /\ PinOwed
  BY <1>1 DEF VaultInit, NewUser, KnownUser, PublishedHeld, PinOwed
<1>5. WholeOnDisk
  BY DEF VaultInit, NewUser, KnownUser, WholeOnDisk, NoDevice, NoKey
<1>6. SignedOnce
  <2> DEFINE first(k) == k = NoDevice \/ (k = [dh |-> 2, by |-> 1] /\ made = 2)
  <2>1. ASSUME NEW k \in DeviceKeys, Seen(k) PROVE first(k)
    <3>1. ASSUME NEW d \in devices, k = [dh |-> d.dh, by |-> d.ik] PROVE first(k)
      BY <3>1 DEF VaultInit, NewUser, KnownUser
    <3>2. ASSUME NEW b \in Browsers, k = store[b].keys PROVE first(k)
      BY <3>2 DEF VaultInit, NewUser, KnownUser
    <3> QED
      BY <1>1, <2>1, <3>1, <3>2 DEF Seen, Fresh
  <2>2. made \in Nat
    BY DEF VaultInit, NewUser, KnownUser
  <2> QED
    BY <2>1, <2>2 DEF SignedOnce, NoDevice, NoKey
<1> QED
  BY <1>2, <1>3, <1>4, <1>5, <1>6 DEF IndInv, SharedInv
-----------------------------------------------------------------------------
(* One step.                                                               *)

FlowTypeOK == flow \in [Pages -> [Slots -> Flows \cup {None}]]
StoreType == [identity : MaybeKey, keys : DeviceKeys, device : MaybeKey]

\* A flow of page p moves to g.
FlowIs(p, s, g) ==
  /\ flow'[p][s] = g
  /\ \A r \in Slots : r # s => flow'[p][r] = flow[p][r]
  /\ \A q \in Pages : q # p => flow'[q] = flow[q]

\* Page p moves to h.
PageIs(p, h) == page'[p] = h /\ \A q \in Pages : q # p => page'[q] = page[q]

\* The disk of page p moves to d.
DiskIs(p, d) ==
  store'[home[p]] = d /\ \A b \in Browsers : b # home[p] => store'[b] = store[b]

LEMMA FlowPut ==
  ASSUME VaultTypeOK, NEW p \in Pages, NEW s \in Slots, NEW g \in Flows \cup {None},
         flow' = [flow EXCEPT ![p][s] = g]
  PROVE  FlowIs(p, s, g) /\ FlowTypeOK'
BY DEF VaultTypeOK, FlowTypeOK, FlowIs

LEMMA PagePut ==
  ASSUME VaultTypeOK, NEW p \in Pages, NEW h \in PageStates, page' = [page EXCEPT ![p] = h]
  PROVE  PageIs(p, h) /\ page' \in [Pages -> PageStates]
BY DEF VaultTypeOK, PageIs

LEMMA DiskPut ==
  ASSUME VaultTypeOK, NEW p \in Pages, NEW d \in StoreType, Write(p, d)
  PROVE  DiskIs(p, d) /\ store' \in [Browsers -> StoreType]
BY DEF VaultTypeOK, DiskIs, Write, StoreType

LEMMA Typed ==
  ASSUME VaultTypeOK, NEW p \in Pages
  PROVE  /\ page[p] \in PageStates /\ home[p] \in Browsers /\ Disk(p) \in StoreType
         /\ \A s \in Slots : flow[p][s] # None => flow[p][s] \in Flows
         /\ "init" \in Slots /\ "late" \in Slots /\ "user" \in Slots /\ Inits \subseteq Slots
         /\ NoKey \in MaybeKey /\ NoDevice \in DeviceKeys
BY DEF VaultTypeOK, Disk, StoreType, Slots, Inits, NoKey, NoDevice, MaybeKey, DeviceKeys

LEMMA NewKey ==
  ASSUME VaultTypeOK, NEW n \in {1}, New(n)
  PROVE  made' = made + 1 /\ made + 1 \in Keys /\ made + 1 \in MaybeKey /\ made + 1 # NoKey
BY VaultBounds DEF VaultTypeOK, New, Keys, MaybeKey, NoKey

LEMMA EventType ==
  ASSUME VaultTypeOK, Event
  PROVE  events' \in 0 .. MaxEvents
BY VaultBounds DEF VaultTypeOK, Event

\* What getOrCreateDeviceKeys does: the flow registers the keys it finds, or
\* makes new ones.
GetsKeys(p, s, f, state, onDisk) ==
  \E k \in DeviceKeys, step \in {"mint", "register"} :
    /\ k.dh # NoKey
    /\ FlowIs(p, s, [f EXCEPT !.keys = k, !.step = step])
    /\ PageIs(p, IF step = "register" THEN [state EXCEPT !.keys = k] ELSE state)
    /\ \/ step = "register" /\ k = onDisk /\ made' = made
       \/ step = "mint" /\ k = [dh |-> made + 1, by |-> f.id] /\ made' = made + 1

LEMMA GetsKeysOf ==
  ASSUME VaultTypeOK, NEW p \in Pages, NEW s \in Slots, NEW f \in Flows, NEW state \in PageStates,
         NEW onDisk \in DeviceKeys, onDisk # NoDevice => onDisk.dh # NoKey,
         DeviceKeysOf(p, s, f, state, onDisk)
  PROVE  /\ GetsKeys(p, s, f, state, onDisk)
         /\ FlowTypeOK' /\ page' \in [Pages -> PageStates] /\ made' \in MaybeKey
<1>1. CASE onDisk # NoDevice
  <2>1. /\ flow' = [flow EXCEPT ![p][s] = [f EXCEPT !.keys = onDisk, !.step = "register"]]
        /\ page' = [page EXCEPT ![p] = [state EXCEPT !.keys = onDisk]] /\ made' = made
    BY <1>1 DEF DeviceKeysOf
  <2>2. [f EXCEPT !.keys = onDisk, !.step = "register"] \in Flows
    BY DEF Flows
  <2>3. [state EXCEPT !.keys = onDisk] \in PageStates
    BY DEF PageStates
  <2>4. /\ FlowIs(p, s, [f EXCEPT !.keys = onDisk, !.step = "register"]) /\ FlowTypeOK'
        /\ PageIs(p, [state EXCEPT !.keys = onDisk]) /\ page' \in [Pages -> PageStates]
    BY <2>1, <2>2, <2>3, FlowPut, PagePut
  <2>5. made' \in MaybeKey
    BY <2>1 DEF VaultTypeOK
  <2> QED
    BY <1>1, <2>1, <2>4, <2>5 DEF GetsKeys
<1>2. CASE onDisk = NoDevice
  <2> DEFINE k == [dh |-> made + 1, by |-> f.id]
             g == [f EXCEPT !.keys = k, !.step = "mint"]
  <2>1. flow' = [flow EXCEPT ![p][s] = g] /\ page' = [page EXCEPT ![p] = state] /\ New(1)
    BY <1>2 DEF DeviceKeysOf
  <2>2. /\ made' = made + 1 /\ made + 1 \in MaybeKey /\ made + 1 # NoKey /\ made' \in MaybeKey
    BY <2>1, NewKey
  <2>3. k \in DeviceKeys /\ k.dh # NoKey
    BY <2>2 DEF DeviceKeys, Flows
  <2>4. g \in Flows
    BY <2>3 DEF Flows
  <2>5. FlowIs(p, s, g) /\ FlowTypeOK' /\ PageIs(p, state) /\ page' \in [Pages -> PageStates]
    BY <2>1, <2>4, FlowPut, PagePut
  <2> QED
    BY <2>2, <2>3, <2>5 DEF GetsKeys
<1> QED
  BY <1>1, <1>2

\* Page p moves alone: the others see a disk written only where they share it.
Apart(p) ==
  /\ home' = home /\ history \subseteq history' /\ (recovery # NoKey => recovery' # NoKey)
  /\ \A q \in Pages : q # p => page'[q] = page[q] /\ flow'[q] = flow[q]
  /\ \/ Disturbed'
     \/ \A q \in Pages : q # p =>
          /\ Busy(q) /\ store[home[q]].identity # NoKey => store'[home[q]].identity # NoKey
          /\ (\E s \in Slots : Steps(q, s, {"ask", "save", "publish"}))
               => store'[home[q]].identity = store[home[q]].identity

LEMMA OtherPages ==
  ASSUME VaultTypeOK, NEW p \in Pages, Apart(p), NEW q \in Pages, q # p, PageInv(q)
  PROVE  PageInv(q)'
<1>1. /\ home' = home /\ history \subseteq history' /\ (recovery # NoKey => recovery' # NoKey)
      /\ page'[q] = page[q] /\ flow'[q] = flow[q]
      /\ home[q] \in Browsers /\ (Disturbed => Disturbed')
  BY DEF Apart, VaultTypeOK, Disturbed
<1>2. /\ "init" \in Slots /\ "late" \in Slots /\ "user" \in Slots /\ Inits \subseteq Slots
      /\ (\E s \in Slots : flow[q][s] # None) /\ store[home[q]].identity # NoKey
           => Disturbed' \/ store'[home[q]].identity # NoKey
      /\ (\E s \in Slots : Steps(q, s, {"ask", "save", "publish"}))
           => Disturbed' \/ store'[home[q]].identity = store[home[q]].identity
  BY DEF Apart, Slots, Inits, Busy
<1>3. (ShapeOf(q) /\ RecoverableOf(q) /\ OneRegistersOf(q))'
  BY <1>1 DEF PageInv, ShapeOf, RecoverableOf, OneRegistersOf, Registering, InFlow, Steps, In
<1>4. AskingOf(q)' /\ NoUserOf(q)'
  BY <1>1 DEF PageInv, AskingOf, NoUserOf, In
<1>5. OnDiskOf(q)'
  BY <1>1, <1>2 DEF PageInv, OnDiskOf, Disk, Steps
<1>6. StillNoneOf(q)' /\ OnItsDiskOf(q)'
  BY <1>1, <1>2 DEF PageInv, StillNoneOf, OnItsDiskOf, Disk, Steps, In
<1> QED
  BY <1>3, <1>4, <1>5, <1>6 DEF PageInv

LEMMA Together ==
  ASSUME IndInv, NEW p \in Pages, VaultTypeOK', Apart(p), PageInv(p)', SharedInv'
  PROVE  IndInv'
<1>1. ASSUME NEW q \in Pages PROVE PageInv(q)'
  BY OtherPages DEF IndInv
<1> QED
  BY <1>1 DEF IndInv

\* Nothing is written to a disk and no publication ends.
LEMMA HeldStays ==
  ASSUME PublishedHeld, bundle' = bundle, history \subseteq history',
         \A b \in Browsers : store'[b].identity = store[b].identity,
         \A q \in Pages, s \in Slots : In(q, s, "publish") => In(q, s, "publish")' \/ "unpublished" \in history'
  PROVE  PublishedHeld'
BY DEF PublishedHeld

\* The page that moves still owes a PIN if it did.
LEMMA OwedStays ==
  ASSUME PinOwed, NEW p \in Pages, Apart(p), bundle' = bundle, recovery' = recovery,
         Owes(p) => Owes(p)' \/ history' # {}
  PROVE  PinOwed'
<1>1. \A q \in Pages : q # p /\ Owes(q) => Owes(q)'
  BY DEF Apart, Owes, InFlow
<1>2. history \subseteq history'
  BY DEF Apart
<1> QED
  BY <1>1, <1>2 DEF PinOwed

\* No pair comes, except one that was just made.
LEMMA SignedStays ==
  ASSUME VaultTypeOK, SignedOnce, NEW m \in MaybeKey, made' = m, m >= made,
         NEW new \in DeviceKeys, new = NoDevice \/ (new.dh = made + 1 /\ made' = made + 1),
         \A k \in DeviceKeys : Seen(k)' => Seen(k) \/ k = NoDevice \/ k = new
  PROVE  SignedOnce'
<1>1. made \in Nat /\ m \in Nat /\ \A k \in DeviceKeys : k.dh \in Nat
  BY DEF VaultTypeOK, MaybeKey, Keys, NoKey, DeviceKeys
<1>2. NoDevice.dh = NoKey /\ NoKey = 0
  BY DEF NoDevice, NoKey
<1>3. ASSUME NEW k \in DeviceKeys, Seen(k)' PROVE k.dh <= made'
  BY <1>1, <1>2, <1>3 DEF SignedOnce
<1>4. ASSUME NEW k \in DeviceKeys, NEW l \in DeviceKeys, Seen(k)', Seen(l)', k.dh = l.dh, k.dh # NoKey
      PROVE  k = l
  <2>1. /\ Seen(k) \/ (k = new /\ new.dh = made + 1)
        /\ Seen(l) \/ (l = new /\ new.dh = made + 1)
    BY <1>2, <1>4
  <2>2. /\ Seen(k) => k.dh <= made
        /\ Seen(l) => l.dh <= made
    BY DEF SignedOnce
  <2> QED
    BY <1>1, <1>4, <2>1, <2>2 DEF SignedOnce
<1> QED
  BY <1>3, <1>4 DEF SignedOnce

\* The pairs there are after a step of one flow.
LEMMA SeenAfter ==
  ASSUME VaultTypeOK, NEW p \in Pages, NEW s \in Slots, NEW g, NEW h, NEW d,
         FlowIs(p, s, g), PageIs(p, h), DiskIs(p, d),
         NEW k, Seen(k)'
  PROVE  \/ Seen(k) \/ k = h.keys \/ k = d.keys \/ (g # None /\ k = g.keys)
         \/ \E x \in devices' : x \notin devices /\ k = [dh |-> x.dh, by |-> x.ik]
<1>1. CASE \E b \in Browsers : k = store'[b].keys
  BY <1>1 DEF DiskIs, Seen
<1>2. CASE \E q \in Pages : k = page'[q].keys
  BY <1>2 DEF PageIs, Seen
<1>3. CASE \E q \in Pages, r \in Slots : flow'[q][r] # None /\ k = flow'[q][r].keys
  BY <1>3 DEF FlowIs, Seen
<1>4. CASE \E x \in devices' : k = [dh |-> x.dh, by |-> x.ik]
  BY <1>4 DEF Seen
<1> QED
  BY <1>1, <1>2, <1>3, <1>4 DEF Seen

\* A step of one flow in which no pair moves.
LEMMA PairsStay ==
  ASSUME IndInv, NEW p \in Pages, NEW s \in Slots, NEW g, NEW h,
         FlowIs(p, s, g), PageIs(p, h), made' \in MaybeKey, made' >= made,
         \A x \in devices' : x \notin devices => Seen([dh |-> x.dh, by |-> x.ik]),
         \A b \in Browsers : store'[b].keys = store[b].keys,
         g # None => g.keys = NoDevice \/ (flow[p][s] # None /\ g.keys = flow[p][s].keys),
         h.keys \in {NoDevice, page[p].keys}
  PROVE  SignedOnce' /\ WholeOnDisk'
<1>1. ASSUME NEW k \in DeviceKeys, Seen(k)' PROVE Seen(k) \/ k = NoDevice
  <2>1. CASE \E b \in Browsers : k = store'[b].keys
    BY <2>1 DEF Seen
  <2>2. CASE \E q \in Pages : k = page'[q].keys
    BY <2>2 DEF PageIs, Seen
  <2>3. CASE \E q \in Pages, r \in Slots : flow'[q][r] # None /\ k = flow'[q][r].keys
    <3>1. PICK q \in Pages, r \in Slots : flow'[q][r] # None /\ k = flow'[q][r].keys
      BY <2>3
    <3>2. \A t \in Pages, u \in Slots : flow[t][u] # None => Seen(flow[t][u].keys)
      BY Zenon DEF Seen
    <3>3. flow'[q][r] = flow[q][r] \/ (q = p /\ r = s /\ flow'[q][r] = g)
      BY <3>1 DEF FlowIs
    <3> QED
      BY <3>1, <3>2, <3>3
  <2>4. CASE \E x \in devices' : k = [dh |-> x.dh, by |-> x.ik]
    <3>1. PICK x \in devices' : k = [dh |-> x.dh, by |-> x.ik]
      BY <2>4
    <3>2. \A y \in devices : Seen([dh |-> y.dh, by |-> y.ik])
      BY Zenon DEF Seen
    <3> QED
      BY <3>1, <3>2
  <2> QED
    BY <1>1, <2>1, <2>2, <2>3, <2>4 DEF Seen
<1>2. NoDevice \in DeviceKeys
  BY DEF NoDevice, DeviceKeys, MaybeKey, NoKey
<1>3. SignedOnce'
  BY <1>1, <1>2, SignedStays DEF IndInv, SharedInv
<1> QED
  BY <1>3 DEF IndInv, SharedInv, WholeOnDisk

-----------------------------------------------------------------------------
(* Init.                                                                   *)

LEMMA InitStartKeeps ==
  ASSUME IndInv, NEW p \in Pages, InitStart(p)
  PROVE  IndInv'
<1> DEFINE f == flow[p]["init"]
           g == [kind |-> "init", step |-> "ask", id |-> Disk(p).identity, keys |-> NoDevice,
                 stale |-> FALSE]
           e == IF f = None THEN flow[p]["late"] ELSE [f EXCEPT !.stale = TRUE]
           h == [page[p] EXCEPT !.status = "idle", !.promise = TRUE]
<1>1. /\ page' = [page EXCEPT ![p] = h] /\ page[p].user
      /\ f = None \/ flow[p]["late"] = None
      /\ Note("unasked", page[p].status = "needs-setup")
      /\ UNCHANGED <<home, store, bundle, recovery, devices, made>> /\ Event
  BY DEF InitStart, server
<1>2. VaultTypeOK /\ PageInv(p) /\ SharedInv
  BY DEF IndInv
<1>3. /\ page[p] \in PageStates /\ Disk(p) \in StoreType /\ NoDevice \in DeviceKeys
      /\ "init" \in Slots /\ "late" \in Slots /\ "user" \in Slots
      /\ f # None => f \in Flows
      /\ flow[p]["late"] # None => flow[p]["late"] \in Flows
  BY <1>2, Typed
<1>4. g \in Flows /\ g # None /\ g.step = "ask"
  <2>1. g \in Flows
    BY <1>3 DEF Flows, StoreType
  <2> QED
    BY <2>1, NoneIsNoFlow
<1>5. /\ e \in Flows \cup {None}
      /\ e # None => \E r \in Inits : /\ flow[p][r] # None /\ e.kind = flow[p][r].kind
                                      /\ e.step = flow[p][r].step /\ e.id = flow[p][r].id
                                      /\ e.keys = flow[p][r].keys
      /\ f # None \/ flow[p]["late"] # None => e # None
      /\ f # None => e.step = f.step /\ e.keys = f.keys
      /\ f = None => e = flow[p]["late"]
  <2>1. CASE f # None
    <3>1. [f EXCEPT !.stale = TRUE] \in Flows
      BY <1>3, <2>1 DEF Flows
    <3>2. e \in Flows /\ e # None /\ e.kind = f.kind /\ e.step = f.step /\ e.id = f.id /\ e.keys = f.keys
      BY <1>3, <2>1, <3>1, NoneIsNoFlow DEF Flows
    <3> HIDE DEF e
    <3> QED
      BY <2>1, <3>2 DEF Inits
  <2> QED
    BY <1>3, <2>1 DEF Inits
<1>6. flow' = [flow EXCEPT ![p]["init"] = g, ![p]["late"] = e]
  <2>1. flow' = [flow EXCEPT ![p]["init"] = g,
                   ![p]["late"] = IF flow[p]["init"] = None THEN @
                                  ELSE [flow[p]["init"] EXCEPT !.stale = TRUE]]
    BY DEF InitStart
  <2> QED
    BY <1>2, <1>3, <2>1 DEF VaultTypeOK
<1>7. /\ h \in PageStates /\ h.identity = page[p].identity /\ h.status = "idle"
      /\ h.keys = page[p].keys /\ h.user = page[p].user /\ h.blob = page[p].blob
      /\ h.device = page[p].device /\ h.assumed = page[p].assumed
      /\ h.crossed = page[p].crossed
  BY <1>3 DEF PageStates, Status
<1>8. Disk(p).identity = g.id /\ g.kind = "init" /\ g.keys = NoDevice
  OBVIOUS
<1> HIDE DEF e, g, h
<1>9. /\ flow'[p]["init"] = g /\ flow'[p]["late"] = e /\ flow'[p]["user"] = flow[p]["user"]
      /\ \A q \in Pages : q # p => flow'[q] = flow[q]
      /\ FlowTypeOK'
  <2>1. g \in Flows \cup {None} /\ e \in Flows \cup {None} /\ "init" # "late"
    BY <1>4, <1>5
  <2>2. /\ flow'[p]["init"] = g /\ flow'[p]["late"] = e
        /\ \A u \in Slots : u # "init" /\ u # "late" => flow'[p][u] = flow[p][u]
        /\ \A q \in Pages : q # p => flow'[q] = flow[q]
        /\ FlowTypeOK'
    BY <1>2, <1>3, <1>6, <2>1 DEF VaultTypeOK, FlowTypeOK
  <2> QED
    BY <1>3, <2>2
<1>10. PageIs(p, h) /\ page' \in [Pages -> PageStates] /\ page'[p] = h
  BY <1>1, <1>2, <1>7, PagePut DEF PageIs
<1>11. /\ history \subseteq history' /\ history' \subseteq Events
       /\ page[p].status = "needs-setup" => "unasked" \in history'
  BY <1>1, <1>2 DEF Note, VaultTypeOK, Events
<1>12. VaultTypeOK'
  BY <1>1, <1>2, <1>9, <1>10, <1>11, EventType DEF VaultTypeOK, FlowTypeOK
<1>13. Apart(p)
  BY <1>1, <1>9, <1>10, <1>11 DEF Apart, PageIs
<1>14. PageInv(p)'
  <2>1. ShapeOf(p)' /\ RecoverableOf(p)'
    BY <1>1, <1>2, <1>3, <1>4, <1>5, <1>7, <1>8, <1>9, <1>10, <1>11
    DEF PageInv, ShapeOf, RecoverableOf, Registering, Steps, In, InFlow, Slots, Inits, Disturbed
  <2>2. OnDiskOf(p)' /\ StillNoneOf(p)' /\ OnItsDiskOf(p)'
    <3>1. Disk(p)' = Disk(p)
      BY <1>1 DEF Disk
    <3> QED
      BY <1>2, <1>3, <1>4, <1>5, <1>8, <1>9, <1>11, <3>1
      DEF PageInv, OnDiskOf, StillNoneOf, OnItsDiskOf, Steps, In, Slots, Inits, Disturbed
  <2>3. AskingOf(p)' /\ NoUserOf(p)'
    BY <1>1, <1>7, <1>10 DEF AskingOf, NoUserOf
  <2>4. OneRegistersOf(p)'
    BY <1>1, <1>2, <1>3, <1>4, <1>5, <1>7, <1>9, <1>10
    DEF PageInv, OneRegistersOf, Registering, In, Slots
  <2> QED
    BY <2>1, <2>2, <2>3, <2>4 DEF PageInv
<1>15. PublishedHeld'
  <2>1. \A q \in Pages, s \in Slots : In(q, s, "publish") => \E r \in Slots : In(q, r, "publish")'
    BY <1>1, <1>3, <1>5, <1>9 DEF In, Slots
  <2> QED
    BY <1>1, <1>2, <1>11, <2>1 DEF SharedInv, PublishedHeld
<1>16. PinOwed'
  <2>1. Owes(p) => Owes(p)' \/ history' # {}
    BY <1>9, <1>11 DEF Owes, InFlow
  <2> QED
    BY <1>1, <1>2, <1>13, <2>1, OwedStays DEF SharedInv
<1>17. SignedOnce' /\ WholeOnDisk'
  <2>1. ASSUME NEW k \in DeviceKeys, Seen(k)' PROVE Seen(k) \/ k = NoDevice
    <3>1. CASE \E q \in Pages, r \in Slots : flow'[q][r] # None /\ k = flow'[q][r].keys
      <4>1. PICK q \in Pages, r \in Slots : flow'[q][r] # None /\ k = flow'[q][r].keys
        BY <3>1
      <4>2. \A x \in Pages, y \in Slots : flow[x][y] # None => Seen(flow[x][y].keys)
        BY Zenon DEF Seen
      <4>3. CASE q = p /\ r = "late"
        BY <1>5, <1>9, <4>1, <4>2, <4>3 DEF Slots, Inits
      <4>4. CASE q # p \/ r # "late"
        <5>1. flow'[q][r] = flow[q][r] \/ (flow'[q][r] = g /\ g.keys = NoDevice)
          BY <1>8, <1>9, <4>1, <4>4 DEF Slots
        <5> QED
          BY <4>1, <4>2, <5>1
      <4> QED
        BY <4>3, <4>4
    <3>2. CASE \E q \in Pages : k = page'[q].keys
      BY <1>7, <1>10, <3>2 DEF PageIs, Seen
    <3> QED
      BY <1>1, <2>1, <3>1, <3>2 DEF Seen
  <2>2. SignedOnce'
    <3>1. made' \in MaybeKey /\ made' >= made
      BY <1>1, <1>2 DEF VaultTypeOK, MaybeKey, Keys, NoKey
    <3> QED
      BY <1>2, <1>3, <2>1, <3>1, SignedStays DEF SharedInv
  <2> QED
    BY <1>1, <1>2, <2>2 DEF SharedInv, WholeOnDisk
<1> QED
  BY <1>12, <1>13, <1>14, <1>15, <1>16, <1>17, Together DEF SharedInv

\* A flow that gets device keys finds those on its disk, or makes new ones.
LEMMA KeysGot ==
  ASSUME VaultTypeOK, SignedOnce, WholeOnDisk, NEW p \in Pages, NEW s \in Slots,
         NEW f \in Flows, NEW state \in PageStates, NEW onDisk \in {Disk(p).keys, NoDevice},
         NEW d \in StoreType, GetsKeys(p, s, f, state, onDisk), DiskIs(p, d),
         d.keys \in {Disk(p).keys, NoDevice}, state.keys \in {page[p].keys, NoDevice},
         devices' = devices, made' \in MaybeKey
  PROVE  SignedOnce' /\ WholeOnDisk' /\ made' >= made
<1>1. PICK k \in DeviceKeys, step \in {"mint", "register"} :
        /\ FlowIs(p, s, [f EXCEPT !.keys = k, !.step = step])
        /\ PageIs(p, IF step = "register" THEN [state EXCEPT !.keys = k] ELSE state)
        /\ \/ step = "register" /\ k = onDisk /\ made' = made
           \/ step = "mint" /\ k = [dh |-> made + 1, by |-> f.id] /\ made' = made + 1
  BY DEF GetsKeys
<1> DEFINE g == [f EXCEPT !.keys = k, !.step = step]
           h == IF step = "register" THEN [state EXCEPT !.keys = k] ELSE state
           new == IF step = "mint" THEN k ELSE NoDevice
<1>2. g.keys = k /\ h.keys \in {k, page[p].keys, NoDevice}
  BY DEF Flows, PageStates
<1>3. /\ made \in Nat /\ made' >= made /\ new \in DeviceKeys
      /\ new = NoDevice \/ (new.dh = made + 1 /\ made' = made + 1)
  BY <1>1 DEF VaultTypeOK, MaybeKey, Keys, NoKey, DeviceKeys, NoDevice
<1>4. home[p] \in Browsers /\ Disk(p) = store[home[p]]
  BY DEF VaultTypeOK, Disk
<1>5. FlowIs(p, s, g) /\ PageIs(p, h)
  BY <1>1
<1> HIDE DEF g, h
<1>6. ASSUME NEW l \in DeviceKeys, Seen(l)' PROVE Seen(l) \/ l = NoDevice \/ l = new
  <2>1. Seen(l) \/ l = h.keys \/ l = d.keys \/ l = g.keys
    BY <1>5, <1>6, SeenAfter
  <2>2. Seen(Disk(p).keys) /\ Seen(page[p].keys)
    BY <1>4 DEF Seen
  <2>3. k = new \/ k = NoDevice \/ k = Disk(p).keys
    BY <1>1
  <2> QED
    BY <1>2, <2>1, <2>2, <2>3
<1>7. SignedOnce'
  <2> HIDE DEF new
  <2> QED
    BY <1>3, <1>6, SignedStays
<1>8. WholeOnDisk'
  BY <1>4 DEF WholeOnDisk, DiskIs
<1> QED
  BY <1>3, <1>7, <1>8

\* What Adopt does to its page, whichever of its two callers it ends.
LEMMA Adopted ==
  ASSUME IndInv, NEW p \in Pages, NEW s \in Inits, NEW status \in {page[p].status, "needs-setup"},
         Steps(p, s, {"ask", "publish"}), flow[p][s].id # NoKey, Adopt(p, s, status),
         UNCHANGED <<home, store, recovery, devices>>, history \subseteq history'
  PROVE  /\ FlowTypeOK' /\ page' \in [Pages -> PageStates] /\ made' \in MaybeKey
         /\ Apart(p) /\ PageInv(p)' /\ SignedOnce' /\ WholeOnDisk'
         /\ ~In(p, s, "publish")' /\ \A r \in Slots : r # s => flow'[p][r] = flow[p][r]
         /\ page'[p].status = status
<1> DEFINE f == flow[p][s]
           state == [page[p] EXCEPT !.status = status, !.identity = f.id,
                                    !.crossed = @ \/ Crosses(p, s)]
           over == [page[p] EXCEPT !.status = status, !.promise = FALSE]
<1>1. VaultTypeOK /\ PageInv(p) /\ SharedInv
  BY DEF IndInv
<1>2. /\ f \in Flows /\ f # None /\ f.step \in {"ask", "publish"} /\ f.id # NoKey /\ f.kind = "init"
      /\ page[p] \in PageStates /\ Disk(p) \in StoreType
      /\ s \in Slots /\ "user" \in Slots /\ s # "user" /\ NoDevice \in DeviceKeys
  BY <1>1, Typed DEF Steps, PageInv, ShapeOf, Inits
<1>3. Disk(p).identity # NoKey \/ Disturbed
  BY <1>1 DEF PageInv, OnDiskOf, Steps
<1>4. state \in PageStates /\ over \in PageStates
  BY <1>2 DEF PageStates, Status, Flows
<1>5. CASE /\ f.stale /\ page' = [page EXCEPT ![p] = over]
           /\ flow' = [flow EXCEPT ![p][s] = None] /\ made' = made
  <2>1. FlowIs(p, s, None) /\ PageIs(p, over) /\ FlowTypeOK' /\ page' \in [Pages -> PageStates]
    BY <1>1, <1>2, <1>4, <1>5, FlowPut, PagePut
  <2>2. /\ flow'[p][s] = None /\ page'[p] = over
        /\ \A r \in Slots : r # s => flow'[p][r] = flow[p][r]
    BY <1>2, <2>1 DEF FlowIs, PageIs
  <2>3. Apart(p)
    BY <2>1 DEF Apart, FlowIs, PageIs
  <2>4. ShapeOf(p)' /\ RecoverableOf(p)' /\ OneRegistersOf(p)'
    <3>1. /\ over.crossed = page[p].crossed /\ over.keys = page[p].keys /\ over.device = page[p].device
          /\ over.assumed = page[p].assumed /\ over.blob = page[p].blob
      BY <1>2 DEF PageStates
    <3>2. ~Registering(p, s)
      BY <1>2 DEF Registering
    <3> QED
      BY <1>1, <1>2, <2>2, <3>1, <3>2
      DEF PageInv, ShapeOf, RecoverableOf, OneRegistersOf, Registering, Steps, In, InFlow, Slots, Inits, Disturbed
  <2>5. OnDiskOf(p)' /\ StillNoneOf(p)' /\ OnItsDiskOf(p)'
    BY <1>1, <1>2, <2>2
    DEF PageInv, OnDiskOf, StillNoneOf, OnItsDiskOf, Disk, Steps, In, Slots, Inits, Disturbed, PageStates
  <2>6. AskingOf(p)' /\ NoUserOf(p)'
    <3>1. over.status = status /\ over.identity = page[p].identity /\ over.user = page[p].user
          /\ over.left = page[p].left
      BY <1>2 DEF PageStates
    <3> HIDE DEF over
    <3> QED
      BY <1>1, <1>2, <1>3, <2>2, <3>1
      DEF PageInv, AskingOf, StillNoneOf, NoUserOf, In, Slots, Inits, Disturbed
  <2>7. SignedOnce' /\ WholeOnDisk'
    <3>1. over.keys = page[p].keys /\ made' \in MaybeKey /\ made' >= made
      BY <1>1, <1>2, <1>5 DEF VaultTypeOK, PageStates, MaybeKey, Keys, NoKey
    <3> HIDE DEF over
    <3> QED
      BY <1>2, <2>1, <3>1, PairsStay
  <2>8. over.status = status
    BY <1>2 DEF PageStates
  <2> QED
    BY <1>1, <1>5, <2>1, <2>2, <2>3, <2>4, <2>5, <2>6, <2>7, <2>8 DEF PageInv, In, VaultTypeOK
<1>6. CASE ~f.stale /\ DeviceKeysOf(p, s, f, state, Disk(p).keys)
  <2>1. Disk(p).keys \in DeviceKeys /\ (Disk(p).keys # NoDevice => Disk(p).keys.dh # NoKey)
    BY <1>1, <1>2 DEF SharedInv, WholeOnDisk, StoreType, Disk, VaultTypeOK
  <2>2. /\ GetsKeys(p, s, f, state, Disk(p).keys)
        /\ FlowTypeOK' /\ page' \in [Pages -> PageStates] /\ made' \in MaybeKey
    <3> HIDE DEF f, state
    <3> QED
      BY <1>1, <1>2, <1>4, <1>6, <2>1, GetsKeysOf
  <2>3. PICK k \in DeviceKeys, step \in {"mint", "register"} :
          /\ k.dh # NoKey
          /\ FlowIs(p, s, [f EXCEPT !.keys = k, !.step = step])
          /\ PageIs(p, IF step = "register" THEN [state EXCEPT !.keys = k] ELSE state)
    BY <2>2 DEF GetsKeys
  <2> DEFINE g == [f EXCEPT !.keys = k, !.step = step]
             h == IF step = "register" THEN [state EXCEPT !.keys = k] ELSE state
  <2>4. /\ g.kind = "init" /\ g.step = step /\ g.id = f.id /\ g.keys = k /\ g \in Flows /\ g # None
    <3>1. g \in Flows
      BY <1>2 DEF Flows
    <3> QED
      BY <1>2, <3>1, NoneIsNoFlow DEF Flows
  <2>5. /\ h.status = status /\ h.identity = f.id /\ h.user = page[p].user /\ h.blob = page[p].blob
        /\ h.left = page[p].left /\ h.crossed = (page[p].crossed \/ Crosses(p, s))
        /\ h.device = page[p].device /\ h.assumed = page[p].assumed
        /\ step = "mint" => h.keys = page[p].keys
        /\ step = "register" => h.keys = k
    BY <1>2 DEF PageStates
  <2>6. /\ flow'[p][s] = g /\ page'[p] = h
        /\ \A r \in Slots : r # s => flow'[p][r] = flow[p][r]
        /\ \A q \in Pages : q # p => page'[q] = page[q] /\ flow'[q] = flow[q]
    BY <1>2, <2>3 DEF FlowIs, PageIs
  <2> HIDE DEF g, h
  <2>7. Apart(p)
    BY <2>6 DEF Apart
  <2>8. ShapeOf(p)' /\ RecoverableOf(p)'
    BY <1>1, <1>2, <2>3, <2>4, <2>5, <2>6
    DEF PageInv, ShapeOf, RecoverableOf, Registering, Steps, In, InFlow, Slots, Inits, Disturbed
  <2>9. OneRegistersOf(p)'
    <3> SUFFICES ASSUME ~h.crossed PROVE OneRegistersOf(p)'
      BY <2>6 DEF OneRegistersOf
    <3>1. ~Registering(p, s) /\ \A r \in Slots : ~Registering(p, r)
      BY <1>2, <2>5 DEF Crosses, Registering
    <3>2. \A r \in Slots : r # s => ~Registering(p, r)' /\ ~In(p, r, "register")'
      BY <2>6, <3>1 DEF Registering, In
    <3>3. Registering(p, s)' /\ (In(p, s, "register")' => page'[p].keys = flow'[p][s].keys)
      BY <2>3, <2>4, <2>5, <2>6 DEF Registering, In
    <3> QED
      BY <1>2, <3>2, <3>3 DEF OneRegistersOf
  <2>10. OnDiskOf(p)' /\ StillNoneOf(p)' /\ OnItsDiskOf(p)'
    BY <1>1, <1>2, <1>3, <2>3, <2>4, <2>5, <2>6
    DEF PageInv, OnDiskOf, StillNoneOf, OnItsDiskOf, Disk, Steps, In, Slots, Inits, Disturbed
  <2>11. AskingOf(p)' /\ NoUserOf(p)'
    BY <1>1, <1>2, <1>3, <2>3, <2>4, <2>5, <2>6
    DEF PageInv, AskingOf, StillNoneOf, NoUserOf, In, Slots, Inits, Disturbed
  <2>12. SignedOnce' /\ WholeOnDisk'
    <3>1. DiskIs(p, Disk(p))
      BY DEF DiskIs, Disk
    <3>2. state.keys = page[p].keys
      BY <1>2 DEF PageStates
    <3> HIDE DEF f, state
    <3> QED
      BY <1>1, <1>2, <1>4, <2>2, <3>1, <3>2, KeysGot DEF SharedInv
  <2> QED
    BY <2>2, <2>3, <2>4, <2>5, <2>6, <2>7, <2>8, <2>9, <2>10, <2>11, <2>12 DEF PageInv, In
<1> QED
  BY <1>2, <1>5, <1>6 DEF Adopt, End, Settled

LEMMA AskWithKeysKeeps ==
  ASSUME IndInv, NEW p \in Pages, NEW s \in Inits, AskWithKeys(p, s)
  PROVE  IndInv'
<1>1. /\ Steps(p, s, {"ask", "publish"}) /\ In(p, s, "ask") /\ flow[p][s].id # NoKey
      /\ UNCHANGED <<home, store, bundle, recovery, devices, history>>
      /\ UNCHANGED events \/ Event
  BY DEF AskWithKeys, server, Steps, In
<1>2. PICK status \in {page[p].status, "needs-setup"} : Adopt(p, s, status)
  BY DEF AskWithKeys
<1>3. VaultTypeOK /\ PageInv(p) /\ SharedInv
  BY DEF IndInv
<1>4. /\ FlowTypeOK' /\ page' \in [Pages -> PageStates] /\ made' \in MaybeKey
      /\ Apart(p) /\ PageInv(p)' /\ SignedOnce' /\ WholeOnDisk'
      /\ \A r \in Slots : r # s => flow'[p][r] = flow[p][r]
      /\ page'[p].status = status
  BY <1>1, <1>2, Adopted
<1>5. VaultTypeOK'
  BY <1>1, <1>3, <1>4, EventType DEF VaultTypeOK, FlowTypeOK
<1>6. PublishedHeld'
  <2>1. \A q \in Pages, r \in Slots : In(q, r, "publish") => In(q, r, "publish")'
    BY <1>1, <1>4 DEF In, Apart, Slots
  <2> QED
    BY <1>1, <1>3, <2>1, HeldStays DEF SharedInv
<1>7. PinOwed'
  <2>1. flow'[p]["user"] = flow[p]["user"]
    BY <1>4 DEF Slots, Inits
  <2>2. Owes(p) => Owes(p)'
    BY <1>4, <2>1 DEF Owes, InFlow
  <2> QED
    BY <1>1, <1>3, <1>4, <2>2, OwedStays DEF SharedInv
<1> QED
  BY <1>3, <1>4, <1>5, <1>6, <1>7, Together DEF SharedInv

LEMMA PublishFirstKeeps ==
  ASSUME IndInv, NEW p \in Pages, NEW s \in Inits, PublishFirst(p, s)
  PROVE  IndInv'
<1>1. /\ In(p, s, "publish") /\ Steps(p, s, {"ask", "publish"})
      /\ bundle' = flow[p][s].id /\ Adopt(p, s, "needs-setup")
      /\ Sharing(p, s) => "shared" \in history'
      /\ history \subseteq history' /\ history' \subseteq history \cup {"shared"}
      /\ UNCHANGED <<home, store, recovery, devices, events>>
  BY DEF PublishFirst, Steps, In, Note
<1>2. VaultTypeOK /\ PageInv(p) /\ SharedInv
  BY DEF IndInv
<1>3. /\ flow[p][s].id # NoKey /\ flow[p][s].id \in MaybeKey
      /\ s \in Slots /\ "user" \in Slots /\ s # "user"
  BY <1>1, <1>2, Typed DEF PageInv, ShapeOf, Steps, In, Flows, Inits
<1>4. /\ FlowTypeOK' /\ page' \in [Pages -> PageStates] /\ made' \in MaybeKey
      /\ Apart(p) /\ PageInv(p)' /\ SignedOnce' /\ WholeOnDisk'
      /\ \A r \in Slots : r # s => flow'[p][r] = flow[p][r]
      /\ page'[p].status = "needs-setup"
  BY <1>1, <1>3, Adopted
<1>5. VaultTypeOK'
  BY <1>1, <1>2, <1>3, <1>4 DEF VaultTypeOK, FlowTypeOK, Events
<1>6. PublishedHeld'
  <2>1. Disturbed' \/ store'[home[p]].identity = bundle'
    BY <1>1, <1>2, <1>3 DEF PageInv, OnItsDiskOf, Disk, Disturbed
  <2> QED
    BY <1>2, <2>1 DEF PublishedHeld, VaultTypeOK, Disturbed
<1>7. PinOwed'
  <2>1. InFlow(p, "unlock") => In(p, "user", "save") \/ Disturbed
    BY <1>1, <1>2 DEF PageInv, RecoverableOf, Steps, In
  <2>2. In(p, "user", "save") => Sharing(p, s)
    BY <1>3 DEF Sharing, In
  <2>3. Owes(p)' \/ history' # {}
    BY <1>1, <1>3, <1>4, <2>1, <2>2 DEF Owes, InFlow, Disturbed
  <2> QED
    BY <2>3 DEF PinOwed
<1> QED
  BY <1>4, <1>5, <1>6, <1>7, Together DEF SharedInv

LEMMA AskWithoutKeysKeeps ==
  ASSUME IndInv, NEW p \in Pages, NEW s \in Inits, AskWithoutKeys(p, s)
  PROVE  IndInv'
<1> DEFINE f == flow[p][s]
           asks == [page[p] EXCEPT !.blob = recovery, !.status = "needs-recovery",
                                   !.promise = FALSE]
           ends == [page[p] EXCEPT !.promise = FALSE]
           fresh == [f EXCEPT !.id = made + 1, !.step = "save"]
<1>1. /\ In(p, s, "ask") /\ f.id = NoKey
      /\ UNCHANGED <<home, store, bundle, recovery, devices, history>>
  BY DEF AskWithoutKeys, server
<1>2. VaultTypeOK /\ PageInv(p) /\ SharedInv
  BY DEF IndInv
<1>3. /\ f \in Flows /\ f # None /\ f.step = "ask" /\ f.kind = "init"
      /\ page[p] \in PageStates /\ s \in Slots /\ "user" \in Slots /\ s # "user"
      /\ ~Registering(p, s)
  BY <1>1, <1>2, Typed DEF In, PageInv, ShapeOf, Registering, Inits
<1>4. PICK g \in Flows \cup {None}, h \in PageStates :
        /\ flow' = [flow EXCEPT ![p][s] = g] /\ page' = [page EXCEPT ![p] = h]
        /\ made' \in MaybeKey /\ made' >= made /\ events' \in 0 .. MaxEvents
        /\ h.identity = page[p].identity /\ h.keys = page[p].keys /\ h.device = page[p].device
        /\ h.user = page[p].user /\ h.assumed = page[p].assumed /\ h.crossed = page[p].crossed
        /\ h.left = page[p].left
        /\ \/ recovery # NoKey /\ g = None /\ h.status = "needs-recovery" /\ h.blob = recovery
           \/ /\ h.status = page[p].status /\ h.blob = page[p].blob
              /\ \/ g = None
                 \/ /\ recovery = NoKey /\ g # None /\ g.kind = "init" /\ g.step = "save"
                    /\ g.id # NoKey /\ g.stale = f.stale /\ g.keys = f.keys
  <2>1. made \in MaybeKey /\ made >= made /\ events \in 0 .. MaxEvents /\ recovery \in MaybeKey
    BY <1>2 DEF VaultTypeOK, MaybeKey, Keys, NoKey
  <2>2. page = [page EXCEPT ![p] = page[p]]
    BY <1>2 DEF VaultTypeOK
  <2>3. CASE recovery # NoKey /\ page' = [page EXCEPT ![p] = asks] /\ End(p, s)
              /\ UNCHANGED <<made, events>>
    <3>1. asks \in PageStates
      BY <1>3, <2>1 DEF PageStates, Status
    <3>2. /\ asks.identity = page[p].identity /\ asks.keys = page[p].keys
          /\ asks.device = page[p].device /\ asks.user = page[p].user
          /\ asks.assumed = page[p].assumed /\ asks.crossed = page[p].crossed /\ asks.left = page[p].left
          /\ asks.status = "needs-recovery" /\ asks.blob = recovery
      BY <1>3 DEF PageStates
    <3> HIDE DEF asks, f
    <3> QED
      BY <2>1, <2>3, <3>1, <3>2 DEF End
  <2>4. CASE /\ recovery = NoKey /\ New(1) /\ flow' = [flow EXCEPT ![p][s] = fresh]
             /\ UNCHANGED <<page, events>>
    <3>1. made' = made + 1 /\ made + 1 \in MaybeKey /\ made + 1 # NoKey
      BY <1>2, <2>4, NewKey
    <3>2. fresh \in Flows
      BY <1>3, <3>1 DEF Flows
    <3>3. /\ fresh # None /\ fresh.kind = "init" /\ fresh.step = "save" /\ fresh.id # NoKey
          /\ fresh.stale = f.stale /\ fresh.keys = f.keys
      BY <1>3, <3>1, <3>2, NoneIsNoFlow DEF Flows
    <3>4. made' \in MaybeKey /\ made' >= made
      BY <2>1, <3>1 DEF MaybeKey, Keys, NoKey
    <3> HIDE DEF fresh, f
    <3> QED
      BY <1>3, <2>1, <2>2, <2>4, <3>2, <3>3, <3>4
  <2>5. CASE Event /\ End(p, s) /\ page' = [page EXCEPT ![p] = ends] /\ UNCHANGED made
    <3>1. events' \in 0 .. MaxEvents
      BY <1>2, <2>5, EventType
    <3>2. /\ ends \in PageStates /\ ends.identity = page[p].identity /\ ends.keys = page[p].keys
          /\ ends.device = page[p].device /\ ends.user = page[p].user
          /\ ends.assumed = page[p].assumed /\ ends.crossed = page[p].crossed
          /\ ends.left = page[p].left /\ ends.status = page[p].status /\ ends.blob = page[p].blob
      BY <1>3 DEF PageStates
    <3> HIDE DEF ends, f
    <3> QED
      BY <1>3, <2>1, <2>5, <3>1, <3>2 DEF End
  <2>6. [flow EXCEPT ![p][s].id = made + 1, ![p][s].step = "save"]
          = [flow EXCEPT ![p][s] = fresh]
    BY <1>2, <1>3 DEF VaultTypeOK
  <2> QED
    BY <1>1, <1>2, <1>3, <2>3, <2>4, <2>5, <2>6 DEF AskWithoutKeys, Settled, VaultTypeOK
<1> HIDE DEF f
<1>5. FlowIs(p, s, g) /\ PageIs(p, h) /\ FlowTypeOK' /\ page' \in [Pages -> PageStates]
  BY <1>2, <1>3, <1>4, FlowPut, PagePut
<1>6. VaultTypeOK'
  BY <1>1, <1>2, <1>4, <1>5 DEF VaultTypeOK, FlowTypeOK
<1>7. Apart(p)
  BY <1>1, <1>5 DEF Apart, FlowIs, PageIs
<1>8. /\ flow'[p][s] = g /\ page'[p] = h /\ flow'[p]["user"] = flow[p]["user"]
      /\ \A r \in Slots : r # s => flow'[p][r] = flow[p][r]
  BY <1>3, <1>5 DEF FlowIs, PageIs
<1>9. PageInv(p)'
  <2>1. ShapeOf(p)' /\ RecoverableOf(p)'
    BY <1>1, <1>2, <1>3, <1>4, <1>8
    DEF f, PageInv, ShapeOf, RecoverableOf, Registering, Steps, In, InFlow, Slots, Inits, Disturbed
  <2>2. OnDiskOf(p)' /\ StillNoneOf(p)' /\ OnItsDiskOf(p)'
    BY <1>1, <1>2, <1>3, <1>4, <1>8
    DEF PageInv, OnDiskOf, StillNoneOf, OnItsDiskOf, Disk, Steps, In, Slots, Inits, Disturbed
  <2>3. AskingOf(p)' /\ NoUserOf(p)'
    BY <1>1, <1>2, <1>3, <1>4, <1>8
    DEF f, PageInv, AskingOf, NoUserOf, Steps, In, InFlow, Slots, Inits, Disturbed
  <2>4. OneRegistersOf(p)'
    BY <1>1, <1>2, <1>3, <1>4, <1>8 DEF PageInv, OneRegistersOf, Registering, In, Slots, Inits, Disturbed
  <2> QED
    BY <2>1, <2>2, <2>3, <2>4 DEF PageInv
<1>10. PublishedHeld'
  <2>1. \A q \in Pages, r \in Slots : In(q, r, "publish") => In(q, r, "publish")'
    BY <1>3, <1>5 DEF f, In, FlowIs, Slots
  <2> QED
    BY <1>1, <1>2, <2>1, HeldStays DEF SharedInv
<1>11. PinOwed'
  <2>1. Owes(p) => Owes(p)' \/ history' # {}
    BY <1>1, <1>2, <1>4, <1>8 DEF f, PageInv, AskingOf, Owes, InFlow, Disturbed
  <2> QED
    BY <1>1, <1>2, <1>7, <2>1, OwedStays DEF SharedInv
<1>12. SignedOnce' /\ WholeOnDisk'
  BY <1>1, <1>3, <1>4, <1>5, PairsStay DEF f
<1> QED
  BY <1>6, <1>7, <1>9, <1>10, <1>11, <1>12, Together DEF SharedInv

-----------------------------------------------------------------------------
(* Unlock, reset and set-up.                                               *)

\* The user starts a flow that has its identity and changes nothing else yet.
LEMMA UserFlowKeeps ==
  ASSUME IndInv, NEW p \in Pages, NEW kind \in {"unlock", "setup"}, NEW id \in Keys,
         UserFlow(p, kind, IF kind = "unlock" THEN "save" ELSE "encrypt", id),
         kind = "unlock" => page[p].status = "needs-recovery" /\ page[p].blob # NoKey,
         UNCHANGED <<home, store, page, server, made, history>>
  PROVE  IndInv'
<1> DEFINE g == [kind |-> kind, step |-> IF kind = "unlock" THEN "save" ELSE "encrypt", id |-> id,
                 keys |-> NoDevice, stale |-> FALSE]
<1>1. /\ flow' = [flow EXCEPT ![p]["user"] = g] /\ page[p].user /\ flow[p]["user"] = None
      /\ UNCHANGED <<home, store, page, bundle, recovery, devices, made, history>> /\ Event
  BY DEF UserFlow, server
<1>2. VaultTypeOK /\ PageInv(p) /\ SharedInv
  BY DEF IndInv
<1>3. /\ page[p] \in PageStates /\ "init" \in Slots /\ "user" \in Slots /\ NoDevice \in DeviceKeys
      /\ id # NoKey /\ id \in MaybeKey
  BY <1>2, Typed DEF Keys, NoKey, MaybeKey
<1>4. g \in Flows /\ g # None
  <2>1. g \in Flows
    BY <1>3 DEF Flows
  <2> QED
    BY <2>1, NoneIsNoFlow
<1>5. FlowIs(p, "user", g) /\ PageIs(p, page[p]) /\ FlowTypeOK'
  BY <1>1, <1>2, <1>3, <1>4, FlowPut DEF PageIs
<1>6. VaultTypeOK'
  BY <1>1, <1>2, <1>5, EventType DEF VaultTypeOK, FlowTypeOK
<1>7. Apart(p)
  BY <1>1, <1>5 DEF Apart, FlowIs
<1>8. /\ flow'[p]["user"] = g /\ page' = page
      /\ \A r \in Slots : r # "user" => flow'[p][r] = flow[p][r]
  BY <1>1, <1>3, <1>5 DEF FlowIs
<1>9. PageInv(p)'
  <2>1. ShapeOf(p)' /\ RecoverableOf(p)'
    BY <1>1, <1>2, <1>3, <1>4, <1>8
    DEF PageInv, ShapeOf, RecoverableOf, Registering, Steps, In, InFlow, Slots, Inits, Disturbed
  <2>2. OnDiskOf(p)' /\ StillNoneOf(p)' /\ OnItsDiskOf(p)'
    BY <1>1, <1>2, <1>3, <1>8
    DEF PageInv, OnDiskOf, StillNoneOf, OnItsDiskOf, Disk, Steps, In, Slots, Inits, Disturbed
  <2>3. AskingOf(p)' /\ NoUserOf(p)'
    BY <1>1, <1>2, <1>3, <1>8 DEF PageInv, AskingOf, NoUserOf, In, Slots, Inits, Disturbed
  <2>4. OneRegistersOf(p)'
    BY <1>1, <1>2, <1>3, <1>8 DEF PageInv, OneRegistersOf, Registering, In, Slots, Inits, Disturbed
  <2> QED
    BY <2>1, <2>2, <2>3, <2>4 DEF PageInv
<1>10. PublishedHeld'
  <2>1. \A q \in Pages, s \in Slots : In(q, s, "publish") => In(q, s, "publish")'
    BY <1>1, <1>5 DEF In, FlowIs, Slots
  <2> QED
    BY <1>1, <1>2, <2>1, HeldStays DEF SharedInv
<1>11. PinOwed'
  <2>1. Owes(p) => Owes(p)'
    BY <1>1, <1>8 DEF Owes, InFlow
  <2> QED
    BY <1>1, <1>2, <1>7, <2>1, OwedStays DEF SharedInv
<1>12. SignedOnce' /\ WholeOnDisk'
  <2>1. g.keys = NoDevice /\ made' \in MaybeKey /\ made' >= made
    BY <1>1, <1>2 DEF VaultTypeOK, MaybeKey, Keys, NoKey
  <2> HIDE DEF g
  <2> QED
    BY <1>1, <1>3, <1>5, <2>1, PairsStay
<1> QED
  BY <1>6, <1>7, <1>9, <1>10, <1>11, <1>12, Together DEF SharedInv

LEMMA UserStartsKeep ==
  ASSUME IndInv, NEW p \in Pages, Unlock(p) \/ SetupStart(p)
  PROVE  IndInv'
<1>1. /\ page[p].blob # NoKey => page[p].blob \in Keys
      /\ page[p].identity # NoKey => page[p].identity \in Keys
  BY DEF IndInv, VaultTypeOK, PageStates, MaybeKey
<1>2. CASE Unlock(p)
  BY <1>1, <1>2, UserFlowKeeps DEF Unlock
<1>3. CASE SetupStart(p)
  BY <1>1, <1>3, UserFlowKeeps DEF SetupStart
<1> QED
  BY <1>2, <1>3

LEMMA SetupSaveKeeps ==
  ASSUME IndInv, NEW p \in Pages, SetupSave(p)
  PROVE  IndInv'
<1> DEFINE f == flow[p]["user"]
           asked == [page[p] EXCEPT !.status = IF @ = "needs-setup" THEN "ready" ELSE @]
<1>1. /\ In(p, "user", "encrypt") /\ flow' = [flow EXCEPT ![p]["user"] = None]
      /\ UNCHANGED <<home, store, bundle, devices, made>>
  BY DEF SetupSave, End
<1>2. VaultTypeOK /\ PageInv(p) /\ SharedInv
  BY DEF IndInv
<1>3. /\ f \in Flows /\ f # None /\ f.kind = "setup" /\ f.id \in MaybeKey /\ f.id # NoKey
      /\ f.step = "encrypt"
      /\ page[p] \in PageStates /\ "init" \in Slots /\ "user" \in Slots
  BY <1>1, <1>2, Typed DEF In, PageInv, ShapeOf, Flows
<1>4. PICK h \in PageStates :
        /\ page' = [page EXCEPT ![p] = h] /\ history \subseteq history'
        /\ history' \subseteq Events /\ recovery' \in MaybeKey /\ events' \in 0 .. MaxEvents
        /\ h.identity = page[p].identity /\ h.keys = page[p].keys /\ h.device = page[p].device
        /\ h.user = page[p].user /\ h.assumed = page[p].assumed /\ h.crossed = page[p].crossed
        /\ h.left = page[p].left
        /\ h.blob = page[p].blob
        /\ \/ /\ recovery' = f.id /\ h.status \in {page[p].status, "ready"}
              /\ f.id # bundle => "older" \in history'
           \/ recovery' = recovery /\ h.status = page[p].status /\ history' = history
  <2>1. CASE /\ recovery' = f.id /\ page' = [page EXCEPT ![p] = asked]
             /\ Note("older", f.id # bundle) /\ UNCHANGED events
    <3>1. asked \in PageStates
      BY <1>3 DEF PageStates, Status
    <3>2. /\ asked.identity = page[p].identity /\ asked.keys = page[p].keys
          /\ asked.device = page[p].device /\ asked.user = page[p].user
          /\ asked.assumed = page[p].assumed /\ asked.crossed = page[p].crossed
          /\ asked.left = page[p].left
          /\ asked.status \in {page[p].status, "ready"} /\ asked.blob = page[p].blob
      BY <1>3 DEF PageStates
    <3>3. /\ history \subseteq history' /\ history' \subseteq Events /\ events' \in 0 .. MaxEvents
          /\ f.id # bundle => "older" \in history'
      BY <1>2, <2>1 DEF Note, VaultTypeOK, Events
    <3> HIDE DEF asked, f
    <3> QED
      BY <1>3, <2>1, <3>1, <3>2, <3>3
  <2>2. CASE Event /\ UNCHANGED <<page, recovery, history>>
    <3>1. events' \in 0 .. MaxEvents /\ page = [page EXCEPT ![p] = page[p]]
          /\ recovery \in MaybeKey /\ history \subseteq Events
      BY <1>2, <2>2, EventType DEF VaultTypeOK
    <3> QED
      BY <1>3, <2>2, <3>1
  <2>3. \/ /\ recovery' = f.id /\ page' = [page EXCEPT ![p] = asked]
           /\ Note("older", f.id # bundle) /\ UNCHANGED events
        \/ Event /\ UNCHANGED <<page, recovery, history>>
    BY <1>2 DEF SetupSave, VaultTypeOK
  <2> QED
    BY <2>1, <2>2, <2>3
<1>5. FlowIs(p, "user", None) /\ PageIs(p, h) /\ FlowTypeOK' /\ page' \in [Pages -> PageStates]
  BY <1>1, <1>2, <1>3, <1>4, FlowPut, PagePut
<1>6. VaultTypeOK'
  BY <1>1, <1>2, <1>4, <1>5 DEF VaultTypeOK, FlowTypeOK
<1>7. Apart(p)
  BY <1>1, <1>3, <1>4, <1>5 DEF Apart, FlowIs, PageIs
<1>8. /\ flow'[p]["user"] = None /\ page'[p] = h
      /\ \A r \in Slots : r # "user" => flow'[p][r] = flow[p][r]
      /\ recovery # NoKey => recovery' # NoKey
  BY <1>3, <1>5, <1>7 DEF FlowIs, PageIs, Apart
<1>9. PageInv(p)'
  <2>1. ShapeOf(p)' /\ RecoverableOf(p)'
    BY <1>1, <1>2, <1>3, <1>4, <1>8
    DEF f, PageInv, ShapeOf, RecoverableOf, Registering, Steps, In, InFlow, Slots, Inits, Disturbed
  <2>2. OnDiskOf(p)' /\ StillNoneOf(p)' /\ OnItsDiskOf(p)'
    BY <1>1, <1>2, <1>3, <1>4, <1>8
    DEF PageInv, OnDiskOf, StillNoneOf, OnItsDiskOf, Disk, Steps, In, Slots, Inits, Disturbed
  <2>3. AskingOf(p)' /\ NoUserOf(p)'
    BY <1>1, <1>2, <1>3, <1>4, <1>8 DEF f, PageInv, AskingOf, NoUserOf, Steps, In, InFlow, Slots, Inits, Disturbed
  <2>4. OneRegistersOf(p)'
    BY <1>1, <1>2, <1>3, <1>4, <1>8 DEF f, PageInv, OneRegistersOf, Registering, In, Slots, Inits, Disturbed
  <2> QED
    BY <2>1, <2>2, <2>3, <2>4 DEF PageInv
<1>10. PublishedHeld'
  <2>1. \A q \in Pages, s \in Slots : In(q, s, "publish") => In(q, s, "publish")'
    BY <1>3, <1>5 DEF f, In, FlowIs, Slots
  <2> QED
    BY <1>1, <1>2, <1>4, <2>1, HeldStays DEF SharedInv
<1>11. PinOwed'
  <2>1. CASE recovery' = f.id /\ (f.id # bundle => "older" \in history')
    BY <1>1, <2>1 DEF PinOwed
  <2>2. CASE recovery' = recovery /\ h.status = page[p].status
    <3>1. Owes(p) => Owes(p)'
      BY <1>3, <1>8, <2>2 DEF f, Owes, InFlow
    <3> QED
      BY <1>1, <1>2, <1>7, <2>2, <3>1, OwedStays DEF SharedInv
  <2> QED
    BY <1>4, <2>1, <2>2
<1>12. SignedOnce' /\ WholeOnDisk'
  <2>1. made' \in MaybeKey /\ made' >= made
    BY <1>1, <1>2 DEF VaultTypeOK, MaybeKey, Keys, NoKey
  <2> QED
    BY <1>1, <1>3, <1>4, <1>5, <2>1, PairsStay
<1> QED
  BY <1>6, <1>7, <1>9, <1>10, <1>11, <1>12, Together DEF SharedInv

\* resetToNewKeys makes an init in flight stale.
LEMMA ResetKeeps ==
  ASSUME IndInv, NEW p \in Pages, Reset(p)
  PROVE  IndInv'
<1> DEFINE f == flow[p]["init"]
           g == [kind |-> "reset", step |-> "save", id |-> made + 1, keys |-> NoDevice,
                 stale |-> FALSE]
           e == IF f = None THEN None ELSE [f EXCEPT !.stale = TRUE]
           h == [page[p] EXCEPT !.promise = FALSE, !.crossed = page[p].crossed \/ Crosses(p, "user")]
<1>1. /\ page[p].user /\ flow[p]["user"] = None /\ New(1) /\ Event
      /\ page' = [page EXCEPT ![p] = h]
      /\ UNCHANGED <<home, store, bundle, recovery, devices, history>>
  BY DEF Reset, server
<1>2. VaultTypeOK /\ PageInv(p) /\ SharedInv
  BY DEF IndInv
<1>3. /\ page[p] \in PageStates /\ "init" \in Slots /\ "user" \in Slots /\ NoDevice \in DeviceKeys
      /\ f # None => f \in Flows
  BY <1>2, Typed
<1>4. made' = made + 1 /\ made + 1 \in MaybeKey /\ made + 1 # NoKey /\ made' >= made
  BY <1>1, <1>2, NewKey DEF VaultTypeOK, MaybeKey, Keys, NoKey
<1>5. g \in Flows /\ g # None
  <2>1. g \in Flows
    BY <1>3, <1>4 DEF Flows
  <2> QED
    BY <2>1, NoneIsNoFlow
<1>6. /\ e \in Flows \cup {None}
      /\ f = None <=> e = None
      /\ f # None => e.kind = f.kind /\ e.step = f.step /\ e.id = f.id /\ e.keys = f.keys
  <2>1. CASE f # None
    <3>1. [f EXCEPT !.stale = TRUE] \in Flows
      BY <1>3, <2>1 DEF Flows
    <3> QED
      BY <1>3, <2>1, <3>1, NoneIsNoFlow DEF Flows
  <2> QED
    BY <2>1
<1>7. flow' = [flow EXCEPT ![p]["user"] = g, ![p]["init"] = e]
  <2>1. flow' = [flow EXCEPT ![p]["user"] = g,
                             ![p]["init"] = IF @ = None THEN None ELSE [@ EXCEPT !.stale = TRUE]]
    BY DEF Reset
  <2> QED
    BY <1>2, <1>3, <2>1 DEF VaultTypeOK
<1>8. /\ h \in PageStates /\ h.identity = page[p].identity /\ h.status = page[p].status
      /\ h.keys = page[p].keys /\ h.user = page[p].user /\ h.blob = page[p].blob
      /\ h.device = page[p].device /\ h.assumed = page[p].assumed
      /\ h.left = page[p].left
      /\ h.crossed = (page[p].crossed \/ Crosses(p, "user"))
  BY <1>3 DEF PageStates
<1> HIDE DEF e, g, h
<1>9. /\ flow'[p]["user"] = g /\ flow'[p]["init"] = e /\ FlowTypeOK'
      /\ flow'[p]["late"] = flow[p]["late"]
      /\ \A q \in Pages : q # p => flow'[q] = flow[q]
  BY <1>2, <1>3, <1>5, <1>6, <1>7, Typed DEF VaultTypeOK, FlowTypeOK
<1>10. PageIs(p, h) /\ page' \in [Pages -> PageStates] /\ page'[p] = h
  BY <1>1, <1>2, <1>8, PagePut DEF PageIs
<1>11. VaultTypeOK'
  BY <1>1, <1>2, <1>4, <1>9, <1>10, EventType DEF VaultTypeOK, FlowTypeOK
<1>12. Apart(p)
  BY <1>1, <1>9, <1>10 DEF Apart, PageIs
<1>13. /\ g # None /\ g.kind = "reset" /\ g.step = "save" /\ g.id # NoKey /\ g.keys = NoDevice
  BY <1>4, <1>5 DEF g
<1>14. PageInv(p)'
  <2>1. ShapeOf(p)' /\ RecoverableOf(p)'
    BY <1>1, <1>2, <1>6, <1>8, <1>9, <1>10, <1>13
    DEF PageInv, ShapeOf, RecoverableOf, Registering, Steps, In, InFlow, Slots, Inits, Disturbed
  <2>2. OnDiskOf(p)' /\ StillNoneOf(p)' /\ OnItsDiskOf(p)'
    BY <1>1, <1>2, <1>6, <1>8, <1>9, <1>10, <1>13
    DEF PageInv, OnDiskOf, StillNoneOf, OnItsDiskOf, Disk, Steps, In, Slots, Inits, Disturbed
  <2>3. AskingOf(p)' /\ NoUserOf(p)'
    <3>1. \A s \in Inits : In(p, s, "ask")' /\ flow'[p][s].id = NoKey
                           => In(p, s, "ask") /\ flow[p][s].id = NoKey
      BY <1>6, <1>9 DEF In, Inits
    <3>2. page'[p].user /\ page'[p].status = page[p].status /\ (Disturbed => Disturbed')
      BY <1>1, <1>8, <1>10 DEF Disturbed
    <3> QED
      BY <1>2, <3>1, <3>2 DEF PageInv, AskingOf, NoUserOf
  <2>4. OneRegistersOf(p)'
    <3> SUFFICES ASSUME ~h.crossed PROVE OneRegistersOf(p)'
      BY <1>10 DEF OneRegistersOf
    <3>1. ~page[p].crossed /\ \A r \in Slots : ~Registering(p, r) /\ ~In(p, r, "register")
      BY <1>1, <1>8 DEF Crosses, Registering, In
    <3>2. \A r \in Slots : ~Registering(p, r)' /\ ~In(p, r, "register")'
      BY <1>6, <1>9, <1>13, <3>1 DEF Registering, In, Slots
    <3> QED
      BY <1>2, <1>8, <1>10, <3>1, <3>2 DEF PageInv, OneRegistersOf
  <2> QED
    BY <2>1, <2>2, <2>3, <2>4 DEF PageInv
<1>15. PublishedHeld'
  <2>1. \A q \in Pages, s \in Slots : In(q, s, "publish") => In(q, s, "publish")'
    BY <1>1, <1>6, <1>9 DEF In, Slots, Inits, Disturbed
  <2> QED
    BY <1>1, <1>2, <2>1, HeldStays DEF SharedInv
<1>16. PinOwed'
  <2>1. Owes(p)'
    BY <1>9, <1>13 DEF Owes, InFlow
  <2> QED
    BY <2>1 DEF PinOwed
<1>17. SignedOnce' /\ WholeOnDisk'
  <2>1. ASSUME NEW k \in DeviceKeys, Seen(k)' PROVE Seen(k) \/ k = NoDevice
    <3>1. CASE \E q \in Pages, r \in Slots : flow'[q][r] # None /\ k = flow'[q][r].keys
      BY <1>3, <1>6, <1>9, <1>13, <3>1 DEF Seen, Slots
    <3>2. CASE \E q \in Pages : k = page'[q].keys
      BY <1>8, <1>10, <3>2 DEF PageIs, Seen
    <3> QED
      BY <1>1, <2>1, <3>1, <3>2 DEF Seen
  <2>2. SignedOnce'
    BY <1>2, <1>3, <1>4, <2>1, SignedStays DEF SharedInv
  <2> QED
    BY <1>1, <1>2, <2>2 DEF SharedInv, WholeOnDisk
<1> QED
  BY <1>11, <1>12, <1>14, <1>15, <1>16, <1>17, Together DEF SharedInv

-----------------------------------------------------------------------------
(* The identity is saved, then published.                                  *)

\* The disk of a page is written and each flow that reads it is told.
LEMMA SavesApart ==
  ASSUME VaultTypeOK, NEW p \in Pages, NEW s \in Slots, NEW d \in StoreType, DiskIs(p, d),
         d.identity # NoKey, home' = home, UNCHANGED recovery,
         history \subseteq history', Sharing(p, s) => "shared" \in history',
         \A q \in Pages : q # p => page'[q] = page[q] /\ flow'[q] = flow[q]
  PROVE  Apart(p)
<1>1. \A b \in Browsers : store[b].identity # NoKey => store'[b].identity # NoKey
  BY DEF DiskIs
<1>2. ASSUME NEW q \in Pages, q # p, NEW r \in Slots, Steps(q, r, {"ask", "save", "publish"}),
             store'[home[q]].identity # store[home[q]].identity
      PROVE  "shared" \in history'
  <2>1. home[q] = home[p]
    BY <1>2 DEF DiskIs, VaultTypeOK
  <2> QED
    BY <1>2, <2>1 DEF Sharing, Steps
<1> QED
  BY <1>1, <1>2 DEF Apart, VaultTypeOK, Disturbed

\* A flow that will publish its identity has saved it.
LEMMA SaveToPublishKeeps ==
  ASSUME IndInv, NEW p \in Pages, NEW s \in Slots, Save(p, s), flow[p][s].kind # "unlock"
  PROVE  IndInv'
<1> DEFINE f == flow[p][s]
           g == [f EXCEPT !.step = "publish"]
           d == [Disk(p) EXCEPT !.identity = f.id]
<1>1. /\ In(p, s, "save") /\ Write(p, d) /\ Move(p, s, "publish")
      /\ Note("shared", Sharing(p, s) \/ Replaces(p, s))
      /\ UNCHANGED <<home, page, bundle, recovery, devices, made, events>>
  BY DEF Save, server
<1>2. VaultTypeOK /\ PageInv(p) /\ SharedInv
  BY DEF IndInv
<1>3. /\ f \in Flows /\ f # None /\ f.step = "save" /\ f.id \in MaybeKey /\ f.id # NoKey
      /\ Disk(p) \in StoreType /\ page[p] \in PageStates
      /\ "init" \in Slots /\ "user" \in Slots /\ home[p] \in Browsers
  <2>1. f \in Flows /\ f # None /\ f.step = "save"
    BY <1>1, <1>2, Typed DEF In
  <2>2. f.id # NoKey
    BY <1>2, <2>1 DEF PageInv, ShapeOf, Slots, Inits
  <2> QED
    BY <1>2, <2>1, <2>2, Typed DEF Flows
<1>4. /\ g \in Flows /\ g # None /\ g.step = "publish" /\ g.kind = f.kind /\ g.id = f.id
      /\ g.stale = f.stale /\ g.keys = f.keys
  <2>1. g \in Flows
    BY <1>3 DEF Flows
  <2> QED
    BY <1>3, <2>1, NoneIsNoFlow DEF Flows
<1>5. d \in StoreType /\ d.identity = f.id /\ d.keys = Disk(p).keys
  BY <1>3 DEF StoreType
<1>6. flow' = [flow EXCEPT ![p][s] = g]
  BY <1>1, <1>2, <1>3 DEF Move, VaultTypeOK
<1> HIDE DEF g, d
<1>7. /\ FlowIs(p, s, g) /\ PageIs(p, page[p]) /\ FlowTypeOK'
      /\ DiskIs(p, d) /\ store' \in [Browsers -> StoreType]
  BY <1>1, <1>2, <1>4, <1>5, <1>6, FlowPut, DiskPut DEF PageIs
<1>8. /\ history \subseteq history' /\ history' \subseteq Events
      /\ Sharing(p, s) => "shared" \in history'
  BY <1>1, <1>2 DEF Note, VaultTypeOK, Events
<1>9. VaultTypeOK'
  BY <1>1, <1>2, <1>7, <1>8 DEF VaultTypeOK, FlowTypeOK, StoreType
<1>10. Apart(p)
  <2>1. \A q \in Pages : q # p => page'[q] = page[q] /\ flow'[q] = flow[q]
    BY <1>1, <1>7 DEF FlowIs
  <2> QED
    BY <1>1, <1>2, <1>3, <1>5, <1>7, <1>8, <2>1, SavesApart
<1>11. /\ flow'[p][s] = g /\ \A r \in Slots : r # s => flow'[p][r] = flow[p][r]
       /\ page' = page /\ home' = home /\ store'[home[p]] = d
  BY <1>1, <1>7 DEF FlowIs, DiskIs
<1>12. \A r \in Slots : r # s /\ Steps(p, r, {"ask", "save", "publish"}) => "shared" \in history'
  BY <1>8 DEF Sharing, Steps
<1>13. PageInv(p)'
  <2>1. ShapeOf(p)' /\ RecoverableOf(p)'
    BY <1>1, <1>2, <1>3, <1>4, <1>8, <1>11
    DEF PageInv, ShapeOf, RecoverableOf, Registering, Steps, In, InFlow, Slots, Inits, Disturbed
  <2>2. OnDiskOf(p)'
    BY <1>3, <1>5, <1>11 DEF OnDiskOf, Disk
  <2>3. StillNoneOf(p)' /\ OnItsDiskOf(p)'
    BY <1>4, <1>5, <1>11, <1>12 DEF StillNoneOf, OnItsDiskOf, Disk, Steps, In, Slots, Inits, Disturbed
  <2>4. AskingOf(p)' /\ NoUserOf(p)'
    BY <1>2, <1>3, <1>4, <1>8, <1>11 DEF PageInv, AskingOf, NoUserOf, In, Slots, Inits, Disturbed
  <2>5. OneRegistersOf(p)'
    BY <1>2, <1>3, <1>4, <1>11 DEF PageInv, OneRegistersOf, Registering, In, Slots, Inits, Disturbed
  <2> QED
    BY <2>1, <2>2, <2>3, <2>4, <2>5 DEF PageInv
<1>14. PublishedHeld'
  BY <1>4, <1>11 DEF PublishedHeld, In
<1>15. PinOwed'
  <2>1. Owes(p) => Owes(p)'
    BY <1>3, <1>4, <1>11 DEF Owes, InFlow, Slots, Inits, Disturbed
  <2> QED
    BY <1>1, <1>2, <1>10, <2>1, OwedStays DEF SharedInv
<1>16. SignedOnce' /\ WholeOnDisk'
  <2>1. made' \in MaybeKey /\ made' >= made
    BY <1>1, <1>2 DEF VaultTypeOK, MaybeKey, Keys, NoKey
  <2>2. \A b \in Browsers : store'[b].keys = store[b].keys
    BY <1>5, <1>7 DEF DiskIs, Disk
  <2> QED
    BY <1>1, <1>3, <1>4, <1>7, <2>1, <2>2, PairsStay
<1> QED
  BY <1>9, <1>10, <1>13, <1>14, <1>15, <1>16, Together DEF SharedInv

\* unlockWithPin has its identity when it is saved.
LEMMA SaveToUnlockKeeps ==
  ASSUME IndInv, NEW p \in Pages, Save(p, "user"), flow[p]["user"].kind = "unlock"
  PROVE  IndInv'
<1> DEFINE f == flow[p]["user"]
           d == [Disk(p) EXCEPT !.identity = f.id]
           state == [page[p] EXCEPT !.identity = f.id, !.blob = NoKey,
                                    !.crossed = @ \/ Crosses(p, "user")]
<1>1. /\ In(p, "user", "save") /\ Write(p, d)
      /\ DeviceKeysOf(p, "user", f, state, Disk(p).keys)
      /\ Note("shared", Sharing(p, "user") \/ Replaces(p, "user"))
      /\ UNCHANGED <<home, bundle, recovery, devices, events>>
  BY DEF Save, server
<1>2. VaultTypeOK /\ PageInv(p) /\ SharedInv
  BY DEF IndInv
<1>3. /\ f \in Flows /\ f # None /\ f.step = "save" /\ f.kind = "unlock"
      /\ f.id \in MaybeKey /\ f.id # NoKey
      /\ Disk(p) \in StoreType /\ page[p] \in PageStates
      /\ "init" \in Slots /\ "user" \in Slots /\ home[p] \in Browsers /\ NoKey \in MaybeKey
  <2>1. f \in Flows /\ f # None /\ f.step = "save"
    BY <1>1, <1>2, Typed DEF In
  <2> QED
    BY <1>2, <2>1, Typed DEF PageInv, ShapeOf, Flows
<1>4. /\ state \in PageStates /\ d \in StoreType /\ d.identity = f.id /\ d.keys = Disk(p).keys
      /\ state.keys = page[p].keys
  BY <1>3 DEF PageStates, StoreType
<1>5. Disk(p).keys \in DeviceKeys /\ (Disk(p).keys # NoDevice => Disk(p).keys.dh # NoKey)
  BY <1>2, <1>3 DEF SharedInv, WholeOnDisk, StoreType, Disk
<1>6. /\ GetsKeys(p, "user", f, state, Disk(p).keys)
      /\ FlowTypeOK' /\ page' \in [Pages -> PageStates] /\ made' \in MaybeKey
      /\ DiskIs(p, d) /\ store' \in [Browsers -> StoreType]
  <2> HIDE DEF f, state, d
  <2> QED
    BY <1>1, <1>2, <1>3, <1>4, <1>5, GetsKeysOf, DiskPut
<1>7. PICK k \in DeviceKeys, step \in {"mint", "register"} :
        /\ k.dh # NoKey
        /\ FlowIs(p, "user", [f EXCEPT !.keys = k, !.step = step])
        /\ PageIs(p, IF step = "register" THEN [state EXCEPT !.keys = k] ELSE state)
  BY <1>6 DEF GetsKeys
<1> DEFINE g == [f EXCEPT !.keys = k, !.step = step]
           h == IF step = "register" THEN [state EXCEPT !.keys = k] ELSE state
<1>8. g.kind = "unlock" /\ g.step = step /\ g.id = f.id /\ g.keys = k /\ g # None
  <2>1. g \in Flows
    BY <1>3 DEF Flows
  <2> QED
    BY <1>3, <2>1, NoneIsNoFlow DEF Flows
<1>9. /\ h.status = page[p].status /\ h.identity = f.id /\ h.user = page[p].user /\ h.blob = NoKey
      /\ h.left = page[p].left /\ h.crossed = (page[p].crossed \/ Crosses(p, "user"))
      /\ step = "register" => h.keys = k
  BY <1>3 DEF PageStates
<1>10. /\ flow'[p]["user"] = g /\ page'[p] = h
       /\ \A r \in Slots : r # "user" => flow'[p][r] = flow[p][r]
       /\ store'[home[p]] = d
       /\ \A q \in Pages : q # p => page'[q] = page[q] /\ flow'[q] = flow[q]
  BY <1>3, <1>6, <1>7 DEF FlowIs, PageIs, DiskIs
<1> HIDE DEF g, h, d, state
<1>11. /\ history \subseteq history' /\ history' \subseteq Events
       /\ Sharing(p, "user") => "shared" \in history'
       /\ Disk(p).identity # NoKey => "shared" \in history'
       /\ \A r \in Inits : Steps(p, r, {"ask", "save", "publish"}) => "shared" \in history'
  BY <1>1, <1>2, <1>3 DEF Note, VaultTypeOK, Events, Replaces, Sharing, Steps, Slots, Inits
<1>12. VaultTypeOK'
  BY <1>1, <1>2, <1>6, <1>11 DEF VaultTypeOK, FlowTypeOK, StoreType
<1>13. Apart(p)
  BY <1>1, <1>2, <1>3, <1>4, <1>6, <1>10, <1>11, SavesApart
<1>14. PageInv(p)'
  <2>1. ShapeOf(p)' /\ RecoverableOf(p)'
    BY <1>1, <1>2, <1>3, <1>7, <1>8, <1>9, <1>10, <1>11
    DEF PageInv, ShapeOf, RecoverableOf, Registering, Steps, In, InFlow, Slots, Inits, Disturbed
  <2>2. OnDiskOf(p)'
    BY <1>1, <1>3, <1>4, <1>10 DEF OnDiskOf, Disk
  <2>3. StillNoneOf(p)' /\ OnItsDiskOf(p)'
    BY <1>7, <1>8, <1>10, <1>11 DEF StillNoneOf, OnItsDiskOf, Steps, In, Slots, Inits, Disturbed
  <2>4. AskingOf(p)' /\ NoUserOf(p)'
    BY <1>2, <1>3, <1>8, <1>9, <1>10, <1>11 DEF PageInv, AskingOf, NoUserOf, In, Slots, Inits, Disturbed
  <2>5. OneRegistersOf(p)'
    <3> SUFFICES ASSUME ~h.crossed PROVE OneRegistersOf(p)'
      BY <1>10 DEF OneRegistersOf
    <3>1. \A r \in Slots : ~Registering(p, r)
      BY <1>3, <1>9 DEF Crosses, Registering
    <3>2. \A r \in Slots : r # "user" => ~Registering(p, r)' /\ ~In(p, r, "register")'
      BY <1>10, <3>1 DEF Registering, In
    <3>3. Registering(p, "user")' /\ (In(p, "user", "register")' => page'[p].keys = flow'[p]["user"].keys)
      BY <1>7, <1>8, <1>9, <1>10 DEF Registering, In
    <3> QED
      BY <1>3, <3>2, <3>3 DEF OneRegistersOf
  <2> QED
    BY <2>1, <2>2, <2>3, <2>4, <2>5 DEF PageInv
<1>15. PublishedHeld'
  <2> SUFFICES ASSUME bundle # NoKey, history' \cap {"unpublished", "shared", "imported"} = {},
                      ~\E q \in Pages, s \in Slots : In(q, s, "publish")'
               PROVE  \E b \in Browsers : store'[b].identity = bundle
    BY <1>1 DEF PublishedHeld
  <2>1. ~\E q \in Pages, s \in Slots : In(q, s, "publish")
    BY <1>3, <1>10 DEF In, Slots, Inits, Disturbed
  <2>2. PICK b \in Browsers : store[b].identity = bundle
    BY <1>2, <1>11, <2>1 DEF SharedInv, PublishedHeld
  <2>3. b # home[p]
    BY <1>11, <2>2 DEF Disk
  <2> QED
    BY <1>6, <2>2, <2>3 DEF DiskIs
<1>16. PinOwed'
  <2>1. ~Owes(p)
    BY <1>3 DEF Owes, InFlow
  <2> QED
    BY <1>1, <1>2, <1>13, <2>1, OwedStays DEF SharedInv
<1>17. SignedOnce' /\ WholeOnDisk'
  <2> HIDE DEF f
  <2> QED
    BY <1>1, <1>2, <1>3, <1>4, <1>6, KeysGot DEF SharedInv
<1> QED
  BY <1>12, <1>13, <1>14, <1>15, <1>16, <1>17, Together DEF SharedInv

\* resetToNewKeys, when its bundle is published, clears the device keys.
LEMMA PublishResetKeeps ==
  ASSUME IndInv, NEW p \in Pages, PublishReset(p)
  PROVE  IndInv'
<1> DEFINE f == flow[p]["user"]
           d == [Disk(p) EXCEPT !.keys = NoDevice]
           state == [page[p] EXCEPT !.keys = NoDevice, !.crossed = @ \/ Crosses(p, "user")]
<1>1. /\ In(p, "user", "publish") /\ bundle' = f.id /\ Write(p, d)
      /\ DeviceKeysOf(p, "user", f, state, NoDevice)
      /\ Note("shared", Sharing(p, "user"))
      /\ UNCHANGED <<home, recovery, devices, events>>
  BY DEF PublishReset
<1>2. VaultTypeOK /\ PageInv(p) /\ SharedInv
  BY DEF IndInv
<1>3. /\ f \in Flows /\ f # None /\ f.step = "publish" /\ f.kind = "reset"
      /\ f.id \in MaybeKey /\ f.id # NoKey
      /\ Disk(p) \in StoreType /\ page[p] \in PageStates
      /\ "init" \in Slots /\ "user" \in Slots /\ home[p] \in Browsers /\ NoDevice \in DeviceKeys
  <2>1. f \in Flows /\ f # None /\ f.step = "publish"
    BY <1>1, <1>2, Typed DEF In
  <2>2. f.kind = "reset" /\ f.id # NoKey /\ f.id \in MaybeKey
    BY <1>2, <2>1 DEF PageInv, ShapeOf, Flows
  <2> QED
    BY <1>2, <2>1, <2>2, Typed
<1>4. /\ state \in PageStates /\ d \in StoreType /\ d.identity = Disk(p).identity
      /\ d.keys = NoDevice /\ state.keys = NoDevice
  BY <1>3 DEF PageStates, StoreType
<1>5. /\ GetsKeys(p, "user", f, state, NoDevice)
      /\ FlowTypeOK' /\ page' \in [Pages -> PageStates] /\ made' \in MaybeKey
      /\ DiskIs(p, d) /\ store' \in [Browsers -> StoreType]
  <2> HIDE DEF f, state, d
  <2> QED
    BY <1>1, <1>2, <1>3, <1>4, GetsKeysOf, DiskPut
<1>6. PICK k \in DeviceKeys, step \in {"mint"} :
        /\ k.dh # NoKey
        /\ FlowIs(p, "user", [f EXCEPT !.keys = k, !.step = step])
        /\ PageIs(p, state)
  <2> HIDE DEF f, state
  <2>1. PICK k \in DeviceKeys, step \in {"mint", "register"} :
          /\ k.dh # NoKey
          /\ FlowIs(p, "user", [f EXCEPT !.keys = k, !.step = step])
          /\ PageIs(p, IF step = "register" THEN [state EXCEPT !.keys = k] ELSE state)
          /\ step = "register" => k = NoDevice
    BY <1>5 DEF GetsKeys
  <2>2. step = "mint"
    BY <2>1 DEF NoDevice
  <2> QED
    BY <2>1, <2>2
<1> DEFINE g == [f EXCEPT !.keys = k, !.step = step]
<1>7. g.kind = "reset" /\ g.step = "mint" /\ g.id = f.id /\ g.keys = k /\ g # None
  <2>1. g \in Flows
    BY <1>3 DEF Flows
  <2> QED
    BY <1>3, <2>1, NoneIsNoFlow DEF Flows
<1>8. /\ state.status = page[p].status /\ state.identity = page[p].identity
      /\ state.user = page[p].user /\ state.blob = page[p].blob
      /\ state.left = page[p].left /\ state.crossed = (page[p].crossed \/ Crosses(p, "user"))
  BY <1>3 DEF PageStates
<1>9. /\ flow'[p]["user"] = g /\ page'[p] = state
      /\ \A r \in Slots : r # "user" => flow'[p][r] = flow[p][r]
      /\ store'[home[p]] = d
      /\ \A b \in Browsers : store'[b].identity = store[b].identity
      /\ \A q \in Pages : q # p => page'[q] = page[q] /\ flow'[q] = flow[q]
  BY <1>3, <1>4, <1>5, <1>6 DEF FlowIs, PageIs, DiskIs, Disk
<1> HIDE DEF g, d, state
<1>10. history \subseteq history' /\ history' \subseteq Events
  BY <1>1, <1>2 DEF Note, VaultTypeOK, Events
<1>11. VaultTypeOK'
  BY <1>1, <1>2, <1>3, <1>5, <1>10 DEF VaultTypeOK, FlowTypeOK, StoreType
<1>12. Apart(p)
  BY <1>1, <1>2, <1>9, <1>10 DEF Apart, VaultTypeOK
<1>13. PageInv(p)'
  <2>1. ShapeOf(p)' /\ RecoverableOf(p)'
    BY <1>1, <1>2, <1>3, <1>6, <1>7, <1>8, <1>9, <1>10
    DEF PageInv, ShapeOf, RecoverableOf, Registering, Steps, In, InFlow, Slots, Inits, Disturbed
  <2>2. OnDiskOf(p)' /\ StillNoneOf(p)' /\ OnItsDiskOf(p)'
    BY <1>1, <1>2, <1>3, <1>7, <1>8, <1>9, <1>10
    DEF PageInv, OnDiskOf, StillNoneOf, OnItsDiskOf, Disk, Steps, In, Slots, Inits, Disturbed
  <2>3. AskingOf(p)' /\ NoUserOf(p)'
    BY <1>2, <1>3, <1>7, <1>8, <1>9, <1>10
    DEF PageInv, AskingOf, NoUserOf, Steps, In, InFlow, Slots, Inits, Disturbed
  <2>4. OneRegistersOf(p)'
    <3> SUFFICES ASSUME ~state.crossed PROVE OneRegistersOf(p)'
      BY <1>9 DEF OneRegistersOf
    <3>1. \A r \in Slots : ~Registering(p, r)
      BY <1>3, <1>8 DEF Crosses, Registering
    <3>2. \A r \in Slots : r # "user" => ~Registering(p, r)' /\ ~In(p, r, "register")'
      BY <1>9, <3>1 DEF Registering, In
    <3>3. Registering(p, "user")' /\ ~In(p, "user", "register")'
      BY <1>7, <1>9 DEF Registering, In
    <3> QED
      BY <1>3, <3>2, <3>3 DEF OneRegistersOf
  <2> QED
    BY <2>1, <2>2, <2>3, <2>4 DEF PageInv
<1>14. PublishedHeld'
  <2>1. Disturbed' \/ store'[home[p]].identity = bundle'
    BY <1>1, <1>2, <1>3, <1>9, <1>10 DEF PageInv, OnItsDiskOf, Disk, Disturbed
  <2> QED
    BY <1>3, <2>1 DEF PublishedHeld, Disturbed
<1>15. PinOwed'
  <2>1. Owes(p)'
    BY <1>7, <1>9 DEF Owes, InFlow
  <2> QED
    BY <2>1 DEF PinOwed
<1>16. SignedOnce' /\ WholeOnDisk'
  <2> HIDE DEF f
  <2> QED
    BY <1>1, <1>2, <1>3, <1>4, <1>5, KeysGot DEF SharedInv
<1> QED
  BY <1>11, <1>12, <1>13, <1>14, <1>15, <1>16, Together DEF SharedInv

LEMMA PublishFailsKeeps ==
  ASSUME IndInv, NEW p \in Pages, NEW s \in Slots, PublishFails(p, s)
  PROVE  IndInv'
<1> DEFINE f == flow[p][s]
           h == Settled(s, page[p])
<1>1. /\ In(p, s, "publish") /\ Event /\ flow' = [flow EXCEPT ![p][s] = None]
      /\ bundle' \in {bundle, f.id} /\ history' = history \cup {"unpublished"}
      /\ page' = [page EXCEPT ![p] = h]
      /\ UNCHANGED <<home, store, recovery, devices, made>>
  BY DEF PublishFails, End, IndInv, VaultTypeOK, Settled
<1>2. VaultTypeOK /\ PageInv(p) /\ SharedInv
  BY DEF IndInv
<1>3. f \in Flows /\ f # None /\ f.step = "publish" /\ f.id \in MaybeKey
  BY <1>1, <1>2, Typed DEF In, Flows
<1>11. /\ h \in PageStates /\ h.identity = page[p].identity /\ h.status = page[p].status
       /\ h.keys = page[p].keys /\ h.user = page[p].user /\ h.blob = page[p].blob
       /\ h.device = page[p].device /\ h.assumed = page[p].assumed
       /\ h.crossed = page[p].crossed /\ h.left = page[p].left
  BY <1>2, Typed DEF PageStates, Settled
<1> HIDE DEF h
<1>4. /\ FlowIs(p, s, None) /\ PageIs(p, h) /\ FlowTypeOK'
      /\ page' \in [Pages -> PageStates] /\ page'[p] = h
  BY <1>1, <1>2, <1>11, FlowPut, PagePut DEF PageIs
<1>5. VaultTypeOK'
  BY <1>1, <1>2, <1>3, <1>4, EventType DEF VaultTypeOK, FlowTypeOK, Events
<1>6. Apart(p)
  BY <1>1, <1>4 DEF Apart, FlowIs, PageIs
<1>7. flow'[p][s] = None /\ \A r \in Slots : r # s => flow'[p][r] = flow[p][r]
  BY <1>4 DEF FlowIs
<1>8. PageInv(p)'
  <2>1. ShapeOf(p)' /\ RecoverableOf(p)'
    BY <1>1, <1>2, <1>4, <1>7, <1>11 DEF PageInv, ShapeOf, RecoverableOf, Registering, Steps, In, InFlow, Slots, Inits, Disturbed
  <2>2. OnDiskOf(p)' /\ StillNoneOf(p)' /\ OnItsDiskOf(p)'
    BY <1>1, <1>2, <1>7 DEF PageInv, OnDiskOf, StillNoneOf, OnItsDiskOf, Disk, Steps, In, Slots, Inits, Disturbed
  <2>3. AskingOf(p)' /\ NoUserOf(p)'
    BY <1>1, <1>2, <1>3, <1>4, <1>7, <1>11 DEF PageInv, AskingOf, NoUserOf, Steps, In, InFlow, Slots, Inits, Disturbed
  <2>4. OneRegistersOf(p)'
    BY <1>1, <1>2, <1>3, <1>4, <1>7, <1>11 DEF PageInv, OneRegistersOf, Registering, In, Slots, Inits, Disturbed
  <2> QED
    BY <2>1, <2>2, <2>3, <2>4 DEF PageInv
<1>9. PublishedHeld' /\ PinOwed'
  BY <1>1 DEF PublishedHeld, PinOwed
<1>10. SignedOnce' /\ WholeOnDisk'
  <2>1. made' \in MaybeKey /\ made' >= made
    BY <1>1, <1>2 DEF VaultTypeOK, MaybeKey, Keys, NoKey
  <2> QED
    BY <1>1, <1>4, <1>11, <2>1, PairsStay
<1> QED
  BY <1>5, <1>6, <1>8, <1>9, <1>10, Together DEF SharedInv

-----------------------------------------------------------------------------
(* Device keys and registration.                                           *)

LEMMA MintKeeps ==
  ASSUME IndInv, NEW p \in Pages, NEW s \in Slots, MintDeviceKeys(p, s)
  PROVE  IndInv'
<1> DEFINE f == flow[p][s]
           g == [f EXCEPT !.step = "register"]
           h == [page[p] EXCEPT !.keys = f.keys]
           d == [Disk(p) EXCEPT !.keys = f.keys]
<1>1. /\ In(p, s, "mint") /\ Write(p, d) /\ Move(p, s, "register")
      /\ page' = [page EXCEPT ![p].keys = f.keys]
      /\ UNCHANGED <<home, bundle, recovery, devices, made, events, history>>
  BY DEF MintDeviceKeys, server
<1>2. VaultTypeOK /\ PageInv(p) /\ SharedInv
  BY DEF IndInv
<1>3. /\ f \in Flows /\ f # None /\ f.step = "mint" /\ f.keys \in DeviceKeys /\ f.keys.dh # NoKey
      /\ Disk(p) \in StoreType /\ page[p] \in PageStates
      /\ "init" \in Slots /\ "user" \in Slots /\ home[p] \in Browsers
  <2>1. f \in Flows /\ f # None /\ f.step = "mint"
    BY <1>1, <1>2, Typed DEF In
  <2>2. f.keys \in DeviceKeys /\ f.keys.dh # NoKey
    BY <1>2, <2>1 DEF PageInv, ShapeOf, Registering, Flows
  <2> QED
    BY <1>2, <2>1, <2>2, Typed
<1>4. /\ g \in Flows /\ g # None /\ g.step = "register" /\ g.kind = f.kind /\ g.id = f.id
      /\ g.stale = f.stale /\ g.keys = f.keys
  <2>1. g \in Flows
    BY <1>3 DEF Flows
  <2> QED
    BY <1>3, <2>1, NoneIsNoFlow DEF Flows
<1>5. /\ h \in PageStates /\ h.identity = page[p].identity /\ h.status = page[p].status
      /\ h.user = page[p].user /\ h.blob = page[p].blob /\ h.device = page[p].device
      /\ h.assumed = page[p].assumed /\ h.crossed = page[p].crossed /\ h.keys = f.keys
      /\ h.left = page[p].left
  BY <1>3 DEF PageStates
<1>6. d \in StoreType /\ d.identity = Disk(p).identity /\ d.keys = f.keys
  BY <1>3 DEF StoreType
<1>7. flow' = [flow EXCEPT ![p][s] = g] /\ page' = [page EXCEPT ![p] = h]
  BY <1>1, <1>2, <1>3 DEF Move, VaultTypeOK
<1> HIDE DEF g, h, d
<1>8. /\ FlowIs(p, s, g) /\ FlowTypeOK' /\ PageIs(p, h) /\ page' \in [Pages -> PageStates]
      /\ DiskIs(p, d) /\ store' \in [Browsers -> StoreType]
  BY <1>1, <1>2, <1>4, <1>5, <1>6, <1>7, FlowPut, PagePut, DiskPut
<1>9. /\ flow'[p][s] = g /\ page'[p] = h /\ home' = home
      /\ \A r \in Slots : r # s => flow'[p][r] = flow[p][r]
      /\ \A b \in Browsers : store'[b].identity = store[b].identity
      /\ \A q \in Pages : q # p => page'[q] = page[q] /\ flow'[q] = flow[q]
  BY <1>1, <1>3, <1>6, <1>8 DEF FlowIs, PageIs, DiskIs, Disk
<1>10. VaultTypeOK'
  BY <1>1, <1>2, <1>8 DEF VaultTypeOK, FlowTypeOK, StoreType
<1>11. Apart(p)
  BY <1>1, <1>2, <1>9 DEF Apart, VaultTypeOK
<1>12. PageInv(p)'
  <2>1. ShapeOf(p)' /\ RecoverableOf(p)'
    BY <1>1, <1>2, <1>3, <1>4, <1>5, <1>9
    DEF PageInv, ShapeOf, RecoverableOf, Registering, Steps, In, InFlow, Slots, Inits, Disturbed
  <2>2. OnDiskOf(p)' /\ StillNoneOf(p)' /\ OnItsDiskOf(p)'
    BY <1>1, <1>2, <1>3, <1>4, <1>5, <1>9
    DEF PageInv, OnDiskOf, StillNoneOf, OnItsDiskOf, Disk, Steps, In, Slots, Inits, Disturbed
  <2>3. AskingOf(p)' /\ NoUserOf(p)'
    BY <1>1, <1>2, <1>3, <1>4, <1>5, <1>9
    DEF PageInv, AskingOf, NoUserOf, Steps, In, InFlow, Slots, Inits, Disturbed
  <2>4. OneRegistersOf(p)'
    BY <1>2, <1>3, <1>4, <1>5, <1>9 DEF PageInv, OneRegistersOf, Registering, In, Slots, Inits, Disturbed
  <2> QED
    BY <2>1, <2>2, <2>3, <2>4 DEF PageInv
<1>13. PublishedHeld'
  <2>1. \A q \in Pages, r \in Slots : In(q, r, "publish") => In(q, r, "publish")'
    BY <1>3, <1>9 DEF In
  <2> QED
    BY <1>1, <1>2, <1>9, <2>1, HeldStays DEF SharedInv
<1>14. PinOwed'
  <2>1. Owes(p) => Owes(p)'
    BY <1>3, <1>4, <1>5, <1>9 DEF Owes, InFlow, Slots, Inits, Disturbed
  <2> QED
    BY <1>1, <1>2, <1>11, <2>1, OwedStays DEF SharedInv
<1>15. SignedOnce'
  <2>1. made' \in MaybeKey /\ made' >= made /\ NoDevice \in DeviceKeys
    BY <1>1, <1>2, Typed DEF VaultTypeOK, MaybeKey, Keys, NoKey
  <2>2. Seen(f.keys)
    BY <1>3 DEF Seen
  <2>3. ASSUME NEW k \in DeviceKeys, Seen(k)' PROVE Seen(k)
    BY <1>1, <1>2, <1>4, <1>5, <1>6, <1>8, <2>2, <2>3, SeenAfter
  <2> QED
    BY <1>2, <2>1, <2>3, SignedStays DEF SharedInv
<1>16. WholeOnDisk'
  BY <1>2, <1>3, <1>6, <1>8 DEF SharedInv, WholeOnDisk, DiskIs
<1> QED
  BY <1>10, <1>11, <1>12, <1>13, <1>14, <1>15, <1>16, Together DEF SharedInv

\* The end of a flow, with device id dev, which is that of its keys unless there
\* is none or it is assumed.
LEMMA FinishedKeeps ==
  ASSUME IndInv, NEW p \in Pages, NEW s \in Slots, In(p, s, "register"),
         NEW dev \in MaybeKey, NEW assumed \in BOOLEAN,
         assumed \/ dev = NoKey \/ dev = flow[p][s].keys.dh,
         Finished(p, s, [page[p] EXCEPT !.device = dev, !.assumed = assumed]),
         NEW d \in StoreType, DiskIs(p, d), store' \in [Browsers -> StoreType],
         d.identity = Disk(p).identity, d.keys = Disk(p).keys,
         devices' = devices \/ (Signed(flow[p][s]) /\ devices' = devices \cup {Row(flow[p][s])}),
         events' \in 0 .. MaxEvents,
         UNCHANGED <<home, bundle, recovery, made, history>>
  PROVE  IndInv'
<1> DEFINE f == flow[p][s]
           state == [page[p] EXCEPT !.device = dev, !.assumed = assumed]
           last == IF f.kind = "reset" THEN [state EXCEPT !.identity = f.id, !.status = "needs-setup"]
                   ELSE IF f.kind = "unlock" \/ state.status # "needs-setup"
                     THEN [state EXCEPT !.status = "ready"]
                   ELSE state
           h == Settled(s, last)
<1>1. page' = [page EXCEPT ![p] = h] /\ flow' = [flow EXCEPT ![p][s] = None]
  BY DEF Finished, End
<1>2. VaultTypeOK /\ PageInv(p) /\ SharedInv
  BY DEF IndInv
<1>3. /\ f \in Flows /\ f # None /\ f.step = "register" /\ f.keys \in DeviceKeys
      /\ f.keys.dh # NoKey /\ f.id # NoKey /\ f.id \in MaybeKey
      /\ page[p] \in PageStates /\ home[p] \in Browsers
      /\ "init" \in Slots /\ "user" \in Slots /\ (Disk(p).identity # NoKey \/ Disturbed)
      /\ s = "user" => f.kind \in {"unlock", "reset"}
      /\ s \in Inits => f.kind = "init"
  <2>1. f \in Flows /\ f # None /\ f.step = "register"
    BY <1>2, Typed DEF In
  <2>2. /\ f.keys \in DeviceKeys /\ f.keys.dh # NoKey /\ f.id # NoKey /\ f.id \in MaybeKey
        /\ s = "user" => f.kind \in {"unlock", "reset"}
        /\ s \in Inits => f.kind = "init"
    BY <1>2, <2>1 DEF PageInv, ShapeOf, Registering, Flows, Slots, Inits
  <2>3. Disk(p).identity # NoKey \/ Disturbed
    BY <1>2, <2>1, <2>2 DEF PageInv, OnDiskOf, Steps, Slots, Inits
  <2> QED
    BY <1>2, <2>1, <2>2, <2>3, Typed
<1>4. /\ h \in PageStates /\ h.user = page[p].user /\ h.blob = page[p].blob
      /\ h.device = dev /\ h.assumed = assumed /\ h.crossed = page[p].crossed
      /\ h.keys = page[p].keys /\ h.left = page[p].left
      /\ f.kind = "reset" => h.identity = f.id /\ h.status = "needs-setup"
      /\ f.kind # "reset" => h.identity = page[p].identity
      /\ f.kind = "unlock" => h.status = "ready"
      /\ f.kind = "init" => h.status = IF page[p].status = "needs-setup" THEN "needs-setup" ELSE "ready"
  <2>1. /\ last \in PageStates /\ last.user = page[p].user /\ last.blob = page[p].blob
        /\ last.device = dev /\ last.assumed = assumed /\ last.crossed = page[p].crossed
        /\ last.keys = page[p].keys /\ last.left = page[p].left
        /\ f.kind = "reset" => last.identity = f.id /\ last.status = "needs-setup"
        /\ f.kind # "reset" => last.identity = page[p].identity
        /\ f.kind = "unlock" => last.status = "ready"
        /\ f.kind = "init" =>
             last.status = IF page[p].status = "needs-setup" THEN "needs-setup" ELSE "ready"
    BY <1>3 DEF PageStates, Status
  <2> HIDE DEF last
  <2> QED
    BY <2>1 DEF PageStates, Settled
<1> HIDE DEF h
<1>5. FlowIs(p, s, None) /\ FlowTypeOK' /\ PageIs(p, h) /\ page' \in [Pages -> PageStates]
  BY <1>1, <1>2, <1>4, FlowPut, PagePut
<1>6. /\ flow'[p][s] = None /\ page'[p] = h
      /\ \A r \in Slots : r # s => flow'[p][r] = flow[p][r]
      /\ \A b \in Browsers : store'[b].identity = store[b].identity /\ store'[b].keys = store[b].keys
      /\ \A q \in Pages : q # p => page'[q] = page[q] /\ flow'[q] = flow[q]
  BY <1>5 DEF FlowIs, PageIs, DiskIs, Disk
<1>7. devices' \subseteq [dh : Keys, ik : Keys]
  BY <1>2, <1>3 DEF VaultTypeOK, Row, MaybeKey, DeviceKeys
<1>8. VaultTypeOK'
  BY <1>2, <1>5, <1>7 DEF VaultTypeOK, FlowTypeOK, StoreType
<1>9. Apart(p)
  BY <1>2, <1>6 DEF Apart, VaultTypeOK
<1>10. PageInv(p)'
  <2>1. ShapeOf(p)' /\ RecoverableOf(p)'
    BY <1>2, <1>3, <1>4, <1>6
    DEF PageInv, ShapeOf, RecoverableOf, Registering, Steps, In, InFlow, Slots, Inits, Disturbed
  <2>2. OnDiskOf(p)' /\ StillNoneOf(p)' /\ OnItsDiskOf(p)'
    BY <1>2, <1>3, <1>4, <1>6
    DEF PageInv, OnDiskOf, StillNoneOf, OnItsDiskOf, Disk, Steps, In, Slots, Inits, Disturbed
  <2>3. AskingOf(p)' /\ NoUserOf(p)'
    BY <1>2, <1>3, <1>4, <1>6
    DEF PageInv, OnDiskOf, StillNoneOf, AskingOf, NoUserOf, Steps, In, InFlow, Slots, Inits, Disturbed
  <2>4. OneRegistersOf(p)'
    BY <1>2, <1>3, <1>4, <1>6 DEF PageInv, OneRegistersOf, Registering, In, Slots, Inits, Disturbed
  <2> QED
    BY <2>1, <2>2, <2>3, <2>4 DEF PageInv
<1>11. PublishedHeld'
  <2>1. \A q \in Pages, r \in Slots : In(q, r, "publish") => In(q, r, "publish")'
    BY <1>3, <1>6 DEF In
  <2> QED
    BY <1>2, <1>6, <2>1, HeldStays DEF SharedInv
<1>12. PinOwed'
  <2>1. Owes(p) => Owes(p)'
    BY <1>3, <1>4, <1>6 DEF Owes, InFlow, Slots, Inits, Disturbed
  <2> QED
    BY <1>2, <1>9, <2>1, OwedStays DEF SharedInv
<1>13. SignedOnce' /\ WholeOnDisk'
  <2>1. made' \in MaybeKey /\ made' >= made
    BY <1>2 DEF VaultTypeOK, MaybeKey, Keys, NoKey
  <2>2. Seen(f.keys)
    BY <1>3 DEF Seen
  <2>3. \A x \in devices' : x \notin devices => [dh |-> x.dh, by |-> x.ik] = f.keys
    BY <1>3 DEF Signed, Row, DeviceKeys
  <2> HIDE DEF f, state
  <2> QED
    BY <1>4, <1>5, <1>6, <2>1, <2>2, <2>3, PairsStay
<1> QED
  BY <1>8, <1>9, <1>10, <1>11, <1>12, <1>13, Together DEF SharedInv

LEMMA RegisterKeeps ==
  ASSUME IndInv, NEW p \in Pages, NEW s \in Slots, Register(p, s) \/ RegisterFails(p, s)
  PROVE  IndInv'
<1> DEFINE f == flow[p][s]
<1>1. VaultTypeOK /\ In(p, s, "register")
  BY DEF IndInv, Register, RegisterFails
<1>2. /\ f \in Flows /\ f.keys.dh \in MaybeKey /\ Disk(p) \in StoreType /\ NoKey \in MaybeKey
      /\ page[p] \in PageStates /\ events \in 0 .. MaxEvents
      /\ UNCHANGED <<home, bundle, recovery, made, history>>
  BY <1>1, Typed DEF In, Flows, DeviceKeys, Register, RegisterFails, VaultTypeOK
<1>3. ASSUME NEW dev \in MaybeKey
      PROVE  /\ [Disk(p) EXCEPT !.device = dev] \in StoreType
             /\ [Disk(p) EXCEPT !.device = dev].identity = Disk(p).identity
             /\ [Disk(p) EXCEPT !.device = dev].keys = Disk(p).keys
  BY <1>2 DEF StoreType
<1>4. ASSUME store' = store PROVE DiskIs(p, Disk(p)) /\ store' \in [Browsers -> StoreType]
  BY <1>1, <1>4 DEF DiskIs, Disk, VaultTypeOK, StoreType
<1>5. CASE Register(p, s)
  <2>1. /\ Signed(f) /\ devices' = devices \cup {Row(f)} /\ events' = events
        /\ Write(p, [Disk(p) EXCEPT !.device = f.keys.dh])
        /\ Finished(p, s, [page[p] EXCEPT !.device = f.keys.dh, !.assumed = FALSE])
    BY <1>2, <1>5 DEF Register, Accepted, Row
  <2>2. /\ DiskIs(p, [Disk(p) EXCEPT !.device = f.keys.dh]) /\ store' \in [Browsers -> StoreType]
    BY <1>1, <1>2, <1>3, <2>1, DiskPut
  <2> QED
    BY <1>1, <1>2, <1>3, <2>1, <2>2, FinishedKeeps
<1>6. CASE RegisterFails(p, s)
  <2>1. /\ devices' = devices \/ (Signed(f) /\ devices' = devices \cup {Row(f)})
        /\ events' \in 0 .. MaxEvents
    BY <1>1, <1>2, <1>6, EventType DEF RegisterFails, Accepted
  <2>2. CASE f.kind = "reset"
    <3>1. /\ Write(p, [Disk(p) EXCEPT !.device = NoKey])
          /\ Finished(p, s, [page[p] EXCEPT !.device = NoKey, !.assumed = FALSE])
      BY <1>6, <2>2 DEF RegisterFails
    <3>2. /\ DiskIs(p, [Disk(p) EXCEPT !.device = NoKey]) /\ store' \in [Browsers -> StoreType]
      BY <1>1, <1>2, <1>3, <3>1, DiskPut
    <3> QED
      BY <1>1, <1>2, <1>3, <2>1, <3>1, <3>2, FinishedKeeps
  <2>3. CASE f.kind # "reset"
    <3>1. store' = store /\ Finished(p, s, [page[p] EXCEPT !.device = Disk(p).device, !.assumed = TRUE])
      BY <1>6, <2>3 DEF RegisterFails
    <3>2. Disk(p).device \in MaybeKey
      BY <1>2 DEF StoreType
    <3> QED
      BY <1>1, <1>2, <1>4, <2>1, <3>1, <3>2, FinishedKeeps
  <2> QED
    BY <2>2, <2>3
<1> QED
  BY <1>5, <1>6

-----------------------------------------------------------------------------
(* Pages that end, and sign-out.                                           *)

LEMMA PageEndsKeeps ==
  ASSUME IndInv, NEW p \in Pages, PageEnds(p)
  PROVE  IndInv'
<1>1. /\ Event /\ page' = [page EXCEPT ![p] = Fresh] /\ flow' = [flow EXCEPT ![p] = Idle]
      /\ Leaves(p, {"unpublished", "unasked"})
      /\ UNCHANGED <<home, store, bundle, recovery, devices, made>>
  BY DEF PageEnds, server
<1>2. VaultTypeOK /\ PageInv(p) /\ SharedInv
  BY DEF IndInv
<1>3. Fresh \in PageStates /\ Idle \in [Slots -> Flows \cup {None}]
  BY DEF Fresh, PageStates, NoDevice, DeviceKeys, MaybeKey, NoKey, Status, Idle
<1>4. /\ page'[p] = Fresh /\ \A s \in Slots : flow'[p][s] = None
      /\ \A q \in Pages : q # p => page'[q] = page[q] /\ flow'[q] = flow[q]
      /\ page' \in [Pages -> PageStates] /\ FlowTypeOK'
      /\ Inits \subseteq Slots /\ "user" \in Slots /\ Fresh.keys = NoDevice
  BY <1>1, <1>2, <1>3 DEF VaultTypeOK, FlowTypeOK, Idle, Slots, Inits, Fresh
<1>5. /\ history \subseteq history' /\ history' \subseteq Events
      /\ (\E s \in Slots : In(p, s, "publish")) => "unpublished" \in history'
      /\ page[p].status = "needs-setup" \/ InFlow(p, "reset") => "unasked" \in history'
  BY <1>1, <1>2 DEF Leaves, VaultTypeOK, Events, InFlow
<1>6. VaultTypeOK'
  BY <1>1, <1>2, <1>4, <1>5, EventType DEF VaultTypeOK, FlowTypeOK
<1>7. Apart(p)
  BY <1>1, <1>4, <1>5 DEF Apart
<1>8. PageInv(p)'
  BY <1>1, <1>4 DEF PageInv, ShapeOf, OnDiskOf, StillNoneOf, RecoverableOf, AskingOf,
                    OnItsDiskOf, NoUserOf, OneRegistersOf, Steps, In, InFlow, Registering, Fresh
<1>9. PublishedHeld'
  <2>1. \A q \in Pages, s \in Slots :
          In(q, s, "publish") => In(q, s, "publish")' \/ "unpublished" \in history'
    BY <1>4, <1>5 DEF In
  <2> QED
    BY <1>1, <1>2, <1>5, <2>1, HeldStays DEF SharedInv
<1>10. PinOwed'
  <2>1. Owes(p) => "unasked" \in history'
    BY <1>5 DEF Owes
  <2> QED
    BY <1>1, <1>2, <1>7, <2>1, OwedStays DEF SharedInv
<1>11. SignedOnce'
  <2>1. made' \in MaybeKey /\ made' >= made /\ NoDevice \in DeviceKeys
    BY <1>1, <1>2, Typed DEF VaultTypeOK, MaybeKey, Keys, NoKey
  <2>2. ASSUME NEW k \in DeviceKeys, Seen(k)' PROVE Seen(k) \/ k = NoDevice
    <3>1. CASE \E q \in Pages, s \in Slots : flow'[q][s] # None /\ k = flow'[q][s].keys
      BY <1>4, <3>1 DEF Seen
    <3>2. CASE \E q \in Pages : k = page'[q].keys
      BY <1>4, <3>2 DEF Seen
    <3> QED
      BY <1>1, <2>2, <3>1, <3>2 DEF Seen
  <2> QED
    BY <1>2, <2>1, <2>2, SignedStays DEF SharedInv
<1>12. WholeOnDisk'
  BY <1>1, <1>2 DEF SharedInv, WholeOnDisk
<1> QED
  BY <1>6, <1>7, <1>8, <1>9, <1>10, <1>11, <1>12, Together DEF SharedInv

\* Sign-out and sign-in: only the variables of the page change.
LEMMA SignKeeps ==
  ASSUME IndInv, NEW p \in Pages, SignOut(p) \/ SignOutElsewhere(p) \/ Forget(p) \/ SignIn(p)
  PROVE  IndInv'
<1> DEFINE out == Emptied(p)
           away == [page[p] EXCEPT !.user = FALSE, !.left = TRUE]
           in == [page[p] EXCEPT !.user = TRUE, !.left = FALSE]
<1>1. VaultTypeOK /\ PageInv(p) /\ SharedInv
  BY DEF IndInv
<1>2. /\ UNCHANGED <<home, store, flow, bundle, recovery, devices, made>>
      /\ page[p] \in PageStates /\ "init" \in Slots /\ "user" \in Slots
      /\ events' \in 0 .. MaxEvents
  BY <1>1, Typed, EventType DEF SignOut, SignOutElsewhere, Forget, SignIn, server, VaultTypeOK
<1>3. PICK h \in PageStates :
        /\ page' = [page EXCEPT ![p] = h] /\ h.keys \in {NoDevice, page[p].keys}
        /\ history \subseteq history' /\ history' \subseteq Events
        /\ \/ /\ h.identity = NoKey /\ h.status = "idle" /\ h.blob = NoKey /\ h.device = NoKey
              /\ h.crossed = (page[p].crossed \/ \E s \in Slots : Registering(p, s))
              /\ ~h.left => \A s \in Slots : flow[p][s] = None
              /\ page[p].status = "needs-setup" \/ InFlow(p, "reset") => "unasked" \in history'
           \/ /\ (h.user \/ h.left) /\ h.identity = page[p].identity /\ h.status = page[p].status
              /\ h.blob = page[p].blob /\ h.device = page[p].device /\ h.crossed = page[p].crossed
              /\ h.assumed = page[p].assumed /\ h.keys = page[p].keys
  <2>1. CASE SignOut(p) \/ Forget(p)
    <3>1. out \in PageStates
      BY DEF Emptied, Busy, Fresh, PageStates, NoDevice, DeviceKeys, MaybeKey, NoKey, Status
    <3>2. /\ out.identity = NoKey /\ out.status = "idle" /\ out.blob = NoKey /\ out.device = NoKey
          /\ out.crossed = (page[p].crossed \/ \E s \in Slots : Registering(p, s))
          /\ out.keys = NoDevice
          /\ ~out.left => \A s \in Slots : flow[p][s] = None
      BY DEF Emptied, Busy, Fresh
    <3>3. /\ history \subseteq history' /\ history' \subseteq Events
          /\ page[p].status = "needs-setup" \/ InFlow(p, "reset") => "unasked" \in history'
      BY <1>1, <2>1 DEF SignOut, Forget, Leaves, VaultTypeOK, Events, InFlow
    <3>4. page' = [page EXCEPT ![p] = out]
      BY <2>1 DEF SignOut, Forget
    <3> HIDE DEF out
    <3> QED
      BY <3>1, <3>2, <3>3, <3>4
  <2>2. CASE SignIn(p)
    <3>1. in \in PageStates /\ page' = [page EXCEPT ![p] = in]
      BY <1>1, <1>2, <2>2 DEF SignIn, PageStates, VaultTypeOK
    <3>2. /\ in.user /\ in.identity = page[p].identity /\ in.status = page[p].status
          /\ in.blob = page[p].blob /\ in.device = page[p].device /\ in.crossed = page[p].crossed
          /\ in.assumed = page[p].assumed /\ in.keys = page[p].keys
      BY <1>2 DEF PageStates
    <3>3. history' = history /\ history \subseteq Events
      BY <1>1, <2>2 DEF SignIn, VaultTypeOK
    <3> HIDE DEF in
    <3> QED
      BY <3>1, <3>2, <3>3
  <2>3. CASE SignOutElsewhere(p)
    <3>1. away \in PageStates /\ page' = [page EXCEPT ![p] = away]
      BY <1>1, <1>2, <2>3 DEF SignOutElsewhere, PageStates, VaultTypeOK
    <3>2. /\ away.left /\ away.identity = page[p].identity /\ away.status = page[p].status
          /\ away.blob = page[p].blob /\ away.device = page[p].device
          /\ away.crossed = page[p].crossed
          /\ away.assumed = page[p].assumed /\ away.keys = page[p].keys
      BY <1>2 DEF PageStates
    <3>3. history' = history /\ history \subseteq Events
      BY <1>1, <2>3 DEF SignOutElsewhere, VaultTypeOK
    <3> HIDE DEF away
    <3> QED
      BY <3>1, <3>2, <3>3
  <2> QED
    BY <2>1, <2>2, <2>3
<1>4. PageIs(p, h) /\ page' \in [Pages -> PageStates] /\ page'[p] = h
  BY <1>1, <1>3, PagePut DEF PageIs
<1>5. VaultTypeOK'
  BY <1>1, <1>2, <1>3, <1>4 DEF VaultTypeOK
<1>6. Apart(p)
  BY <1>1, <1>2, <1>3, <1>4 DEF Apart, PageIs, VaultTypeOK
<1>7. PageInv(p)'
  <2>1. ShapeOf(p)' /\ RecoverableOf(p)'
    BY <1>1, <1>2, <1>3, <1>4
    DEF PageInv, ShapeOf, RecoverableOf, Registering, Steps, In, InFlow, Slots, Inits, Disturbed
  <2>2. OnDiskOf(p)' /\ StillNoneOf(p)' /\ OnItsDiskOf(p)'
    BY <1>1, <1>2, <1>3, <1>4
    DEF PageInv, OnDiskOf, StillNoneOf, OnItsDiskOf, Disk, Steps, In, Slots, Inits, Disturbed
  <2>3. AskingOf(p)' /\ NoUserOf(p)'
    BY <1>1, <1>2, <1>3, <1>4
    DEF PageInv, AskingOf, NoUserOf, Steps, In, InFlow, Slots, Inits, Disturbed
  <2>4. OneRegistersOf(p)'
    BY <1>1, <1>2, <1>3, <1>4 DEF PageInv, OneRegistersOf, Registering, In, Slots, Inits, Disturbed
  <2> QED
    BY <2>1, <2>2, <2>3, <2>4 DEF PageInv
<1>8. PublishedHeld'
  <2>1. \A q \in Pages, s \in Slots : In(q, s, "publish") => In(q, s, "publish")'
    BY <1>2 DEF In
  <2> QED
    BY <1>1, <1>2, <1>3, <2>1, HeldStays DEF SharedInv
<1>9. PinOwed'
  <2>1. Owes(p) => Owes(p)' \/ "unasked" \in history'
    BY <1>2, <1>3, <1>4 DEF Owes, InFlow
  <2> QED
    BY <1>1, <1>2, <1>6, <2>1, OwedStays DEF SharedInv
<1>10. SignedOnce'
  <2>1. made' \in MaybeKey /\ made' >= made /\ NoDevice \in DeviceKeys
    BY <1>1, <1>2, Typed DEF VaultTypeOK, MaybeKey, Keys, NoKey
  <2>2. ASSUME NEW k \in DeviceKeys, Seen(k)' PROVE Seen(k) \/ k = NoDevice
    BY <1>2, <1>3, <1>4, <2>2 DEF Seen, PageIs
  <2> QED
    BY <1>1, <2>1, <2>2, SignedStays DEF SharedInv
<1>11. WholeOnDisk'
  BY <1>1, <1>2 DEF SharedInv, WholeOnDisk
<1> QED
  BY <1>5, <1>6, <1>7, <1>8, <1>9, <1>10, <1>11, Together DEF SharedInv

\* An import empties the identity of a disk; what is lost by it, and the flows
\* of the browser that lose what they found, are noted.
LEMMA ImportKeeps ==
  ASSUME IndInv, NEW p \in Pages, Import(p)
  PROVE  IndInv'
<1> DEFINE d == [Disk(p) EXCEPT !.identity = NoKey]
           last == /\ Disk(p).identity = bundle
                   /\ \A b \in Browsers \ {home[p]} : store[b].identity # bundle
           flows == \E q \in Pages : home[q] = home[p] /\ Busy(q)
<1>1. /\ Event /\ Write(p, d) /\ Note("imported", last \/ flows)
      /\ UNCHANGED <<home, page, flow, bundle, recovery, devices, made>>
  BY DEF Import, server
<1>2. VaultTypeOK /\ SharedInv
  BY DEF IndInv
<1>3. Disk(p) \in StoreType /\ NoKey \in MaybeKey /\ home[p] \in Browsers
  BY <1>2, Typed
<1>4. d \in StoreType /\ d.identity = NoKey /\ d.keys = Disk(p).keys
  BY <1>3 DEF StoreType
<1> HIDE DEF d
<1>5. DiskIs(p, d) /\ store' \in [Browsers -> StoreType]
  BY <1>1, <1>2, <1>4, DiskPut
<1>6. /\ history \subseteq history' /\ history' \subseteq Events
      /\ last \/ flows => Disturbed' /\ "imported" \in history'
  BY <1>1, <1>2 DEF Note, VaultTypeOK, Events, Disturbed
<1>7. VaultTypeOK'
  BY <1>1, <1>2, <1>5, <1>6, EventType DEF VaultTypeOK, StoreType
<1>8. ASSUME NEW q \in Pages, home[q] # home[p] \/ ~flows
      PROVE  \/ store'[home[q]] = store[home[q]]
             \/ \A s \in Slots : flow[q][s] = None
  BY <1>2, <1>5, <1>8 DEF DiskIs, Busy, VaultTypeOK
<1>9. ASSUME NEW q \in Pages PROVE PageInv(q)'
  <2>1. PageInv(q)
    BY DEF IndInv
  <2>2. Disturbed => Disturbed'
    BY <1>6 DEF Disturbed
  <2>3. (ShapeOf(q) /\ RecoverableOf(q) /\ AskingOf(q) /\ NoUserOf(q) /\ OneRegistersOf(q))'
    BY <1>1, <2>1, <2>2
    DEF PageInv, ShapeOf, RecoverableOf, AskingOf, NoUserOf, OneRegistersOf, Registering, InFlow, Steps, In
  <2>4. OnDiskOf(q)' /\ StillNoneOf(q)' /\ OnItsDiskOf(q)'
    <3>1. CASE Disturbed'
      BY <3>1 DEF OnDiskOf, StillNoneOf, OnItsDiskOf
    <3>2. CASE store'[home[q]] = store[home[q]]
      BY <1>1, <2>1, <2>2, <3>2 DEF PageInv, OnDiskOf, StillNoneOf, OnItsDiskOf, Disk, Steps, In
    <3>3. CASE \A s \in Slots : flow[q][s] = None
      BY <1>1, <3>3 DEF OnDiskOf, StillNoneOf, OnItsDiskOf, Steps, In, Slots, Inits
    <3> QED
      BY <1>6, <1>8, <3>1, <3>2, <3>3
  <2> QED
    BY <2>3, <2>4 DEF PageInv
<1>10. PublishedHeld'
  <2> SUFFICES ASSUME bundle # NoKey, history' \cap {"unpublished", "shared", "imported"} = {},
                      ~\E q \in Pages, s \in Slots : In(q, s, "publish")'
               PROVE  \E b \in Browsers : store'[b].identity = bundle
    BY <1>1 DEF PublishedHeld
  <2>1. PICK b \in Browsers : store[b].identity = bundle
    BY <1>1, <1>2, <1>6 DEF SharedInv, PublishedHeld, In
  <2>2. ~last
    BY <1>6
  <2>3. CASE b = home[p]
    <3>1. PICK c \in Browsers \ {home[p]} : store[c].identity = bundle
      BY <2>1, <2>2, <2>3 DEF Disk
    <3> QED
      BY <1>5, <3>1 DEF DiskIs
  <2>4. CASE b # home[p]
    BY <1>5, <2>1, <2>4 DEF DiskIs
  <2> QED
    BY <2>3, <2>4
<1>11. PinOwed'
  BY <1>1, <1>2, <1>6 DEF SharedInv, PinOwed, Owes, InFlow
<1>12. SignedOnce' /\ WholeOnDisk'
  <2>1. \A b \in Browsers : store'[b].keys = store[b].keys
    BY <1>4, <1>5 DEF DiskIs, Disk
  <2> QED
    BY <1>1, <1>2, <2>1 DEF SharedInv, SignedOnce, WholeOnDisk, Seen
<1> QED
  BY <1>7, <1>9, <1>10, <1>11, <1>12 DEF IndInv, SharedInv

LEMMA NextKeepsIndInv == IndInv /\ [VaultNext]_vaultVars => IndInv'
<1> SUFFICES ASSUME IndInv, [VaultNext]_vaultVars PROVE IndInv'
  OBVIOUS
<1>1. ASSUME NEW p \in Pages,
             \/ InitStart(p)
             \/ \E s \in Inits : AskWithKeys(p, s) \/ AskWithoutKeys(p, s) \/ PublishFirst(p, s)
      PROVE  IndInv'
  BY <1>1, InitStartKeeps, AskWithKeysKeeps, AskWithoutKeysKeeps, PublishFirstKeeps
<1>2. ASSUME NEW p \in Pages,
             Unlock(p) \/ SetupStart(p) \/ SetupSave(p) \/ Reset(p) \/ PublishReset(p)
      PROVE  IndInv'
  BY <1>2, UserStartsKeep, SetupSaveKeeps, ResetKeeps, PublishResetKeeps
<1>3. ASSUME NEW p \in Pages, NEW s \in Slots, Save(p, s) PROVE IndInv'
  <2>1. CASE flow[p][s].kind # "unlock"
    BY <1>3, <2>1, SaveToPublishKeeps
  <2>2. CASE flow[p][s].kind = "unlock"
    <3>1. s = "user"
      BY <1>3, <2>2 DEF IndInv, PageInv, ShapeOf, Save, In, Slots, Inits, Inits, Disturbed
    <3> QED
      BY <1>3, <2>2, <3>1, SaveToUnlockKeeps
  <2> QED
    BY <2>1, <2>2
<1>4. ASSUME NEW p \in Pages, NEW s \in Slots,
             PublishFails(p, s) \/ MintDeviceKeys(p, s) \/ Register(p, s) \/ RegisterFails(p, s)
      PROVE  IndInv'
  BY <1>4, PublishFailsKeeps, MintKeeps, RegisterKeeps
<1>5. ASSUME NEW p \in Pages,
             \/ PageEnds(p) \/ SignOut(p) \/ SignOutElsewhere(p) \/ Forget(p) \/ SignIn(p)
             \/ Import(p)
      PROVE  IndInv'
  BY <1>5, PageEndsKeeps, SignKeeps, ImportKeeps
<1>6. CASE UNCHANGED vaultVars
  <2>1. VaultTypeOK' /\ SharedInv'
    BY <1>6
    DEF vaultVars, IndInv, VaultTypeOK, SharedInv, PublishedHeld, PinOwed, SignedOnce, WholeOnDisk,
        Seen, Owes, InFlow, In
  <2>2. ASSUME NEW p \in Pages PROVE PageInv(p)'
    BY <1>6 DEF vaultVars, IndInv, PageInv, ShapeOf, OnDiskOf, StillNoneOf, RecoverableOf, 
                AskingOf, OnItsDiskOf, NoUserOf, OneRegistersOf, Steps, In, InFlow, Registering, Disk, Disturbed
  <2> QED
    BY <2>1, <2>2 DEF IndInv
<1> QED
  BY <1>1, <1>2, <1>3, <1>4, <1>5, <1>6 DEF VaultNext

\* The keys of one user, for any number of pages and browsers: sign-out empties
\* the page, and the page that uses a device's id holds the keys of its row (the
\* sign-out effect and registerDevice of useE2E.ts).
THEOREM VaultSafe == VaultSpec => []VaultInv
<1>1. IndInv => VaultInv
  BY IndInvGives
<1> QED
  BY <1>1, InitIndInv, NextKeepsIndInv, PTL DEF VaultSpec

\* However init, unlock, reset and set-up of any pages and browsers interleave,
\* fail and end, the published identity can be had back: its private keys are on
\* a disk, and where the PIN's blob is of an earlier one a page is asking for a
\* new PIN (init, unlockWithPin, resetToNewKeys and setupRecovery of useE2E.ts).
THEOREM IdentityRecoverable == VaultSpec => []IdentityKept
<1>1. IndInv => IdentityKept
  BY IndInvGives
<1> QED
  BY <1>1, InitIndInv, NextKeepsIndInv, PTL DEF VaultSpec

-----------------------------------------------------------------------------
(* The messages of a conversation, and the files they refer to.            *)

StoredType == [files : SUBSET Files, last : 0 .. MaxFiles]
LogType == [asked : SUBSET (Writers \X Ids), missed : SUBSET Ids, failed : SUBSET Ids,
            overlap : BOOLEAN]

StoreTyped ==
  /\ msgs \in Seq(Messages) /\ Len(msgs) <= MaxMessages
  /\ stored \in StoredType /\ log \in LogType
  /\ joined \subseteq Writers
  /\ hidden \subseteq Writers \X Ids /\ reacts \subseteq Writers \X Ids
  /\ pins \subseteq Ids /\ timers \subseteq Ids /\ up \in BOOLEAN
  /\ tasks \subseteq Tasks
  /\ hand \in [Writers -> Hands]
  /\ turns \in 0 .. MaxTurns

\* What refers to a message refers to one there is; a server that is down does
\* nothing.
References ==
  /\ \A t \in tasks : t.op \in {"clearPins", "clearMarks"} \/ t.id \in DOMAIN msgs
  /\ timers \subseteq DOMAIN msgs
  /\ \A u \in Writers : hand[u].pick = 0 \/ hand[u].pick \in DOMAIN msgs
  /\ \A p \in hidden : p[2] \in DOMAIN msgs
  /\ ~up => tasks = {} /\ timers = {}

\* One pin under way, unless two were counted at once, finds room.
PinRoom ==
  ~log.overlap =>
    /\ \A s, t \in Doing("pin") : s = t
    /\ Doing("pin") # {} => Cardinality(pins) < MaxPins

\* While the chat is being cleared for everyone, what is not deleted is newer.
Clearing == Doing("clearPins") \cup Doing("clearMarks")
ClearingNewer == Clearing # {} => \A i \in DOMAIN msgs : Live(i) => msgs[i].crossed

\* An uploaded file is nobody else's and in no message until it is sent.
UnsentFiles ==
  /\ \A i \in DOMAIN msgs : msgs[i].file <= stored.last
  /\ \A u \in Writers : hand[u].file # NoFile =>
       /\ hand[u].file \in stored.files /\ hand[u].file <= stored.last
       /\ \A i \in DOMAIN msgs : msgs[i].file # hand[u].file
       /\ \A v \in Writers : hand[v].file = hand[u].file => v = u

\* A scheduled message has its timer until it is due, or the handler that will
\* set it, or that failed; it is announced by the delivery the timer begins, and
\* by no other.
OneDelivery ==
  /\ \A t \in Doing("schedule") \cup Doing("deliver") : t.by = msgs[t.id].by
  /\ \A i \in DOMAIN msgs : (msgs[i].sched # "no" /\ ~msgs[i].far) =>
       /\ (up /\ msgs[i].sched = "wait" /\ Live(i)) =>
            i \in timers \cup log.failed \/ \E t \in Doing("schedule") : t.id = i
       /\ i \in timers =>
            msgs[i].told = 0 /\ \A t \in Doing("schedule") \cup Doing("deliver") : t.id # i
       /\ \A t \in Doing("schedule") :
            t.id = i => msgs[i].told = 0 /\ \A d \in Doing("deliver") : d.id # i
       /\ \A t \in Doing("deliver") : t.id = i => msgs[i].told = 0 /\ msgs[i].sched = "due"

StoreIndInv ==
  /\ StoreTyped /\ References
  /\ PinLimit /\ PinRoom
  /\ NothingElseHidden /\ ClearingNewer
  /\ FilesKept /\ UnsentFiles
  /\ ScheduleKept /\ OneDelivery

LEMMA StoreRows ==
  ASSUME StoreTyped
  PROVE  /\ Len(msgs) \in Nat /\ DOMAIN msgs = 1 .. Len(msgs) /\ DOMAIN msgs \subseteq Ids
         /\ \A i \in DOMAIN msgs : msgs[i] \in Messages
<1>1. msgs \in Seq(Messages) /\ Len(msgs) <= MaxMessages /\ MaxMessages \in Nat
  BY StoreBounds DEF StoreTyped
<1>2. Len(msgs) \in Nat /\ DOMAIN msgs = 1 .. Len(msgs)
  BY <1>1, LenProperties
<1>3. \A i \in DOMAIN msgs : msgs[i] \in Messages
  BY <1>1, <1>2, ElementOfSeq
<1> QED
  BY <1>1, <1>2, <1>3 DEF Ids

\* What every step but that of a new message leaves of the rows.
SameRow(m, n) ==
  /\ n.by = m.by /\ n.file = m.file /\ n.far = m.far /\ n.late = m.late /\ n.crossed = m.crossed
  /\ n.sched = "no" <=> m.sched = "no"
  /\ n.life = "live" => m.life = "live"
SameRows ==
  /\ msgs' \in Seq(Messages) /\ Len(msgs') = Len(msgs) /\ DOMAIN msgs' = DOMAIN msgs
  /\ \A i \in DOMAIN msgs : SameRow(msgs[i], msgs'[i])

\* What a step that stores a message does to the rows.
OneMore ==
  /\ msgs' \in Seq(Messages) /\ Len(msgs') = Len(msgs) + 1
  /\ DOMAIN msgs' = DOMAIN msgs \cup {Len(msgs) + 1} /\ Len(msgs) + 1 \notin DOMAIN msgs
  /\ Len(msgs') <= MaxMessages
  /\ \A i \in DOMAIN msgs : msgs'[i] = msgs[i]
  /\ msgs'[Len(msgs) + 1].crossed = (Clearing # {})

LEMMA RowsUnchanged ==
  ASSUME StoreTyped, UNCHANGED msgs
  PROVE  SameRows
BY DEF SameRows, SameRow, StoreTyped

LEMMA OneRowChanged ==
  ASSUME StoreTyped, NEW i \in DOMAIN msgs, NEW r \in Messages, msgs' = [msgs EXCEPT ![i] = r]
  PROVE  /\ msgs' \in Seq(Messages) /\ Len(msgs') = Len(msgs) /\ DOMAIN msgs' = DOMAIN msgs
         /\ msgs'[i] = r
         /\ \A j \in DOMAIN msgs : j # i => msgs'[j] = msgs[j]
         /\ SameRow(msgs[i], r) => SameRows
<1>1. /\ msgs' \in Seq(Messages) /\ Len(msgs') = Len(msgs) /\ DOMAIN msgs' = DOMAIN msgs
      /\ msgs'[i] = r
      /\ \A j \in DOMAIN msgs : j # i => msgs'[j] = msgs[j]
  BY ExceptSeq, StoreRows DEF StoreTyped
<1>2. \A j \in DOMAIN msgs : SameRow(msgs[j], msgs[j])
  BY DEF SameRow
<1> QED
  BY <1>1, <1>2 DEF SameRows

\* The life of one message goes on.
LEMMA LifeChanged ==
  ASSUME StoreTyped, NEW i \in DOMAIN msgs, NEW l \in {"soft", "old", "gone"}, Set(i, "life", l)
  PROVE  /\ SameRows /\ msgs'[i].life = l
         /\ msgs'[i].sched = msgs[i].sched /\ msgs'[i].told = msgs[i].told
         /\ \A j \in DOMAIN msgs : j # i => msgs'[j] = msgs[j]
<1> DEFINE r == [msgs[i] EXCEPT !.life = l]
<1>1. msgs[i] \in Messages
  BY StoreRows
<1>2. r \in Messages /\ SameRow(msgs[i], r) /\ r.life = l /\ r.sched = msgs[i].sched /\ r.told = msgs[i].told
  BY <1>1 DEF Messages, SameRow
<1>3. msgs' = [msgs EXCEPT ![i] = r]
  BY DEF Set
<1> HIDE DEF r
<1> QED
  BY <1>2, <1>3, OneRowChanged

\* The lives of some messages go on.
LEMMA LivesChanged ==
  ASSUME StoreTyped, NEW gone \in SUBSET DOMAIN msgs, NEW l \in {"soft", "gone"},
         msgs' = [i \in DOMAIN msgs |-> IF i \in gone THEN [msgs[i] EXCEPT !.life = l] ELSE msgs[i]]
  PROVE  /\ SameRows
         /\ \A i \in DOMAIN msgs : i \in gone => msgs'[i].life = l
         /\ \A i \in DOMAIN msgs : i \notin gone => msgs'[i] = msgs[i]
         /\ \A i \in DOMAIN msgs : msgs'[i].sched = msgs[i].sched /\ msgs'[i].told = msgs[i].told
<1>1. Len(msgs) \in Nat /\ DOMAIN msgs = 1 .. Len(msgs) /\ \A i \in DOMAIN msgs : msgs[i] \in Messages
  BY StoreRows
<1>2. ASSUME NEW i \in DOMAIN msgs
      PROVE  /\ [msgs[i] EXCEPT !.life = l] \in Messages
             /\ SameRow(msgs[i], [msgs[i] EXCEPT !.life = l]) /\ SameRow(msgs[i], msgs[i])
             /\ [msgs[i] EXCEPT !.life = l].life = l
             /\ [msgs[i] EXCEPT !.life = l].sched = msgs[i].sched
             /\ [msgs[i] EXCEPT !.life = l].told = msgs[i].told
  BY <1>1 DEF Messages, SameRow
<1>3. /\ \A i \in DOMAIN msgs : msgs'[i] = IF i \in gone THEN [msgs[i] EXCEPT !.life = l] ELSE msgs[i]
      /\ DOMAIN msgs' = DOMAIN msgs
  OBVIOUS
<1>4. \A i \in DOMAIN msgs : msgs'[i] \in Messages
  BY <1>1, <1>2, <1>3
<1>5. msgs' \in Seq(Messages) /\ Len(msgs') = Len(msgs)
  BY <1>1, <1>4, IsASeq
<1> QED
  BY <1>2, <1>3, <1>5 DEF SameRows

LEMMA RowAdded ==
  ASSUME StoreTyped, Len(msgs) < MaxMessages, NEW u \in Writers, NEW file \in Files \cup {NoFile},
         NEW sched \in {"no", "wait"}, NEW far \in BOOLEAN, NEW late \in BOOLEAN,
         Add(u, file, sched, far, late)
  PROVE  /\ OneMore
         /\ LET m == msgs'[Len(msgs) + 1]
            IN  /\ m.by = u /\ m.file = file /\ m.sched = sched /\ m.far = far /\ m.late = late
                /\ m.life = "live" /\ m.told = 0
<1> DEFINE m == [by |-> u, file |-> file, life |-> "live", sched |-> sched, far |-> far, late |-> late,
                 told |-> 0, crossed |-> Clearing # {}]
<1>1. msgs \in Seq(Messages) /\ Len(msgs) \in Nat /\ DOMAIN msgs = 1 .. Len(msgs) /\ MaxMessages \in Nat
  BY StoreRows, StoreBounds DEF StoreTyped
<1>2. m \in Messages
  BY DEF Messages
<1>3. msgs' = Append(msgs, m)
  BY DEF Add, Clearing
<1>4. /\ m.by = u /\ m.file = file /\ m.sched = sched /\ m.far = far /\ m.late = late
      /\ m.life = "live" /\ m.told = 0 /\ m.crossed = (Clearing # {})
  OBVIOUS
<1> HIDE DEF m
<1>5. /\ msgs' \in Seq(Messages) /\ Len(msgs') = Len(msgs) + 1
      /\ \A i \in 1 .. Len(msgs) : msgs'[i] = msgs[i]
      /\ msgs'[Len(msgs) + 1] = m
  BY <1>1, <1>2, <1>3, AppendProperties
<1>6. DOMAIN msgs' = 1 .. (Len(msgs) + 1)
  BY <1>5, LenProperties
<1>7. DOMAIN msgs' = DOMAIN msgs \cup {Len(msgs) + 1} /\ Len(msgs) + 1 \notin DOMAIN msgs
  BY <1>1, <1>6
<1> QED
  BY <1>1, <1>4, <1>5, <1>7 DEF OneMore

\* Steps that leave a part of the invariant alone.

LEMMA ReferencesQuiet ==
  ASSUME StoreTyped, References, DOMAIN msgs \subseteq DOMAIN msgs', tasks' \subseteq tasks,
         timers' \subseteq timers, hidden' = hidden, up' = up,
         \A u \in Writers : hand'[u].pick \in {hand[u].pick, 0}
  PROVE  References'
BY DEF References

LEMMA PinsFinite ==
  ASSUME StoreTyped
  PROVE  IsFiniteSet(pins) /\ Cardinality(pins) \in Nat
<1>1. pins \subseteq Nat /\ MaxMessages \in Nat /\ \A s \in pins : s <= MaxMessages
  BY StoreBounds DEF StoreTyped, Ids
<1>2. IsFiniteSet(pins)
  BY <1>1, FS_BoundedSetOfNaturals
<1> QED
  BY <1>2, FS_CardinalityType

LEMMA PinsQuiet ==
  ASSUME StoreIndInv, pins' \subseteq pins, Doing("pin")' \subseteq Doing("pin"), log'.overlap = log.overlap
  PROVE  PinLimit' /\ PinRoom'
<1>1. IsFiniteSet(pins) /\ Cardinality(pins) \in Nat /\ MaxPins \in Nat
  BY PinsFinite, StoreBounds DEF StoreIndInv
<1>2. IsFiniteSet(pins') /\ Cardinality(pins') <= Cardinality(pins)
  BY <1>1, FS_Subset
<1>3. Cardinality(pins') \in Nat
  BY <1>2, FS_CardinalityType
<1>4. PinLimit'
  BY <1>1, <1>2, <1>3 DEF PinLimit, StoreIndInv
<1>5. PinRoom'
  BY <1>1, <1>2, <1>3 DEF PinRoom, StoreIndInv
<1> QED
  BY <1>4, <1>5

LEMMA HiddenQuiet ==
  ASSUME StoreIndInv, SameRows, hidden' = hidden, log.asked \subseteq log'.asked,
         Clearing' # {} => Clearing # {}
  PROVE  NothingElseHidden' /\ ClearingNewer'
BY DEF StoreIndInv, SameRows, SameRow, NothingElseHidden, ClearingNewer, Live

LEMMA HiddenMore ==
  ASSUME StoreIndInv, OneMore, hidden' = hidden, log' = log, Clearing' = Clearing
  PROVE  NothingElseHidden' /\ ClearingNewer'
<1> DEFINE n == Len(msgs) + 1
<1>1. /\ DOMAIN msgs' = DOMAIN msgs \cup {n} /\ n \notin DOMAIN msgs
      /\ \A i \in DOMAIN msgs : msgs'[i] = msgs[i]
      /\ msgs'[n].crossed = (Clearing # {})
  BY DEF OneMore
<1> HIDE DEF n
<1>2. \A u \in Writers : <<u, n>> \notin hidden
  BY <1>1 DEF StoreIndInv, References
<1>3. NothingElseHidden'
  BY <1>1, <1>2 DEF StoreIndInv, NothingElseHidden, Live
<1>4. ClearingNewer'
  BY <1>1 DEF StoreIndInv, ClearingNewer, Live
<1> QED
  BY <1>3, <1>4

LEMMA FilesQuiet ==
  ASSUME StoreIndInv, SameRows, stored' = stored,
         \A u \in Writers : hand'[u].file \in {hand[u].file, NoFile}
  PROVE  FilesKept' /\ UnsentFiles'
<1>1. FilesKept'
  BY DEF StoreIndInv, SameRows, SameRow, FilesKept, Live
<1>2. UnsentFiles'
  BY DEF StoreIndInv, SameRows, SameRow, UnsentFiles
<1> QED
  BY <1>1, <1>2

\* A file is removed when no message that is not deleted refers to it; it is in
\* some message.
LEMMA FilesRemoved ==
  ASSUME StoreIndInv, UNCHANGED <<msgs, hand>>, NEW k \in DOMAIN msgs, NEW lives, "live" \in lives,
         RemoveFiles(IF Refers(msgs[k].file, lives) = {} THEN {msgs[k].file} ELSE {})
  PROVE  FilesKept' /\ UnsentFiles' /\ stored' \in StoredType
<1> DEFINE out == IF Refers(msgs[k].file, lives) = {} THEN {msgs[k].file} ELSE {}
<1>1. stored \in StoredType
  BY DEF StoreIndInv, StoreTyped
<1>2. stored' = [stored EXCEPT !.files = @ \ out]
  BY DEF RemoveFiles
<1> HIDE DEF out
<1>3. stored' \in StoredType /\ stored'.files = stored.files \ out /\ stored'.last = stored.last
  BY <1>1, <1>2 DEF StoredType
<1>4. \A i \in DOMAIN msgs : Live(i) => msgs[i].file \notin out
  BY DEF out, Refers, Live
<1>5. \A u \in Writers : hand[u].file # NoFile => hand[u].file \notin out
  BY DEF out, StoreIndInv, UnsentFiles
<1>6. FilesKept'
  BY <1>3, <1>4 DEF StoreIndInv, FilesKept, Live
<1>7. UnsentFiles'
  BY <1>3, <1>5 DEF StoreIndInv, UnsentFiles
<1> QED
  BY <1>3, <1>6, <1>7

\* A message is stored with no file, that of its sender, or that of another.
LEMMA FilesMore ==
  ASSUME StoreIndInv, OneMore, stored' = stored, NEW f, f = msgs'[Len(msgs) + 1].file,
         \A u \in Writers : hand'[u].file \in {hand[u].file, NoFile},
         f <= stored.last,
         \A u \in Writers : hand'[u].file # NoFile => hand'[u].file # f,
         msgs'[Len(msgs) + 1].late \/ f = NoFile \/ f \in stored.files
  PROVE  FilesKept' /\ UnsentFiles'
<1> DEFINE n == Len(msgs) + 1
<1>1. /\ DOMAIN msgs' = DOMAIN msgs \cup {n} /\ n \notin DOMAIN msgs
      /\ \A i \in DOMAIN msgs : msgs'[i] = msgs[i]
      /\ msgs'[n].file = f /\ (msgs'[n].late \/ f = NoFile \/ f \in stored.files)
  BY DEF OneMore
<1> HIDE DEF n
<1>2. FilesKept'
  BY <1>1 DEF StoreIndInv, FilesKept, Live
<1>3. UnsentFiles'
  BY <1>1 DEF StoreIndInv, UnsentFiles
<1> QED
  BY <1>2, <1>3

LEMMA ScheduleQuiet ==
  ASSUME StoreIndInv, SameRows,
         \A i \in DOMAIN msgs : msgs'[i].sched = msgs[i].sched /\ msgs'[i].told = msgs[i].told,
         timers' = timers, Doing("deliver")' = Doing("deliver"), Doing("schedule")' = Doing("schedule"),
         up' = up, log'.missed = log.missed, log'.failed = log.failed
  PROVE  ScheduleKept' /\ OneDelivery'
<1>1. \A t \in Doing("schedule") \cup Doing("deliver") : t.id \in DOMAIN msgs
  BY DEF StoreIndInv, References, Doing
<1>2. ScheduleKept'
  BY DEF StoreIndInv, SameRows, SameRow, ScheduleKept, Live
<1>3. OneDelivery'
  BY <1>1 DEF StoreIndInv, SameRows, SameRow, OneDelivery, Live
<1> QED
  BY <1>2, <1>3

LEMMA ScheduleMore ==
  ASSUME StoreIndInv, OneMore, msgs'[Len(msgs) + 1].sched = "no",
         timers' = timers, Doing("deliver")' = Doing("deliver"), Doing("schedule")' = Doing("schedule"),
         up' = up, log' = log
  PROVE  ScheduleKept' /\ OneDelivery'
<1>1. \A t \in Doing("schedule") \cup Doing("deliver") : t.id \in DOMAIN msgs
  BY DEF StoreIndInv, References, Doing
<1>2. ScheduleKept'
  BY DEF StoreIndInv, OneMore, ScheduleKept, Live
<1>3. OneDelivery'
  BY <1>1 DEF StoreIndInv, OneMore, OneDelivery, Live
<1> QED
  BY <1>2, <1>3

LEMMA TurnTaken ==
  ASSUME StoreTyped, NEW u \in Writers, Turn(u)
  PROVE  turns' \in 0 .. MaxTurns /\ up
BY StoreBounds DEF StoreTyped, Turn

\* What a page may set of what it holds.
LEMMA HandSet ==
  ASSUME StoreTyped, NEW u \in Writers
  PROVE  /\ \A f \in Files \cup {NoFile} : [hand EXCEPT ![u].file = f] \in [Writers -> Hands]
         /\ \A i \in DOMAIN msgs \cup {0} : [hand EXCEPT ![u].pick = i] \in [Writers -> Hands]
         /\ \A c \in {"no", "self", "both"} : [hand EXCEPT ![u].clear = c] \in [Writers -> Hands]
         /\ [hand EXCEPT ![u] = Empty] \in [Writers -> Hands]
         /\ Empty.file = NoFile /\ Empty.pick = 0
<1>1. hand \in [Writers -> Hands] /\ hand[u] \in Hands
  BY DEF StoreTyped
<1>2. \A i \in DOMAIN msgs \cup {0} : i \in Ids \cup {0}
  BY StoreRows
<1>3. Empty \in Hands /\ Empty.file = NoFile /\ Empty.pick = 0
  BY DEF Empty, Hands
<1>4. /\ \A f \in Files \cup {NoFile} : [hand[u] EXCEPT !.file = f] \in Hands
      /\ \A i \in DOMAIN msgs \cup {0} : [hand[u] EXCEPT !.pick = i] \in Hands
      /\ \A c \in {"no", "self", "both"} : [hand[u] EXCEPT !.clear = c] \in Hands
  BY <1>1, <1>2 DEF Hands
<1> QED
  BY <1>1, <1>3, <1>4

LEMMA TaskBegun ==
  ASSUME StoreTyped, NEW i \in DOMAIN msgs, NEW u \in Writers,
         NEW op \in {"schedule", "deliver", "removeFile", "pin", "forward"}, Begin(op, i, u)
  PROVE  tasks' \subseteq Tasks
<1>1. i \in Ids /\ tasks \subseteq Tasks
  BY StoreRows DEF StoreTyped
<1>2. [op |-> op, id |-> i, by |-> u] \in Tasks
  BY <1>1 DEF Tasks
<1> QED
  BY <1>1, <1>2 DEF Begin

LEMMA UnpinKeeps ==
  ASSUME StoreIndInv, NEW u \in Writers, Unpin(u)
  PROVE  StoreIndInv'
<1>1. StoreTyped /\ References
  BY DEF StoreIndInv
<1>2. SameRows
  BY <1>1, RowsUnchanged DEF Unpin
<1>3. StoreTyped'
  BY <1>1, TurnTaken DEF Unpin, StoreTyped
<1>4. References'
  BY <1>1, <1>2, ReferencesQuiet DEF Unpin, SameRows, StoreTyped, Hands, Turn
<1>5. PinLimit' /\ PinRoom'
  BY PinsQuiet DEF Unpin, Doing, Turn
<1>6. NothingElseHidden' /\ ClearingNewer'
  BY <1>2, HiddenQuiet DEF Unpin, Doing, Clearing, Turn
<1>7. FilesKept' /\ UnsentFiles'
  BY <1>1, <1>2, FilesQuiet DEF Unpin, StoreTyped, Hands, Turn
<1>8. ScheduleKept' /\ OneDelivery'
  BY <1>2, ScheduleQuiet DEF Unpin, Doing, Turn
<1> QED
  BY <1>3, <1>4, <1>5, <1>6, <1>7, <1>8 DEF StoreIndInv

LEMMA ReactKeeps ==
  ASSUME StoreIndInv, NEW u \in Writers, React(u)
  PROVE  StoreIndInv'
<1>1. StoreTyped /\ References
  BY DEF StoreIndInv
<1>2. SameRows
  BY <1>1, RowsUnchanged DEF React
<1>3. StoreTyped'
  <2>1. Turn(u) /\ UNCHANGED <<msgs, stored, joined, hidden, pins, up, timers, tasks, hand, log>>
    BY DEF React
  <2>2. PICK i \in DOMAIN msgs :
          reacts' = IF <<u, i>> \in reacts THEN reacts \ {<<u, i>>} ELSE reacts \cup {<<u, i>>}
    BY DEF React
  <2>3. reacts' \subseteq Writers \X Ids
    BY <1>1, <2>2, StoreRows DEF StoreTyped
  <2> QED
    BY <1>1, <2>1, <2>3, TurnTaken DEF StoreTyped
<1>4. References'
  BY <1>1, <1>2, ReferencesQuiet DEF React, SameRows, StoreTyped, Hands, Turn
<1>5. PinLimit' /\ PinRoom'
  BY PinsQuiet DEF React, Doing, Turn
<1>6. NothingElseHidden' /\ ClearingNewer'
  BY <1>2, HiddenQuiet DEF React, Doing, Clearing, Turn
<1>7. FilesKept' /\ UnsentFiles'
  BY <1>1, <1>2, FilesQuiet DEF React, StoreTyped, Hands, Turn
<1>8. ScheduleKept' /\ OneDelivery'
  BY <1>2, ScheduleQuiet DEF React, Doing, Turn
<1> QED
  BY <1>3, <1>4, <1>5, <1>6, <1>7, <1>8 DEF StoreIndInv

LEMMA AskClearKeeps ==
  ASSUME StoreIndInv, NEW u \in Writers, AskClear(u)
  PROVE  StoreIndInv'
<1>1. StoreTyped /\ References
  BY DEF StoreIndInv
<1>2. SameRows
  BY <1>1, RowsUnchanged DEF AskClear
<1>3. StoreTyped'
  <2>1. Turn(u) /\ UNCHANGED <<msgs, stored, joined, hidden, pins, reacts, up, timers, tasks, log>>
    BY DEF AskClear
  <2>2. PICK scope \in {"self", "both"} : hand' = [hand EXCEPT ![u].clear = scope]
    BY DEF AskClear
  <2>3. hand' \in [Writers -> Hands]
    BY <1>1, <2>2, HandSet
  <2> QED
    BY <1>1, <2>1, <2>3, TurnTaken DEF StoreTyped
<1>4. References'
  BY <1>1, <1>2, ReferencesQuiet DEF AskClear, SameRows, StoreTyped, Hands, Turn
<1>5. PinLimit' /\ PinRoom'
  BY PinsQuiet DEF AskClear, Doing, Turn
<1>6. NothingElseHidden' /\ ClearingNewer'
  BY <1>2, HiddenQuiet DEF AskClear, Doing, Clearing, Turn
<1>7. FilesKept' /\ UnsentFiles'
  BY <1>1, <1>2, FilesQuiet DEF AskClear, StoreTyped, Hands, Turn
<1>8. ScheduleKept' /\ OneDelivery'
  BY <1>2, ScheduleQuiet DEF AskClear, Doing, Turn
<1> QED
  BY <1>3, <1>4, <1>5, <1>6, <1>7, <1>8 DEF StoreIndInv

LEMMA DropClearKeeps ==
  ASSUME StoreIndInv, NEW u \in Writers, DropClear(u)
  PROVE  StoreIndInv'
<1>1. StoreTyped /\ References
  BY DEF StoreIndInv
<1>2. SameRows
  BY <1>1, RowsUnchanged DEF DropClear
<1>3. StoreTyped'
  BY <1>1, HandSet DEF DropClear, StoreTyped
<1>4. References'
  BY <1>1, <1>2, ReferencesQuiet DEF DropClear, SameRows, StoreTyped, Hands
<1>5. PinLimit' /\ PinRoom'
  BY PinsQuiet DEF DropClear, Doing
<1>6. NothingElseHidden' /\ ClearingNewer'
  BY <1>2, HiddenQuiet DEF DropClear, Doing, Clearing
<1>7. FilesKept' /\ UnsentFiles'
  BY <1>1, <1>2, FilesQuiet DEF DropClear, StoreTyped, Hands
<1>8. ScheduleKept' /\ OneDelivery'
  BY <1>2, ScheduleQuiet DEF DropClear, Doing
<1> QED
  BY <1>3, <1>4, <1>5, <1>6, <1>7, <1>8 DEF StoreIndInv

LEMMA LeaveChatKeeps ==
  ASSUME StoreIndInv, NEW u \in Writers, LeaveChat(u)
  PROVE  StoreIndInv'
<1>1. StoreTyped /\ References
  BY DEF StoreIndInv
<1>2. SameRows
  BY <1>1, RowsUnchanged DEF LeaveChat
<1>3. StoreTyped'
  BY <1>1, TurnTaken, HandSet DEF LeaveChat, StoreTyped
<1>4. References'
  BY <1>1, <1>2, ReferencesQuiet DEF LeaveChat, SameRows, StoreTyped, Hands, Turn, Empty
<1>5. PinLimit' /\ PinRoom'
  BY PinsQuiet DEF LeaveChat, Doing, Turn, Empty
<1>6. NothingElseHidden' /\ ClearingNewer'
  BY <1>2, HiddenQuiet DEF LeaveChat, Doing, Clearing, Turn, Empty
<1>7. FilesKept' /\ UnsentFiles'
  BY <1>1, <1>2, FilesQuiet DEF LeaveChat, StoreTyped, Hands, Turn, Empty
<1>8. ScheduleKept' /\ OneDelivery'
  BY <1>2, ScheduleQuiet DEF LeaveChat, Doing, Turn, Empty
<1> QED
  BY <1>3, <1>4, <1>5, <1>6, <1>7, <1>8 DEF StoreIndInv

LEMMA PickKeeps ==
  ASSUME StoreIndInv, NEW u \in Writers, Pick(u)
  PROVE  StoreIndInv'
<1>1. StoreTyped /\ References
  BY DEF StoreIndInv
<1>2. SameRows
  BY <1>1, RowsUnchanged DEF Pick
<1>3. StoreTyped'
  <2>1. Turn(u) /\ UNCHANGED <<msgs, stored, joined, hidden, pins, reacts, up, timers, tasks, log>>
    BY DEF Pick
  <2>2. PICK i \in DOMAIN msgs : hand' = [hand EXCEPT ![u].pick = i]
    BY DEF Pick
  <2>3. hand' \in [Writers -> Hands]
    BY <1>1, <2>2, HandSet
  <2> QED
    BY <1>1, <2>1, <2>3, TurnTaken DEF StoreTyped
<1>4. References'
  BY <1>1 DEF Pick, References, StoreTyped, Hands
<1>5. PinLimit' /\ PinRoom'
  BY PinsQuiet DEF Pick, Doing, Turn
<1>6. NothingElseHidden' /\ ClearingNewer'
  BY <1>2, HiddenQuiet DEF Pick, Doing, Clearing, Turn
<1>7. FilesKept' /\ UnsentFiles'
  BY <1>1, <1>2, FilesQuiet DEF Pick, StoreTyped, Hands, Turn
<1>8. ScheduleKept' /\ OneDelivery'
  BY <1>2, ScheduleQuiet DEF Pick, Doing, Turn
<1> QED
  BY <1>3, <1>4, <1>5, <1>6, <1>7, <1>8 DEF StoreIndInv

LEMMA ForwardReadKeeps ==
  ASSUME StoreIndInv, NEW u \in Writers, ForwardRead(u)
  PROVE  StoreIndInv'
<1>1. StoreTyped /\ References
  BY DEF StoreIndInv
<1>2. SameRows
  BY <1>1, RowsUnchanged DEF ForwardRead
<1>3. StoreTyped'
  BY <1>1, TaskBegun, HandSet DEF ForwardRead, StoreTyped, References
<1>4. References'
  BY <1>1 DEF ForwardRead, Begin, References, StoreTyped, Hands
<1>5. PinLimit' /\ PinRoom'
  BY PinsQuiet DEF ForwardRead, Doing, Begin
<1>6. NothingElseHidden' /\ ClearingNewer'
  BY <1>2, HiddenQuiet DEF ForwardRead, Doing, Clearing, Begin
<1>7. FilesKept' /\ UnsentFiles'
  BY <1>1, <1>2, FilesQuiet DEF ForwardRead, StoreTyped, Hands, Begin
<1>8. ScheduleKept' /\ OneDelivery'
  BY <1>2, ScheduleQuiet DEF ForwardRead, Doing, Begin
<1> QED
  BY <1>3, <1>4, <1>5, <1>6, <1>7, <1>8 DEF StoreIndInv

LEMMA UploadKeeps ==
  ASSUME StoreIndInv, NEW u \in Writers, Upload(u)
  PROVE  StoreIndInv'
<1>1. StoreTyped /\ References
  BY DEF StoreIndInv
<1>2. SameRows
  BY <1>1, RowsUnchanged DEF Upload
<1>3. StoreTyped'
  <2>1. stored \in StoredType /\ MaxFiles \in Nat
    BY <1>1, StoreBounds DEF StoreTyped
  <2>2. stored.last + 1 \in Files /\ stored.last + 1 \in 0 .. MaxFiles /\ stored.files \subseteq Files
    BY <2>1 DEF StoredType, Files, Upload
  <2>3. stored' \in StoredType
    BY <2>2 DEF StoredType, Upload
  <2> QED
    BY <1>1, <2>2, <2>3, TurnTaken, HandSet DEF Upload, StoreTyped
<1>4. References'
  BY <1>1, <1>2, ReferencesQuiet DEF Upload, SameRows, StoreTyped, Hands, Turn
<1>5. PinLimit' /\ PinRoom'
  BY PinsQuiet DEF Upload, Doing, Turn
<1>6. NothingElseHidden' /\ ClearingNewer'
  BY <1>2, HiddenQuiet DEF Upload, Doing, Clearing, Turn
<1>7. FilesKept' /\ UnsentFiles'
  <2> DEFINE f == stored.last + 1
  <2>1. stored.last \in Nat /\ hand \in [Writers -> Hands]
    BY <1>1, StoreBounds DEF StoreTyped, StoredType
  <2>2. /\ stored'.files = stored.files \cup {f} /\ stored'.last = f
        /\ hand' = [hand EXCEPT ![u].file = f]
    BY DEF Upload
  <2>3. hand'[u].file = f /\ \A v \in Writers : v # u => hand'[v].file = hand[v].file
    BY <2>1, <2>2 DEF Hands
  <2>4. \A i \in DOMAIN msgs : msgs[i].file \in Nat /\ msgs[i].file <= stored.last
    BY <1>1, StoreRows DEF Messages, Files, NoFile, StoreIndInv, UnsentFiles
  <2>5. \A v \in Writers : hand[v].file \in Nat /\ (hand[v].file # NoFile => hand[v].file <= stored.last)
    BY <2>1 DEF Hands, Files, NoFile, StoreIndInv, UnsentFiles
  <2>6. f \in Nat /\ \A n \in Nat : n <= stored.last => n <= f /\ n # f
    BY <2>1
  <2>7. UNCHANGED msgs
    BY DEF Upload
  <2> HIDE DEF f
  <2>8. FilesKept'
    BY <2>2, <2>7 DEF StoreIndInv, FilesKept, Live
  <2>9. UnsentFiles'
    BY <2>2, <2>3, <2>4, <2>5, <2>6, <2>7 DEF StoreIndInv, UnsentFiles
  <2> QED
    BY <2>8, <2>9
<1>8. ScheduleKept' /\ OneDelivery'
  BY <1>2, ScheduleQuiet DEF Upload, Doing, Turn
<1> QED
  BY <1>3, <1>4, <1>5, <1>6, <1>7, <1>8 DEF StoreIndInv

LEMMA GraceEndsKeeps ==
  ASSUME StoreIndInv, GraceEnds
  PROVE  StoreIndInv'
<1>1. StoreTyped /\ References
  BY DEF StoreIndInv
<1>a. PICK i \in DOMAIN msgs : Set(i, "life", "old")
  BY DEF GraceEnds
<1>2. SameRows /\ \A j \in DOMAIN msgs : msgs'[j].sched = msgs[j].sched /\ msgs'[j].told = msgs[j].told
  BY <1>1, <1>a, LifeChanged
<1>3. StoreTyped'
  BY <1>1, <1>2 DEF GraceEnds, SameRows, StoreTyped
<1>4. References'
  BY <1>1, <1>2, ReferencesQuiet DEF GraceEnds, SameRows, StoreTyped, Hands
<1>5. PinLimit' /\ PinRoom'
  BY PinsQuiet DEF GraceEnds, Doing
<1>6. NothingElseHidden' /\ ClearingNewer'
  BY <1>2, HiddenQuiet DEF GraceEnds, Doing, Clearing
<1>7. FilesKept' /\ UnsentFiles'
  BY <1>1, <1>2, FilesQuiet DEF GraceEnds, StoreTyped, Hands
<1>8. ScheduleKept' /\ OneDelivery'
  BY <1>2, ScheduleQuiet DEF GraceEnds, Doing
<1> QED
  BY <1>3, <1>4, <1>5, <1>6, <1>7, <1>8 DEF StoreIndInv

LEMMA CleanRowsKeeps ==
  ASSUME StoreIndInv, CleanRows
  PROVE  StoreIndInv'
<1>1. StoreTyped /\ References
  BY DEF StoreIndInv
<1> DEFINE old == {i \in DOMAIN msgs : msgs[i].life = "old"}
<1>a. /\ msgs' = [i \in DOMAIN msgs |-> IF i \in old THEN [msgs[i] EXCEPT !.life = "gone"] ELSE msgs[i]]
      /\ pins' = pins \ old /\ reacts' = {r \in reacts : r[2] \notin old}
      /\ tasks' = tasks \cup {[op |-> "cleanFiles", id |-> i, by |-> msgs[i].by] :
                                 i \in {j \in old : msgs[j].file # NoFile}}
      /\ up /\ UNCHANGED <<stored, joined, hidden, up, timers, hand, turns, log>>
  BY DEF CleanRows
<1>b. old \subseteq DOMAIN msgs
  OBVIOUS
<1> HIDE DEF old
<1>2. SameRows /\ \A j \in DOMAIN msgs : msgs'[j].sched = msgs[j].sched /\ msgs'[j].told = msgs[j].told
  BY <1>1, <1>a, <1>b, LivesChanged
<1>3. StoreTyped'
  <2>1. \A i \in DOMAIN msgs : [op |-> "cleanFiles", id |-> i, by |-> msgs[i].by] \in Tasks
    BY <1>1, StoreRows DEF Tasks, Messages
  <2>2. tasks' \subseteq Tasks
    BY <1>1, <1>a, <1>b, <2>1 DEF StoreTyped
  <2> QED
    BY <1>1, <1>2, <1>a, <2>2 DEF SameRows, StoreTyped
<1>4. References'
  BY <1>1, <1>2, <1>a, <1>b DEF References, SameRows
<1>5. PinLimit' /\ PinRoom'
  BY <1>a, PinsQuiet DEF Doing
<1>6. NothingElseHidden' /\ ClearingNewer'
  BY <1>2, <1>a, HiddenQuiet DEF Doing, Clearing
<1>7. FilesKept' /\ UnsentFiles'
  BY <1>2, <1>a, FilesQuiet
<1>8. ScheduleKept' /\ OneDelivery'
  BY <1>2, <1>a, ScheduleQuiet DEF Doing
<1> QED
  BY <1>3, <1>4, <1>5, <1>6, <1>7, <1>8 DEF StoreIndInv

LEMMA TimePassesKeeps ==
  ASSUME StoreIndInv, TimePasses
  PROVE  StoreIndInv'
<1>1. StoreTyped /\ References
  BY DEF StoreIndInv
<1>a. PICK i \in DOMAIN msgs : msgs[i].sched = "wait" /\ Set(i, "sched", "due")
  BY DEF TimePasses
<1>b. /\ SameRows
      /\ msgs'[i].sched = "due" /\ msgs'[i].told = msgs[i].told /\ msgs'[i].life = msgs[i].life
      /\ \A j \in DOMAIN msgs : j # i => msgs'[j] = msgs[j]
  <2> DEFINE r == [msgs[i] EXCEPT !.sched = "due"]
  <2>1. msgs[i] \in Messages
    BY <1>1, StoreRows
  <2>2. r \in Messages /\ SameRow(msgs[i], r) /\ r.sched = "due" /\ r.told = msgs[i].told /\ r.life = msgs[i].life
    BY <1>a, <2>1 DEF Messages, SameRow
  <2>3. msgs' = [msgs EXCEPT ![i] = r]
    BY <1>a DEF Set
  <2> HIDE DEF r
  <2> QED
    BY <1>1, <2>2, <2>3, OneRowChanged
<1>2. SameRows
  BY <1>b
<1>3. StoreTyped'
  BY <1>1, <1>2 DEF TimePasses, SameRows, StoreTyped
<1>4. References'
  BY <1>1, <1>2, ReferencesQuiet DEF TimePasses, SameRows, StoreTyped, Hands
<1>5. PinLimit' /\ PinRoom'
  BY PinsQuiet DEF TimePasses, Doing
<1>6. NothingElseHidden' /\ ClearingNewer'
  BY <1>2, HiddenQuiet DEF TimePasses, Doing, Clearing
<1>7. FilesKept' /\ UnsentFiles'
  BY <1>1, <1>2, FilesQuiet DEF TimePasses, StoreTyped, Hands
<1>8. ScheduleKept' /\ OneDelivery'
  <2>1. UNCHANGED <<timers, tasks, up, log>>
    BY DEF TimePasses
  <2>2. \A j \in DOMAIN msgs : msgs'[j].far = msgs[j].far /\ msgs'[j].by = msgs[j].by
    BY <1>b DEF SameRows, SameRow
  <2>3. msgs[i].told \in Nat
    BY <1>1, StoreRows DEF Messages
  <2>4. ScheduleKept'
    BY <1>1, <1>a, <1>b, <2>1, <2>2, <2>3 DEF StoreIndInv, ScheduleKept, OneDelivery, SameRows, Live, Doing
  <2>5. OneDelivery'
    BY <1>1, <1>a, <1>b, <2>1, <2>2 DEF StoreIndInv, References, OneDelivery, SameRows, Live, Doing
  <2> QED
    BY <2>4, <2>5
<1> QED
  BY <1>3, <1>4, <1>5, <1>6, <1>7, <1>8 DEF StoreIndInv

LEMMA StopKeeps ==
  ASSUME StoreIndInv, Stop
  PROVE  StoreIndInv'
<1>1. StoreTyped /\ References
  BY DEF StoreIndInv
<1>2. SameRows
  BY <1>1, RowsUnchanged DEF Stop
<1>3. StoreTyped'
  <2>1. turns' \in 0 .. MaxTurns
    BY <1>1, StoreBounds DEF Stop, StoreTyped
  <2> QED
    BY <1>1, <2>1 DEF Stop, StoreTyped
<1>4. References'
  BY <1>1 DEF Stop, References
<1>5. PinLimit' /\ PinRoom'
  BY PinsQuiet DEF Stop, Doing
<1>6. NothingElseHidden' /\ ClearingNewer'
  BY <1>2, HiddenQuiet DEF Stop, Doing, Clearing
<1>7. FilesKept' /\ UnsentFiles'
  BY <1>1, <1>2, FilesQuiet DEF Stop, StoreTyped, Hands
<1>8. ScheduleKept' /\ OneDelivery'
  <2>1. ScheduleKept'
    BY DEF StoreIndInv, Stop, ScheduleKept
  <2>2. OneDelivery'
    BY DEF StoreIndInv, Stop, OneDelivery, Doing
  <2> QED
    BY <2>1, <2>2
<1> QED
  BY <1>3, <1>4, <1>5, <1>6, <1>7, <1>8 DEF StoreIndInv

LEMMA BootKeeps ==
  ASSUME StoreIndInv, Boot
  PROVE  StoreIndInv'
<1>1. StoreTyped /\ References
  BY DEF StoreIndInv
<1>2. SameRows
  BY <1>1, RowsUnchanged DEF Boot
<1>3. StoreTyped'
  <2>1. Pending \subseteq Ids /\ {i \in DOMAIN msgs : msgs[i].sched = "due"} \subseteq Ids
    BY <1>1, StoreRows DEF Pending
  <2>2. log' \in LogType
    BY <1>1, <2>1 DEF Boot, StoreTyped, LogType
  <2>3. timers' \subseteq Ids
    BY <2>1 DEF Boot
  <2> QED
    BY <1>1, <2>2, <2>3 DEF Boot, StoreTyped
<1>4. References'
  <2>1. timers' \subseteq DOMAIN msgs
    BY DEF Boot, Pending
  <2> QED
    BY <1>1, <2>1 DEF Boot, References
<1>5. PinLimit' /\ PinRoom'
  <2>1. log'.overlap = log.overlap
    BY <1>1 DEF Boot, StoreTyped, LogType
  <2> QED
    BY <2>1, PinsQuiet DEF Boot, Doing
<1>6. NothingElseHidden' /\ ClearingNewer'
  <2>1. log'.asked = log.asked
    BY <1>1 DEF Boot, StoreTyped, LogType
  <2> QED
    BY <1>2, <2>1, HiddenQuiet DEF Boot, Doing, Clearing
<1>7. FilesKept' /\ UnsentFiles'
  BY <1>1, <1>2, FilesQuiet DEF Boot, StoreTyped, Hands
<1>8. ScheduleKept' /\ OneDelivery'
  <2>1. log'.missed = {i \in DOMAIN msgs : msgs[i].sched = "due"}
    BY <1>1 DEF Boot, StoreTyped, LogType
  <2>2. tasks = {} /\ tasks' = {} /\ timers' \subseteq Pending /\ msgs' = msgs
    BY <1>1 DEF Boot, References
  <2>a. \A i \in Pending : i \in timers' \cup log'.failed
    BY <1>1 DEF Boot, StoreTyped, LogType
  <2>3. ScheduleKept'
    BY <2>1, <2>2 DEF StoreIndInv, ScheduleKept
  <2>4. \A i \in DOMAIN msgs : msgs[i].told \in Nat /\ msgs[i].sched \in {"no", "wait", "due"}
    BY <1>1, StoreRows DEF Messages
  <2>5. \A i \in Pending : msgs[i].sched = "wait" /\ (~msgs[i].far => msgs[i].told = 0)
    BY <2>4 DEF StoreIndInv, ScheduleKept, Pending
  <2>6. OneDelivery'
    BY <2>2, <2>a, <2>5 DEF OneDelivery, Doing, Pending, Live
  <2> QED
    BY <2>3, <2>6
<1> QED
  BY <1>3, <1>4, <1>5, <1>6, <1>7, <1>8 DEF StoreIndInv

LEMMA TimerFiresKeeps ==
  ASSUME StoreIndInv, NEW i \in timers, TimerFires(i)
  PROVE  StoreIndInv'
<1>1. StoreTyped /\ References
  BY DEF StoreIndInv
<1>2. SameRows
  BY <1>1, RowsUnchanged DEF TimerFires
<1>a. i \in DOMAIN msgs /\ msgs[i].by \in Writers
  BY <1>1, StoreRows DEF References, Messages
<1>b. /\ timers' = timers \ {i} /\ (msgs[i].sched = "due" \/ msgs[i].far) /\ up
      /\ UNCHANGED <<msgs, stored, joined, hidden, pins, reacts, up, hand, turns, log>>
      /\ Live(i) => tasks' = tasks \cup {[op |-> "deliver", id |-> i, by |-> msgs[i].by]}
      /\ ~Live(i) => tasks' = tasks
  BY DEF TimerFires, Begin
<1>c. \A op \in {"pin", "clearPins", "clearMarks"} : Doing(op)' = Doing(op)
  BY <1>b DEF Doing
<1>3. StoreTyped'
  <2>1. tasks' \subseteq Tasks
    BY <1>1, <1>a, TaskBegun DEF TimerFires, StoreTyped
  <2> QED
    BY <1>1, <1>b, <2>1 DEF StoreTyped
<1>4. References'
  BY <1>1, <1>a, <1>b DEF References
<1>5. PinLimit' /\ PinRoom'
  BY <1>b, <1>c, PinsQuiet
<1>6. NothingElseHidden' /\ ClearingNewer'
  BY <1>2, <1>b, <1>c, HiddenQuiet DEF Clearing
<1>7. FilesKept' /\ UnsentFiles'
  BY <1>1, <1>2, FilesQuiet DEF TimerFires, StoreTyped, Hands
<1>8. ScheduleKept' /\ OneDelivery'
  <2>1. Live(i) => Doing("deliver")' = Doing("deliver") \cup {[op |-> "deliver", id |-> i, by |-> msgs[i].by]}
    BY <1>b DEF Doing
  <2>2. (~Live(i) => Doing("deliver")' = Doing("deliver")) /\ Doing("schedule")' = Doing("schedule")
    BY <1>b DEF Doing
  <2>3. ScheduleKept'
    <3> SUFFICES ASSUME NEW j \in DOMAIN msgs, msgs[j].sched = "due", ~msgs[j].far, Live(j), up, msgs[j].told = 0
                 PROVE  \/ j \in timers' \cup log.missed \cup log.failed
                        \/ \E t \in Doing("schedule") \cup Doing("deliver")' : t.id = j
      BY <1>b, <2>2 DEF StoreIndInv, ScheduleKept, Live
    <3>1. \/ j \in timers \cup log.missed \cup log.failed
          \/ \E t \in Doing("schedule") \cup Doing("deliver") : t.id = j
      BY DEF StoreIndInv, ScheduleKept
    <3>2. CASE j = i
      <4> DEFINE d == [op |-> "deliver", id |-> i, by |-> msgs[i].by]
      <4>1. d.id = i /\ d \in Doing("deliver")'
        BY <2>1, <3>2
      <4> QED
        BY <3>2, <4>1
    <3>3. CASE j # i
      BY <1>b, <2>1, <2>2, <3>1, <3>3
    <3> QED
      BY <3>2, <3>3
  <2>4. OneDelivery'
    BY <1>b, <2>1, <2>2 DEF StoreIndInv, OneDelivery, Live
  <2> QED
    BY <2>3, <2>4
<1> QED
  BY <1>3, <1>4, <1>5, <1>6, <1>7, <1>8 DEF StoreIndInv

LEMMA DeliverKeeps ==
  ASSUME StoreIndInv, NEW t \in tasks, Deliver(t)
  PROVE  StoreIndInv'
<1>1. StoreTyped /\ References
  BY DEF StoreIndInv
<1>a. /\ t.op = "deliver" /\ t.id \in DOMAIN msgs /\ tasks' = tasks \ {t} /\ msgs[t.id] \in Messages
      /\ UNCHANGED <<stored, joined, hidden, pins, reacts, up, timers, hand, turns, log>>
  BY <1>1, StoreRows DEF Deliver, References
<1>b. /\ SameRows
      /\ msgs'[t.id].sched = msgs[t.id].sched /\ msgs'[t.id].far = msgs[t.id].far
      /\ \A j \in DOMAIN msgs : j # t.id => msgs'[j] = msgs[j]
      /\ \/ msgs[t.id].told = 0 => msgs'[t.id].told = 1
         \/ ~Live(t.id)' /\ msgs'[t.id].told = msgs[t.id].told
  <2>1. CASE msgs[t.id].by \in joined
    <3> DEFINE r == [msgs[t.id] EXCEPT !.told = IF msgs[t.id].told = 2 THEN 2 ELSE msgs[t.id].told + 1]
    <3>1. /\ r \in Messages /\ SameRow(msgs[t.id], r) /\ r.sched = msgs[t.id].sched
          /\ r.far = msgs[t.id].far /\ (msgs[t.id].told = 0 => r.told = 1)
      BY <1>a DEF Messages, SameRow
    <3>2. msgs' = [msgs EXCEPT ![t.id] = r]
      BY <2>1 DEF Deliver, Set
    <3> HIDE DEF r
    <3> QED
      BY <1>1, <1>a, <3>1, <3>2, OneRowChanged
  <2>2. CASE msgs[t.id].by \notin joined /\ Present(t.id)
    <3>1. Set(t.id, "life", "soft")
      BY <2>2 DEF Deliver
    <3>2. /\ SameRows /\ msgs'[t.id].life = "soft"
          /\ msgs'[t.id].sched = msgs[t.id].sched /\ msgs'[t.id].told = msgs[t.id].told
          /\ \A j \in DOMAIN msgs : j # t.id => msgs'[j] = msgs[j]
      BY <1>1, <1>a, <3>1, LifeChanged
    <3> QED
      BY <1>a, <3>2 DEF SameRows, SameRow, Live
  <2>3. CASE msgs[t.id].by \notin joined /\ ~Present(t.id)
    <3>1. UNCHANGED msgs
      BY <2>3 DEF Deliver
    <3> QED
      BY <1>1, <2>3, <3>1, RowsUnchanged DEF Live, Present
  <2> QED
    BY <2>1, <2>2, <2>3
<1>2. SameRows
  BY <1>b
<1>c. /\ Doing("deliver")' = Doing("deliver") \ {t}
      /\ \A op \in {"pin", "clearPins", "clearMarks", "schedule"} : Doing(op)' = Doing(op)
  BY <1>a DEF Doing
<1>d. \A s \in Doing("deliver") : s.id = t.id => s = t
  <2> SUFFICES ASSUME NEW s \in Doing("deliver"), s.id = t.id PROVE s = t
    OBVIOUS
  <2>1. s.op = t.op /\ s.by = t.by /\ s \in Tasks /\ t \in Tasks
    BY <1>1, <1>a DEF StoreTyped, StoreIndInv, OneDelivery, Doing
  <2> QED
    BY <2>1 DEF Tasks
<1>3. StoreTyped'
  BY <1>1, <1>2, <1>a DEF SameRows, StoreTyped
<1>4. References'
  BY <1>1, <1>2, <1>a, ReferencesQuiet DEF SameRows
<1>5. PinLimit' /\ PinRoom'
  BY <1>a, <1>c, PinsQuiet
<1>6. NothingElseHidden' /\ ClearingNewer'
  BY <1>2, <1>a, <1>c, HiddenQuiet DEF Clearing
<1>7. FilesKept' /\ UnsentFiles'
  BY <1>2, <1>a, FilesQuiet
<1>8. ScheduleKept' /\ OneDelivery'
  <2>1. t \in Doing("deliver") /\ \A j \in DOMAIN msgs : msgs'[j].far = msgs[j].far /\ msgs'[j].by = msgs[j].by
    BY <1>2, <1>a DEF Doing, SameRows, SameRow
  <2>2. (msgs[t.id].sched # "no" /\ ~msgs[t.id].far) =>
           msgs[t.id].told = 0 /\ msgs[t.id].sched = "due" /\ t.id \notin timers
    BY <1>a, <2>1 DEF StoreIndInv, OneDelivery
  <2>3. DOMAIN msgs' = DOMAIN msgs
    BY <1>2 DEF SameRows
  <2>4. ScheduleKept'
    <3> SUFFICES ASSUME NEW j \in DOMAIN msgs, msgs[j].sched # "no", ~msgs[j].far
                 PROVE  /\ msgs'[j].told <= (IF msgs'[j].sched = "due" THEN 1 ELSE 0)
                        /\ (up /\ msgs'[j].sched = "due" /\ Live(j)' /\ msgs'[j].told = 0)
                             => \/ j \in timers \cup log.missed \cup log.failed
                                \/ \E s \in Doing("schedule") \cup Doing("deliver")' : s.id = j
      BY <1>2, <1>a, <1>c, <2>1 DEF ScheduleKept, SameRows, SameRow
    <3>1. CASE j = t.id
      BY <1>b, <2>2, <3>1
    <3>2. CASE j # t.id
      BY <1>b, <1>c, <3>2 DEF StoreIndInv, ScheduleKept, Live
    <3> QED
      BY <3>1, <3>2
  <2>5. OneDelivery'
    <3>1. \A s \in Doing("deliver")' : s.id # t.id /\ s.id \in DOMAIN msgs /\ s \in Doing("deliver")
      BY <1>1, <1>c, <1>d DEF References, Doing
    <3>2. \A s \in Doing("schedule") : s.id \in DOMAIN msgs
      BY <1>1 DEF References, Doing
    <3>3. \A s \in Doing("schedule") :
            s.id = t.id => ~(msgs[t.id].sched # "no" /\ ~msgs[t.id].far)
      BY <1>a, <2>1 DEF StoreIndInv, OneDelivery
    <3> QED
      BY <1>a, <1>b, <1>c, <2>1, <2>2, <2>3, <3>1, <3>2, <3>3 DEF StoreIndInv, OneDelivery, Live
  <2> QED
    BY <2>4, <2>5
<1> QED
  BY <1>3, <1>4, <1>5, <1>6, <1>7, <1>8 DEF StoreIndInv

LEMMA PinWriteKeeps ==
  ASSUME StoreIndInv, NEW t \in tasks, PinWrite(t)
  PROVE  StoreIndInv'
<1>1. StoreTyped /\ References
  BY DEF StoreIndInv
<1>2. SameRows
  BY <1>1, RowsUnchanged DEF PinWrite
<1>3. StoreTyped'
  <2>1. t.id \in Ids
    BY <1>1 DEF PinWrite, StoreTyped, Tasks
  <2> QED
    BY <1>1, <2>1 DEF PinWrite, StoreTyped
<1>4. References'
  BY <1>1, <1>2, ReferencesQuiet DEF PinWrite, SameRows, StoreTyped, Hands
<1>5. PinLimit' /\ PinRoom'
  <2>1. /\ t \in Doing("pin") /\ Doing("pin")' = Doing("pin") \ {t} /\ log' = log
        /\ pins' \subseteq pins \cup {t.id}
    BY DEF PinWrite, Doing
  <2>2. IsFiniteSet(pins) /\ Cardinality(pins) \in Nat
    BY <1>1, PinsFinite
  <2>3. IsFiniteSet(pins \cup {t.id}) /\ Cardinality(pins \cup {t.id}) <= Cardinality(pins) + 1
    <3>1. /\ IsFiniteSet(pins \cup {t.id})
          /\ Cardinality(pins \cup {t.id}) = IF t.id \in pins THEN Cardinality(pins) ELSE Cardinality(pins) + 1
      BY <2>2, FS_AddElement
    <3> QED
      BY <2>2, <3>1
  <2>4. Cardinality(pins') \in Nat /\ Cardinality(pins') <= Cardinality(pins \cup {t.id})
    BY <2>1, <2>3, FS_Subset, FS_CardinalityType
  <2>5. SUFFICES ASSUME ~log.overlap PROVE Cardinality(pins') <= MaxPins /\ Doing("pin")' = {}
    BY <2>1 DEF PinLimit, PinRoom
  <2>6. Cardinality(pins) < MaxPins /\ \A s \in Doing("pin") : s = t
    BY <2>1, <2>5 DEF StoreIndInv, PinRoom
  <2>7. Cardinality(pins \cup {t.id}) \in Nat /\ MaxPins \in Nat
    BY <2>3, FS_CardinalityType, StoreBounds
  <2> QED
    BY <2>1, <2>2, <2>3, <2>4, <2>6, <2>7
<1>6. NothingElseHidden' /\ ClearingNewer'
  BY <1>2, HiddenQuiet DEF PinWrite, Doing, Clearing
<1>7. FilesKept' /\ UnsentFiles'
  BY <1>1, <1>2, FilesQuiet DEF PinWrite, StoreTyped, Hands
<1>8. ScheduleKept' /\ OneDelivery'
  BY <1>2, ScheduleQuiet DEF PinWrite, Doing
<1> QED
  BY <1>3, <1>4, <1>5, <1>6, <1>7, <1>8 DEF StoreIndInv

LEMMA RemoveFileKeeps ==
  ASSUME StoreIndInv, NEW t \in tasks, RemoveFile(t)
  PROVE  StoreIndInv'
<1>1. StoreTyped /\ References
  BY DEF StoreIndInv
<1>2. SameRows
  BY <1>1, RowsUnchanged DEF RemoveFile
<1>a. /\ t.op \notin {"clearPins", "clearMarks", "pin", "schedule", "deliver"} /\ t.id \in DOMAIN msgs /\ tasks' = tasks \ {t}
      /\ UNCHANGED <<msgs, joined, hidden, pins, reacts, up, timers, hand, turns, log>>
      /\ RemoveFiles(IF Refers(msgs[t.id].file, {"live"}) = {} THEN {msgs[t.id].file} ELSE {})
  BY <1>1 DEF RemoveFile, References
<1>b. \A op \in {"pin", "clearPins", "clearMarks", "schedule", "deliver"} : Doing(op)' = Doing(op)
  BY <1>a DEF Doing
<1>7. FilesKept' /\ UnsentFiles' /\ stored' \in StoredType
  BY <1>a, FilesRemoved
<1>3. StoreTyped'
  BY <1>1, <1>7, <1>a DEF StoreTyped
<1>4. References'
  BY <1>1, <1>2, <1>a, ReferencesQuiet DEF SameRows
<1>5. PinLimit' /\ PinRoom'
  BY <1>a, <1>b, PinsQuiet
<1>6. NothingElseHidden' /\ ClearingNewer'
  BY <1>2, <1>a, <1>b, HiddenQuiet DEF Clearing
<1>8. ScheduleKept' /\ OneDelivery'
  BY <1>2, <1>a, <1>b, ScheduleQuiet
<1> QED
  BY <1>3, <1>4, <1>5, <1>6, <1>7, <1>8 DEF StoreIndInv

LEMMA CleanFileKeeps ==
  ASSUME StoreIndInv, NEW t \in tasks, CleanFile(t)
  PROVE  StoreIndInv'
<1>1. StoreTyped /\ References
  BY DEF StoreIndInv
<1>2. SameRows
  BY <1>1, RowsUnchanged DEF CleanFile
<1>a. /\ t.op \notin {"clearPins", "clearMarks", "pin", "schedule", "deliver"} /\ t.id \in DOMAIN msgs /\ tasks' = tasks \ {t}
      /\ UNCHANGED <<msgs, joined, hidden, pins, reacts, up, timers, hand, turns, log>>
      /\ RemoveFiles(IF Refers(msgs[t.id].file, {"live", "soft", "old"}) = {} THEN {msgs[t.id].file} ELSE {})
  BY <1>1 DEF CleanFile, References
<1>b. \A op \in {"pin", "clearPins", "clearMarks", "schedule", "deliver"} : Doing(op)' = Doing(op)
  BY <1>a DEF Doing
<1>7. FilesKept' /\ UnsentFiles' /\ stored' \in StoredType
  BY <1>a, FilesRemoved
<1>3. StoreTyped'
  BY <1>1, <1>7, <1>a DEF StoreTyped
<1>4. References'
  BY <1>1, <1>2, <1>a, ReferencesQuiet DEF SameRows
<1>5. PinLimit' /\ PinRoom'
  BY <1>a, <1>b, PinsQuiet
<1>6. NothingElseHidden' /\ ClearingNewer'
  BY <1>2, <1>a, <1>b, HiddenQuiet DEF Clearing
<1>8. ScheduleKept' /\ OneDelivery'
  BY <1>2, <1>a, <1>b, ScheduleQuiet
<1> QED
  BY <1>3, <1>4, <1>5, <1>6, <1>7, <1>8 DEF StoreIndInv

LEMMA ClearPinsKeeps ==
  ASSUME StoreIndInv, NEW t \in tasks, ClearPins(t)
  PROVE  StoreIndInv'
<1>1. StoreTyped /\ References
  BY DEF StoreIndInv
<1>2. SameRows
  BY <1>1, RowsUnchanged DEF ClearPins
<1>a. /\ t.op = "clearPins" /\ t \in Tasks /\ pins' = {} /\ tasks' = (tasks \ {t}) \cup {[t EXCEPT !.op = "clearMarks"]}
      /\ UNCHANGED <<msgs, stored, joined, hidden, reacts, up, timers, hand, turns, log>>
  BY <1>1 DEF ClearPins, StoreTyped
<1>b. [t EXCEPT !.op = "clearMarks"] \in Tasks /\ [t EXCEPT !.op = "clearMarks"].op = "clearMarks"
  BY <1>a DEF Tasks
<1>c. \A op \in {"pin", "schedule", "deliver"} : Doing(op)' = Doing(op)
  BY <1>a, <1>b DEF Doing
<1>d. Clearing # {}
  BY <1>a DEF Clearing, Doing
<1>3. StoreTyped'
  BY <1>1, <1>a, <1>b DEF StoreTyped
<1>4. References'
  BY <1>1, <1>a, <1>b DEF References
<1>5. PinLimit' /\ PinRoom'
  BY <1>a, <1>c, PinsQuiet
<1>6. NothingElseHidden' /\ ClearingNewer'
  BY <1>2, <1>a, <1>d, HiddenQuiet
<1>7. FilesKept' /\ UnsentFiles'
  BY <1>2, <1>a, FilesQuiet
<1>8. ScheduleKept' /\ OneDelivery'
  BY <1>2, <1>a, <1>c, ScheduleQuiet
<1> QED
  BY <1>3, <1>4, <1>5, <1>6, <1>7, <1>8 DEF StoreIndInv

LEMMA ClearMarksKeeps ==
  ASSUME StoreIndInv, NEW t \in tasks, ClearMarks(t)
  PROVE  StoreIndInv'
<1>1. StoreTyped /\ References
  BY DEF StoreIndInv
<1>2. SameRows
  BY <1>1, RowsUnchanged DEF ClearMarks
<1>3. StoreTyped'
  <2>1. hidden' \subseteq Writers \X Ids
    BY <1>1, StoreRows DEF ClearMarks, StoreTyped
  <2> QED
    BY <1>1, <2>1 DEF ClearMarks, StoreTyped
<1>4. References'
  BY <1>1 DEF ClearMarks, References
<1>5. PinLimit' /\ PinRoom'
  BY PinsQuiet DEF ClearMarks, Doing
<1>6. NothingElseHidden' /\ ClearingNewer'
  <2>1. Clearing # {} /\ msgs' = msgs /\ log' = log
    BY DEF ClearMarks, Clearing, Doing
  <2>2. \A i \in DOMAIN msgs : Live(i) => msgs[i].crossed
    BY <2>1 DEF StoreIndInv, ClearingNewer
  <2> QED
    BY <2>1, <2>2 DEF NothingElseHidden, ClearingNewer, Live
<1>7. FilesKept' /\ UnsentFiles'
  BY <1>1, <1>2, FilesQuiet DEF ClearMarks, StoreTyped, Hands
<1>8. ScheduleKept' /\ OneDelivery'
  BY <1>2, ScheduleQuiet DEF ClearMarks, Doing
<1> QED
  BY <1>3, <1>4, <1>5, <1>6, <1>7, <1>8 DEF StoreIndInv

LEMMA ForwardWriteKeeps ==
  ASSUME StoreIndInv, NEW t \in tasks, ForwardWrite(t)
  PROVE  StoreIndInv'
<1>1. StoreTyped /\ References
  BY DEF StoreIndInv
<1>a. /\ t.op = "forward" /\ t.id \in DOMAIN msgs /\ tasks' = tasks \ {t} /\ t \in Tasks
      /\ msgs[t.id] \in Messages
      /\ UNCHANGED <<stored, joined, hidden, pins, reacts, up, timers, hand, turns, log>>
  BY <1>1, StoreRows DEF ForwardWrite, References, StoreTyped
<1>b. /\ \A op \in {"pin", "clearPins", "clearMarks", "schedule", "deliver"} : Doing(op)' = Doing(op)
      /\ Clearing' = Clearing
  BY <1>a DEF Doing, Clearing
<1>c. \/ SameRows /\ UNCHANGED msgs
      \/ /\ OneMore /\ msgs'[Len(msgs) + 1].file = msgs[t.id].file /\ msgs'[Len(msgs) + 1].sched = "no"
         /\ msgs'[Len(msgs) + 1].late = (~Live(t.id) \/ msgs[t.id].late)
  <2>1. CASE Present(t.id)
    <3>1. /\ t.by \in Writers /\ msgs[t.id].file \in Files \cup {NoFile}
          /\ (~Live(t.id) \/ msgs[t.id].late) \in BOOLEAN
      BY <1>a DEF Tasks, Messages
    <3>2. /\ Len(msgs) < MaxMessages
          /\ Add(t.by, msgs[t.id].file, "no", FALSE, ~Live(t.id) \/ msgs[t.id].late)
      BY <2>1 DEF ForwardWrite
    <3> QED
      BY <1>1, <3>1, <3>2, RowAdded
  <2>2. CASE ~Present(t.id)
    BY <1>1, <2>2, RowsUnchanged DEF ForwardWrite
  <2> QED
    BY <2>1, <2>2
<1>3. StoreTyped'
  BY <1>1, <1>a, <1>c DEF StoreTyped, OneMore
<1>4. References'
  BY <1>1, <1>a, <1>c, ReferencesQuiet DEF SameRows, OneMore
<1>5. PinLimit' /\ PinRoom'
  BY <1>a, <1>b, PinsQuiet
<1>6. NothingElseHidden' /\ ClearingNewer'
  BY <1>a, <1>b, <1>c, HiddenQuiet, HiddenMore
<1>7. FilesKept' /\ UnsentFiles'
  <2>1. CASE SameRows
    BY <1>a, <2>1, FilesQuiet
  <2>2. CASE /\ OneMore /\ msgs'[Len(msgs) + 1].file = msgs[t.id].file
             /\ msgs'[Len(msgs) + 1].late = (~Live(t.id) \/ msgs[t.id].late)
    <3> DEFINE f == msgs[t.id].file
    <3>1. f <= stored.last /\ \A u \in Writers : hand[u].file # NoFile => hand[u].file # f
      BY <1>a DEF StoreIndInv, UnsentFiles
    <3>2. (Live(t.id) /\ ~msgs[t.id].late /\ f # NoFile) => f \in stored.files
      BY <1>a DEF StoreIndInv, FilesKept
    <3>3. f = msgs'[Len(msgs) + 1].file /\ (msgs'[Len(msgs) + 1].late \/ f = NoFile \/ f \in stored.files)
      BY <2>2, <3>2
    <3> HIDE DEF f
    <3> QED
      BY <1>a, <2>2, <3>1, <3>3, FilesMore
  <2> QED
    BY <1>c, <2>1, <2>2
<1>8. ScheduleKept' /\ OneDelivery'
  BY <1>a, <1>b, <1>c, ScheduleQuiet, ScheduleMore
<1> QED
  BY <1>3, <1>4, <1>5, <1>6, <1>7, <1>8 DEF StoreIndInv

LEMMA SendKeeps ==
  ASSUME StoreIndInv, NEW u \in Writers, Send(u)
  PROVE  StoreIndInv'
<1>1. StoreTyped /\ References
  BY DEF StoreIndInv
<1>2. /\ OneMore
      /\ msgs'[Len(msgs) + 1].file = hand[u].file /\ msgs'[Len(msgs) + 1].sched = "no"
  <2>1. hand[u].file \in Files \cup {NoFile}
    BY <1>1 DEF StoreTyped, Hands
  <2>2. Len(msgs) < MaxMessages /\ Add(u, hand[u].file, "no", FALSE, FALSE)
    BY DEF Send
  <2> QED
    BY <1>1, <2>1, <2>2, RowAdded
<1>a. hand' = [hand EXCEPT ![u].file = NoFile] /\ Turn(u) /\ hand \in [Writers -> Hands]
      /\ UNCHANGED <<stored, joined, hidden, pins, reacts, up, timers, tasks, log>>
  BY <1>1 DEF Send, StoreTyped
<1>b. hand'[u].file = NoFile /\ hand'[u].pick = hand[u].pick /\ \A v \in Writers : v # u => hand'[v] = hand[v]
  BY <1>a DEF Hands
<1>c. Clearing' = Clearing /\ \A op \in {"pin", "schedule", "deliver"} : Doing(op)' = Doing(op)
  BY <1>a DEF Clearing, Doing
<1>3. StoreTyped'
  <2>1. hand' \in [Writers -> Hands]
    BY <1>1, <1>a, HandSet
  <2> QED
    BY <1>1, <1>2, <1>a, <2>1, TurnTaken DEF StoreTyped, OneMore
<1>4. References'
  BY <1>1, <1>2, <1>a, <1>b, ReferencesQuiet DEF OneMore
<1>5. PinLimit' /\ PinRoom'
  BY <1>a, <1>c, PinsQuiet
<1>6. NothingElseHidden' /\ ClearingNewer'
  BY <1>2, <1>a, <1>c, HiddenMore
<1>7. FilesKept' /\ UnsentFiles'
  <2> DEFINE f == hand[u].file
  <2>1. /\ f # NoFile => f \in stored.files /\ f <= stored.last
        /\ \A v \in Writers : v # u /\ f # NoFile => hand[v].file # f
    BY DEF StoreIndInv, UnsentFiles
  <2>2. NoFile <= stored.last
    BY <1>1, StoreBounds DEF StoreTyped, StoredType, NoFile
  <2>3. f = msgs'[Len(msgs) + 1].file
    BY <1>2
  <2> HIDE DEF f
  <2> QED
    BY <1>2, <1>a, <1>b, <2>1, <2>2, <2>3, FilesMore
<1>8. ScheduleKept' /\ OneDelivery'
  BY <1>2, <1>a, <1>c, ScheduleMore
<1> QED
  BY <1>3, <1>4, <1>5, <1>6, <1>7, <1>8 DEF StoreIndInv

LEMMA ScheduleKeeps ==
  ASSUME StoreIndInv, NEW u \in Writers, Schedule(u)
  PROVE  StoreIndInv'
<1>1. StoreTyped /\ References
  BY DEF StoreIndInv
<1>a. Turn(u) /\ UNCHANGED <<stored, joined, hidden, pins, reacts, up, timers, hand, log>>
      /\ tasks' = tasks \cup {[op |-> "schedule", id |-> Len(msgs) + 1, by |-> u]}
  BY DEF Schedule, Begin
<1>2. /\ OneMore /\ msgs'[Len(msgs) + 1].file = NoFile /\ msgs'[Len(msgs) + 1].sched = "wait"
      /\ msgs'[Len(msgs) + 1].told = 0 /\ msgs'[Len(msgs) + 1].by = u
  <2>1. Len(msgs) < MaxMessages /\ \E far \in BOOLEAN : Add(u, NoFile, "wait", far, FALSE)
    BY DEF Schedule
  <2> QED
    BY <1>1, <2>1, RowAdded
<1>b. /\ Clearing' = Clearing /\ \A op \in {"pin", "deliver"} : Doing(op)' = Doing(op)
      /\ Doing("schedule")' = Doing("schedule") \cup {[op |-> "schedule", id |-> Len(msgs) + 1, by |-> u]}
  BY <1>a DEF Clearing, Doing
<1>c. Len(msgs) + 1 \in Ids /\ tasks' \subseteq Tasks
  <2>1. Len(msgs) + 1 \in Ids
    BY <1>1, <1>2, StoreRows, StoreBounds DEF OneMore, Ids
  <2>2. [op |-> "schedule", id |-> Len(msgs) + 1, by |-> u] \in Tasks
    BY <2>1 DEF Tasks
  <2> QED
    BY <1>1, <1>a, <2>1, <2>2 DEF StoreTyped
<1>3. StoreTyped'
  BY <1>1, <1>2, <1>a, <1>c, TurnTaken DEF StoreTyped, OneMore
<1>4. References'
  BY <1>1, <1>2, <1>a, TurnTaken DEF References, OneMore
<1>5. PinLimit' /\ PinRoom'
  BY <1>a, <1>b, PinsQuiet
<1>6. NothingElseHidden' /\ ClearingNewer'
  BY <1>2, <1>a, <1>b, HiddenMore
<1>7. FilesKept' /\ UnsentFiles'
  <2>1. NoFile <= stored.last
    BY <1>1, StoreBounds DEF StoreTyped, StoredType, NoFile
  <2> QED
    BY <1>2, <1>a, <2>1, FilesMore
<1>8. ScheduleKept' /\ OneDelivery'
  <2> DEFINE n == Len(msgs) + 1
  <2>1. /\ DOMAIN msgs' = DOMAIN msgs \cup {n} /\ n \notin DOMAIN msgs
        /\ \A i \in DOMAIN msgs : msgs'[i] = msgs[i]
        /\ msgs'[n].sched = "wait" /\ msgs'[n].told = 0 /\ msgs'[n].by = u
        /\ n \notin timers
    BY <1>1, <1>2, <1>a DEF OneMore, References
  <2> DEFINE d == [op |-> "schedule", id |-> n, by |-> u]
  <2>a. /\ Doing("schedule")' = Doing("schedule") \cup {d} /\ d.id = n /\ d.by = u
        /\ Doing("deliver")' = Doing("deliver")
    BY <1>b
  <2> HIDE DEF n, d
  <2>2. \A t \in Doing("schedule") \cup Doing("deliver") : t.id \in DOMAIN msgs
    BY <1>1 DEF References, Doing
  <2>3. ScheduleKept'
    BY <1>a, <2>a, <2>1 DEF StoreIndInv, ScheduleKept, Live
  <2>4. OneDelivery'
    BY <1>a, <2>a, <2>1, <2>2 DEF StoreIndInv, OneDelivery, Live
  <2> QED
    BY <2>3, <2>4
<1> QED
  BY <1>3, <1>4, <1>5, <1>6, <1>7, <1>8 DEF StoreIndInv

LEMMA SetTimerKeeps ==
  ASSUME StoreIndInv, NEW t \in tasks, SetTimer(t)
  PROVE  StoreIndInv'
<1>1. StoreTyped /\ References
  BY DEF StoreIndInv
<1>2. SameRows
  BY <1>1, RowsUnchanged DEF SetTimer
<1>a. /\ t.op = "schedule" /\ t.id \in DOMAIN msgs /\ tasks' = tasks \ {t}
      /\ timers' = timers \cup {t.id} /\ t \in Doing("schedule")
      /\ UNCHANGED <<msgs, stored, joined, hidden, pins, reacts, up, hand, turns, log>>
  BY <1>1 DEF SetTimer, References, Doing
<1>b. /\ Doing("schedule")' = Doing("schedule") \ {t}
      /\ \A op \in {"pin", "clearPins", "clearMarks", "deliver"} : Doing(op)' = Doing(op)
  BY <1>a DEF Doing
<1>c. \A s \in Doing("schedule") : s.id = t.id => s = t
  <2> SUFFICES ASSUME NEW s \in Doing("schedule"), s.id = t.id PROVE s = t
    OBVIOUS
  <2>1. s.op = t.op /\ s.by = t.by /\ s \in Tasks /\ t \in Tasks
    BY <1>1, <1>a DEF StoreTyped, StoreIndInv, OneDelivery, Doing
  <2> QED
    BY <2>1 DEF Tasks
<1>3. StoreTyped'
  BY <1>1, <1>a, StoreRows DEF StoreTyped
<1>4. References'
  BY <1>1, <1>a DEF References
<1>5. PinLimit' /\ PinRoom'
  BY <1>a, <1>b, PinsQuiet
<1>6. NothingElseHidden' /\ ClearingNewer'
  BY <1>2, <1>a, <1>b, HiddenQuiet DEF Clearing
<1>7. FilesKept' /\ UnsentFiles'
  BY <1>2, <1>a, FilesQuiet
<1>8. ScheduleKept' /\ OneDelivery'
  <2>1. ScheduleKept'
    BY <1>a, <1>b DEF StoreIndInv, ScheduleKept, Live
  <2>2. OneDelivery'
    BY <1>a, <1>b, <1>c DEF StoreIndInv, OneDelivery, Live
  <2> QED
    BY <2>1, <2>2
<1> QED
  BY <1>3, <1>4, <1>5, <1>6, <1>7, <1>8 DEF StoreIndInv

LEMMA TaskFailsKeeps ==
  ASSUME StoreIndInv, NEW t \in tasks, TaskFails(t)
  PROVE  StoreIndInv'
<1>1. StoreTyped /\ References
  BY DEF StoreIndInv
<1>2. SameRows
  BY <1>1, RowsUnchanged DEF TaskFails
<1>a. /\ t.op \in {"schedule", "deliver"} /\ t.id \in DOMAIN msgs /\ tasks' = tasks \ {t}
      /\ UNCHANGED <<msgs, stored, joined, hidden, pins, reacts, up, timers, hand, turns>>
  BY <1>1 DEF TaskFails, References
<1>b. /\ log' \in LogType /\ log'.failed = log.failed \cup {t.id} /\ log'.asked = log.asked
      /\ log'.missed = log.missed /\ log'.overlap = log.overlap
  BY <1>1, <1>a, StoreRows DEF TaskFails, StoreTyped, LogType
<1>c. /\ \A op \in {"pin", "clearPins", "clearMarks"} : Doing(op)' = Doing(op)
      /\ \A op \in {"schedule", "deliver"} : Doing(op)' = Doing(op) \ {t}
  BY <1>a DEF Doing
<1>3. StoreTyped'
  BY <1>1, <1>a, <1>b DEF StoreTyped
<1>4. References'
  BY <1>1, <1>a DEF References
<1>5. PinLimit' /\ PinRoom'
  BY <1>a, <1>b, <1>c, PinsQuiet
<1>6. NothingElseHidden' /\ ClearingNewer'
  BY <1>2, <1>a, <1>b, <1>c, HiddenQuiet DEF Clearing
<1>7. FilesKept' /\ UnsentFiles'
  BY <1>2, <1>a, FilesQuiet
<1>8. ScheduleKept' /\ OneDelivery'
  <2>1. ScheduleKept'
    BY <1>a, <1>b, <1>c DEF StoreIndInv, ScheduleKept, Live
  <2>2. OneDelivery'
    BY <1>a, <1>b, <1>c DEF StoreIndInv, OneDelivery, Live
  <2> QED
    BY <2>1, <2>2
<1> QED
  BY <1>3, <1>4, <1>5, <1>6, <1>7, <1>8 DEF StoreIndInv

LEMMA DeleteKeeps ==
  ASSUME StoreIndInv, NEW u \in Writers, Delete(u)
  PROVE  StoreIndInv'
<1>1. StoreTyped /\ References
  BY DEF StoreIndInv
<1>a. Turn(u) /\ UNCHANGED <<stored, joined, hidden, pins, reacts, up, timers, hand, log>>
  BY DEF Delete
<1>b. PICK i \in DOMAIN msgs :
        /\ Set(i, "life", "soft")
        /\ IF msgs[i].file # NoFile THEN Begin("removeFile", i, u) ELSE UNCHANGED tasks
  BY DEF Delete
<1>2. SameRows /\ \A j \in DOMAIN msgs : msgs'[j].sched = msgs[j].sched /\ msgs'[j].told = msgs[j].told
  BY <1>1, <1>b, LifeChanged
<1>c. tasks' \subseteq tasks \cup {[op |-> "removeFile", id |-> i, by |-> u]} /\ tasks \subseteq tasks'
  BY <1>b DEF Begin
<1>d. Clearing' = Clearing /\ \A op \in {"pin", "schedule", "deliver"} : Doing(op)' = Doing(op)
  BY <1>c DEF Clearing, Doing
<1>3. StoreTyped'
  <2>1. tasks' \subseteq Tasks
    BY <1>1, <1>b, TaskBegun DEF StoreTyped
  <2> QED
    BY <1>1, <1>2, <1>a, <2>1, TurnTaken DEF StoreTyped, SameRows
<1>4. References'
  BY <1>1, <1>2, <1>a, <1>c, TurnTaken DEF References, SameRows
<1>5. PinLimit' /\ PinRoom'
  BY <1>a, <1>d, PinsQuiet
<1>6. NothingElseHidden' /\ ClearingNewer'
  BY <1>2, <1>a, <1>d, HiddenQuiet
<1>7. FilesKept' /\ UnsentFiles'
  BY <1>2, <1>a, FilesQuiet
<1>8. ScheduleKept' /\ OneDelivery'
  BY <1>2, <1>a, <1>d, ScheduleQuiet
<1> QED
  BY <1>3, <1>4, <1>5, <1>6, <1>7, <1>8 DEF StoreIndInv

LEMMA PinReadKeeps ==
  ASSUME StoreIndInv, NEW u \in Writers, PinRead(u)
  PROVE  StoreIndInv'
<1>1. StoreTyped /\ References
  BY DEF StoreIndInv
<1>2. SameRows
  BY <1>1, RowsUnchanged DEF PinRead
<1>a. /\ Turn(u) /\ Cardinality(pins) < MaxPins
      /\ UNCHANGED <<msgs, stored, joined, hidden, pins, reacts, up, timers, hand>>
      /\ log' = [log EXCEPT !.overlap = @ \/ Doing("pin") # {}]
  BY DEF PinRead
<1>b. PICK i \in DOMAIN msgs : Begin("pin", i, u)
  BY DEF PinRead
<1>c. tasks' = tasks \cup {[op |-> "pin", id |-> i, by |-> u]}
  BY <1>b DEF Begin
<1>d. /\ \A op \in {"clearPins", "clearMarks", "schedule", "deliver"} : Doing(op)' = Doing(op)
      /\ Doing("pin")' = Doing("pin") \cup {[op |-> "pin", id |-> i, by |-> u]}
  BY <1>c DEF Doing
<1>e. /\ log' \in LogType /\ log'.asked = log.asked /\ log'.missed = log.missed /\ log'.failed = log.failed
      /\ log'.overlap = (log.overlap \/ Doing("pin") # {})
  BY <1>1, <1>a DEF StoreTyped, LogType
<1>3. StoreTyped'
  <2>1. tasks' \subseteq Tasks
    BY <1>1, <1>b, TaskBegun
  <2> QED
    BY <1>1, <1>a, <1>e, <2>1, TurnTaken DEF StoreTyped
<1>4. References'
  BY <1>1, <1>a, <1>c, TurnTaken DEF References
<1>5. PinLimit' /\ PinRoom'
  BY <1>a, <1>d, <1>e DEF StoreIndInv, PinLimit, PinRoom
<1>6. NothingElseHidden' /\ ClearingNewer'
  BY <1>2, <1>a, <1>d, <1>e, HiddenQuiet DEF Clearing
<1>7. FilesKept' /\ UnsentFiles'
  BY <1>2, <1>a, FilesQuiet
<1>8. ScheduleKept' /\ OneDelivery'
  BY <1>2, <1>a, <1>d, <1>e, ScheduleQuiet
<1> QED
  BY <1>3, <1>4, <1>5, <1>6, <1>7, <1>8 DEF StoreIndInv

LEMMA ClearSelfKeeps ==
  ASSUME StoreIndInv, NEW u \in Writers, ClearSelf(u)
  PROVE  StoreIndInv'
<1>1. StoreTyped /\ References
  BY DEF StoreIndInv
<1>2. SameRows
  BY <1>1, RowsUnchanged DEF ClearSelf
<1>a. /\ hand' = [hand EXCEPT ![u].clear = "no"] /\ hidden' = hidden \cup ({u} \X DOMAIN msgs)
      /\ log' = [log EXCEPT !.asked = @ \cup Known(u)] /\ up
      /\ UNCHANGED <<msgs, stored, joined, pins, reacts, up, timers, tasks, turns>>
  BY DEF ClearSelf, Countdown
<1>b. Known(u) \subseteq Writers \X Ids
  BY <1>1, StoreRows DEF Known
<1>c. /\ log' \in LogType /\ log'.asked = log.asked \cup Known(u) /\ log'.missed = log.missed /\ log'.failed = log.failed
      /\ log'.overlap = log.overlap
  BY <1>1, <1>a, <1>b DEF StoreTyped, LogType
<1>d. \A v \in Writers : hand'[v].file = hand[v].file /\ hand'[v].pick = hand[v].pick
  BY <1>1, <1>a DEF StoreTyped, Hands
<1>e. Clearing' = Clearing /\ \A op \in {"pin", "schedule", "deliver"} : Doing(op)' = Doing(op)
  BY <1>a DEF Clearing, Doing
<1>3. StoreTyped'
  <2>1. hidden' \subseteq Writers \X Ids
    BY <1>1, <1>a, StoreRows DEF StoreTyped
  <2>2. hand' \in [Writers -> Hands]
    BY <1>1, <1>a, HandSet
  <2> QED
    BY <1>1, <1>a, <1>c, <2>1, <2>2 DEF StoreTyped
<1>4. References'
  BY <1>1, <1>a, <1>d DEF References
<1>5. PinLimit' /\ PinRoom'
  BY <1>a, <1>c, <1>e, PinsQuiet
<1>6. NothingElseHidden' /\ ClearingNewer'
  <2>1. \A i \in DOMAIN msgs : msgs[i].sched = "no" => <<u, i>> \in Known(u)
    BY DEF Known, Released
  <2>2. NothingElseHidden'
    BY <1>a, <1>c, <2>1 DEF StoreIndInv, NothingElseHidden, Live
  <2>3. ClearingNewer'
    BY <1>a, <1>e DEF StoreIndInv, ClearingNewer, Live
  <2> QED
    BY <2>2, <2>3
<1>7. FilesKept' /\ UnsentFiles'
  BY <1>2, <1>a, <1>d, FilesQuiet
<1>8. ScheduleKept' /\ OneDelivery'
  BY <1>2, <1>a, <1>c, <1>e, ScheduleQuiet
<1> QED
  BY <1>3, <1>4, <1>5, <1>6, <1>7, <1>8 DEF StoreIndInv

LEMMA ClearMessagesKeeps ==
  ASSUME StoreIndInv, NEW u \in Writers, ClearMessages(u)
  PROVE  StoreIndInv'
<1>1. StoreTyped /\ References
  BY DEF StoreIndInv
<1> DEFINE gone == {i \in DOMAIN msgs : Live(i)}
<1>a. /\ hand' = [hand EXCEPT ![u].clear = "no"] /\ up
      /\ tasks' = tasks \cup {[op |-> "clearPins", id |-> 0, by |-> u]}
      /\ msgs' = [i \in DOMAIN msgs |-> IF i \in gone THEN [msgs[i] EXCEPT !.life = "soft"] ELSE msgs[i]]
      /\ UNCHANGED <<stored, joined, hidden, pins, reacts, up, timers, turns, log>>
  BY DEF ClearMessages, Countdown, Begin
<1>b. \A i \in DOMAIN msgs : i \in gone <=> Live(i)
  OBVIOUS
<1>c. gone \subseteq DOMAIN msgs
  OBVIOUS
<1> HIDE DEF gone
<1>d. /\ SameRows /\ \A i \in DOMAIN msgs : i \in gone => msgs'[i].life = "soft"
      /\ \A i \in DOMAIN msgs : i \notin gone => msgs'[i] = msgs[i]
      /\ \A i \in DOMAIN msgs : msgs'[i].sched = msgs[i].sched /\ msgs'[i].told = msgs[i].told
  BY <1>1, <1>a, <1>c, LivesChanged
<1>2. SameRows
  BY <1>d
<1>e. \A i \in DOMAIN msgs' : ~Live(i)'
  BY <1>b, <1>d DEF SameRows, Live
<1>f. \A op \in {"pin", "schedule", "deliver"} : Doing(op)' = Doing(op)
  BY <1>a DEF Doing
<1>g. \A v \in Writers : hand'[v].file = hand[v].file /\ hand'[v].pick = hand[v].pick
  BY <1>1, <1>a DEF StoreTyped, Hands
<1>3. StoreTyped'
  <2>1. [op |-> "clearPins", id |-> 0, by |-> u] \in Tasks
    BY DEF Tasks
  <2>2. hand' \in [Writers -> Hands]
    BY <1>1, <1>a, HandSet
  <2> QED
    BY <1>1, <1>2, <1>a, <2>1, <2>2 DEF StoreTyped, SameRows
<1>4. References'
  BY <1>1, <1>2, <1>a, <1>g DEF References, SameRows
<1>5. PinLimit' /\ PinRoom'
  BY <1>a, <1>f, PinsQuiet
<1>6. NothingElseHidden' /\ ClearingNewer'
  BY <1>e DEF NothingElseHidden, ClearingNewer
<1>7. FilesKept' /\ UnsentFiles'
  BY <1>2, <1>a, <1>g, FilesQuiet
<1>8. ScheduleKept' /\ OneDelivery'
  BY <1>d, <1>a, <1>f, ScheduleQuiet
<1> QED
  BY <1>3, <1>4, <1>5, <1>6, <1>7, <1>8 DEF StoreIndInv

LEMMA StoreInitially == StoreInit => StoreIndInv
<1> SUFFICES ASSUME StoreInit PROVE StoreIndInv
  OBVIOUS
<1>1. /\ msgs = <<>> /\ DOMAIN msgs = {} /\ tasks = {} /\ hidden = {} /\ pins = {} /\ timers = {}
      /\ hand = [u \in Writers |-> Empty] /\ up
  BY DEF StoreInit
<1>2. Empty \in Hands /\ Empty.file = NoFile /\ Empty.pick = 0
  BY DEF Empty, Hands
<1>3. msgs \in Seq(Messages) /\ Len(msgs) <= MaxMessages
  BY <1>1, StoreBounds
<1>4. stored \in StoredType /\ log \in LogType /\ turns \in 0 .. MaxTurns
  BY StoreBounds DEF StoreInit, StoredType, LogType
<1>5. StoreTyped
  BY <1>1, <1>2, <1>3, <1>4 DEF StoreInit, StoreTyped
<1>6. References
  BY <1>1, <1>2 DEF References
<1>7. Cardinality(pins) = 0 /\ \A op \in {"pin", "schedule", "deliver", "clearPins", "clearMarks"} : Doing(op) = {}
  BY <1>1, FS_EmptySet DEF Doing
<1>8. PinLimit /\ PinRoom
  BY <1>7, StoreBounds DEF PinLimit, PinRoom
<1>9. NothingElseHidden /\ ClearingNewer /\ FilesKept /\ ScheduleKept
  BY <1>1 DEF NothingElseHidden, ClearingNewer, FilesKept, ScheduleKept
<1>10. UnsentFiles /\ OneDelivery
  BY <1>1, <1>2, <1>7 DEF UnsentFiles, OneDelivery
<1> QED
  BY <1>5, <1>6, <1>8, <1>9, <1>10 DEF StoreIndInv

LEMMA StoreStep == StoreIndInv /\ [StoreNext]_storeVars => StoreIndInv'
<1> SUFFICES ASSUME StoreIndInv, [StoreNext]_storeVars PROVE StoreIndInv'
  OBVIOUS
<1>1. CASE TimePasses \/ GraceEnds \/ CleanRows \/ Stop \/ Boot \/ \E i \in timers : TimerFires(i)
  BY <1>1, TimePassesKeeps, GraceEndsKeeps, CleanRowsKeeps, StopKeeps, BootKeeps, TimerFiresKeeps
<1>2. ASSUME NEW t \in tasks,
             \/ SetTimer(t) \/ TaskFails(t) \/ Deliver(t) \/ ForwardWrite(t) \/ RemoveFile(t)
             \/ PinWrite(t) \/ ClearPins(t) \/ ClearMarks(t) \/ CleanFile(t)
      PROVE  StoreIndInv'
  BY <1>2, SetTimerKeeps, TaskFailsKeeps, DeliverKeeps, ForwardWriteKeeps, RemoveFileKeeps, PinWriteKeeps, ClearPinsKeeps,
     ClearMarksKeeps, CleanFileKeeps
<1>3. ASSUME NEW u \in Writers,
             \/ Upload(u) \/ Send(u) \/ Schedule(u) \/ Pick(u) \/ ForwardRead(u) \/ Delete(u)
             \/ PinRead(u) \/ Unpin(u) \/ React(u) \/ AskClear(u) \/ DropClear(u)
             \/ ClearSelf(u) \/ ClearMessages(u) \/ LeaveChat(u)
      PROVE  StoreIndInv'
  BY <1>3, UploadKeeps, SendKeeps, ScheduleKeeps, PickKeeps, ForwardReadKeeps, DeleteKeeps,
     PinReadKeeps, UnpinKeeps, ReactKeeps, AskClearKeeps, DropClearKeeps, ClearSelfKeeps,
     ClearMessagesKeeps, LeaveChatKeeps
<1>4. CASE UNCHANGED storeVars
  BY <1>4 DEF storeVars, StoreIndInv, StoreTyped, References, PinLimit, PinRoom, NothingElseHidden,
     ClearingNewer, Clearing, FilesKept, UnsentFiles, ScheduleKept, OneDelivery, Live, Doing
<1> QED
  BY <1>1, <1>2, <1>3, <1>4 DEF StoreNext

\* For any members, messages, files, pins and any number of actions: the pins
\* stay within their limit, clearing hides only what its user asked to clear, the
\* files of messages stay in the bucket, and scheduled messages are announced
\* once, and not lost unless a query fails or a message falls due while the
\* server is down, also when the server restarts (addPinnedMessage,
\* clearMessages, deleteMessage, runCleanup, deliverScheduledMessage).
THEOREM StoreSafe == StoreSpec => []StoreInv
<1>1. StoreIndInv => StoreInv
  <2> SUFFICES ASSUME StoreIndInv PROVE StoreInv
    OBVIOUS
  <2>1. StoreTypeOK
    BY DEF StoreIndInv, StoreTyped, StoreTypeOK, StoredType, LogType
  <2> QED
    BY <2>1 DEF StoreIndInv, StoreInv
<1> QED
  BY <1>1, StoreInitially, StoreStep, PTL DEF StoreSpec
=============================================================================
