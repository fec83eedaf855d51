------------------------------- MODULE Vault -------------------------------
(***************************************************************************)
(* The key material of one user: the identity keys of useE2E.ts, kept in   *)
(* each browser's IndexedDB, published as the user's bundle and recovered  *)
(* with a PIN, and the keys of each browser as a device.  Three flows of a *)
(* page work on it, each a chain of awaits at which other pages, other     *)
(* flows and the end of the page come in: `init' when the page has a user, *)
(* `unlock' with the PIN, `reset' to new keys; `setup' saves a PIN.  Device *)
(* sync imports another browser's identity record, which is unreadable.    *)
(* A key pair is a serial number; whoever holds it holds the private key.  *)
(***************************************************************************)
EXTENDS Naturals, FiniteSets

CONSTANTS Pages,        \* pages loaded in the user's browsers
          Browsers,     \* profiles, each with its localStorage and IndexedDB
          None,         \* no flow under way
          MaxDevices,   \* MAX_DEVICES (5)
          MaxKeys,      \* bound: key pairs made
          MaxEvents     \* bound: flows started, failed requests, pages that end, sign-outs, imports

ASSUME VaultBounds == MaxDevices \in Nat \ {0} /\ MaxKeys \in Nat \ {0, 1} /\ MaxEvents \in Nat

Keys == 1 .. MaxKeys
NoKey == 0
MaybeKey == Keys \cup {NoKey}
\* A device's key pair, and the identity that signed it; DeviceKeyPair.
DeviceKeys == [dh : MaybeKey, by : MaybeKey]
NoDevice == [dh |-> NoKey, by |-> NoKey]

VARIABLES
  home,      \* the browser a page is loaded in
  store,     \* per browser: identity, device keys and device id on disk
  page,      \* per page: the module-level variables of useE2E
  flow,      \* per page, for its init, a late one, and the user's own flow: where it is
  bundle,    \* the published identity (UserKeyBundleV2)
  recovery,  \* the identity in the PIN-encrypted blob (encryptedPrivateKeyV2)
  devices,   \* the Device rows: device key and the identity that signed it
  made,      \* the last number given to a key pair
  events,    \* flows started, requests failed and pages ended, so far
  history    \* what has happened, as named by the properties

vaultVars == <<home, store, page, flow, bundle, recovery, devices, made, events, history>>
server == <<bundle, recovery, devices>>

Slots == {"init", "late", "user"}
Inits == {"init", "late"}   \* of two inits under way, the later one is "init"
Flows == [kind : {"init", "unlock", "reset", "setup"},
          step : {"ask", "save", "publish", "mint", "register", "encrypt"},
          id : MaybeKey, keys : DeviceKeys, stale : BOOLEAN]
ASSUME NoneIsNoFlow == None \notin Flows

Status == {"idle", "ready", "needs-recovery", "needs-setup"}
PageStates ==
  [user : BOOLEAN, identity : MaybeKey, device : MaybeKey, keys : DeviceKeys, status : Status,
   blob : MaybeKey, promise : BOOLEAN,               \* initPromise
   assumed : BOOLEAN, crossed : BOOLEAN, left : BOOLEAN]  \* history, as named by the properties
Events == {"unpublished", "shared", "unasked", "older", "imported"}

VaultTypeOK ==
  /\ home \in [Pages -> Browsers]
  /\ store \in [Browsers -> [identity : MaybeKey, keys : DeviceKeys, device : MaybeKey]]
  /\ page \in [Pages -> PageStates]
  /\ flow \in [Pages -> [Slots -> Flows \cup {None}]]
  /\ bundle \in MaybeKey /\ recovery \in MaybeKey
  /\ devices \subseteq [dh : Keys, ik : Keys]
  /\ made \in MaybeKey /\ events \in 0 .. MaxEvents
  /\ history \subseteq Events

Fresh == \* the state of a page that was just loaded
  [user |-> TRUE, identity |-> NoKey, device |-> NoKey, keys |-> NoDevice, status |-> "idle",
   blob |-> NoKey, promise |-> FALSE, assumed |-> FALSE, crossed |-> FALSE, left |-> FALSE]
Idle == [s \in Slots |-> None]

\* A user without keys, or one whose first browser b has set everything up.
NewUser ==
  /\ store = [b \in Browsers |-> [identity |-> NoKey, keys |-> NoDevice, device |-> NoKey]]
  /\ bundle = NoKey /\ recovery = NoKey /\ devices = {} /\ made = 0
KnownUser(b) ==
  /\ store = [c \in Browsers |->
       IF c = b THEN [identity |-> 1, keys |-> [dh |-> 2, by |-> 1], device |-> 2]
       ELSE [identity |-> NoKey, keys |-> NoDevice, device |-> NoKey]]
  /\ bundle = 1 /\ recovery = 1 /\ devices = {[dh |-> 2, ik |-> 1]} /\ made = 2

VaultInit ==
  /\ home \in [Pages -> Browsers]
  /\ NewUser \/ \E b \in Browsers : KnownUser(b)
  /\ page = [p \in Pages |-> Fresh]
  /\ flow = [p \in Pages |-> Idle]
  /\ events = 0 /\ history = {}

New(n) == made + n <= MaxKeys /\ made' = made + n
Event == events < MaxEvents /\ events' = events + 1
Disk(p) == store[home[p]]
Write(p, f) == store' = [store EXCEPT ![home[p]] = f]
Move(p, s, step) == flow' = [flow EXCEPT ![p][s].step = step]
End(p, s) == flow' = [flow EXCEPT ![p][s] = None]
In(p, s, step) == flow[p][s] # None /\ flow[p][s].step = step
Busy(p) == \E s \in Slots : flow[p][s] # None
Note(event, holds) == history' = IF holds THEN history \cup {event} ELSE history

\* A flow that is about to set the device keys or the device id of its page.
Registering(p, s) == flow[p][s] # None /\ flow[p][s].step \in {"mint", "register"}
Crosses(p, s) == \E r \in Slots \ {s} : Registering(p, r)

\* Another flow that is writing this browser's identity.
Sharing(p, s) ==
  \E q \in Pages, r \in Slots :
    /\ <<q, r>> # <<p, s>> /\ home[q] = home[p] /\ flow[q][r] # None
    /\ flow[q][r].step \in {"ask", "save", "publish"}

\* Init and unlock found no identity on disk; one was saved since.
Replaces(p, s) == flow[p][s].kind # "reset" /\ Disk(p).identity # NoKey

\* A flow f that has its identity comes to getOrCreateDeviceKeys: the keys on
\* disk, or new ones signed by the identity.  The page is then `state'.
DeviceKeysOf(p, s, f, state, onDisk) ==
  \/ /\ onDisk # NoDevice
     /\ flow' = [flow EXCEPT ![p][s] = [f EXCEPT !.keys = onDisk, !.step = "register"]]
     /\ page' = [page EXCEPT ![p] = [state EXCEPT !.keys = onDisk]]
     /\ UNCHANGED made
  \/ /\ onDisk = NoDevice /\ New(1)
     /\ flow' = [flow EXCEPT ![p][s] =
          [f EXCEPT !.keys = [dh |-> made + 1, by |-> f.id], !.step = "mint"]]
     /\ page' = [page EXCEPT ![p] = state]

-----------------------------------------------------------------------------
(* Init: a page that has a user and no identity.                           *)

\* An init under way that sign-out or a reset has forgotten is late, and stale,
\* from then on.  Bound: one late init of a page at a time.
InitStart(p) ==
  /\ Event
  /\ page[p].user /\ page[p].identity = NoKey /\ ~page[p].promise
  /\ flow[p]["init"] = None \/ flow[p]["late"] = None
  /\ page' = [page EXCEPT ![p] = [@ EXCEPT !.status = "idle", !.promise = TRUE]]
  /\ flow' = [flow EXCEPT
       ![p]["init"] = [kind |-> "init", step |-> "ask", id |-> Disk(p).identity, keys |-> NoDevice,
                       stale |-> FALSE],
       ![p]["late"] = IF flow[p]["init"] = None THEN @ ELSE [flow[p]["init"] EXCEPT !.stale = TRUE]]
  /\ Note("unasked", page[p].status = "needs-setup")
  /\ UNCHANGED <<home, store, server, made>>

\* The end of an init; `finally' clears initPromise, also that of a later init.
Settled(s, state) == IF s = "user" THEN state ELSE [state EXCEPT !.promise = FALSE]

\* The generation check after which the page has its identity; resetToNewKeys
\* and a later init make an init in flight stale.
Adopt(p, s, status) ==
  LET f == flow[p][s]
  IN \/ /\ f.stale
        /\ page' = [page EXCEPT ![p] = Settled(s, [@ EXCEPT !.status = status])]
        /\ End(p, s)
        /\ UNCHANGED made
     \/ /\ ~f.stale
        /\ DeviceKeysOf(p, s, f,
             [page[p] EXCEPT !.status = status, !.identity = f.id,
                             !.crossed = @ \/ Crosses(p, s)], Disk(p).keys)

\* With keys on disk, any failure to get the recovery blob asks for a PIN.
AskWithKeys(p, s) ==
  /\ In(p, s, "ask") /\ flow[p][s].id # NoKey
  /\ \/ recovery # NoKey /\ Adopt(p, s, page[p].status) /\ UNCHANGED events
     \/ recovery = NoKey /\ Adopt(p, s, "needs-setup") /\ UNCHANGED events
     \/ recovery # NoKey /\ Adopt(p, s, "needs-setup") /\ Event
  /\ UNCHANGED <<home, store, server, history>>

\* Without: the blob is kept for the PIN; 404 means a new user, whose keys are
\* generated; any other failure leaves it to the next init.
AskWithoutKeys(p, s) ==
  /\ In(p, s, "ask") /\ flow[p][s].id = NoKey
  /\ \/ /\ recovery # NoKey
        /\ page' = [page EXCEPT ![p] =
             Settled(s, [@ EXCEPT !.blob = recovery, !.status = "needs-recovery"])]
        /\ End(p, s)
        /\ UNCHANGED <<made, events>>
     \/ /\ recovery = NoKey
        /\ New(1)
        /\ flow' = [flow EXCEPT ![p][s].id = made + 1, ![p][s].step = "save"]
        /\ UNCHANGED <<page, events>>
     \/ /\ Event /\ End(p, s)
        /\ page' = [page EXCEPT ![p] = Settled(s, @)]
        /\ UNCHANGED made
  /\ UNCHANGED <<home, store, server, history>>

-----------------------------------------------------------------------------
(* Unlock, reset and set-up, which the user starts.                        *)

UserFlow(p, kind, step, id) ==
  /\ Event
  /\ page[p].user /\ flow[p]["user"] = None
  /\ flow' = [flow EXCEPT ![p]["user"] =
       [kind |-> kind, step |-> step, id |-> id, keys |-> NoDevice, stale |-> FALSE]]

\* unlockWithPin, with the right PIN: a wrong one changes nothing.
Unlock(p) ==
  /\ page[p].status = "needs-recovery" /\ page[p].blob # NoKey
  /\ UserFlow(p, "unlock", "save", page[p].blob)
  /\ UNCHANGED <<home, store, page, server, made, history>>

\* resetToNewKeys, from the set-up page after a confirmation.
Reset(p) ==
  /\ Event
  /\ page[p].user /\ flow[p]["user"] = None /\ New(1)
  /\ flow' = [flow EXCEPT
       ![p]["user"] = [kind |-> "reset", step |-> "save", id |-> made + 1, keys |-> NoDevice,
                       stale |-> FALSE],
       ![p]["init"] = IF @ = None THEN None ELSE [@ EXCEPT !.stale = TRUE]]
  /\ page' = [page EXCEPT ![p] = [@ EXCEPT !.promise = FALSE,
                                           !.crossed = page[p].crossed \/ Crosses(p, "user")]]
  /\ UNCHANGED <<home, store, server, history>>

\* setupRecovery: the identity is packed and encrypted with the PIN, then saved.
SetupStart(p) ==
  /\ page[p].identity # NoKey
  /\ UserFlow(p, "setup", "encrypt", page[p].identity)
  /\ UNCHANGED <<home, store, page, server, made, history>>

\* Mutant of SetupSave: the banner goes even when the blob is not saved.
SetupSaveAnyway(p) ==
  /\ In(p, "user", "encrypt") /\ End(p, "user")
  /\ \/ recovery' = flow[p]["user"].id /\ UNCHANGED events
     \/ Event /\ UNCHANGED recovery
  /\ page' = [page EXCEPT ![p].status = IF @ = "needs-setup" THEN "ready" ELSE @]
  /\ Note("older", flow[p]["user"].id # bundle)
  /\ UNCHANGED <<home, store, bundle, devices, made>>

\* saveRecoveryV2; after a reset it may refuse the code of the second factor.
SetupSave(p) ==
  /\ In(p, "user", "encrypt") /\ End(p, "user")
  /\ \/ /\ recovery' = flow[p]["user"].id
        /\ page' = [page EXCEPT ![p].status = IF @ = "needs-setup" THEN "ready" ELSE @]
        /\ Note("older", flow[p]["user"].id # bundle)
        /\ UNCHANGED events
     \/ Event /\ UNCHANGED <<page, recovery, history>>
  /\ UNCHANGED <<home, store, bundle, devices, made>>

-----------------------------------------------------------------------------
(* What the flows share: the identity is saved, then published.            *)

\* saveIdentityKeys, which replaces the identity on disk; unlockWithPin has its
\* identity then.
Save(p, s) ==
  /\ In(p, s, "save")
  /\ Write(p, [Disk(p) EXCEPT !.identity = flow[p][s].id])
  /\ Note("shared", Sharing(p, s) \/ Replaces(p, s))
  /\ \/ /\ flow[p][s].kind = "unlock"
        /\ DeviceKeysOf(p, s, flow[p][s],
             [page[p] EXCEPT !.identity = flow[p][s].id, !.blob = NoKey,
                             !.crossed = @ \/ Crosses(p, s)], Disk(p).keys)
     \/ /\ flow[p][s].kind # "unlock"
        /\ Move(p, s, "publish")
        /\ UNCHANGED <<page, made>>
  /\ UNCHANGED <<home, server, events>>

\* publishBundleV2 by init for a new user.
PublishFirst(p, s) ==
  /\ In(p, s, "publish")
  /\ bundle' = flow[p][s].id
  /\ Adopt(p, s, "needs-setup")
  /\ Note("shared", Sharing(p, s))
  /\ UNCHANGED <<home, store, recovery, devices, events>>

\* publishBundleV2 by resetToNewKeys, which then clears the device keys.
PublishReset(p) ==
  /\ In(p, "user", "publish")
  /\ bundle' = flow[p]["user"].id
  /\ Write(p, [Disk(p) EXCEPT !.keys = NoDevice])
  /\ DeviceKeysOf(p, "user", flow[p]["user"],
       [page[p] EXCEPT !.keys = NoDevice, !.crossed = @ \/ Crosses(p, "user")], NoDevice)
  /\ Note("shared", Sharing(p, "user"))
  /\ UNCHANGED <<home, recovery, devices, events>>

\* The request fails, before or after the server carried it out: the flow ends
\* with an error and the new identity on disk.
PublishFails(p, s) ==
  /\ In(p, s, "publish")
  /\ Event /\ End(p, s)
  /\ bundle' \in {bundle, flow[p][s].id}
  /\ history' = history \cup {"unpublished"}
  /\ page' = [page EXCEPT ![p] = Settled(s, @)]
  /\ UNCHANGED <<home, store, recovery, devices, made>>

-----------------------------------------------------------------------------
(* What the flows share: the device keys, and their registration.          *)

\* getOrCreateDeviceKeys, when it has generated a pair.
MintDeviceKeys(p, s) ==
  /\ In(p, s, "mint")
  /\ Write(p, [Disk(p) EXCEPT !.keys = flow[p][s].keys])
  /\ page' = [page EXCEPT ![p].keys = flow[p][s].keys]
  /\ Move(p, s, "register")
  /\ UNCHANGED <<home, server, made, events, history>>

\* The last assignments of a flow, once its page has a device id or none.
Finished(p, s, state) ==
  LET f == flow[p][s]
  IN /\ page' = [page EXCEPT ![p] = Settled(s,
            IF f.kind = "reset" THEN [state EXCEPT !.identity = f.id, !.status = "needs-setup"]
            ELSE IF f.kind = "unlock" \/ state.status # "needs-setup"
              THEN [state EXCEPT !.status = "ready"]
            ELSE state)]
     /\ End(p, s)

\* register: a bundle that is not signed by its identity is refused, a known one
\* is given its row again, a new one needs room.  A device key is signed by one
\* identity, so it is in one row at most: it stands for the row's id.
Signed(f) == f.keys.by = f.id
Row(f) == [dh |-> f.keys.dh, ik |-> f.id]
Accepted(f) == Signed(f) /\ (Row(f) \in devices \/ Cardinality(devices) < MaxDevices)

\* Mutant of Register: an id on disk is kept in place of the registered one.
RegisterKeepId(p, s) ==
  /\ In(p, s, "register") /\ Accepted(flow[p][s])
  /\ LET row == Row(flow[p][s])
     IN /\ devices' = devices \cup {row}
        /\ Write(p, [Disk(p) EXCEPT !.device = IF @ = NoKey THEN row.dh ELSE @])
        /\ Finished(p, s, [page[p] EXCEPT !.assumed = FALSE,
                             !.device = IF Disk(p).device = NoKey THEN row.dh ELSE Disk(p).device])
  /\ UNCHANGED <<home, bundle, recovery, made, events, history>>

Register(p, s) ==
  /\ In(p, s, "register") /\ Accepted(flow[p][s])
  /\ LET row == Row(flow[p][s])
     IN /\ devices' = devices \cup {row}
        /\ Write(p, [Disk(p) EXCEPT !.device = row.dh])
        /\ Finished(p, s, [page[p] EXCEPT !.device = row.dh, !.assumed = FALSE])
  /\ UNCHANGED <<home, bundle, recovery, made, events, history>>

\* Refused, or failed before or after the row was made: init and unlock fall
\* back to the id on disk, a reset forgets it.
RegisterFails(p, s) ==
  /\ In(p, s, "register")
  /\ LET f == flow[p][s]
     IN /\ \/ ~Accepted(f) /\ UNCHANGED <<devices, events>>
           \/ Event /\ UNCHANGED devices
           \/ Accepted(f) /\ Event /\ devices' = devices \cup {Row(f)}
        /\ IF f.kind = "reset"
             THEN /\ Write(p, [Disk(p) EXCEPT !.device = NoKey])
                  /\ Finished(p, s, [page[p] EXCEPT !.device = NoKey, !.assumed = FALSE])
             ELSE /\ Finished(p, s, [page[p] EXCEPT !.device = Disk(p).device, !.assumed = TRUE])
                  /\ UNCHANGED store
  /\ UNCHANGED <<home, bundle, recovery, made, history>>

-----------------------------------------------------------------------------
(* Pages that end, and sign-out.                                           *)

\* What a page leaves behind when its memory goes: an identity it was about to
\* publish, a PIN it was about to ask for.
Leaves(p, inFlight) ==
  history' = history
    \cup (IF \E s \in Slots : In(p, s, "publish") THEN inFlight \cap {"unpublished"} ELSE {})
    \cup (IF \/ page[p].status = "needs-setup"
             \/ flow[p]["user"] # None /\ flow[p]["user"].kind = "reset"
            THEN inFlight \cap {"unasked"} ELSE {})

\* The page is closed or loaded again: its flows stop where they are.
PageEnds(p) ==
  /\ Event
  /\ page' = [page EXCEPT ![p] = Fresh]
  /\ flow' = [flow EXCEPT ![p] = Idle]
  /\ Leaves(p, {"unpublished", "unasked"})
  /\ UNCHANGED <<home, store, server, made>>

\* Mutant of SignOut: the identity stays in memory.
SignOutKeep(p) ==
  /\ Event /\ page[p].user
  /\ page' = [page EXCEPT ![p].user = FALSE]
  /\ Leaves(p, {"unasked"})
  /\ UNCHANGED <<home, store, flow, server, made>>

\* The effect that empties the variables; flows in flight go on.
Emptied(p) ==
  [Fresh EXCEPT !.user = FALSE, !.left = Busy(p),
                !.crossed = page[p].crossed \/ \E s \in Slots : Registering(p, s)]

\* Sign-out where useE2E is mounted; the user may sign in again in the same page.
SignOut(p) ==
  /\ Event /\ page[p].user
  /\ page' = [page EXCEPT ![p] = Emptied(p)]
  /\ Leaves(p, {"unasked"})
  /\ UNCHANGED <<home, store, flow, server, made>>
\* On the settings page it is not: nothing is emptied until the page shows a
\* view of the chat without a user.
SignOutElsewhere(p) ==
  /\ Event /\ page[p].user
  /\ page' = [page EXCEPT ![p] = [@ EXCEPT !.user = FALSE, !.left = TRUE]]
  /\ UNCHANGED <<home, store, flow, server, made, history>>
Forget(p) ==
  /\ ~page[p].user /\ page[p] # Emptied(p)
  /\ page' = [page EXCEPT ![p] = Emptied(p)]
  /\ Leaves(p, {"unasked"})
  /\ UNCHANGED <<home, store, flow, server, made, events>>
SignIn(p) ==
  /\ ~page[p].user
  /\ page' = [page EXCEPT ![p] = [@ EXCEPT !.user = TRUE, !.left = FALSE]]
  /\ UNCHANGED <<home, store, flow, server, made, events, history>>

\* importSyncRecord of the identity of another browser: the record was made
\* '{"enc":{},"pub":{}}' on the way, which loadIdentityKeys cannot read.
Import(p) ==
  LET last == Disk(p).identity = bundle /\ \A b \in Browsers \ {home[p]} : store[b].identity # bundle
  IN
  /\ Event
  /\ \E b \in Browsers \ {home[p]} : store[b].identity # NoKey
  /\ Write(p, [Disk(p) EXCEPT !.identity = NoKey])
  /\ Note("imported", last \/ \E q \in Pages : home[q] = home[p] /\ Busy(q))
  /\ UNCHANGED <<home, page, flow, server, made>>

VaultNext ==
  \E p \in Pages :
    \/ InitStart(p) \/ Unlock(p) \/ Reset(p) \/ SetupStart(p) \/ SetupSave(p) \/ PublishReset(p)
    \/ PageEnds(p) \/ SignOut(p) \/ SignOutElsewhere(p) \/ Forget(p) \/ SignIn(p) \/ Import(p)
    \/ \E s \in Inits : AskWithKeys(p, s) \/ AskWithoutKeys(p, s) \/ PublishFirst(p, s)
    \/ \E s \in Slots :
         \/ Save(p, s) \/ PublishFails(p, s)
         \/ MintDeviceKeys(p, s) \/ Register(p, s) \/ RegisterFails(p, s)

VaultSpec == VaultInit /\ [][VaultNext]_vaultVars

-----------------------------------------------------------------------------
\* Envelopes for a device are sealed to the keys of its row: the page that uses
\* its id holds them, however the flows of other tabs and restarts come in
\* between; excepted are an id taken from disk because the registration failed,
\* and a page whose init and user flow registered at the same time.
DeviceKeysHeld ==
  \A p \in Pages : \A d \in devices :
    (page[p].device = d.dh /\ ~page[p].assumed /\ ~page[p].crossed
       /\ ~\E s \in Slots : Registering(p, s))
      => page[p].keys = [dh |-> d.dh, by |-> d.ik]

\* What is sealed to the published identity can be opened: some browser has its
\* private keys on disk, or the recovery blob does.  Excepted are a publication
\* under way or not completed, two flows that replaced the identity of one
\* browser at the same time, and an import over the last copy or into a flow.
IdentityHeld ==
  (/\ bundle # NoKey /\ history \cap {"unpublished", "shared", "imported"} = {}
   /\ ~\E p \in Pages, s \in Slots : In(p, s, "publish"))
    => recovery = bundle \/ \E b \in Browsers : store[b].identity = bundle

\* Where the recovery blob is of an earlier identity than the published one, a
\* page is asking for a new PIN; excepted are a page that ended, signed out or
\* began again before it got one (init only asks whether there is a blob), a page
\* that saved an earlier identity of its own, and the exceptions of IdentityHeld.
PinAsked ==
  (/\ recovery \notin {NoKey, bundle}
   /\ history = {})
    => \E p \in Pages :
         \/ page[p].status = "needs-setup"
         \/ flow[p]["user"] # None /\ flow[p]["user"].kind = "reset"

\* However the flows of several pages, browsers and restarts come together, the
\* published identity can be had back, from a disk or with a PIN to come.
IdentityKept == IdentityHeld /\ PinAsked

\* A page without a user holds no keys, unless a flow was under way when its
\* user signed out, or was signed out where useE2E is not mounted.
SignedOutForgets ==
  \A p \in Pages : ~page[p].user /\ ~page[p].left => page[p].identity = NoKey

\* Sign-out empties the page, and the page that uses a device's id holds the keys
\* of its row (the sign-out effect and registerDevice of useE2E).
VaultInv == VaultTypeOK /\ SignedOutForgets /\ DeviceKeysHeld
=============================================================================
