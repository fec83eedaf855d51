----------------------------- MODULE GroupKeys -----------------------------
(***************************************************************************)
(* How one user of a group makes, distributes, uses and replaces a sender  *)
(* key (client/src/hooks/useE2E.ts, the sender-key routes of the server).  *)
(* The sender's browser has several tabs: IndexedDB is shared by them, the *)
(* promise chain groupLocks of withLock is a module global of each tab.    *)
(* A call is between its IndexedDB read and its last write for as long as  *)
(* the worker and the network take, and other calls run meanwhile.         *)
(*                                                                         *)
(* A key is identified by the order of its generation; what a member can   *)
(* open with it is SenderKey and GroupReceive.                             *)
(***************************************************************************)
EXTENDS Naturals, Sequences, FiniteSets

CONSTANTS Members,      \* the users of the group
          Sender,       \* the one whose key this is
          Tabs,         \* the tabs of the sender's browser
          Slots,        \* bound: the async calls of one tab
          NoKey,        \* stands for "nothing stored"
          Clear,        \* stands for a message that was not encrypted
          MaxKeys,      \* bound: how many sender keys are generated
          MaxSent,  \* bound: how many messages are sent
          MaxResets     \* bound: how often a user generates a new identity

ASSUME SenderAssumption == Sender \in Members
ASSUME BoundsAssumption == MaxKeys \in Nat /\ MaxSent \in Nat /\ MaxResets \in Nat

Kids == 0 .. (MaxKeys - 1)
SenderStates == [kid : Kids, iteration : 0 .. MaxSent]
NoCall == [op |-> "idle"]

KeyCalls ==
  {NoCall}
    \cup [op : {"waiting"}, to : SUBSET Members]
    \cup [op : {"encrypt"}, key : SenderStates]
    \cup [op : {"seal"}, kid : Kids, to : SUBSET Members]
    \cup [op : {"post"}, kid : Kids, epochs : [Members -> 0 .. MaxResets],
          to : SUBSET Members]

ASSUME KeysNullsAssumption ==
  /\ NoKey \notin SenderStates \cup Kids \cup [kid : Kids, epoch : 0 .. MaxResets]
  /\ Clear \notin SenderStates

VARIABLES
  generated, \* how many sender keys exist
  senderKey, \* the group_sender record of the sender's IndexedDB
  running,   \* for each tab and slot, the call in flight
  entry,     \* GroupSenderKey rows: per recipient the key and the identity
             \*   generation its envelope is sealed for
  epoch,     \* each user's identity generation (its published bundle)
  installed, \* per member, the key its group_receiver record is for
  requested, \* per tab, the redistribution requests it has to handle
  landing,   \* rows of POSTs that ended for the sender and may still be written
  wire       \* the messages sent to the group, in order

keysVars == <<generated, senderKey, running, entry, epoch, installed, requested, landing, wire>>

Upserts == [to : Members, kid : Kids, epoch : 0 .. MaxResets]

KeysTypeOK ==
  /\ generated \in 0 .. MaxKeys
  /\ senderKey \in SenderStates \cup {NoKey}
  /\ running \in [Tabs -> [Slots -> KeyCalls]]
  /\ entry \in [Members -> [kid : Kids, epoch : 0 .. MaxResets] \cup {NoKey}]
  /\ epoch \in [Members -> 0 .. MaxResets]
  /\ installed \in [Members -> Kids \cup {NoKey}]
  /\ requested \in [Tabs -> SUBSET Members]
  /\ landing \subseteq Upserts
  /\ wire \in Seq(SenderStates \cup {Clear}) /\ Len(wire) <= MaxSent

\* Mutant of LockFree: withLock runs the call at once.
NeverWaits(t) == TRUE

\* Mutant of LockFree: the lock is given up before the POST.
FreeDuringPost(t) ==
  \A s \in Slots : running[t][s].op \in {"idle", "waiting", "post"}

\* withLock: a call runs when no other group call of its tab is running.
LockFree(t) == \A s \in Slots : running[t][s].op \in {"idle", "waiting"}

Goes(t, s, c) == running' = [running EXCEPT ![t][s] = c]

-----------------------------------------------------------------------------
KeysInit ==
  /\ generated = 0
  /\ senderKey = NoKey
  /\ running = [t \in Tabs |-> [s \in Slots |-> NoCall]]
  /\ entry = [m \in Members |-> NoKey]
  /\ epoch = [m \in Members |-> 0]
  /\ installed = [m \in Members |-> NoKey]
  /\ requested = [t \in Tabs |-> {}]
  /\ landing = {}
  /\ wire = <<>>

\* encryptForGroup with no stored key returns the content as it is.
EncryptClear(t, s) ==
  /\ running[t][s] = NoCall /\ LockFree(t) /\ Len(wire) < MaxSent
  /\ senderKey = NoKey
  /\ wire' = Append(wire, Clear)
  /\ UNCHANGED <<generated, senderKey, running, entry, epoch, installed, requested, landing>>

\* encryptForGroup up to its first await: the stored state is loaded.
EncryptLoad(t, s) ==
  /\ running[t][s] = NoCall /\ LockFree(t) /\ Len(wire) < MaxSent
  /\ senderKey # NoKey
  /\ Goes(t, s, [op |-> "encrypt", key |-> senderKey])
  /\ UNCHANGED <<generated, senderKey, entry, epoch, installed, requested, landing, wire>>

\* The rest of encryptForGroup: the advanced state is saved and the message,
\* which carries the position that was loaded, is emitted.
EncryptSave(t, s) ==
  /\ running[t][s].op = "encrypt" /\ Len(wire) < MaxSent
  /\ LET key == running[t][s].key
     IN  /\ senderKey' = [key EXCEPT !.iteration = @ + 1]
         /\ wire' = Append(wire, key)
  /\ Goes(t, s, NoCall)
  /\ UNCHANGED <<generated, entry, epoch, installed, requested, landing>>

\* distributeMySenderKey is called for the whole group: on creating it and on
\* forwarding into it, when no key is stored, and by prefetchGroupSenderKeys
\* when the server holds no entry of the sender for itself.
CallDistribute(t, s) ==
  /\ running[t][s] = NoCall
  /\ senderKey = NoKey \/ entry[Sender] = NoKey
  /\ Goes(t, s, [op |-> "waiting", to |-> Members])
  /\ UNCHANGED <<generated, senderKey, entry, epoch, installed, requested, landing, wire>>

\* senderKeyRedistributionRequested: distribute, to the requester.
CallRedistribute(t, s, m) ==
  /\ running[t][s] = NoCall
  /\ m \in requested[t]
  /\ requested' = [requested EXCEPT ![t] = @ \ {m}]
  /\ Goes(t, s, [op |-> "waiting", to |-> {m}])
  /\ UNCHANGED <<generated, senderKey, entry, epoch, installed, landing, wire>>

\* doDistribute gets the lock: a fresh key replaces the stored one.
Generate(t, s) ==
  /\ running[t][s].op = "waiting" /\ LockFree(t) /\ generated < MaxKeys
  /\ generated' = generated + 1
  /\ senderKey' = [kid |-> generated, iteration |-> 0]
  /\ Goes(t, s, [op |-> "seal", kid |-> generated, to |-> running[t][s].to])
  /\ UNCHANGED <<entry, epoch, installed, requested, landing, wire>>

\* The key is sealed for the members whose bundle could be fetched; with none
\* nothing is posted.
Seal(t, s, reached) ==
  /\ running[t][s].op = "seal"
  /\ reached \subseteq running[t][s].to
  /\ Goes(t, s, IF reached = {} THEN NoCall
                   ELSE [op |-> "post", kid |-> running[t][s].kid,
                         epochs |-> epoch, to |-> reached])
  /\ UNCHANGED <<generated, senderKey, entry, epoch, installed, requested, landing, wire>>

\* setSenderKey: one upsert per recipient, in no transaction; the call ends
\* with the last.
StoreEntry(t, s, m) ==
  /\ running[t][s].op = "post"
  /\ m \in running[t][s].to
  /\ entry' = [entry EXCEPT ![m] = [kid |-> running[t][s].kid,
                                    epoch |-> running[t][s].epochs[m]]]
  /\ LET left == running[t][s].to \ {m}
     IN  Goes(t, s, IF left = {} THEN NoCall ELSE [running[t][s] EXCEPT !.to = left])
  /\ UNCHANGED <<generated, senderKey, epoch, installed, requested, landing, wire>>

\* The rows a call has not written yet.
RowsOf(c) ==
  IF c.op = "post" THEN {[to |-> m, kid |-> c.kid, epoch |-> c.epochs[m]] : m \in c.to} ELSE {}

\* The POST ends for the sender before all its rows are written: an upsert is
\* refused, or the answer is lost.  Promise.all rejects with the first, and the
\* others go on; the lock is released meanwhile.
PostFails(t, s) ==
  /\ running[t][s].op = "post"
  /\ landing' = landing \cup RowsOf(running[t][s])
  /\ Goes(t, s, NoCall)
  /\ UNCHANGED <<generated, senderKey, entry, epoch, installed, requested, wire>>

\* One of those upserts is carried out, over whatever the row holds by then.
StoreLate(r) ==
  /\ r \in landing
  /\ landing' = landing \ {r}
  /\ entry' = [entry EXCEPT ![r.to] = [kid |-> r.kid, epoch |-> r.epoch]]
  /\ UNCHANGED <<generated, senderKey, running, epoch, installed, requested, wire>>

-----------------------------------------------------------------------------
\* The row a member's prefetch finds: it has no receiver for this sender yet,
\* and its envelope opens or not with the member's present identity.
Unfetched(m) == installed[m] = NoKey /\ entry[m] # NoKey
Opens(m) == entry[m].epoch = epoch[m]

\* prefetchGroupSenderKeys, envelope opened.
InstallReceiver(m) ==
  /\ Unfetched(m) /\ Opens(m)
  /\ installed' = [installed EXCEPT ![m] = entry[m].kid]
  /\ UNCHANGED <<generated, senderKey, running, entry, epoch, requested, landing, wire>>

\* prefetchGroupSenderKeys, envelope not opened: the sender's tabs are asked.
RequestRedistribution(m) ==
  /\ m # Sender
  /\ Unfetched(m) /\ ~Opens(m)
  /\ requested' = [t \in Tabs |-> requested[t] \cup {m}]
  /\ UNCHANGED <<generated, senderKey, running, entry, epoch, installed, landing, wire>>

\* resetToNewKeys: a new identity in the same browser.  The user's own rows
\* are deleted, its IndexedDB group records are kept.  It clears groupLocks
\* too; it runs on a page of its own, with no group call of the tab in flight.
ResetToNewKeys(m) ==
  /\ epoch[m] < MaxResets
  /\ m = Sender => \A t \in Tabs : \A s \in Slots : running[t][s] = NoCall
  /\ epoch' = [epoch EXCEPT ![m] = @ + 1]
  /\ entry' = IF m = Sender THEN [x \in Members |-> NoKey] ELSE entry
  /\ UNCHANGED <<generated, senderKey, running, installed, requested, landing, wire>>

\* The user moves to a browser with an empty IndexedDB and unlocks the same
\* identity with the recovery PIN (unlockWithPin): group records are not part
\* of the recovery blob.
NewBrowser(m) ==
  /\ installed' = [installed EXCEPT ![m] = NoKey]
  /\ IF m = Sender
       THEN /\ senderKey' = NoKey
            /\ running' = [t \in Tabs |-> [s \in Slots |-> NoCall]]
            /\ requested' = [t \in Tabs |-> {}]
            /\ landing' = landing \cup
                 UNION {RowsOf(running[c[1]][c[2]]) : c \in Tabs \X Slots}
       ELSE UNCHANGED <<senderKey, running, requested, landing>>
  /\ UNCHANGED <<generated, entry, epoch, wire>>

-----------------------------------------------------------------------------
SenderNext ==
  \E t \in Tabs, s \in Slots :
    \/ EncryptClear(t, s)
    \/ EncryptLoad(t, s)
    \/ EncryptSave(t, s)
    \/ CallDistribute(t, s)
    \/ \E m \in Members : CallRedistribute(t, s, m)
    \/ Generate(t, s)
    \/ \E reached \in SUBSET Members : Seal(t, s, reached)
    \/ \E m \in Members : StoreEntry(t, s, m)
    \/ PostFails(t, s)

MemberNext ==
  \E m \in Members :
    \/ InstallReceiver(m)
    \/ RequestRedistribution(m)
    \/ ResetToNewKeys(m)
    \/ NewBrowser(m)

KeysNext == SenderNext \/ MemberNext \/ \E r \in landing : StoreLate(r)

KeysSpec == KeysInit /\ [][KeysNext]_keysVars

\* A member that opens the conversation fetches its rows: every useMessages
\* load, jump and reset calls prefetchGroupSenderKeys.
KeysFairSpec == KeysSpec /\ \A m \in Members : WF_keysVars(InstallReceiver(m))

-----------------------------------------------------------------------------
\* No two messages of a sender are encrypted at the same position of the same
\* key (sender_key.rs:28-29: the nonce is the iteration, "safe because every
\* (chain_key, iteration) pair is unique by construction").
UniqueIterations ==
  \A i, j \in DOMAIN wire : (i # j /\ wire[i] # Clear) => wire[i] # wire[j]

\* The sender never runs behind its members: a key a member received or can
\* fetch was generated, and the sender that still has a key is at or past it.
ReceiverNotAhead ==
  \A m \in Members :
    /\ installed[m] # NoKey =>
         /\ installed[m] < generated
         /\ senderKey # NoKey => installed[m] <= senderKey.kid
    /\ entry[m] # NoKey =>
         /\ entry[m].kid < generated
         /\ senderKey # NoKey => entry[m].kid <= senderKey.kid

\* Under withLock no position of a key is used twice, and the sender's key is
\* never behind a row or a member's record.
KeysInv == KeysTypeOK /\ UniqueIterations /\ ReceiverNotAhead

\* A row never goes back to an older key: the uploads of successive
\* distributions cannot overtake one another while the lock is held to the
\* end of the POST (distributeMySenderKey).  The exception is a POST that
\* ended for the sender while the server still worked at it: setSenderKey's
\* upserts are not cancelled, and one of them may land after the next upload.
EntriesMoveForward ==
  [][\A m \in Members :
       (entry[m] # NoKey /\ entry'[m] # NoKey) =>
         \/ entry[m].kid <= entry'[m].kid
         \/ \E r \in landing \ landing' :
              r.to = m /\ entry'[m] = [kid |-> r.kid, epoch |-> r.epoch]]_keysVars

\* What the server stores is always ciphertext (server/README.md:128).
AlwaysCiphertext == \A i \in DOMAIN wire : wire[i] # Clear

\* A key distributed to a member is installed (group/distribution.rs:9-10:
\* "Upon receipt, each member calls process_distribution_message and stores
\* the resulting ReceiverState").
DistributedKeyInstalled ==
  \A m \in Members \ {Sender}, k \in Kids :
    [](  <>[](entry[m] = [kid |-> k, epoch |-> epoch[m]])
       => <>(installed[m] = k))
=============================================================================
