---------------------------- MODULE GroupProofs ----------------------------
(* Proofs about GroupKeys, then about GroupReceive, then about Reports.      *)
EXTENDS GroupKeys, GroupReceive, Reports, FiniteSetTheorems, TLAPS

-----------------------------------------------------------------------------
(* Proofs about GroupKeys: with one tab, for every number of overlapping   *)
(* calls, members, keys, messages and resets, no position of a key is used *)
(* twice, and rows, receivers and uploads never overtake the sender's key. *)
(* The inductive invariant ties the one call that holds the group's lock   *)
(* to the stored record.                                                   *)

\* groupLocks is a module global of a page: the lock excludes the calls of
\* one tab only.
OneTab == \A t, u \in Tabs : t = u

\* At most one call is between its first await under the lock and its last.
OneHolder ==
  \A t \in Tabs : \A s, r \in Slots :
    running[t][s].op \notin {"idle", "waiting"} /\ running[t][r].op \notin {"idle", "waiting"}
      => s = r

\* What a call has read or made is what IndexedDB still holds.
HolderIsCurrent ==
  \A t \in Tabs, s \in Slots :
    /\ running[t][s].op = "encrypt" => senderKey = running[t][s].key
    /\ running[t][s].op \in {"seal", "post"} =>
         senderKey # NoKey /\ senderKey.kid = running[t][s].kid

\* The stored key is the last one generated, and has not advanced further than
\* messages were sent.
StoredIsLatest ==
  senderKey # NoKey => /\ senderKey.kid + 1 = generated
                       /\ senderKey.iteration <= Len(wire)

\* Rows and receivers are of keys that were generated.
FromGenerated ==
  \A m \in Members :
    /\ installed[m] # NoKey => installed[m] < generated
    /\ entry[m] # NoKey => entry[m].kid < generated
    /\ \A r \in landing : r.kid < generated

\* The messages sent are of keys that were generated; those of the stored key
\* are at positions it has passed.
SentIsPassed ==
  \A i \in DOMAIN wire : wire[i] # Clear =>
    /\ wire[i].kid < generated
    /\ senderKey # NoKey /\ wire[i].kid = senderKey.kid =>
         wire[i].iteration < senderKey.iteration

KeysIndInv ==
  /\ KeysTypeOK
  /\ OneHolder
  /\ HolderIsCurrent
  /\ StoredIsLatest
  /\ FromGenerated
  /\ SentIsPassed
  /\ UniqueIterations

-----------------------------------------------------------------------------
\* The record of a call has the fields of its operation.
LEMMA CallFields ==
  ASSUME NEW c \in KeyCalls
  PROVE  /\ c.op \in {"idle", "waiting", "encrypt", "seal", "post"}
         /\ c.op = "idle" => c = NoCall
         /\ c.op = "waiting" => c.to \in SUBSET Members
         /\ c.op = "encrypt" => c.key \in SenderStates
         /\ c.op = "seal" => c.kid \in Kids /\ c.to \in SUBSET Members
         /\ c.op = "post" => /\ c.kid \in Kids /\ c.to \in SUBSET Members
                             /\ c.epochs \in [Members -> 0 .. MaxResets]
                             /\ \A left \in SUBSET Members :
                                  /\ [c EXCEPT !.to = left] \in KeyCalls
                                  /\ [c EXCEPT !.to = left].op = "post"
                                  /\ [c EXCEPT !.to = left].kid = c.kid
BY DEF KeyCalls, NoCall

\* A step of one call changes that call and no other.
LEMMA GoesOnly ==
  ASSUME KeysTypeOK, NEW t \in Tabs, NEW s \in Slots, NEW c \in KeyCalls, Goes(t, s, c)
  PROVE  /\ running' \in [Tabs -> [Slots -> KeyCalls]]
         /\ running'[t][s] = c
         /\ \A u \in Tabs, r \in Slots :
              u # t \/ r # s => running'[u][r] = running[u][r]
BY DEF KeysTypeOK, Goes

\* Appending to the wire keeps what was sent where it was.
LEMMA WireAppend ==
  ASSUME KeysTypeOK, NEW x \in SenderStates \cup {Clear},
         Len(wire) < MaxSent, wire' = Append(wire, x)
  PROVE  /\ wire' \in Seq(SenderStates \cup {Clear})
         /\ Len(wire') = Len(wire) + 1 /\ Len(wire') <= MaxSent
         /\ DOMAIN wire' = DOMAIN wire \cup {Len(wire) + 1}
         /\ \A i \in DOMAIN wire : i # Len(wire) + 1 /\ wire'[i] = wire[i]
         /\ wire'[Len(wire) + 1] = x
BY BoundsAssumption DEF KeysTypeOK

LEMMA KeysInitKeeps == KeysInit => KeysIndInv
BY SenderAssumption, BoundsAssumption
   DEF KeysInit, KeysIndInv, KeysTypeOK, KeyCalls, NoCall, OneHolder, HolderIsCurrent,
       StoredIsLatest, FromGenerated, SentIsPassed, UniqueIterations

-----------------------------------------------------------------------------
\* The facts about the steps of KeysIndInv, one lemma per action.  A call that is
\* not under the lock changes nothing that the invariant is about.
LEMMA EncryptClearKeeps ==
  ASSUME KeysIndInv, NEW t \in Tabs, NEW s \in Slots, EncryptClear(t, s)
  PROVE  KeysIndInv'
<1>1. /\ wire' = Append(wire, Clear) /\ Len(wire) < MaxSent /\ senderKey = NoKey
      /\ UNCHANGED <<generated, senderKey, running, entry, epoch, installed, requested, landing>>
  BY DEF EncryptClear
<1>2. KeysTypeOK' /\ SentIsPassed' /\ UniqueIterations'
  BY <1>1, WireAppend DEF KeysIndInv, KeysTypeOK, SentIsPassed, UniqueIterations
<1>3. OneHolder' /\ HolderIsCurrent' /\ StoredIsLatest' /\ FromGenerated'
  BY <1>1 DEF KeysIndInv, OneHolder, HolderIsCurrent, StoredIsLatest, FromGenerated
<1> QED
  BY <1>2, <1>3 DEF KeysIndInv

\* The call takes the lock and holds the stored record.
LEMMA EncryptLoadKeeps ==
  ASSUME OneTab, KeysIndInv, NEW t \in Tabs, NEW s \in Slots, EncryptLoad(t, s)
  PROVE  KeysIndInv'
<1> DEFINE c == [op |-> "encrypt", key |-> senderKey]
<1>1. /\ LockFree(t) /\ senderKey # NoKey /\ Goes(t, s, c)
      /\ UNCHANGED <<generated, senderKey, entry, epoch, installed, requested, landing, wire>>
  BY DEF EncryptLoad
<1>2. c \in KeyCalls /\ c.op = "encrypt" /\ c.key = senderKey
  BY <1>1 DEF KeysIndInv, KeysTypeOK, KeyCalls
<1> HIDE DEF c
<1>3. /\ running' \in [Tabs -> [Slots -> KeyCalls]] /\ running'[t][s] = c
      /\ \A u \in Tabs, r \in Slots : u # t \/ r # s => running'[u][r] = running[u][r]
  BY <1>1, <1>2, GoesOnly DEF KeysIndInv
<1>4. KeysTypeOK'
  BY <1>1, <1>3 DEF KeysIndInv, KeysTypeOK
<1>5. OneHolder' /\ HolderIsCurrent'
  BY <1>1, <1>2, <1>3 DEF OneTab, LockFree, KeysIndInv, OneHolder, HolderIsCurrent
<1>6. StoredIsLatest' /\ FromGenerated' /\ SentIsPassed' /\ UniqueIterations'
  BY <1>1 DEF KeysIndInv, StoredIsLatest, FromGenerated, SentIsPassed, UniqueIterations
<1> QED
  BY <1>4, <1>5, <1>6 DEF KeysIndInv

\* The position sent is the one stored until now, which no message has, and
\* the record saved stands one further.
LEMMA EncryptSaveKeeps ==
  ASSUME OneTab, KeysIndInv, NEW t \in Tabs, NEW s \in Slots, EncryptSave(t, s)
  PROVE  KeysIndInv'
<1> DEFINE key == running[t][s].key
<1>1. /\ running[t][s].op = "encrypt" /\ Len(wire) < MaxSent
      /\ senderKey' = [key EXCEPT !.iteration = @ + 1]
      /\ wire' = Append(wire, key)
      /\ Goes(t, s, NoCall)
      /\ UNCHANGED <<generated, entry, epoch, installed, requested, landing>>
  BY DEF EncryptSave
<1>2. senderKey = key /\ key \in SenderStates
  BY <1>1, CallFields DEF KeysIndInv, KeysTypeOK, HolderIsCurrent
<1> HIDE DEF key
<1>3. senderKey # NoKey /\ key # Clear
  BY <1>2, KeysNullsAssumption
<1>4. NoCall \in KeyCalls /\ NoCall.op = "idle"
  BY DEF KeyCalls, NoCall
<1>5. /\ running' \in [Tabs -> [Slots -> KeyCalls]] /\ running'[t][s] = NoCall
      /\ \A u \in Tabs, r \in Slots : u # t \/ r # s => running'[u][r] = running[u][r]
  BY <1>1, <1>4, GoesOnly DEF KeysIndInv
<1>6. /\ key.kid + 1 = generated /\ key.iteration <= Len(wire)
      /\ key.kid \in Kids /\ key.iteration \in 0 .. MaxSent
  BY <1>2, <1>3 DEF KeysIndInv, StoredIsLatest, SenderStates
<1>7. /\ senderKey' = [kid |-> key.kid, iteration |-> key.iteration + 1]
      /\ senderKey'.kid = key.kid /\ senderKey'.iteration = key.iteration + 1
  BY <1>1, <1>2 DEF SenderStates
<1>8. /\ wire' \in Seq(SenderStates \cup {Clear})
      /\ Len(wire') = Len(wire) + 1 /\ Len(wire') <= MaxSent
      /\ DOMAIN wire' = DOMAIN wire \cup {Len(wire) + 1}
      /\ \A i \in DOMAIN wire : i # Len(wire) + 1 /\ wire'[i] = wire[i]
      /\ wire'[Len(wire) + 1] = key
  BY <1>1, <1>2, WireAppend DEF KeysIndInv
<1>9. Len(wire) \in Nat /\ MaxSent \in Nat
  BY BoundsAssumption DEF KeysIndInv, KeysTypeOK
<1>10. key.iteration + 1 \in 0 .. MaxSent
  BY <1>1, <1>6, <1>9
<1>11. senderKey' \in SenderStates
  BY <1>6, <1>7, <1>10 DEF SenderStates
<1>12. KeysTypeOK'
  BY <1>1, <1>5, <1>8, <1>11 DEF KeysIndInv, KeysTypeOK
<1>13. \A u \in Tabs, r \in Slots : running'[u][r].op \in {"idle", "waiting"}
  BY <1>1, <1>4, <1>5, CallFields DEF OneTab, KeysIndInv, KeysTypeOK, OneHolder
<1>14. OneHolder' /\ HolderIsCurrent'
  BY <1>13 DEF OneHolder, HolderIsCurrent
<1>15. StoredIsLatest'
  BY <1>1, <1>6, <1>7, <1>8, <1>9 DEF StoredIsLatest
<1>16. FromGenerated'
  BY <1>1 DEF KeysIndInv, FromGenerated
<1>17. \A i \in DOMAIN wire : wire[i] # Clear =>
         /\ wire[i].kid < generated
         /\ wire[i].kid = key.kid => wire[i].iteration < key.iteration
  BY <1>2, <1>3 DEF KeysIndInv, SentIsPassed
<1>18. SentIsPassed'
  <2>1. generated \in Nat /\ key.kid \in Nat /\ key.iteration \in Nat
    BY <1>6, BoundsAssumption DEF KeysIndInv, KeysTypeOK, Kids
  <2>2. \A i \in DOMAIN wire : wire[i] # Clear => wire[i].iteration \in Nat
    BY BoundsAssumption DEF KeysIndInv, KeysTypeOK, SenderStates
  <2> QED
    BY <1>1, <1>6, <1>7, <1>8, <1>17, <2>1, <2>2 DEF SentIsPassed
<1>19. \A i \in DOMAIN wire : wire[i] # key
  BY <1>3, <1>6, <1>17
<1>20. UniqueIterations'
  BY <1>8, <1>19 DEF KeysIndInv, UniqueIterations
<1> QED
  BY <1>12, <1>14, <1>15, <1>16, <1>18, <1>20 DEF KeysIndInv

\* A call that only waits for the lock is not under it.
LEMMA WaitingKeeps ==
  ASSUME KeysIndInv, NEW t \in Tabs, NEW s \in Slots, NEW c \in KeyCalls,
         c.op \in {"idle", "waiting"}, Goes(t, s, c),
         requested' \in [Tabs -> SUBSET Members],
         UNCHANGED <<generated, senderKey, entry, epoch, installed, landing, wire>>
  PROVE  KeysIndInv'
<1>1. /\ running' \in [Tabs -> [Slots -> KeyCalls]] /\ running'[t][s] = c
      /\ \A u \in Tabs, r \in Slots : u # t \/ r # s => running'[u][r] = running[u][r]
  BY GoesOnly DEF KeysIndInv
<1>2. KeysTypeOK'
  BY <1>1 DEF KeysIndInv, KeysTypeOK
<1>6. \A u \in Tabs, r \in Slots :
        running'[u][r].op \notin {"idle", "waiting"} => running'[u][r] = running[u][r]
  BY <1>1
<1>7. OneHolder'
  BY <1>6 DEF KeysIndInv, OneHolder
<1>3. HolderIsCurrent'
  <2>1. UNCHANGED senderKey
    OBVIOUS
  <2> QED
    BY <1>6, <2>1 DEF KeysIndInv, HolderIsCurrent
<1>4. StoredIsLatest' /\ FromGenerated'
  BY DEF KeysIndInv, StoredIsLatest, FromGenerated
<1>5. SentIsPassed' /\ UniqueIterations'
  BY DEF KeysIndInv, SentIsPassed, UniqueIterations
<1> QED
  BY <1>2, <1>3, <1>4, <1>5, <1>7 DEF KeysIndInv

LEMMA CallDistributeKeeps ==
  ASSUME KeysIndInv, NEW t \in Tabs, NEW s \in Slots, CallDistribute(t, s)
  PROVE  KeysIndInv'
<1> DEFINE c == [op |-> "waiting", to |-> Members]
<1>1. c \in KeyCalls /\ c.op = "waiting"
  BY DEF KeyCalls
<1> QED
  BY <1>1, WaitingKeeps DEF CallDistribute, KeysIndInv, KeysTypeOK

LEMMA CallRedistributeKeeps ==
  ASSUME KeysIndInv, NEW t \in Tabs, NEW s \in Slots, NEW m \in Members,
         CallRedistribute(t, s, m)
  PROVE  KeysIndInv'
<1> DEFINE c == [op |-> "waiting", to |-> {m}]
<1>1. c \in KeyCalls /\ c.op = "waiting"
  BY DEF KeyCalls
<1>2. requested' \in [Tabs -> SUBSET Members]
  BY DEF CallRedistribute, KeysIndInv, KeysTypeOK
<1> QED
  BY <1>1, <1>2, WaitingKeeps DEF CallRedistribute

\* The call takes the lock; no message, row or receiver has the fresh key yet.
LEMMA GenerateKeeps ==
  ASSUME OneTab, KeysIndInv, NEW t \in Tabs, NEW s \in Slots, Generate(t, s)
  PROVE  KeysIndInv'
<1> DEFINE c == [op |-> "seal", kid |-> generated, to |-> running[t][s].to]
           fresh == [kid |-> generated, iteration |-> 0]
<1>1. /\ running[t][s].op = "waiting" /\ LockFree(t) /\ generated < MaxKeys
      /\ generated' = generated + 1 /\ senderKey' = fresh /\ Goes(t, s, c)
      /\ UNCHANGED <<entry, epoch, installed, requested, landing, wire>>
  BY DEF Generate
<1>2. generated \in Nat /\ MaxKeys \in Nat /\ generated \in Kids
  BY <1>1, BoundsAssumption DEF KeysIndInv, KeysTypeOK, Kids
<1>3. c \in KeyCalls /\ c.op = "seal" /\ c.kid = generated
  BY <1>1, <1>2, CallFields DEF KeysIndInv, KeysTypeOK, KeyCalls
<1>4. fresh \in SenderStates /\ fresh # NoKey /\ fresh.kid = generated /\ fresh.iteration = 0
  BY <1>2, BoundsAssumption, KeysNullsAssumption DEF SenderStates
<1> HIDE DEF c, fresh
<1>5. /\ running' \in [Tabs -> [Slots -> KeyCalls]] /\ running'[t][s] = c
      /\ \A u \in Tabs, r \in Slots : u # t \/ r # s => running'[u][r] = running[u][r]
  BY <1>1, <1>3, GoesOnly DEF KeysIndInv
<1>6. KeysTypeOK'
  BY <1>1, <1>2, <1>4, <1>5 DEF KeysIndInv, KeysTypeOK
<1>7. \A u \in Tabs, r \in Slots : u # t \/ r # s => running'[u][r].op \in {"idle", "waiting"}
  BY <1>1, <1>5 DEF OneTab, LockFree
<1>8. OneHolder' /\ HolderIsCurrent'
  BY <1>1, <1>3, <1>4, <1>5, <1>7 DEF OneHolder, HolderIsCurrent
<1>9. StoredIsLatest'
  BY <1>1, <1>2, <1>4 DEF StoredIsLatest, KeysIndInv, KeysTypeOK
<1>10. FromGenerated'
  <2>1. /\ \A m \in Members : /\ installed[m] # NoKey => installed[m] \in Nat
                              /\ entry[m] # NoKey => entry[m].kid \in Nat
        /\ \A r \in landing : r.kid \in Nat
    BY DEF KeysIndInv, KeysTypeOK, Upserts, Kids
  <2> QED
    BY <1>1, <1>2, <2>1 DEF KeysIndInv, FromGenerated
<1>11. SentIsPassed'
  <2>1. \A i \in DOMAIN wire : wire[i] # Clear => wire[i].kid \in Nat
    BY DEF KeysIndInv, KeysTypeOK, SenderStates, Kids
  <2> QED
    BY <1>1, <1>2, <1>4, <2>1 DEF KeysIndInv, SentIsPassed
<1>12. UniqueIterations'
  BY <1>1 DEF KeysIndInv, UniqueIterations
<1> QED
  BY <1>6, <1>8, <1>9, <1>10, <1>11, <1>12 DEF KeysIndInv

\* The holder goes on with the same key, or gives up the lock.
LEMMA HolderGoesOn ==
  ASSUME KeysIndInv, NEW t \in Tabs, NEW s \in Slots, NEW c \in KeyCalls,
         running[t][s].op \in {"seal", "post"}, Goes(t, s, c),
         c = NoCall \/ (c.op = "post" /\ c.kid = running[t][s].kid),
         UNCHANGED <<generated, senderKey, epoch, installed, requested, wire>>
  PROVE  /\ running' \in [Tabs -> [Slots -> KeyCalls]]
         /\ OneHolder' /\ HolderIsCurrent' /\ StoredIsLatest'
         /\ SentIsPassed' /\ UniqueIterations'
<1>1. /\ running' \in [Tabs -> [Slots -> KeyCalls]] /\ running'[t][s] = c
      /\ \A u \in Tabs, r \in Slots : u # t \/ r # s => running'[u][r] = running[u][r]
  BY GoesOnly DEF KeysIndInv
<1>2. NoCall.op = "idle"
  BY DEF NoCall
<1>3. OneHolder'
  BY <1>1, <1>2 DEF KeysIndInv, OneHolder
<1>4. HolderIsCurrent'
  BY <1>1, <1>2 DEF KeysIndInv, HolderIsCurrent
<1>5. StoredIsLatest' /\ SentIsPassed' /\ UniqueIterations'
  BY DEF KeysIndInv, StoredIsLatest, SentIsPassed, UniqueIterations
<1> QED
  BY <1>1, <1>3, <1>4, <1>5

LEMMA SealKeeps ==
  ASSUME KeysIndInv, NEW t \in Tabs, NEW s \in Slots, NEW reached \in SUBSET Members,
         Seal(t, s, reached)
  PROVE  KeysIndInv'
<1> DEFINE c == IF reached = {} THEN NoCall
                ELSE [op |-> "post", kid |-> running[t][s].kid,
                      epochs |-> epoch, to |-> reached]
<1>1. running[t][s] \in KeyCalls /\ epoch \in [Members -> 0 .. MaxResets]
  BY DEF KeysIndInv, KeysTypeOK
<1>2. running[t][s].op = "seal" /\ running[t][s].kid \in Kids
  BY <1>1, CallFields DEF Seal
<1>3. c \in KeyCalls /\ (c = NoCall \/ (c.op = "post" /\ c.kid = running[t][s].kid))
  BY <1>1, <1>2 DEF KeyCalls
<1>4. /\ Goes(t, s, c)
      /\ UNCHANGED <<generated, senderKey, entry, epoch, installed, requested, landing, wire>>
  BY DEF Seal
<1> HIDE DEF c
<1>5. /\ running' \in [Tabs -> [Slots -> KeyCalls]]
      /\ OneHolder' /\ HolderIsCurrent' /\ StoredIsLatest'
      /\ SentIsPassed' /\ UniqueIterations'
  BY <1>2, <1>3, <1>4, HolderGoesOn
<1>6. KeysTypeOK' /\ FromGenerated'
  BY <1>4, <1>5 DEF KeysIndInv, KeysTypeOK, FromGenerated
<1> QED
  BY <1>5, <1>6 DEF KeysIndInv

\* A row is written for the key that is stored, the last one generated.
LEMMA StoredRowIsLatest ==
  ASSUME KeysIndInv, NEW t \in Tabs, NEW s \in Slots, running[t][s].op = "post"
  PROVE  running[t][s].kid + 1 = generated /\ running[t][s].kid \in Kids
BY CallFields DEF KeysIndInv, KeysTypeOK, HolderIsCurrent, StoredIsLatest

LEMMA StoreEntryKeeps ==
  ASSUME KeysIndInv, NEW t \in Tabs, NEW s \in Slots, NEW m \in Members, StoreEntry(t, s, m)
  PROVE  KeysIndInv'
<1> DEFINE left == running[t][s].to \ {m}
           c == IF left = {} THEN NoCall ELSE [running[t][s] EXCEPT !.to = left]
           row == [kid |-> running[t][s].kid, epoch |-> running[t][s].epochs[m]]
<1>1. /\ running[t][s].op = "post" /\ running[t][s] \in KeyCalls
      /\ entry' = [entry EXCEPT ![m] = row] /\ Goes(t, s, c)
      /\ UNCHANGED <<generated, senderKey, epoch, installed, requested, landing, wire>>
  BY DEF StoreEntry, KeysIndInv, KeysTypeOK
<1>2. /\ running[t][s].kid \in Kids /\ running[t][s].epochs[m] \in 0 .. MaxResets
      /\ left \in SUBSET Members
  BY <1>1, CallFields
<1>3. c \in KeyCalls /\ (c = NoCall \/ (c.op = "post" /\ c.kid = running[t][s].kid))
  <2>1. NoCall \in KeyCalls
    BY DEF KeyCalls
  <2> QED
    BY <1>1, <1>2, <2>1, CallFields
<1>4. row \in [kid : Kids, epoch : 0 .. MaxResets] /\ row.kid = running[t][s].kid
  BY <1>2
<1> HIDE DEF c, row
<1>5. /\ running' \in [Tabs -> [Slots -> KeyCalls]]
      /\ OneHolder' /\ HolderIsCurrent' /\ StoredIsLatest'
      /\ SentIsPassed' /\ UniqueIterations'
  BY <1>1, <1>3, HolderGoesOn
<1>6. KeysTypeOK'
  BY <1>1, <1>4, <1>5 DEF KeysIndInv, KeysTypeOK
<1>7. row.kid < generated
  <2>1. row.kid + 1 = generated /\ row.kid \in Nat
    BY <1>1, <1>4, StoredRowIsLatest DEF Kids
  <2> QED
    BY <2>1
<1>8. FromGenerated'
  BY <1>1, <1>7 DEF KeysIndInv, KeysTypeOK, FromGenerated
<1> QED
  BY <1>5, <1>6, <1>8 DEF KeysIndInv

\* The rows in flight of a call are of the last key generated.
LEMMA RowsInFlight ==
  ASSUME KeysIndInv, NEW t \in Tabs, NEW s \in Slots
  PROVE  RowsOf(running[t][s]) \subseteq Upserts /\ \A r \in RowsOf(running[t][s]) : r.kid < generated
<1>1. CASE running[t][s].op = "post"
  <2>1. running[t][s] \in KeyCalls
    BY DEF KeysIndInv, KeysTypeOK
  <2>2. /\ running[t][s].kid \in Kids /\ running[t][s].to \in SUBSET Members
        /\ \A m \in Members : running[t][s].epochs[m] \in 0 .. MaxResets
    BY <1>1, <2>1, CallFields
  <2>3. running[t][s].kid < generated
    BY <1>1, StoredRowIsLatest DEF Kids
  <2> QED
    BY <1>1, <2>2, <2>3 DEF RowsOf, Upserts
<1>2. CASE running[t][s].op # "post"
  BY <1>2 DEF RowsOf
<1> QED
  BY <1>1, <1>2

LEMMA PostFailsKeeps ==
  ASSUME KeysIndInv, NEW t \in Tabs, NEW s \in Slots, PostFails(t, s)
  PROVE  KeysIndInv'
<1>1. /\ running[t][s].op = "post" /\ Goes(t, s, NoCall)
      /\ landing' = landing \cup RowsOf(running[t][s])
      /\ UNCHANGED <<generated, senderKey, entry, epoch, installed, requested, wire>>
  BY DEF PostFails
<1>2. NoCall \in KeyCalls
  BY DEF KeyCalls
<1>3. /\ running' \in [Tabs -> [Slots -> KeyCalls]]
      /\ OneHolder' /\ HolderIsCurrent' /\ StoredIsLatest'
      /\ SentIsPassed' /\ UniqueIterations'
  BY <1>1, <1>2, HolderGoesOn
<1>4. KeysTypeOK' /\ FromGenerated'
  BY <1>1, <1>3, RowsInFlight DEF KeysIndInv, KeysTypeOK, FromGenerated
<1> QED
  BY <1>3, <1>4 DEF KeysIndInv

\* A late row is of a key that was generated.
LEMMA StoreLateKeeps ==
  ASSUME KeysIndInv, NEW r \in landing, StoreLate(r)
  PROVE  KeysIndInv'
<1> DEFINE row == [kid |-> r.kid, epoch |-> r.epoch]
<1>1. /\ landing' = landing \ {r} /\ entry' = [entry EXCEPT ![r.to] = row]
      /\ UNCHANGED <<generated, senderKey, running, epoch, installed, requested, wire>>
  BY DEF StoreLate
<1>2. /\ r.to \in Members /\ row \in [kid : Kids, epoch : 0 .. MaxResets]
      /\ row.kid = r.kid /\ r.kid < generated
  BY DEF KeysIndInv, KeysTypeOK, FromGenerated, Upserts
<1> HIDE DEF row
<1>3. KeysTypeOK' /\ FromGenerated'
  BY <1>1, <1>2 DEF KeysIndInv, KeysTypeOK, FromGenerated
<1>4. OneHolder' /\ HolderIsCurrent' /\ StoredIsLatest' /\ SentIsPassed' /\ UniqueIterations'
  BY <1>1 DEF KeysIndInv, OneHolder, HolderIsCurrent, StoredIsLatest, SentIsPassed,
              UniqueIterations
<1> QED
  BY <1>3, <1>4 DEF KeysIndInv

\* What members do: a receiver takes the key of a row, a request names a
\* member, a new identity or browser drops rows and records.
LEMMA MembersKeep ==
  ASSUME KeysIndInv, NEW m \in Members,
         InstallReceiver(m) \/ RequestRedistribution(m) \/ ResetToNewKeys(m) \/ NewBrowser(m)
  PROVE  KeysIndInv'
<1>1. CASE InstallReceiver(m)
  <2>1. /\ entry[m] # NoKey /\ installed' = [installed EXCEPT ![m] = entry[m].kid]
        /\ UNCHANGED <<generated, senderKey, running, entry, epoch, requested, landing, wire>>
    BY <1>1 DEF InstallReceiver, Unfetched
  <2>2. entry[m].kid \in Kids /\ entry[m].kid < generated
    BY <2>1 DEF KeysIndInv, KeysTypeOK, FromGenerated
  <2>3. KeysTypeOK' /\ FromGenerated'
    BY <2>1, <2>2 DEF KeysIndInv, KeysTypeOK, FromGenerated
  <2>4. OneHolder' /\ HolderIsCurrent' /\ StoredIsLatest' /\ SentIsPassed' /\ UniqueIterations'
    BY <2>1 DEF KeysIndInv, OneHolder, HolderIsCurrent, StoredIsLatest, SentIsPassed,
                UniqueIterations
  <2> QED
    BY <2>3, <2>4 DEF KeysIndInv
<1>2. CASE RequestRedistribution(m)
  <2>1. /\ requested' = [t \in Tabs |-> requested[t] \cup {m}]
        /\ UNCHANGED <<generated, senderKey, running, entry, epoch, installed, landing, wire>>
    BY <1>2 DEF RequestRedistribution
  <2>2. KeysTypeOK' /\ FromGenerated'
    BY <2>1 DEF KeysIndInv, KeysTypeOK, FromGenerated
  <2>3. OneHolder' /\ HolderIsCurrent' /\ StoredIsLatest' /\ SentIsPassed' /\ UniqueIterations'
    BY <2>1 DEF KeysIndInv, OneHolder, HolderIsCurrent, StoredIsLatest, SentIsPassed,
                UniqueIterations
  <2> QED
    BY <2>2, <2>3 DEF KeysIndInv
<1>3. CASE ResetToNewKeys(m)
  <2>1. /\ epoch[m] < MaxResets /\ epoch' = [epoch EXCEPT ![m] = @ + 1]
        /\ entry' = IF m = Sender THEN [x \in Members |-> NoKey] ELSE entry
        /\ UNCHANGED <<generated, senderKey, running, installed, requested, landing, wire>>
    BY <1>3 DEF ResetToNewKeys
  <2>2. epoch' \in [Members -> 0 .. MaxResets]
    BY <2>1, BoundsAssumption DEF KeysIndInv, KeysTypeOK
  <2>3. KeysTypeOK' /\ FromGenerated'
    BY <2>1, <2>2 DEF KeysIndInv, KeysTypeOK, FromGenerated
  <2>4. OneHolder' /\ HolderIsCurrent' /\ StoredIsLatest' /\ SentIsPassed' /\ UniqueIterations'
    BY <2>1 DEF KeysIndInv, OneHolder, HolderIsCurrent, StoredIsLatest, SentIsPassed,
                UniqueIterations
  <2> QED
    BY <2>3, <2>4 DEF KeysIndInv
<1>4. CASE NewBrowser(m)
  <2>1. /\ installed' = [installed EXCEPT ![m] = NoKey]
        /\ UNCHANGED <<generated, entry, epoch, wire>>
    BY <1>4 DEF NewBrowser
  <2>2. \/ UNCHANGED <<senderKey, running, requested, landing>>
        \/ /\ senderKey' = NoKey
           /\ running' = [t \in Tabs |-> [s \in Slots |-> NoCall]]
           /\ requested' = [t \in Tabs |-> {}]
           /\ landing' = landing \cup
                UNION {RowsOf(running[c[1]][c[2]]) : c \in Tabs \X Slots}
    BY <1>4 DEF NewBrowser
  <2>3. NoCall \in KeyCalls /\ NoCall.op = "idle"
    BY DEF KeyCalls, NoCall
  <2>7. landing' \subseteq Upserts /\ \A r \in landing' : r.kid < generated
    BY <2>2, RowsInFlight DEF KeysIndInv, KeysTypeOK, FromGenerated
  <2>4. KeysTypeOK' /\ FromGenerated'
    BY <2>1, <2>2, <2>3, <2>7 DEF KeysIndInv, KeysTypeOK, FromGenerated
  <2>5. OneHolder' /\ HolderIsCurrent'
    BY <2>2, <2>3 DEF KeysIndInv, OneHolder, HolderIsCurrent
  <2>6. StoredIsLatest' /\ SentIsPassed' /\ UniqueIterations'
    BY <2>1, <2>2 DEF KeysIndInv, StoredIsLatest, SentIsPassed, UniqueIterations
  <2> QED
    BY <2>4, <2>5, <2>6 DEF KeysIndInv
<1> QED
  BY <1>1, <1>2, <1>3, <1>4

LEMMA KeysStepKeeps == OneTab /\ KeysIndInv /\ [KeysNext]_keysVars => KeysIndInv'
<1> SUFFICES ASSUME OneTab, KeysIndInv, [KeysNext]_keysVars PROVE KeysIndInv'
  OBVIOUS
<1>1. CASE SenderNext
  <2>1. PICK t \in Tabs, s \in Slots :
          \/ EncryptClear(t, s) \/ EncryptLoad(t, s) \/ EncryptSave(t, s)
          \/ CallDistribute(t, s) \/ \E m \in Members : CallRedistribute(t, s, m)
          \/ Generate(t, s) \/ \E reached \in SUBSET Members : Seal(t, s, reached)
          \/ \E m \in Members : StoreEntry(t, s, m)
          \/ PostFails(t, s)
    BY <1>1 DEF SenderNext
  <2> QED
    BY <2>1, EncryptClearKeeps, EncryptLoadKeeps, EncryptSaveKeeps, CallDistributeKeeps,
       CallRedistributeKeeps, GenerateKeeps, SealKeeps, StoreEntryKeeps, PostFailsKeeps
<1>2. CASE MemberNext
  BY <1>2, MembersKeep DEF MemberNext
<1>3. CASE \E r \in landing : StoreLate(r)
  BY <1>3, StoreLateKeeps
<1>4. CASE UNCHANGED keysVars
  BY <1>4 DEF keysVars, KeysIndInv, KeysTypeOK, OneHolder, HolderIsCurrent, StoredIsLatest,
              FromGenerated, SentIsPassed, UniqueIterations
<1> QED
  BY <1>1, <1>2, <1>3, <1>4 DEF KeysNext

\* A stored key is the last one generated, and every row and record is of one
\* that was generated before it or with it.
LEMMA KeysIndInvImpliesKeysInv == KeysIndInv => KeysInv
<1> SUFFICES ASSUME KeysIndInv PROVE ReceiverNotAhead
  BY DEF KeysIndInv, KeysInv
<1>1. generated \in Nat /\ (senderKey # NoKey => senderKey.kid \in Nat /\ senderKey.kid + 1 = generated)
  BY BoundsAssumption DEF KeysIndInv, KeysTypeOK, SenderStates, Kids, StoredIsLatest
<1>2. \A m \in Members :
        /\ installed[m] # NoKey => installed[m] \in Nat /\ installed[m] < generated
        /\ entry[m] # NoKey => entry[m].kid \in Nat /\ entry[m].kid < generated
  BY DEF KeysIndInv, KeysTypeOK, Kids, FromGenerated
<1> QED
  BY <1>1, <1>2 DEF ReceiverNotAhead

\* A row is written with the stored key (setSenderKey while
\* distributeMySenderKey holds the lock), or by a late write.
LEMMA RowsMoveForward ==
  ASSUME KeysIndInv, [KeysNext]_keysVars, NEW m \in Members,
         entry[m] # NoKey, entry'[m] # NoKey
  PROVE  \/ entry[m].kid <= entry'[m].kid
         \/ \E r \in landing \ landing' :
              r.to = m /\ entry'[m] = [kid |-> r.kid, epoch |-> r.epoch]
<1>1. entry[m].kid \in Nat /\ entry[m].kid < generated /\ generated \in Nat
  BY BoundsAssumption DEF KeysIndInv, KeysTypeOK, Kids, FromGenerated
<1>2. CASE \E t \in Tabs, s \in Slots, x \in Members : StoreEntry(t, s, x)
  <2>1. PICK t \in Tabs, s \in Slots, x \in Members : StoreEntry(t, s, x)
    BY <1>2
  <2>2. running[t][s].kid + 1 = generated /\ running[t][s].kid \in Nat
    BY <2>1, StoredRowIsLatest DEF StoreEntry, Kids
  <2>3. entry'[m] = entry[m] \/ entry'[m].kid = running[t][s].kid
    BY <2>1 DEF StoreEntry, KeysIndInv, KeysTypeOK
  <2> QED
    BY <1>1, <2>2, <2>3
<1>4. CASE \E r \in landing : StoreLate(r)
  <2>1. PICK r \in landing : StoreLate(r)
    BY <1>4
  <2>2. r \in landing \ landing'
    BY <2>1 DEF StoreLate
  <2>3. \/ entry'[m] = entry[m]
        \/ r.to = m /\ entry'[m] = [kid |-> r.kid, epoch |-> r.epoch]
    BY <2>1 DEF StoreLate, KeysIndInv, KeysTypeOK
  <2> QED
    BY <1>1, <2>2, <2>3
<1>3. CASE /\ ~ \E t \in Tabs, s \in Slots, x \in Members : StoreEntry(t, s, x)
           /\ ~ \E r \in landing : StoreLate(r)
  <2>1. entry' = entry \/ entry' = [x \in Members |-> NoKey]
    BY <1>3 DEF KeysNext, SenderNext, MemberNext, keysVars, EncryptClear, EncryptLoad,
         EncryptSave, CallDistribute, CallRedistribute, Generate, Seal, PostFails,
         InstallReceiver, RequestRedistribution, ResetToNewKeys, NewBrowser
  <2> QED
    BY <1>1, <2>1
<1> QED
  BY <1>2, <1>3, <1>4

-----------------------------------------------------------------------------
\* Under one page's groupLocks no position of a key is used twice, and rows,
\* receivers and the stored key never run ahead of one another (encryptForGroup,
\* distributeMySenderKey).
THEOREM KeysSafe == OneTab /\ KeysSpec => []KeysInv
<1>1. OneTab /\ KeysInit => KeysIndInv
  BY KeysInitKeeps
<1>2. OneTab /\ KeysIndInv /\ [KeysNext]_keysVars => KeysIndInv'
  BY KeysStepKeeps
<1>3. OneTab => OneTab'
  BY DEF OneTab
<1> QED
  BY <1>1, <1>2, <1>3, KeysIndInvImpliesKeysInv, PTL DEF KeysSpec

\* A row never goes back to an older key, except by the late write of a POST
\* that had ended for the sender.
THEOREM UploadsInOrder == OneTab /\ KeysSpec => EntriesMoveForward
<1> DEFINE Forward == \A m \in Members :
       (entry[m] # NoKey /\ entry'[m] # NoKey) =>
         \/ entry[m].kid <= entry'[m].kid
         \/ \E r \in landing \ landing' :
              r.to = m /\ entry'[m] = [kid |-> r.kid, epoch |-> r.epoch]
<1>1. OneTab /\ KeysInit => KeysIndInv
  BY KeysInitKeeps
<1>2. OneTab /\ KeysIndInv /\ [KeysNext]_keysVars => KeysIndInv'
  BY KeysStepKeeps
<1>3. OneTab => OneTab'
  BY DEF OneTab
<1>4. KeysIndInv /\ [KeysNext]_keysVars => [Forward]_keysVars
  BY RowsMoveForward
<1> QED
  BY <1>1, <1>2, <1>3, <1>4, PTL DEF KeysSpec, EntriesMoveForward

-----------------------------------------------------------------------------
(* Proofs about GroupReceive, for every number of calls in flight, every   *)
(* MaxSkip and every number of messages: the lost updates of the unlocked  *)
(* read-modify-write in decryptFromGroup never lose an unread message.     *)
(* The argument is that every record a call may save was computed from a   *)
(* record that was stored once, and that message_key_for gives up exactly  *)
(* one key, the one of the message it opens.                               *)

\* message_key_for gives up no key but the one it returns.
LEMMA OnlyTheTargetIsConsumed ==
  ASSUME NEW rs \in ReceiverStates, NEW i \in Nat, HasMessageKey(rs, i),
         NEW k \in Nat, k # i, Derivable(rs, k)
  PROVE  Derivable(AfterMessageKey(rs, i), k)
<1>1. rs.iteration \in Nat
  BY DEF ReceiverStates
<1>2. CASE i \in rs.skipped
  BY <1>2 DEF AfterMessageKey, TakeSkipped, Derivable, ReceiverStates
<1>3. CASE i \notin rs.skipped
  <2>1. rs.iteration <= i
    BY <1>3 DEF HasMessageKey
  <2>2. k \in rs.skipped \/ k \in rs.iteration .. (i - 1) \/ i + 1 <= k
    BY <1>1, <2>1 DEF Derivable
  <2> QED
    BY <1>3, <2>2 DEF AfterMessageKey, AdvanceTo, Passed, Derivable
<1> QED
  BY <1>2, <1>3

\* A key taken from the cache or from the chain leaves a receiver state.
LEMMA AfterMessageKeyIsState ==
  ASSUME NEW rs \in ReceiverStates, NEW i \in Nat
  PROVE  AfterMessageKey(rs, i) \in ReceiverStates
BY DEF AfterMessageKey, TakeSkipped, AdvanceTo, Passed, ReceiverStates

\* A fresh record (process_distribution_message at iteration 0) has every key.
LEMMA FreshHasEveryKey ==
  /\ NewReceiverState(0) \in ReceiverStates
  /\ \A k \in Nat : Derivable(NewReceiverState(0), k)
BY DEF NewReceiverState, ReceiverStates, Derivable

\* Before anything is sent no record is stored and no call is in flight.
LEMMA InitIndInv == Init => IndInv
<1> SUFFICES ASSUME Init PROVE IndInv
  OBVIOUS
<1>1. TypeOK
  BY MessagesAssumption DEF Init, TypeOK, CallStates
<1>2. UnreadStaysReadable
  BY DEF Init, UnreadStaysReadable
<1>3. InFlightStaysReadable
  BY DEF Init, InFlightStaysReadable, Idle
<1> QED
  BY <1>1, <1>2, <1>3 DEF IndInv

\* A call replaced by one that is not a decrypt adds no record in flight.
LEMMA OtherCallsKeepTheirRecords ==
  ASSUME TypeOK, InFlightStaysReadable, NEW d \in Calls, NEW new \in CallStates,
         new.op # "decrypt", call' = [call EXCEPT ![d] = new],
         opened \subseteq opened'
  PROVE  InFlightStaysReadable'
<1> SUFFICES ASSUME NEW c \in Calls, call'[c].op = "decrypt",
                    NEW k \in Messages \ (opened' \cup {call'[c].msg})
             PROVE  Derivable(call'[c].result, k)
  BY DEF InFlightStaysReadable
<1>1. c # d /\ call'[c] = call[c]
  BY DEF TypeOK
<1> QED
  BY <1>1 DEF InFlightStaysReadable

\* Every step keeps every key that is still needed derivable.
LEMMA NextIndInv == IndInv /\ [Next]_vars => IndInv'
<1> SUFFICES ASSUME IndInv, [Next]_vars PROVE IndInv'
  OBVIOUS
<1>1. TypeOK /\ UnreadStaysReadable /\ InFlightStaysReadable
  BY DEF IndInv
<1>2. Messages \subseteq Nat
  BY MessagesAssumption DEF Messages
<1>3. Idle \in CallStates /\ Idle.op # "decrypt"
  BY DEF CallStates, Idle
<1>4. CASE Send
  <2>1. TypeOK'
    BY <1>1, <1>4, MessagesAssumption DEF Send, TypeOK
  <2> QED
    BY <1>1, <1>4, <2>1
       DEF Send, IndInv, UnreadStaysReadable, InFlightStaysReadable
<1>5. ASSUME NEW c \in Calls, InstallLoad(c)
      PROVE  IndInv'
  <2> DEFINE new == [op |-> "install"]
  <2>1. new \in CallStates /\ new.op # "decrypt"
    BY DEF CallStates
  <2>2. TypeOK'
    BY <1>1, <1>5, <2>1 DEF InstallLoad, Becomes, TypeOK
  <2>3. UnreadStaysReadable'
    BY <1>1, <1>5 DEF InstallLoad, UnreadStaysReadable
  <2>4. InFlightStaysReadable'
    BY <1>1, <1>5, <2>1, OtherCallsKeepTheirRecords DEF InstallLoad, Becomes
  <2> QED
    BY <2>2, <2>3, <2>4 DEF IndInv
<1>6. ASSUME NEW c \in Calls, InstallSave(c)
      PROVE  IndInv'
  <2>1. TypeOK'
    BY <1>1, <1>3, <1>6, FreshHasEveryKey DEF InstallSave, Becomes, TypeOK
  <2>2. UnreadStaysReadable'
    BY <1>2, <1>6, FreshHasEveryKey DEF InstallSave, UnreadStaysReadable
  <2>3. InFlightStaysReadable'
    BY <1>1, <1>3, <1>6, OtherCallsKeepTheirRecords DEF InstallSave, Becomes
  <2> QED
    BY <2>1, <2>2, <2>3 DEF IndInv
<1>7. ASSUME NEW c \in Calls, NEW by \in Readers, NEW i \in Messages,
             DecryptLoad(c, by, i)
      PROVE  IndInv'
  <2> DEFINE new == [op |-> "decrypt", msg |-> i, by |-> by,
                     result |-> AfterMessageKey(receiver, i)]
  <2>1. receiver \in ReceiverStates /\ HasMessageKey(receiver, i)
    BY <1>1, <1>7 DEF DecryptLoad, TypeOK
  <2>2. AfterMessageKey(receiver, i) \in ReceiverStates
    BY <1>2, <2>1, AfterMessageKeyIsState
  <2>3. new \in CallStates
    BY <2>2 DEF CallStates
  <2>4. TypeOK'
    BY <1>1, <1>7, <2>3 DEF DecryptLoad, Becomes, TypeOK
  <2>5. UnreadStaysReadable'
    BY <1>1, <1>7 DEF DecryptLoad, UnreadStaysReadable
  <2>6. ASSUME NEW d \in Calls, call'[d].op = "decrypt",
               NEW k \in Messages \ (opened \cup {call'[d].msg})
        PROVE  Derivable(call'[d].result, k)
    <3>1. CASE d # c
      <4>1. call'[d] = call[d]
        BY <1>1, <1>7, <3>1 DEF DecryptLoad, Becomes, TypeOK
      <4> QED
        BY <1>1, <2>6, <4>1 DEF InFlightStaysReadable
    <3>2. CASE d = c
      <4>1. call'[d] = new
        BY <1>1, <1>7, <3>2 DEF DecryptLoad, Becomes, TypeOK
      <4>2. k # i /\ k \notin opened
        BY <2>6, <4>1
      <4>3. Derivable(receiver, k)
        BY <1>1, <1>7, <4>2 DEF DecryptLoad, UnreadStaysReadable
      <4> QED
        BY <1>2, <2>1, <4>1, <4>2, <4>3, OnlyTheTargetIsConsumed
    <3> QED
      BY <3>1, <3>2
  <2>7. InFlightStaysReadable'
    BY <1>7, <2>6 DEF DecryptLoad, InFlightStaysReadable
  <2> QED
    BY <2>4, <2>5, <2>7 DEF IndInv
<1>8. ASSUME NEW c \in Calls, DecryptSave(c)
      PROVE  IndInv'
  <2>1. /\ call[c].op = "decrypt"
        /\ call[c].msg \in Messages
        /\ call[c].result \in ReceiverStates
    <3>1. call[c] \in CallStates /\ call[c].op = "decrypt"
      BY <1>1, <1>8 DEF DecryptSave, TypeOK
    <3> QED
      BY <3>1 DEF CallStates, Idle
  <2> DEFINE new == IF call[c].by = "sidebar" THEN Idle
                    ELSE [op |-> "keep", msg |-> call[c].msg]
  <2>2. new \in CallStates /\ new.op # "decrypt"
    BY <1>3, <2>1 DEF CallStates
  <2>3. TypeOK'
    BY <1>1, <1>8, <2>1, <2>2 DEF DecryptSave, Becomes, TypeOK
  <2>4. UnreadStaysReadable'
    BY <1>1, <1>8, <2>1
       DEF DecryptSave, UnreadStaysReadable, InFlightStaysReadable
  <2>5. InFlightStaysReadable'
    BY <1>1, <1>8, <2>2, OtherCallsKeepTheirRecords DEF DecryptSave, Becomes
  <2> QED
    BY <2>3, <2>4, <2>5 DEF IndInv
<1>9. ASSUME NEW c \in Calls, Keep(c)
      PROVE  IndInv'
  <2>1. call[c].msg \in Messages
    <3>1. call[c] \in CallStates /\ call[c].op = "keep"
      BY <1>1, <1>9 DEF Keep, TypeOK
    <3> QED
      BY <3>1 DEF CallStates, Idle
  <2>2. TypeOK'
    BY <1>1, <1>3, <1>9, <2>1 DEF Keep, Becomes, TypeOK
  <2>3. UnreadStaysReadable'
    BY <1>1, <1>9 DEF Keep, UnreadStaysReadable
  <2>4. InFlightStaysReadable'
    BY <1>1, <1>3, <1>9, OtherCallsKeepTheirRecords DEF Keep, Becomes
  <2> QED
    BY <2>2, <2>3, <2>4 DEF IndInv
<1>10. CASE Reload
  <2>1. TypeOK'
    BY <1>1, <1>3, <1>10 DEF Reload, TypeOK
  <2>2. UnreadStaysReadable' /\ InFlightStaysReadable'
    BY <1>1, <1>3, <1>10 DEF Reload, UnreadStaysReadable, InFlightStaysReadable
  <2> QED
    BY <2>1, <2>2 DEF IndInv
<1>11. CASE UNCHANGED vars
  BY <1>1, <1>11
     DEF vars, IndInv, TypeOK, UnreadStaysReadable, InFlightStaysReadable
<1> QED
  BY <1>4, <1>5, <1>6, <1>7, <1>8, <1>9, <1>10, <1>11 DEF Next

\* Type correctness of the stored and in-flight records.
THEOREM ReceiveTypeCorrect == Spec => []TypeOK
<1>1. IndInv => TypeOK
  BY DEF IndInv
<1>2. Spec => []IndInv
  BY InitIndInv, NextIndInv, PTL DEF Spec
<1> QED
  BY <1>1, <1>2, PTL

\* No interleaving of unlocked decrypts, prefetches and reloads makes a message
\* that was not opened underivable from the stored record.
THEOREM NoLostMessage == Spec => []UnreadStaysReadable
<1>1. IndInv => UnreadStaysReadable
  BY DEF IndInv
<1>2. Spec => []IndInv
  BY InitIndInv, NextIndInv, PTL DEF Spec
<1> QED
  BY <1>1, <1>2, PTL

\* Nor does a record a decrypt is about to save.
THEOREM NoLostMessageInFlight == Spec => []InFlightStaysReadable
<1>1. IndInv => InFlightStaysReadable
  BY DEF IndInv
<1>2. Spec => []IndInv
  BY InitIndInv, NextIndInv, PTL DEF Spec
<1> QED
  BY <1>1, <1>2, PTL
-----------------------------------------------------------------------------
(* Problem reports.                                                        *)

\* Submissions are numbered, and as many reports were stored and forms thanked
\* for as there were submissions at most.
SubmitNos == {s.no : s \in submits}
UnstoredNos == {s.no : s \in {q \in submits : q.at # "stored"}}
SubmitsCount ==
  /\ \A s, q \in submits : s.no = q.no => s = q
  /\ \A s \in submits : s.no <= submitted
  /\ Len(reports) + Cardinality(UnstoredNos) <= submitted
  /\ closers + Cardinality(SubmitNos) <= submitted
  /\ form.open => form.mount >= 1

\* An image is of one report or of one submission on its way.
FilesApart ==
  /\ \A s \in submits : s.file \in {0, s.no} /\ (s.at = "upload" => s.file = 0)
  /\ \A i \in DOMAIN reports :
       /\ reports[i].file <= submitted
       /\ reports[i].file # 0 =>
            /\ \A s \in submits : s.at # "stored" => reports[i].file # s.no
            /\ \A j \in DOMAIN reports : reports[j].file = reports[i].file => i = j

\* It is there until it is asked to be removed, which only the closing of its
\* report does.
FilesThere ==
  /\ \A s \in submits : s.at = "post" /\ s.file # 0 => s.file \in images
  /\ \A f \in purges : \E i \in DOMAIN reports : reports[i].file = f /\ i \in closing

\* Of the last fetch the query is the one that stands.
LastFetch ==
  /\ \A f \in fetches : f.no <= fetched /\ (f.no = fetched => f.query = desk.query)
  /\ desk.from <= fetched /\ (desk.from = fetched => desk.shown = desk.query)

\* Changes are numbered; those that something is late for were stored.
ChangeNos ==
  /\ \A p, q \in patches : p.no = q.no => p = q
  /\ \A p \in patches : /\ p.no <= patched /\ p.id \in DOMAIN reports
                        /\ p.change.no = p.no /\ p.change.id = p.id
WasStored(late) ==
  \A c \in late : c.no <= patched /\ \A p \in patches : p.no = c.no => p.stored
LateStored ==
  /\ \A f \in fetches : WasStored(f.late) /\ (f.list # {} => "list" \in f.got)
  /\ \A p \in patches : WasStored(p.late)
ListedThere ==
  /\ \A e \in desk.list : e.id \in DOMAIN reports
  /\ \A f \in fetches : \A e \in f.list : e.id \in DOMAIN reports

\* What differs from the rows is explained: a change that was stored will be
\* answered, or was and is not known to the list.
Fields == {"status", "note"}
ValueOf(r, field) == IF field = "status" THEN r.status ELSE r.note
Given(change) == IF change.field = "status" THEN change.status ELSE change.no
Stands(i, field, v) == ValueOf(reports[i], field) = v
Fixes(q, i, field) ==
  q.stored /\ q.id = i /\ q.change.field = field /\ Stands(i, field, Given(q.change))
Explained(late, i, field) ==
  \E c \in late : /\ c.id = i
                  /\ \A q \in patches : q.no = c.no => Fixes(q, i, field)
DeskKnown ==
  \A e \in desk.list, field \in Fields :
    e.id \in stale \/ Stands(e.id, field, ValueOf(e, field)) \/ \E q \in patches : Fixes(q, e.id, field)
FetchesKnown ==
  \A f \in fetches : \A e \in f.list, field \in Fields :
    Stands(e.id, field, ValueOf(e, field)) \/ Explained(f.late, e.id, field)
AnswersKnown ==
  \A p \in patches : p.stored =>
    Stands(p.id, p.change.field, Given(p.change)) \/ Explained(p.late, p.id, p.change.field)

FormInv == SubmitsCount /\ FilesApart /\ FilesThere /\ ScreenshotKept
DeskInv ==
  /\ LastFetch /\ ChangeNos /\ LateStored /\ ListedThere
  /\ DeskKnown /\ FetchesKnown /\ AnswersKnown
ReportIndInv == ReportTypeOK /\ FormInv /\ DeskInv

LEMMA BoundsAre ==
  /\ Take \in Nat /\ Take >= 1 /\ MaxForms \in Nat /\ MaxForms >= 1 /\ MaxSubmits \in Nat /\ MaxSubmits >= 1
  /\ MaxFetches \in Nat /\ MaxFetches >= 1 /\ MaxPatches \in Nat /\ MaxPatches >= 1
BY ReportBounds

\* There are never more pages than reports.
LEMMA PagesBounded ==
  ASSUME NEW total \in Nat
  PROVE  PageCount(total) \in Nat /\ PageCount(total) <= total
<1>1. Take \in Nat /\ Take >= 1
  BY BoundsAre
<1>2. PICK q : q = (total + Take - 1) \div Take
  OBVIOUS
<1>3. q \in Int /\ Take * q <= total + Take - 1 /\ total + Take - 1 < Take * (q + 1)
  BY <1>1, <1>2
<1>4. q >= 0
  BY <1>1, <1>3
<1>5. ASSUME q > total PROVE FALSE
  <2>1. q - 1 >= total /\ q - 1 \in Nat
    BY <1>3, <1>5
  <2>2. Take * (q - 1) >= q - 1
    BY <1>1, <2>1
  <2>3. Take * (q - 1) = Take * q - Take
    BY <1>1, <1>3
  <2> QED
    BY <1>1, <1>3, <2>1, <2>2, <2>3
<1> QED
  BY <1>2, <1>3, <1>4, <1>5 DEF PageCount

Rows == [file : 0 .. MaxSubmits, status : Statuses, note : Notes]

LEMMA RowIs ==
  ASSUME ReportTypeOK, NEW i \in DOMAIN reports
  PROVE  /\ reports[i] \in Rows /\ i \in Nat /\ i >= 1 /\ i <= Len(reports) /\ Len(reports) \in Nat
         /\ reports[i].file \in Nat /\ reports[i].status \in Statuses /\ reports[i].note \in Notes
         /\ DOMAIN reports = 1 .. Len(reports)
<1>1. reports \in Seq(Rows)
  BY DEF ReportTypeOK, Rows
<1>2. DOMAIN reports = 1 .. Len(reports) /\ Len(reports) \in Nat
  BY <1>1
<1>3. reports[i] \in Rows
  BY <1>1, <1>2
<1> QED
  BY <1>2, <1>3, BoundsAre DEF Rows

LEMMA IdsAre ==
  ASSUME ReportTypeOK, SubmitsCount
  PROVE  /\ Len(reports) \in Nat /\ Len(reports) <= MaxSubmits /\ DOMAIN reports = 1 .. Len(reports)
         /\ DOMAIN reports \subseteq ReportIds /\ IsFiniteSet(DOMAIN reports)
         /\ Cardinality(DOMAIN reports) = Len(reports)
         /\ submitted \in Nat /\ submitted <= MaxSubmits /\ MaxSubmits \in Nat
<1>1. DOMAIN reports = 1 .. Len(reports) /\ Len(reports) \in Nat
  BY DEF ReportTypeOK
<1>2. submitted \in Nat /\ submitted <= MaxSubmits /\ MaxSubmits \in Nat
  BY BoundsAre DEF ReportTypeOK
<1>3. UnstoredNos \subseteq 0 .. submitted
  BY <1>2 DEF SubmitsCount, UnstoredNos, ReportTypeOK, ReportIds
<1>4. IsFiniteSet(0 .. submitted)
  BY <1>2, FS_Interval
<1>5. Cardinality(UnstoredNos) \in Nat
  BY <1>3, <1>4, FS_Subset, FS_CardinalityType
<1>6. Len(reports) <= submitted
  BY <1>1, <1>2, <1>5 DEF SubmitsCount
<1>7. IsFiniteSet(1 .. Len(reports)) /\ Cardinality(1 .. Len(reports)) = Len(reports)
  <2>1. PICK n \in Nat : n = Len(reports)
    BY <1>1
  <2>2. IsFiniteSet(1 .. n) /\ Cardinality(1 .. n) = n
    BY FS_Interval
  <2> QED
    BY <2>1, <2>2
<1> QED
  BY <1>1, <1>2, <1>6, <1>7 DEF ReportIds

LEMMA DeskIs ==
  ASSUME ReportTypeOK
  PROVE  /\ desk \in Desks /\ desk.query \in Queries /\ desk.list \subseteq Entries /\ desk.total \in 0 .. MaxSubmits
         /\ desk.shown \in Queries /\ desk.from \in Nat /\ fetched \in Nat /\ patched \in Nat
         /\ desk.open \in BOOLEAN /\ desk.loading \in BOOLEAN
BY BoundsAre DEF ReportTypeOK, Desks

LEMMA FetchIs ==
  ASSUME ReportTypeOK, NEW f \in fetches
  PROVE  /\ f \in Fetches /\ f.no \in 1 .. MaxFetches /\ f.no \in Nat /\ f.query \in Queries
         /\ f.got \subseteq {"list", "total"} /\ f.list \subseteq Entries /\ f.total \in 0 .. MaxSubmits
         /\ f.late \subseteq Changes
BY BoundsAre DEF ReportTypeOK, Fetches

LEMMA PatchIs ==
  ASSUME ReportTypeOK, NEW p \in patches
  PROVE  /\ p \in Patches /\ p.no \in 1 .. MaxPatches /\ p.no \in Nat /\ p.id \in ReportIds
         /\ p.change \in ChangeKinds /\ p.stored \in BOOLEAN /\ p.late \subseteq Changes
BY BoundsAre DEF ReportTypeOK, Patches

LEMMA ChangeIs ==
  ASSUME NEW c \in ChangeKinds
  PROVE  /\ c.no \in 1 .. MaxPatches /\ c.no \in Nat /\ c.no \in Notes /\ c.id \in ReportIds /\ c.field \in Fields
         /\ c.field = "status" => c.status \in Statuses
BY BoundsAre DEF ChangeKinds, Fields, Notes

LEMMA ChangedIs ==
  ASSUME NEW c \in ChangeKinds, NEW D, NEW r \in D,
         D = Rows \/ D = Entries
  PROVE  /\ Changed(r, c) \in D
         /\ D = Rows => Changed(r, c).file = r.file
         /\ D = Entries => Changed(r, c).id = r.id
         /\ ValueOf(Changed(r, c), c.field) = Given(c)
         /\ \A field \in Fields : field # c.field => ValueOf(Changed(r, c), field) = ValueOf(r, field)
<1>1. CASE D = Rows
  <2>1. CASE c.field = "status"
    BY <1>1, <2>1, ChangeIs DEF Changed, Rows, ValueOf, Given, Fields
  <2>2. CASE c.field = "note"
    BY <1>1, <2>2, ChangeIs DEF Changed, Rows, ValueOf, Given, Fields
  <2> QED
    BY <2>1, <2>2, ChangeIs DEF Fields
<1>2. CASE D = Entries
  <2>1. CASE c.field = "status"
    BY <1>2, <2>1, ChangeIs DEF Changed, Entries, ValueOf, Given, Fields
  <2>2. CASE c.field = "note"
    BY <1>2, <2>2, ChangeIs DEF Changed, Entries, ValueOf, Given, Fields
  <2> QED
    BY <2>1, <2>2, ChangeIs DEF Fields
<1> QED
  BY <1>1, <1>2

LEMMA NosFinite ==
  ASSUME ReportTypeOK, SubmitsCount, NEW T, T \subseteq SubmitNos
  PROVE  /\ IsFiniteSet(T) /\ Cardinality(T) \in Nat
         /\ \A V \in SUBSET T : IsFiniteSet(V) /\ Cardinality(V) \in Nat /\ Cardinality(V) <= Cardinality(T)
<1>1. submitted \in Nat
  BY IdsAre
<1>2. SubmitNos \subseteq 0 .. submitted
  BY <1>1 DEF SubmitsCount, SubmitNos, ReportTypeOK, ReportIds
<1>3. IsFiniteSet(0 .. submitted)
  BY <1>1, FS_Interval
<1>4. IsFiniteSet(T)
  BY <1>2, <1>3, FS_Subset
<1>5. \A V \in SUBSET T : IsFiniteSet(V) /\ Cardinality(V) <= Cardinality(T)
  BY <1>4, FS_Subset
<1> QED
  BY <1>4, <1>5, FS_CardinalityType

SubmitCalls == [no : ReportIds, mount : 1 .. MaxForms, file : 0 .. MaxSubmits, at : {"upload", "post", "stored"}]

LEMMA SubmitIs ==
  ASSUME ReportTypeOK, NEW s \in submits
  PROVE  /\ s \in SubmitCalls /\ s.no \in ReportIds /\ s.no \in Nat /\ s.no >= 1 /\ s.mount \in 1 .. MaxForms
         /\ s.file \in 0 .. MaxSubmits /\ s.at \in {"upload", "post", "stored"}
         /\ s.no \in SubmitNos /\ (s.at # "stored" => s.no \in UnstoredNos)
<1>1. s \in SubmitCalls
  BY DEF ReportTypeOK, SubmitCalls
<1>2. s.no \in SubmitNos /\ (s.at # "stored" => s.no \in UnstoredNos)
  BY DEF SubmitNos, UnstoredNos
<1> QED
  BY <1>1, <1>2, BoundsAre DEF SubmitCalls, ReportIds

\* A step that leaves the rows, the images and the submissions alone; and one
\* that leaves the rows and the administrator's page alone.
LEMMA FormKept ==
  ASSUME FormInv, UNCHANGED <<reports, images, purges, form, submits, submitted, closers, closing>>
  PROVE  FormInv'
BY DEF FormInv, SubmitsCount, SubmitNos, UnstoredNos, FilesApart, FilesThere, ScreenshotKept

LEMMA DeskKept ==
  ASSUME DeskInv, UNCHANGED <<reports, desk, fetches, fetched, patches, patched, stale>>
  PROVE  DeskInv'
<1>1. LastFetch' /\ ChangeNos' /\ LateStored' /\ ListedThere'
  BY DEF DeskInv, LastFetch, ChangeNos, LateStored, WasStored, ListedThere
<1>2. DeskKnown' /\ FetchesKnown' /\ AnswersKnown'
  BY DEF DeskInv, DeskKnown, FetchesKnown, AnswersKnown, Explained, Fixes, Stands
<1> QED
  BY <1>1, <1>2 DEF DeskInv

LEMMA FormStepsKeep ==
  ASSUME ReportIndInv, OpenForm \/ CloseForm \/ CloseTimer \/ ChooseImage
  PROVE  ReportIndInv'
<1> USE DEF ReportIndInv
<1>1. /\ UNCHANGED <<reports, images, purges, submits, submitted, desk, fetches, fetched, patches, patched, closing, stale>>
      /\ closers' = closers \/ (closers > 0 /\ closers' = closers - 1)
  BY DEF OpenForm, CloseForm, CloseTimer, ChooseImage, deskVars
<1>2. form' \in [open : BOOLEAN, mount : 0 .. MaxForms, image : BOOLEAN, busy : BOOLEAN, sent : BOOLEAN]
  <2>1. form \in [open : BOOLEAN, mount : 0 .. MaxForms, image : BOOLEAN, busy : BOOLEAN, sent : BOOLEAN]
    BY DEF ReportTypeOK
  <2>2. CASE OpenForm
    <3>1. form.mount + 1 \in 0 .. MaxForms
      BY <2>1, <2>2, BoundsAre DEF OpenForm
    <3> QED
      BY <2>2, <3>1 DEF OpenForm
  <2>3. CASE CloseForm \/ CloseTimer \/ ChooseImage
    BY <2>1, <2>3 DEF CloseForm, CloseTimer, ChooseImage
  <2> QED
    BY <2>2, <2>3
<1>3. closers \in Nat /\ closers' \in Nat /\ closers' <= closers /\ closers' \in 0 .. MaxSubmits
  BY <1>1, BoundsAre DEF ReportTypeOK
<1>4. ReportTypeOK'
  BY <1>1, <1>2, <1>3 DEF ReportTypeOK
<1>5. FormInv'
  <2>1. Cardinality(SubmitNos) \in Nat /\ submitted \in Nat
    BY NosFinite, IdsAre DEF FormInv
  <2>2. form'.open => form'.mount >= 1
    BY DEF OpenForm, CloseForm, CloseTimer, ChooseImage, ReportTypeOK, FormInv, SubmitsCount
  <2>3. SubmitsCount'
    BY <1>1, <1>3, <2>1, <2>2 DEF FormInv, SubmitsCount, SubmitNos, UnstoredNos
  <2> QED
    BY <1>1, <2>3 DEF FormInv, FilesApart, FilesThere, ScreenshotKept
<1>6. DeskInv'
  BY <1>1, DeskKept
<1> QED
  BY <1>4, <1>5, <1>6

LEMMA SubmitKeeps ==
  ASSUME ReportIndInv, Submit
  PROVE  ReportIndInv'
<1> USE DEF ReportIndInv
<1>0. submitted \in Nat /\ MaxSubmits \in Nat /\ closers \in Nat /\ Len(reports) \in Nat
  BY IdsAre DEF FormInv, ReportTypeOK
<1>1. /\ UNCHANGED <<reports, images, purges, closers, desk, fetches, fetched, patches, patched, closing, stale>>
      /\ form.open /\ submitted < MaxSubmits /\ submitted' = submitted + 1 /\ form' = [form EXCEPT !.busy = TRUE]
  BY DEF Submit, deskVars
<1>2. PICK s : s = Submitted
  OBVIOUS
<1>3. /\ submits' = submits \cup {s} /\ s.no = submitted + 1 /\ s.file = 0 /\ s.at \in {"upload", "post"}
      /\ s.mount = form.mount
  BY <1>2 DEF Submit, Submitted
<1>4. ReportTypeOK'
  <2>1. form' \in [open : BOOLEAN, mount : 0 .. MaxForms, image : BOOLEAN, busy : BOOLEAN, sent : BOOLEAN]
    BY <1>1 DEF ReportTypeOK
  <2>2. form.mount \in 1 .. MaxForms
    BY <1>1, BoundsAre DEF ReportTypeOK, FormInv, SubmitsCount
  <2>3. s \in SubmitCalls
    <3>1. s = [no |-> submitted + 1, mount |-> form.mount, file |-> 0,
               at |-> IF form.image THEN "upload" ELSE "post"]
      BY <1>2 DEF Submitted
    <3>2. submitted + 1 \in ReportIds /\ 0 \in 0 .. MaxSubmits
      BY <1>0, <1>1 DEF ReportIds
    <3> QED
      BY <2>2, <3>1, <3>2 DEF SubmitCalls
  <2>4. submitted' \in 0 .. MaxSubmits
    BY <1>0, <1>1
  <2> QED
    BY <1>1, <1>3, <2>1, <2>3, <2>4 DEF ReportTypeOK, SubmitCalls
<1>5. SubmitsCount'
  <2>1. SubmitNos' = SubmitNos \cup {submitted + 1} /\ UnstoredNos' = UnstoredNos \cup {submitted + 1}
    BY <1>3 DEF SubmitNos, UnstoredNos
  <2>2. PICK N, U : N = SubmitNos /\ U = UnstoredNos
    OBVIOUS
  <2>3. UnstoredNos \subseteq SubmitNos
    BY DEF UnstoredNos, SubmitNos
  <2>4. IsFiniteSet(N) /\ Cardinality(N) \in Nat /\ IsFiniteSet(U) /\ Cardinality(U) \in Nat
    BY <2>2, <2>3, NosFinite DEF FormInv
  <2>5. /\ Cardinality(N \cup {submitted + 1}) \in {Cardinality(N), Cardinality(N) + 1}
        /\ Cardinality(U \cup {submitted + 1}) \in {Cardinality(U), Cardinality(U) + 1}
    BY <2>4, FS_AddElement
  <2>6. Len(reports) + Cardinality(U) <= submitted /\ closers + Cardinality(N) <= submitted
    BY <2>2 DEF FormInv, SubmitsCount
  <2>7. Len(reports') + Cardinality(UnstoredNos') <= submitted' /\ closers' + Cardinality(SubmitNos') <= submitted'
    BY <1>0, <1>1, <2>1, <2>2, <2>4, <2>5, <2>6
  <2>8. \A q \in submits : q.no \in Nat /\ q.no <= submitted
    BY SubmitIs DEF FormInv, SubmitsCount
  <2>9. \A q, r \in submits' : q.no = r.no => q = r
    <3>1. \A q \in submits : q.no # s.no
      BY <1>0, <1>3, <2>8
    <3> QED
      BY <1>3, <3>1 DEF FormInv, SubmitsCount
  <2>10. \A q \in submits' : q.no <= submitted'
    BY <1>0, <1>1, <1>3, <2>8
  <2>11. form'.open => form'.mount >= 1
    BY <1>1 DEF ReportTypeOK, FormInv, SubmitsCount
  <2> QED
    BY <2>7, <2>9, <2>10, <2>11 DEF SubmitsCount
<1>6. FilesApart'
  <2>1. \A i \in DOMAIN reports : reports[i].file <= submitted /\ reports[i].file \in Nat
    BY RowIs DEF FormInv, FilesApart
  <2>2. \A i \in DOMAIN reports : reports[i].file <= submitted' /\ reports[i].file # s.no
    BY <1>0, <1>1, <1>3, <2>1
  <2> QED
    BY <1>1, <1>3, <2>2 DEF FormInv, FilesApart
<1>7. FilesThere' /\ ScreenshotKept'
  BY <1>1, <1>3 DEF FormInv, FilesThere, ScreenshotKept
<1>8. DeskInv'
  BY <1>1, DeskKept
<1> QED
  BY <1>4, <1>5, <1>6, <1>7, <1>8 DEF FormInv

\* The upload ends; the report is stored; the form hears of it.
LEMMA UploadEndsKeeps ==
  ASSUME ReportIndInv, NEW s \in submits, UploadEnds(s)
  PROVE  ReportIndInv'
<1> USE DEF ReportIndInv
<1>1. /\ UNCHANGED <<reports, purges, form, submitted, closers, desk, fetches, fetched, patches, patched, closing, stale>>
      /\ s.at = "upload" /\ s \in SubmitCalls /\ s.no \in ReportIds
  BY SubmitIs DEF UploadEnds, deskVars
<1>2. PICK s2 : /\ submits' = (submits \ {s}) \cup {s2}
                /\ s2 \in SubmitCalls /\ s2.no = s.no /\ s2.at = "post" /\ s2.file \in {0, s.no}
                /\ s2.file # 0 => s2.file \in images'
  <2>1. CASE SubmitBecomes(s, {[s EXCEPT !.at = "post", !.file = s.no]}) /\ images' = images \cup {s.no}
    <3>1. PICK s2 : s2 = [s EXCEPT !.at = "post", !.file = s.no]
      OBVIOUS
    <3>0. s.no \in 0 .. MaxSubmits
      BY <1>1, BoundsAre DEF ReportIds
    <3>2. s2 \in SubmitCalls /\ s2.no = s.no /\ s2.at = "post" /\ s2.file = s.no
      BY <1>1, <3>0, <3>1 DEF SubmitCalls
    <3>3. submits' = (submits \ {s}) \cup {s2} /\ s2.file \in images'
      BY <2>1, <3>1, <3>2 DEF SubmitBecomes
    <3> QED
      BY <3>2, <3>3
  <2>2. CASE SubmitBecomes(s, {[s EXCEPT !.at = "post"]})
    <3>1. PICK s2 : s2 = [s EXCEPT !.at = "post"]
      OBVIOUS
    <3>2. s.file = 0
      BY <1>1 DEF FormInv, FilesApart
    <3>3. s2 \in SubmitCalls /\ s2.no = s.no /\ s2.at = "post" /\ s2.file = 0
      BY <1>1, <3>1, <3>2 DEF SubmitCalls
    <3> QED
      BY <2>2, <3>1, <3>3 DEF SubmitBecomes
  <2> QED
    BY <2>1, <2>2 DEF UploadEnds
<1>3. images \subseteq images' /\ images' \subseteq images \cup {s.no}
  BY DEF UploadEnds
<1>4. ReportTypeOK'
  BY <1>1, <1>2, <1>3 DEF ReportTypeOK, SubmitCalls
<1>5. SubmitsCount'
  <2>1. SubmitNos' = SubmitNos
    BY <1>2 DEF SubmitNos
  <2>2. UnstoredNos' = UnstoredNos
    BY <1>1, <1>2 DEF UnstoredNos
  <2> QED
    BY <1>1, <1>2, <2>1, <2>2 DEF FormInv, SubmitsCount
<1>6. FilesApart' /\ FilesThere' /\ ScreenshotKept'
  BY <1>1, <1>2, <1>3 DEF FormInv, FilesApart, FilesThere, ScreenshotKept
<1>7. DeskInv'
  BY <1>1, DeskKept
<1> QED
  BY <1>4, <1>5, <1>6, <1>7 DEF FormInv

LEMMA SubmitEndsKeeps ==
  ASSUME ReportIndInv, NEW s \in submits, PostAnswered(s) \/ SubmitFails(s)
  PROVE  ReportIndInv'
<1> USE DEF ReportIndInv
<1>1. /\ UNCHANGED <<reports, images, purges, submitted, desk, fetches, fetched, patches, patched, closing, stale>>
      /\ submits' = submits \ {s}
      /\ closers' = closers \/ (s.at = "stored" /\ closers' = closers + 1)
  BY DEF PostAnswered, SubmitFails, SubmitBecomes, deskVars
<1>2. form' \in [open : BOOLEAN, mount : 0 .. MaxForms, image : BOOLEAN, busy : BOOLEAN, sent : BOOLEAN]
      /\ (form'.open => form'.mount >= 1)
  <2>1. form \in [open : BOOLEAN, mount : 0 .. MaxForms, image : BOOLEAN, busy : BOOLEAN, sent : BOOLEAN]
        /\ (form.open => form.mount >= 1)
    BY DEF ReportTypeOK, FormInv, SubmitsCount
  <2>2. form' \in {form, [form EXCEPT !.busy = FALSE, !.sent = TRUE], [form EXCEPT !.busy = FALSE]}
    BY DEF PostAnswered, SubmitFails
  <2> QED
    BY <2>1, <2>2
<1>3. closers \in Nat /\ submitted \in Nat /\ Len(reports) \in Nat /\ submitted <= MaxSubmits /\ MaxSubmits \in Nat
  BY IdsAre DEF FormInv, ReportTypeOK
<1>4. SubmitNos' = SubmitNos \ {s.no} /\ s.no \in SubmitNos
  BY <1>1 DEF SubmitNos, FormInv, SubmitsCount
<1>5. UnstoredNos' \subseteq UnstoredNos /\ UnstoredNos \subseteq SubmitNos
  BY <1>1 DEF SubmitNos, UnstoredNos
<1>6. /\ Cardinality(SubmitNos) \in Nat /\ Cardinality(SubmitNos') \in Nat
      /\ Cardinality(SubmitNos') = Cardinality(SubmitNos) - 1
      /\ Cardinality(UnstoredNos') \in Nat /\ Cardinality(UnstoredNos) \in Nat
      /\ Cardinality(UnstoredNos') <= Cardinality(UnstoredNos)
  <2>1. PICK N, U, V : N = SubmitNos /\ U = UnstoredNos /\ V = UnstoredNos'
    OBVIOUS
  <2>2. IsFiniteSet(N) /\ Cardinality(N) \in Nat
    BY <2>1, NosFinite DEF FormInv
  <2>3. IsFiniteSet(N \ {s.no}) /\ Cardinality(N \ {s.no}) = Cardinality(N) - 1
    BY <1>4, <2>1, <2>2, FS_RemoveElement
  <2>4. Cardinality(N \ {s.no}) \in Nat
    BY <2>3, FS_CardinalityType
  <2>5. V \in SUBSET U /\ U \subseteq SubmitNos
    BY <1>5, <2>1
  <2>6. Cardinality(U) \in Nat /\ Cardinality(V) \in Nat /\ Cardinality(V) <= Cardinality(U)
    BY <2>5, NosFinite DEF FormInv
  <2> QED
    BY <1>4, <2>1, <2>2, <2>3, <2>4, <2>6
<1>7. /\ Len(reports) + Cardinality(UnstoredNos) <= submitted
      /\ closers + Cardinality(SubmitNos) <= submitted
  BY DEF FormInv, SubmitsCount
<1>8. /\ Len(reports') + Cardinality(UnstoredNos') <= submitted'
      /\ closers' + Cardinality(SubmitNos') <= submitted' /\ closers' \in 0 .. MaxSubmits
  BY <1>1, <1>3, <1>6, <1>7
<1>9. SubmitsCount'
  BY <1>1, <1>2, <1>8 DEF FormInv, SubmitsCount
<1>10. ReportTypeOK'
  BY <1>1, <1>2, <1>8 DEF ReportTypeOK
<1>11. FilesApart' /\ FilesThere' /\ ScreenshotKept'
  BY <1>1 DEF FormInv, FilesApart, FilesThere, ScreenshotKept
<1>12. DeskInv'
  BY <1>1, DeskKept
<1> QED
  BY <1>9, <1>10, <1>11, <1>12 DEF FormInv

\* An image is removed: it was asked for when its report was closed.
LEMMA PurgeKeeps ==
  ASSUME ReportIndInv, Purge
  PROVE  ReportIndInv'
<1> USE DEF ReportIndInv
<1>1. UNCHANGED <<reports, form, submits, submitted, closers, desk, fetches, fetched, patches, patched, closing, stale>>
  BY DEF Purge, formVars, deskVars
<1>2. PICK f \in purges : purges' = purges \ {f} /\ images' \in {images, images \ {f}}
  BY DEF Purge
<1>3. PICK i \in DOMAIN reports : reports[i].file = f /\ i \in closing
  BY DEF FormInv, FilesThere
<1>4. f # 0
  BY DEF ReportTypeOK, ReportIds
<1>5. ReportTypeOK'
  BY <1>1, <1>2 DEF ReportTypeOK
<1>6. \A j \in DOMAIN reports : reports[j].file = f => j \in closing
  BY <1>3, <1>4 DEF FormInv, FilesApart
<1>7. ScreenshotKept'
  BY <1>1, <1>2, <1>6 DEF FormInv, ScreenshotKept
<1>8. \A s \in submits : s.at = "post" /\ s.file # 0 => s.file # f
  BY <1>3, <1>4 DEF FormInv, FilesApart
<1>9. FilesThere'
  BY <1>1, <1>2, <1>8 DEF FormInv, FilesThere
<1>10. SubmitsCount' /\ FilesApart'
  BY <1>1 DEF FormInv, SubmitsCount, SubmitNos, UnstoredNos, FilesApart
<1>11. DeskInv'
  BY <1>1, DeskKept
<1> QED
  BY <1>5, <1>7, <1>9, <1>10, <1>11 DEF FormInv

LEMMA CreateReportKeeps ==
  ASSUME ReportIndInv, NEW s \in submits, CreateReport(s)
  PROVE  ReportIndInv'
<1> USE DEF ReportIndInv
<1>1. /\ UNCHANGED <<images, purges, form, submitted, closers, desk, fetches, fetched, patches, patched, closing, stale>>
      /\ s.at = "post" /\ s \in SubmitCalls /\ s.no \in Nat /\ s.no \in UnstoredNos /\ s.file \in 0 .. MaxSubmits
      /\ s.file \in {0, s.no} /\ s.no <= submitted /\ s.no >= 1
  BY SubmitIs DEF CreateReport, deskVars, FormInv, FilesApart, SubmitsCount
<1>2. PICK s2 : /\ submits' = (submits \ {s}) \cup {s2} /\ s2 \in SubmitCalls
                /\ s2.no = s.no /\ s2.at = "stored" /\ s2.file = s.file /\ s2.mount = s.mount
  <2>1. PICK s2 : s2 = [s EXCEPT !.at = "stored"]
    OBVIOUS
  <2>2. s2 \in SubmitCalls /\ s2.no = s.no /\ s2.at = "stored" /\ s2.file = s.file /\ s2.mount = s.mount
    BY <1>1, <2>1 DEF SubmitCalls
  <2> QED
    BY <2>1, <2>2 DEF CreateReport, SubmitBecomes
<1>3. /\ Len(reports) \in Nat /\ DOMAIN reports = 1 .. Len(reports) /\ submitted \in Nat /\ closers \in Nat
      /\ submitted <= MaxSubmits
  BY IdsAre, BoundsAre DEF FormInv, ReportTypeOK
<1>4. PICK n, r : n = Len(reports) + 1 /\ r = [file |-> s.file, status |-> "NEW", note |-> 0]
  OBVIOUS
<1>5. /\ reports' \in Seq(Rows) /\ Len(reports') = n /\ DOMAIN reports' = DOMAIN reports \cup {n}
      /\ reports'[n] = r /\ n \notin DOMAIN reports
      /\ \A i \in DOMAIN reports : reports'[i] = reports[i]
  <2>1. reports \in Seq(Rows)
    BY DEF ReportTypeOK, Rows
  <2>2. r \in Rows
    BY <1>1, <1>4, BoundsAre DEF Rows, Statuses, Notes
  <2>3. reports' = Append(reports, r)
    BY <1>4 DEF CreateReport
  <2>4. Len(reports') = n /\ reports' \in Seq(Rows)
    BY <1>3, <1>4, <2>1, <2>2, <2>3
  <2>5. DOMAIN reports' = 1 .. n
    BY <2>4
  <2>6. DOMAIN reports' = DOMAIN reports \cup {n} /\ n \notin DOMAIN reports
    BY <1>3, <1>4, <2>5
  <2>7. reports'[n] = r /\ \A i \in DOMAIN reports : reports'[i] = reports[i]
    BY <1>3, <1>4, <2>1, <2>2, <2>3
  <2> QED
    BY <2>4, <2>6, <2>7
<1>6. ReportTypeOK'
  BY <1>1, <1>2, <1>5 DEF ReportTypeOK, Rows, SubmitCalls
<1>7. SubmitsCount'
  <2>1. SubmitNos' = SubmitNos
    BY <1>2 DEF SubmitNos
  <2>2. UnstoredNos' = UnstoredNos \ {s.no}
    BY <1>1, <1>2 DEF UnstoredNos, FormInv, SubmitsCount
  <2>3. UnstoredNos \subseteq SubmitNos
    BY DEF UnstoredNos, SubmitNos
  <2>4. IsFiniteSet(UnstoredNos) /\ Cardinality(UnstoredNos) \in Nat
    BY <2>3, NosFinite DEF FormInv
  <2>5. Cardinality(UnstoredNos \ {s.no}) = Cardinality(UnstoredNos) - 1
    BY <1>1, <2>4, FS_RemoveElement
  <2>6. Len(reports) + Cardinality(UnstoredNos) <= submitted /\ closers + Cardinality(SubmitNos) <= submitted
    BY DEF FormInv, SubmitsCount
  <2>7. Len(reports') + Cardinality(UnstoredNos') <= submitted'
    BY <1>1, <1>3, <1>4, <1>5, <2>2, <2>4, <2>5, <2>6
  <2> QED
    BY <1>1, <1>2, <2>1, <2>6, <2>7 DEF FormInv, SubmitsCount
<1>8. FilesApart'
  <2>1. reports'[n].file = s.file /\ s.file <= submitted
    BY <1>1, <1>3, <1>4, <1>5
  <2>2. \A i \in DOMAIN reports : reports'[i].file = reports[i].file
    BY <1>5
  <2>3. \A q \in submits' : q.file \in {0, q.no} /\ (q.at = "upload" => q.file = 0)
    BY <1>1, <1>2 DEF FormInv, FilesApart
  <2>4. \A q \in submits' : q.at # "stored" => q \in submits /\ q.no # s.no
    BY <1>2 DEF FormInv, SubmitsCount
  <2>5. \A i \in DOMAIN reports : reports[i].file # 0 => reports[i].file # s.file
    BY <1>1 DEF FormInv, FilesApart
  <2>6. \A i \in DOMAIN reports' : reports'[i].file <= submitted'
    BY <1>1, <1>5, <2>1, <2>2 DEF FormInv, FilesApart
  <2>7. \A i \in DOMAIN reports' : reports'[i].file # 0 => \A q \in submits' : q.at # "stored" => reports'[i].file # q.no
    BY <1>1, <1>5, <2>1, <2>2, <2>4 DEF FormInv, FilesApart
  <2>8. \A i \in DOMAIN reports' : reports'[i].file # 0 =>
          \A j \in DOMAIN reports' : reports'[j].file = reports'[i].file => i = j
    BY <1>5, <2>1, <2>2, <2>5 DEF FormInv, FilesApart
  <2> QED
    BY <2>3, <2>6, <2>7, <2>8 DEF FilesApart
<1>9. FilesThere' /\ ScreenshotKept'
  <2>1. \A i \in DOMAIN reports : reports'[i].file = reports[i].file
    BY <1>5
  <2>2. reports'[n].file = s.file /\ (s.file # 0 => s.file \in images)
    BY <1>1, <1>4, <1>5 DEF FormInv, FilesThere
  <2>3. ScreenshotKept'
    BY <1>1, <1>5, <2>1, <2>2 DEF FormInv, ScreenshotKept
  <2>4. \A f \in purges : \E i \in DOMAIN reports' : reports'[i].file = f /\ i \in closing
    BY <1>5, <2>1 DEF FormInv, FilesThere
  <2>5. \A q \in submits' : q.at = "post" => q \in submits
    BY <1>2
  <2> QED
    BY <1>1, <2>3, <2>4, <2>5 DEF FormInv, FilesThere
<1>10. DeskInv'
  <2>1. LastFetch' /\ LateStored'
    BY <1>1 DEF DeskInv, LastFetch, LateStored, WasStored
  <2>2. ChangeNos' /\ ListedThere'
    BY <1>1, <1>5 DEF DeskInv, ChangeNos, ListedThere
  <2>3. \A i \in DOMAIN reports : \A field, v : Stands(i, field, v)' <=> Stands(i, field, v)
    BY <1>5 DEF Stands
  <2>4. \A q \in patches : \A i, field : Fixes(q, i, field) => Fixes(q, i, field)'
    BY <1>5 DEF Fixes, Stands, DeskInv, ChangeNos
  <2>5. \A late, i, field : Explained(late, i, field) => Explained(late, i, field)'
    BY <1>1, <2>4 DEF Explained
  <2>6. DeskKnown'
    BY <1>1, <2>3, <2>4 DEF DeskInv, DeskKnown, ListedThere
  <2>7. FetchesKnown'
    BY <1>1, <2>3, <2>5 DEF DeskInv, FetchesKnown, ListedThere
  <2>8. AnswersKnown'
    BY <1>1, <2>3, <2>5 DEF DeskInv, AnswersKnown, ChangeNos
  <2> QED
    BY <2>1, <2>2, <2>6, <2>7, <2>8 DEF DeskInv
<1> QED
  BY <1>6, <1>7, <1>8, <1>9, <1>10 DEF FormInv

\* The query is set and a fetch goes out for it.
LEMMA AsksKeeps ==
  ASSUME ReportIndInv, SetFilter \/ SetPage \/ Refresh
  PROVE  ReportIndInv'
<1> USE DEF ReportIndInv
<1>1. UNCHANGED <<reports, images, purges, form, submits, submitted, closers, patches, patched, closing, stale>>
  BY DEF SetFilter, SetPage, Refresh, formVars
<1>2. PICK q \in Queries : Asks(q)
  <2>1. desk.query \in Queries /\ MaxSubmits \in Nat /\ MaxSubmits >= 1 /\ desk.total \in 0 .. MaxSubmits
    BY DeskIs, BoundsAre
  <2>2. CASE SetFilter
    <3>1. \A s \in Statuses \cup {"ALL"} : [status |-> s, page |-> 1] \in Queries
      BY <2>1 DEF Queries
    <3> QED
      BY <2>2, <3>1 DEF SetFilter
  <2>3. CASE SetPage
    <3>1. PICK n : n = PageCount(desk.total)
      OBVIOUS
    <3>2. n \in Nat /\ n <= MaxSubmits
      BY <2>1, <3>1, PagesBounded
    <3>3. desk.query.page \in 1 .. MaxSubmits + 1 /\ desk.query.status \in Statuses \cup {"ALL"}
      BY <2>1 DEF Queries
    <3>4. PICK a, b : a = [desk.query EXCEPT !.page = @ - 1] /\ b = [desk.query EXCEPT !.page = @ + 1]
      OBVIOUS
    <3>5. CASE desk.query.page > 1 /\ Asks(a)
      <4>1. desk.query.page - 1 \in 1 .. MaxSubmits + 1
        BY <2>1, <3>3, <3>5
      <4>2. a \in Queries
        BY <2>1, <3>3, <3>4, <4>1 DEF Queries
      <4> QED
        BY <3>5, <4>2
    <3>6. CASE desk.query.page < n /\ Asks(b)
      <4>1. desk.query.page + 1 \in 1 .. MaxSubmits + 1
        BY <2>1, <3>2, <3>3, <3>6
      <4>2. b \in Queries
        BY <2>1, <3>3, <3>4, <4>1 DEF Queries
      <4> QED
        BY <3>6, <4>2
    <3> QED
      BY <2>3, <3>1, <3>4, <3>5, <3>6 DEF SetPage
  <2>4. CASE Refresh
    BY <2>1, <2>4 DEF Refresh
  <2> QED
    BY <2>2, <2>3, <2>4
<1>3. /\ fetched \in Nat /\ MaxFetches \in Nat /\ fetched < MaxFetches /\ fetched' = fetched + 1
  BY <1>2, BoundsAre, DeskIs DEF Asks
<1>4. PICK f : f = [FirstFetch EXCEPT !.no = fetched + 1, !.query = q]
  OBVIOUS
<1>5. /\ fetches' = fetches \cup {f} /\ f \in Fetches /\ f.no = fetched + 1 /\ f.query = q
      /\ f.list = {} /\ f.late = {} /\ f.got = {}
  <2>1. f = [no |-> fetched + 1, query |-> q, got |-> {}, list |-> {}, total |-> 0, late |-> {}]
    BY <1>4 DEF FirstFetch
  <2>2. fetched + 1 \in 1 .. MaxFetches /\ 0 \in 0 .. MaxSubmits
    BY <1>3, BoundsAre
  <2>3. f \in Fetches
    BY <2>1, <2>2 DEF Fetches
  <2>4. fetches' = fetches \cup {f}
    BY <1>2, <1>4 DEF Asks
  <2> QED
    BY <2>1, <2>3, <2>4
<1>6. /\ desk' \in Desks /\ desk'.query = q /\ desk'.list = desk.list /\ desk'.from = desk.from
  <2>1. desk' = [desk EXCEPT !.query = q, !.loading = TRUE] /\ desk \in Desks
    BY <1>2, DeskIs DEF Asks
  <2> QED
    BY <2>1 DEF Desks
<1>7. ReportTypeOK'
  <2>1. fetched' \in 0 .. MaxFetches /\ fetches' \subseteq Fetches
    BY <1>3, <1>5 DEF ReportTypeOK
  <2> QED
    BY <1>1, <1>6, <2>1 DEF ReportTypeOK
<1>8. FormInv'
  BY <1>1, FormKept
<1>9. LastFetch'
  <2>1. \A g \in fetches : g.no \in Nat /\ g.no <= fetched
    BY FetchIs DEF DeskInv, LastFetch
  <2>2. desk.from \in Nat /\ desk.from <= fetched
    BY DeskIs DEF DeskInv, LastFetch
  <2>3. \A g \in fetches : g.no <= fetched' /\ g.no # fetched'
    BY <1>3, <2>1
  <2>4. desk'.from <= fetched' /\ desk'.from # fetched'
    BY <1>3, <1>6, <2>2
  <2> QED
    BY <1>3, <1>5, <1>6, <2>3, <2>4 DEF LastFetch
<1>10. ChangeNos' /\ LateStored' /\ ListedThere'
  BY <1>1, <1>5, <1>6 DEF DeskInv, ChangeNos, LateStored, WasStored, ListedThere
<1>11. DeskKnown' /\ FetchesKnown' /\ AnswersKnown'
  BY <1>1, <1>5, <1>6 DEF DeskInv, DeskKnown, FetchesKnown, AnswersKnown, Explained, Fixes, Stands
<1> QED
  BY <1>7, <1>8, <1>9, <1>10, <1>11 DEF DeskInv

\* What is read is what is stored.
LEMMA FoundIs ==
  ASSUME ReportTypeOK, SubmitsCount, NEW q \in Queries
  PROVE  /\ Found(q) \subseteq Entries
         /\ \A e \in Found(q) : /\ e.id \in DOMAIN reports
                                /\ \A field \in Fields : Stands(e.id, field, ValueOf(e, field))
<1>1. ASSUME NEW e \in Found(q)
      PROVE  e \in Entries /\ e.id \in DOMAIN reports /\ e.status = reports[e.id].status /\ e.note = reports[e.id].note
  <2>1. PICK i \in DOMAIN reports : e = Entry(i)
    BY <1>1 DEF Found, Matching
  <2>2. i \in ReportIds /\ reports[i].status \in Statuses /\ reports[i].note \in Notes
    BY IdsAre, RowIs
  <2> QED
    BY <2>1, <2>2 DEF Entry, Entries
<1> QED
  BY <1>1 DEF Stands, ValueOf

LEMMA MatchingIs ==
  ASSUME ReportTypeOK, SubmitsCount, NEW q
  PROVE  Cardinality(Matching(q)) \in 0 .. MaxSubmits
<1>1. Matching(q) \subseteq DOMAIN reports /\ IsFiniteSet(DOMAIN reports)
  BY IdsAre DEF Matching
<1>2. Cardinality(Matching(q)) <= Cardinality(DOMAIN reports) /\ IsFiniteSet(Matching(q))
  BY <1>1, FS_Subset
<1>3. Cardinality(Matching(q)) \in Nat
  BY <1>2, FS_CardinalityType
<1> QED
  BY <1>2, <1>3, IdsAre

LEMMA FetchReadsKeeps ==
  ASSUME ReportIndInv, NEW f \in fetches, ReadReports(f) \/ CountReports(f)
  PROVE  ReportIndInv'
<1> USE DEF ReportIndInv
<1>1. UNCHANGED <<reports, images, purges, form, submits, submitted, closers, desk, fetched, patches, patched, closing, stale>>
  BY DEF ReadReports, CountReports, formVars
<1>2. f \in Fetches /\ f.query \in Queries
  BY FetchIs
<1>3. PICK g : /\ fetches' = (fetches \ {f}) \cup {g} /\ g \in Fetches
               /\ g.no = f.no /\ g.query = f.query /\ g.late = f.late
               /\ (g.list # {} => "list" \in g.got)
               /\ g.list = f.list \/ g.list = Found(f.query)
  <2>1. CASE ReadReports(f)
    <3>1. PICK g : g = [f EXCEPT !.got = @ \cup {"list"}, !.list = Found(f.query)]
      OBVIOUS
    <3>2. Found(f.query) \subseteq Entries
      BY <1>2, FoundIs DEF FormInv
    <3>3. f.got \cup {"list"} \subseteq {"list", "total"}
      BY FetchIs
    <3>4. /\ g \in Fetches /\ g.no = f.no /\ g.query = f.query /\ g.late = f.late /\ g.list = Found(f.query)
          /\ g.got = f.got \cup {"list"}
      BY <1>2, <3>1, <3>2, <3>3 DEF Fetches
    <3>5. fetches' = (fetches \ {f}) \cup {g}
      BY <2>1, <3>1 DEF ReadReports, FetchBecomes
    <3> QED
      BY <3>4, <3>5
  <2>2. CASE CountReports(f)
    <3>1. PICK n : n = Cardinality(Matching(f.query))
      OBVIOUS
    <3>2. n \in 0 .. MaxSubmits
      BY <3>1, MatchingIs DEF FormInv
    <3>3. PICK g : g = [f EXCEPT !.got = @ \cup {"total"}, !.total = n]
      OBVIOUS
    <3>4. f.got \cup {"total"} \subseteq {"list", "total"}
      BY FetchIs
    <3>5. /\ g \in Fetches /\ g.no = f.no /\ g.query = f.query /\ g.late = f.late /\ g.list = f.list
          /\ g.got = f.got \cup {"total"}
      BY <1>2, <3>2, <3>3, <3>4 DEF Fetches
    <3>6. f.list # {} => "list" \in f.got
      BY DEF DeskInv, LateStored
    <3>7. fetches' = (fetches \ {f}) \cup {g}
      BY <2>2, <3>1, <3>3 DEF CountReports, FetchBecomes
    <3> QED
      BY <3>5, <3>6, <3>7
  <2> QED
    BY <2>1, <2>2
<1>4. ReportTypeOK'
  BY <1>1, <1>3 DEF ReportTypeOK
<1>5. FormInv'
  BY <1>1, FormKept
<1>6. LastFetch' /\ ChangeNos'
  BY <1>1, <1>3 DEF DeskInv, LastFetch, ChangeNos
<1>7. LateStored'
  <2>1. \A late : WasStored(late) => WasStored(late)'
    BY <1>1 DEF WasStored
  <2> QED
    BY <1>1, <1>3, <2>1 DEF DeskInv, LateStored
<1>8. \A e \in g.list : e.id \in DOMAIN reports
  BY <1>2, <1>3, FoundIs DEF FormInv, DeskInv, ListedThere
<1>9. ListedThere'
  BY <1>1, <1>3, <1>8 DEF DeskInv, ListedThere
<1>10. DeskKnown' /\ AnswersKnown'
  BY <1>1 DEF DeskInv, DeskKnown, AnswersKnown, Explained, Fixes, Stands
<1>11. \A e \in g.list, field \in Fields :
         Stands(e.id, field, ValueOf(e, field)) \/ Explained(g.late, e.id, field)
  <2>1. CASE g.list = f.list
    BY <1>3, <2>1 DEF DeskInv, FetchesKnown
  <2>2. CASE g.list = Found(f.query)
    BY <1>2, <2>2, FoundIs DEF FormInv
  <2> QED
    BY <1>3, <2>1, <2>2
<1>12. FetchesKnown'
  <2>1. \A i, field, v : Stands(i, field, v)' <=> Stands(i, field, v)
    BY <1>1 DEF Stands
  <2>2. \A late, i, field : Explained(late, i, field) => Explained(late, i, field)'
    BY <1>1 DEF Explained, Fixes, Stands
  <2>3. \A h \in fetches' : \A e \in h.list, field \in Fields :
          Stands(e.id, field, ValueOf(e, field)) \/ Explained(h.late, e.id, field)
    BY <1>3, <1>11 DEF DeskInv, FetchesKnown
  <2> QED
    BY <2>1, <2>2, <2>3 DEF FetchesKnown
<1> QED
  BY <1>4, <1>5, <1>6, <1>7, <1>9, <1>10, <1>12 DEF DeskInv

\* What is late of an answer that arrives is answered still, or is known to be late.
LEMMA LateIsKnown ==
  ASSUME ReportTypeOK, NEW late, WasStored(late), NEW i, NEW field, Explained(late, i, field)
  PROVE  \/ \E c \in late : c.id = i /\ c.no \notin Awaited
         \/ \E q \in patches : Fixes(q, i, field)
<1>1. PICK c \in late : c.id = i /\ \A q \in patches : q.no = c.no => Fixes(q, i, field)
  BY DEF Explained
<1>2. CASE \E q \in patches : q.no = c.no
  BY <1>1, <1>2
<1>3. CASE ~ \E q \in patches : q.no = c.no
  BY <1>1, <1>3 DEF Awaited
<1> QED
  BY <1>2, <1>3

LEMMA FetchArrivesKeeps ==
  ASSUME ReportIndInv, NEW f \in fetches, FetchArrives(f)
  PROVE  ReportIndInv'
<1> USE DEF ReportIndInv
<1>1. /\ UNCHANGED <<reports, images, purges, form, submits, submitted, closers, fetched, patches, patched, closing>>
      /\ fetches' = fetches \ {f} /\ stale' = {c.id : c \in {d \in f.late : d.no \notin Awaited}}
  BY DEF FetchArrives, FetchBecomes, formVars
<1>2. f \in Fetches /\ f.late \subseteq Changes /\ f.list \subseteq Entries /\ f.no \in 1 .. MaxFetches /\ f.no \in Nat
      /\ f.query \in Queries /\ f.total \in 0 .. MaxSubmits
  BY FetchIs
<1>3. desk' \in Desks /\ desk'.list = f.list /\ desk'.from = f.no /\ desk'.shown = f.query /\ desk'.query = desk.query
  <2>1. desk' = [desk EXCEPT !.list = f.list, !.total = f.total, !.loading = FALSE, !.shown = f.query, !.from = f.no]
    BY DEF FetchArrives
  <2>2. desk \in Desks /\ f.no \in 0 .. MaxFetches
    BY <1>2, DeskIs, BoundsAre
  <2> QED
    BY <1>2, <2>1, <2>2 DEF Desks
<1>4. stale' \subseteq ReportIds
  BY <1>1, <1>2 DEF Changes
<1>5. ReportTypeOK'
  BY <1>1, <1>3, <1>4 DEF ReportTypeOK
<1>6. FormInv'
  BY <1>1, FormKept
<1>7. LastFetch' /\ ChangeNos' /\ ListedThere'
  BY <1>1, <1>3 DEF DeskInv, LastFetch, ChangeNos, ListedThere
<1>8. LateStored'
  BY <1>1 DEF DeskInv, LateStored, WasStored
<1>9. FetchesKnown' /\ AnswersKnown'
  BY <1>1 DEF DeskInv, FetchesKnown, AnswersKnown, Explained, Fixes, Stands
<1>10. \A e \in f.list, field \in Fields :
         e.id \in stale' \/ Stands(e.id, field, ValueOf(e, field)) \/ \E q \in patches : Fixes(q, e.id, field)
  <2> SUFFICES ASSUME NEW e \in f.list, NEW field \in Fields, ~Stands(e.id, field, ValueOf(e, field))
               PROVE  e.id \in stale' \/ \E q \in patches : Fixes(q, e.id, field)
    OBVIOUS
  <2>1. Explained(f.late, e.id, field) /\ WasStored(f.late)
    BY DEF DeskInv, FetchesKnown, LateStored
  <2>2. (\E c \in f.late : c.id = e.id /\ c.no \notin Awaited) \/ \E q \in patches : Fixes(q, e.id, field)
    BY <2>1, LateIsKnown
  <2> QED
    BY <1>1, <2>2
<1>11. DeskKnown'
  BY <1>1, <1>3, <1>10 DEF DeskKnown, Fixes, Stands
<1> QED
  BY <1>5, <1>6, <1>7, <1>8, <1>9, <1>11 DEF DeskInv

LEMMA FetchFailsKeeps ==
  ASSUME ReportIndInv, NEW f \in fetches, FetchFails(f)
  PROVE  ReportIndInv'
<1> USE DEF ReportIndInv
<1>1. /\ UNCHANGED <<reports, images, purges, form, submits, submitted, closers, fetched, patches, patched, closing, stale>>
      /\ fetches' = fetches \ {f}
  BY DEF FetchFails, FetchBecomes, formVars
<1>2. desk' \in Desks /\ desk'.list = desk.list /\ desk'.from = desk.from /\ desk'.shown = desk.shown /\ desk'.query = desk.query
  BY DeskIs DEF FetchFails, Desks
<1>3. ReportTypeOK'
  BY <1>1, <1>2 DEF ReportTypeOK
<1>4. FormInv'
  BY <1>1, FormKept
<1>5. LastFetch' /\ ChangeNos' /\ ListedThere' /\ LateStored'
  BY <1>1, <1>2 DEF DeskInv, LastFetch, ChangeNos, ListedThere, LateStored, WasStored
<1>6. DeskKnown' /\ FetchesKnown' /\ AnswersKnown'
  BY <1>1, <1>2 DEF DeskInv, DeskKnown, FetchesKnown, AnswersKnown, Explained, Fixes, Stands
<1> QED
  BY <1>3, <1>4, <1>5, <1>6 DEF DeskInv

\* An answer that is gone explains nothing that it did not explain before.
LEMMA FewerPatches ==
  ASSUME NEW P, P \subseteq patches, patches' = P, reports' = reports
  PROVE  /\ \A i, field, v : Stands(i, field, v)' <=> Stands(i, field, v)
         /\ \A q, i, field : Fixes(q, i, field) => Fixes(q, i, field)'
         /\ \A late, i, field : Explained(late, i, field) => Explained(late, i, field)'
         /\ \A late : WasStored(late) /\ patched' = patched => WasStored(late)'
<1>1. \A i, field, v : Stands(i, field, v)' <=> Stands(i, field, v)
  BY DEF Stands
<1>2. \A q, i, field : Fixes(q, i, field) => Fixes(q, i, field)'
  BY <1>1 DEF Fixes
<1>3. \A late, i, field : Explained(late, i, field) => Explained(late, i, field)'
  BY <1>2 DEF Explained
<1> QED
  BY <1>1, <1>2, <1>3 DEF WasStored

LEMMA SendPatchKeeps ==
  ASSUME ReportIndInv, SendPatch
  PROVE  ReportIndInv'
<1> USE DEF ReportIndInv
<1>1. /\ UNCHANGED <<reports, images, purges, form, submits, submitted, closers, desk, fetches, fetched, closing, stale>>
      /\ patched < MaxPatches /\ patched' = patched + 1 /\ patched \in Nat /\ MaxPatches \in Nat
  BY DeskIs, BoundsAre DEF SendPatch, formVars
<1>2. PICK c \in Changing(patched + 1) :
        patches' = patches \cup {[no |-> c.no, id |-> c.id, change |-> c, stored |-> FALSE, late |-> {}]}
  BY DEF SendPatch
<1>3. c \in ChangeKinds /\ c.no = patched + 1 /\ c.id \in DOMAIN reports
  <2>1. DOMAIN reports \subseteq ReportIds /\ patched + 1 \in 1 .. MaxPatches
    BY <1>1, IdsAre DEF FormInv
  <2> QED
    BY <2>1 DEF Changing, ChangeKinds
<1>4. PICK p : p = [no |-> c.no, id |-> c.id, change |-> c, stored |-> FALSE, late |-> {}]
  OBVIOUS
<1>5. /\ patches' = patches \cup {p} /\ p.no = patched + 1 /\ p.id = c.id /\ p.change = c /\ p.stored = FALSE
      /\ p.late = {}
  BY <1>2, <1>3, <1>4
<1>6. p \in Patches
  BY <1>3, <1>4, ChangeIs DEF Patches
<1>7. ReportTypeOK'
  <2>1. patched' \in 0 .. MaxPatches
    BY <1>1
  <2> QED
    BY <1>1, <1>5, <1>6, <2>1 DEF ReportTypeOK
<1>8. FormInv'
  BY <1>1, FormKept
<1>9. \A q \in patches : q.no \in Nat /\ q.no <= patched /\ q.no # p.no
  BY <1>1, <1>5, PatchIs DEF DeskInv, ChangeNos
<1>10. ChangeNos'
  <2>1. \A q, r \in patches' : q.no = r.no => q = r
    BY <1>5, <1>9 DEF DeskInv, ChangeNos
  <2>2. \A q \in patches : q.no <= patched'
    BY <1>1, <1>9
  <2>3. p.no <= patched' /\ p.id \in DOMAIN reports /\ p.change.no = p.no /\ p.change.id = p.id
    BY <1>1, <1>3, <1>5
  <2> QED
    BY <1>1, <1>5, <2>1, <2>2, <2>3 DEF DeskInv, ChangeNos
<1>11. \A late \in SUBSET Changes : WasStored(late) =>
         /\ \A d \in late : d.no # p.no
         /\ WasStored(late)'
  <2> SUFFICES ASSUME NEW late \in SUBSET Changes, WasStored(late), NEW d \in late
               PROVE  /\ d.no # p.no /\ d.no <= patched'
                      /\ \A q \in patches' : q.no = d.no => q.stored
    BY DEF WasStored
  <2>1. d.no \in Nat /\ d.no <= patched
    BY BoundsAre DEF WasStored, Changes
  <2> QED
    BY <1>1, <1>5, <2>1 DEF WasStored
<1>12. LateStored' /\ LastFetch' /\ ListedThere'
  <2>1. \A f \in fetches : WasStored(f.late)'
    BY <1>11, FetchIs DEF DeskInv, LateStored
  <2>2. \A q \in patches' : WasStored(q.late)'
    <3>1. \A q \in patches : WasStored(q.late)'
      BY <1>11, PatchIs DEF DeskInv, LateStored
    <3> QED
      BY <1>5, <3>1 DEF WasStored
  <2> QED
    BY <1>1, <2>1, <2>2 DEF DeskInv, LateStored, LastFetch, ListedThere
<1>13. \A i, field, v : Stands(i, field, v)' <=> Stands(i, field, v)
  BY <1>1 DEF Stands
<1>14. \A q, i, field : Fixes(q, i, field)' <=> Fixes(q, i, field)
  BY <1>13 DEF Fixes
<1>15. \A late \in SUBSET Changes : \A i, field : WasStored(late) /\ Explained(late, i, field) => Explained(late, i, field)'
  BY <1>5, <1>11, <1>14 DEF Explained
<1>16. DeskKnown' /\ FetchesKnown' /\ AnswersKnown'
  <2>1. DeskKnown'
    BY <1>1, <1>5, <1>13, <1>14 DEF DeskInv, DeskKnown
  <2>2. \A f \in fetches : f.late \in SUBSET Changes /\ WasStored(f.late)
    BY FetchIs DEF DeskInv, LateStored
  <2>3. FetchesKnown'
    BY <1>1, <1>13, <1>15, <2>2 DEF DeskInv, FetchesKnown
  <2>4. \A q \in patches : q.late \in SUBSET Changes /\ WasStored(q.late)
    BY PatchIs DEF DeskInv, LateStored
  <2>5. AnswersKnown'
    BY <1>5, <1>13, <1>15, <2>4 DEF DeskInv, AnswersKnown
  <2> QED
    BY <2>1, <2>3, <2>5
<1> QED
  BY <1>7, <1>8, <1>10, <1>12, <1>16 DEF DeskInv

\* The answer of a change: the list gets what it was asked to, and is what is
\* stored or is known not to be.
LEMMA PatchAnsweredKeeps ==
  ASSUME ReportIndInv, NEW p \in patches, PatchAnswered(p)
  PROVE  ReportIndInv'
<1> USE DEF ReportIndInv
<1>1. /\ UNCHANGED <<reports, images, purges, form, submits, submitted, closers, fetches, fetched, patched, closing>>
      /\ patches' = patches \ {p} /\ p.stored
      /\ stale' = stale \cup {c.id : c \in {d \in p.late : d.id = p.id /\ d.no \notin Awaited}}
  BY DEF PatchAnswered, formVars
<1>2. p \in Patches /\ p.change \in ChangeKinds /\ p.id \in ReportIds /\ p.late \subseteq Changes /\ p.change.id = p.id
      /\ p.change.field \in Fields
  BY PatchIs, ChangeIs DEF DeskInv, ChangeNos
<1>3. PICK c : c = p.change
  OBVIOUS
<1>4. PICK L : L = (desk.list \ Listed(p.id)) \cup {Changed(e, c) : e \in Listed(p.id)}
  OBVIOUS
<1>5. \A e \in Listed(p.id) : e \in desk.list /\ e \in Entries /\ e.id = p.id /\ Changed(e, c) \in Entries
                              /\ Changed(e, c).id = p.id
  BY <1>2, <1>3, DeskIs, ChangedIs DEF Listed
<1>6. desk' \in Desks /\ desk'.list = L /\ desk'.from = desk.from /\ desk'.shown = desk.shown /\ desk'.query = desk.query
  <2>1. L \subseteq Entries
    BY <1>4, <1>5, DeskIs
  <2>2. desk' = [desk EXCEPT !.list = L] /\ desk \in Desks
    BY <1>3, <1>4, DeskIs DEF PatchAnswered
  <2> QED
    BY <2>1, <2>2 DEF Desks
<1>7. stale \subseteq stale' /\ stale' \subseteq ReportIds
  BY <1>1, <1>2 DEF ReportTypeOK
<1>8. ReportTypeOK'
  BY <1>1, <1>6, <1>7 DEF ReportTypeOK
<1>9. FormInv'
  BY <1>1, FormKept
<1>10. LastFetch' /\ ChangeNos'
  BY <1>1, <1>6 DEF DeskInv, LastFetch, ChangeNos
<1>11. ListedThere'
  <2>1. \A e \in L : e.id \in DOMAIN reports
    BY <1>4, <1>5 DEF DeskInv, ListedThere, ChangeNos
  <2> QED
    BY <1>1, <1>6, <2>1 DEF DeskInv, ListedThere
<1>12. PICK P : P = patches \ {p}
  OBVIOUS
<1>13. /\ \A i, field, v : Stands(i, field, v)' <=> Stands(i, field, v)
       /\ \A q, i, field : Fixes(q, i, field) => Fixes(q, i, field)'
       /\ \A late, i, field : Explained(late, i, field) => Explained(late, i, field)'
       /\ \A late : WasStored(late) => WasStored(late)'
  <2>1. P \subseteq patches /\ patches' = P /\ reports' = reports
    BY <1>1, <1>12
  <2> QED
    BY <1>1, <2>1, FewerPatches
<1>14. LateStored'
  BY <1>1, <1>13 DEF DeskInv, LateStored
<1>15. FetchesKnown' /\ AnswersKnown'
  BY <1>1, <1>13 DEF DeskInv, FetchesKnown, AnswersKnown
<1>16. \A e \in desk.list, field \in Fields :
         \/ e.id \in stale \/ Stands(e.id, field, ValueOf(e, field))
         \/ \E q \in P : Fixes(q, e.id, field)
         \/ e.id = p.id /\ field = c.field /\ Fixes(p, e.id, field)
  BY <1>3, <1>12 DEF DeskInv, DeskKnown, Fixes
<1>17. p.id \in stale' \/ Stands(p.id, c.field, Given(c)) \/ \E q \in P : Fixes(q, p.id, c.field)
  <2> SUFFICES ASSUME ~Stands(p.id, c.field, Given(c))
               PROVE  p.id \in stale' \/ \E q \in P : Fixes(q, p.id, c.field)
    OBVIOUS
  <2>1. Explained(p.late, p.id, c.field) /\ WasStored(p.late)
    BY <1>1, <1>3 DEF DeskInv, AnswersKnown, LateStored
  <2>2. (\E d \in p.late : d.id = p.id /\ d.no \notin Awaited) \/ \E q \in patches : Fixes(q, p.id, c.field)
    BY <2>1, LateIsKnown
  <2>3. ~Fixes(p, p.id, c.field)
    BY <1>3 DEF Fixes
  <2> QED
    BY <1>1, <1>12, <2>2, <2>3
<1>18. \A e \in L, field \in Fields :
         e.id \in stale' \/ Stands(e.id, field, ValueOf(e, field)) \/ \E q \in P : Fixes(q, e.id, field)
  <2> SUFFICES ASSUME NEW e \in L, NEW field \in Fields
               PROVE  e.id \in stale' \/ Stands(e.id, field, ValueOf(e, field)) \/ \E q \in P : Fixes(q, e.id, field)
    OBVIOUS
  <2>1. CASE e \in desk.list /\ e.id # p.id
    BY <1>7, <1>16, <2>1
  <2>2. CASE \E x \in Listed(p.id) : e = Changed(x, c)
    <3>1. PICK x \in Listed(p.id) : e = Changed(x, c)
      BY <2>2
    <3>2. x \in desk.list /\ x \in Entries /\ x.id = p.id /\ e.id = p.id
      BY <1>5, <3>1
    <3>3. /\ ValueOf(e, c.field) = Given(c)
          /\ field # c.field => ValueOf(e, field) = ValueOf(x, field)
      BY <1>2, <1>3, <3>1, <3>2, ChangedIs
    <3>4. CASE field = c.field
      BY <1>17, <3>2, <3>3, <3>4
    <3>5. CASE field # c.field
      BY <1>7, <1>16, <3>2, <3>3, <3>5
    <3> QED
      BY <3>4, <3>5
  <2> QED
    BY <1>4, <2>1, <2>2 DEF Listed
<1>19. DeskKnown'
  BY <1>1, <1>6, <1>12, <1>13, <1>18 DEF DeskKnown
<1> QED
  BY <1>8, <1>9, <1>10, <1>11, <1>14, <1>15, <1>19 DEF DeskInv

LEMMA PatchEndsKeeps ==
  ASSUME ReportIndInv, NEW p \in patches, PatchLost(p)
  PROVE  ReportIndInv'
<1> USE DEF ReportIndInv
<1>1. /\ UNCHANGED <<reports, images, purges, form, submits, submitted, closers, desk, fetches, fetched, patched, closing>>
      /\ patches' = patches \ {p} /\ stale' = stale \cup {p.id}
  BY DEF PatchLost, formVars
<1>2. p.id \in ReportIds
  BY PatchIs
<1>3. ReportTypeOK'
  BY <1>1, <1>2 DEF ReportTypeOK
<1>4. FormInv'
  BY <1>1, FormKept
<1>5. LastFetch' /\ ChangeNos' /\ ListedThere'
  BY <1>1 DEF DeskInv, LastFetch, ChangeNos, ListedThere
<1>6. PICK P : P = patches \ {p}
  OBVIOUS
<1>7. /\ \A i, field, v : Stands(i, field, v)' <=> Stands(i, field, v)
      /\ \A q, i, field : Fixes(q, i, field) => Fixes(q, i, field)'
      /\ \A late, i, field : Explained(late, i, field) => Explained(late, i, field)'
      /\ \A late : WasStored(late) => WasStored(late)'
  <2>1. P \subseteq patches /\ patches' = P /\ reports' = reports
    BY <1>1, <1>6
  <2> QED
    BY <1>1, <2>1, FewerPatches
<1>8. LateStored' /\ FetchesKnown' /\ AnswersKnown'
  BY <1>1, <1>7 DEF DeskInv, LateStored, FetchesKnown, AnswersKnown
<1>9. \A e \in desk.list, field \in Fields :
        \/ e.id \in stale \/ e.id = p.id \/ Stands(e.id, field, ValueOf(e, field))
        \/ \E q \in P : Fixes(q, e.id, field)
  BY <1>6 DEF DeskInv, DeskKnown, Fixes
<1>10. DeskKnown'
  BY <1>1, <1>6, <1>7, <1>9 DEF DeskKnown
<1> QED
  BY <1>3, <1>4, <1>5, <1>8, <1>10 DEF DeskInv

\* A written row has the new value, and the rest of the rows is as it was.
LEMMA WrittenIs ==
  ASSUME ReportTypeOK, NEW c \in ChangeKinds, c.id \in DOMAIN reports, Written(c)
  PROVE  /\ reports' \in Seq(Rows) /\ DOMAIN reports' = DOMAIN reports /\ Len(reports') = Len(reports)
         /\ \A i \in DOMAIN reports : reports'[i].file = reports[i].file
         /\ Stands(c.id, c.field, Given(c))'
         /\ \A i \in DOMAIN reports, field \in Fields : \A v :
              i # c.id \/ field # c.field => (Stands(i, field, v)' <=> Stands(i, field, v))
<1>1. reports \in Seq(Rows) /\ reports' = [reports EXCEPT ![c.id] = Changed(reports[c.id], c)]
  BY DEF ReportTypeOK, Rows, Written
<1>2. PICK r : r = reports[c.id]
  OBVIOUS
<1>3. r \in Rows
  BY <1>2, RowIs
<1>4. /\ Changed(r, c) \in Rows /\ Changed(r, c).file = r.file
      /\ ValueOf(Changed(r, c), c.field) = Given(c)
      /\ \A field \in Fields : field # c.field => ValueOf(Changed(r, c), field) = ValueOf(r, field)
  BY <1>3, ChangedIs
<1>5. PICK x : x = Changed(r, c)
  OBVIOUS
<1>6. reports' = [reports EXCEPT ![c.id] = x] /\ x \in Rows
  BY <1>1, <1>2, <1>4, <1>5
<1>7. reports' \in Seq(Rows) /\ DOMAIN reports' = DOMAIN reports /\ Len(reports') = Len(reports)
  BY <1>1, <1>6
<1>8. reports'[c.id] = x /\ \A i \in DOMAIN reports : i # c.id => reports'[i] = reports[i]
  BY <1>6
<1>9. \A i \in DOMAIN reports : reports'[i].file = reports[i].file
  BY <1>2, <1>4, <1>5, <1>8
<1>10. Stands(c.id, c.field, Given(c))'
  BY <1>4, <1>5, <1>8 DEF Stands
<1>11. ASSUME NEW i \in DOMAIN reports, NEW field \in Fields, NEW v, i # c.id \/ field # c.field
       PROVE  Stands(i, field, v)' <=> Stands(i, field, v)
  <2>1. CASE i # c.id
    BY <1>8, <2>1 DEF Stands
  <2>2. CASE i = c.id
    BY <1>2, <1>4, <1>5, <1>8, <1>11, <2>2 DEF Stands
  <2> QED
    BY <2>1, <2>2
<1> QED
  BY <1>7, <1>9, <1>10, <1>11

\* Only the closing of a report asks for its image to be removed.
LEMMA PurgedKeeps ==
  ASSUME ReportTypeOK, FormInv, NEW c \in ChangeKinds, c.id \in DOMAIN reports, Purged(c),
         reports' = reports \/ Written(c),
         UNCHANGED <<images, form, submits, submitted, closers>>
  PROVE  FormInv' /\ purges' \subseteq ReportIds /\ closing' \subseteq ReportIds
<1>1. /\ DOMAIN reports' = DOMAIN reports /\ Len(reports') = Len(reports)
      /\ \A i \in DOMAIN reports : reports'[i].file = reports[i].file
  BY WrittenIs
<1>2. /\ purges \subseteq purges' /\ closing \subseteq closing' /\ closing' \subseteq closing \cup {c.id}
      /\ \A f \in purges' \ purges : f = reports[c.id].file /\ f # 0 /\ c.id \in closing'
  BY DEF Purged
<1>3. purges' \subseteq ReportIds /\ closing' \subseteq ReportIds
  <2>1. reports[c.id].file \in 0 .. MaxSubmits
    BY RowIs DEF Rows
  <2>2. reports[c.id].file # 0 => reports[c.id].file \in ReportIds
    BY <2>1, BoundsAre DEF ReportIds
  <2> QED
    BY <1>2, <2>2, ChangeIs DEF ReportTypeOK
<1>4. SubmitsCount' /\ FilesApart'
  BY <1>1 DEF FormInv, SubmitsCount, SubmitNos, UnstoredNos, FilesApart
<1>5. FilesThere'
  <2>1. \A f \in purges' : \E i \in DOMAIN reports : reports[i].file = f /\ i \in closing'
    BY <1>2 DEF FormInv, FilesThere
  <2> QED
    BY <1>1, <2>1 DEF FormInv, FilesThere
<1>6. ScreenshotKept'
  BY <1>1, <1>2 DEF FormInv, ScreenshotKept
<1> QED
  BY <1>3, <1>4, <1>5, <1>6 DEF FormInv

\* A change is stored, one's own or another's: what was read before it and what
\* will be answered after it is late.
LEMMA ChangeKeeps ==
  ASSUME ReportIndInv, NEW c \in ChangeKinds, c.id \in DOMAIN reports,
         NEW own \in SUBSET patches, Written(c), Behind(c, own),
         \A p \in own : ~p.stored /\ p.change = c /\ p.no = c.no /\ p.id = c.id,
         \A p \in patches \ own : p.no # c.no,
         own # {} \/ c.id \in stale', stale \subseteq stale',
         patched' \in Nat, patched <= patched', c.no <= patched',
         UNCHANGED <<desk, fetched>>
  PROVE  DeskInv' /\ fetches' \subseteq Fetches /\ patches' \subseteq Patches
<1> DEFINE x == [no |-> c.no, id |-> c.id]
           M(o) == IF o \in own THEN [o EXCEPT !.stored = TRUE]
                   ELSE [o EXCEPT !.late = @ \cup {y \in {x} : o.stored}]
<1>0. ReportTypeOK /\ DeskInv /\ patched \in Nat
  BY DeskIs DEF ReportIndInv
<1>1. x \in Changes /\ x.no = c.no /\ x.id = c.id
  BY ChangeIs DEF Changes
<1>2. fetches' = {[f EXCEPT !.late = @ \cup {y \in {x} : "list" \in f.got}] : f \in fetches}
  BY DEF Behind
<1>3. ASSUME NEW g \in fetches'
      PROVE  \E f \in fetches : /\ g \in Fetches /\ g.no = f.no /\ g.query = f.query /\ g.got = f.got /\ g.list = f.list
                                /\ f.late \subseteq g.late /\ g.late \subseteq f.late \cup {x}
                                /\ ("list" \in f.got => x \in g.late)
  <2>1. PICK f \in fetches : g = [f EXCEPT !.late = @ \cup {y \in {x} : "list" \in f.got}]
    BY <1>2, <1>3
  <2>2. f \in Fetches /\ f.late \subseteq Changes
    BY <1>0, FetchIs
  <2>3. PICK T : T = f.late \cup {y \in {x} : "list" \in f.got}
    OBVIOUS
  <2>4. T \subseteq Changes /\ f.late \subseteq T /\ T \subseteq f.late \cup {x} /\ ("list" \in f.got => x \in T)
    BY <1>1, <2>2, <2>3
  <2>5. g = [f EXCEPT !.late = T]
    BY <2>1, <2>3
  <2>6. g \in Fetches /\ g.no = f.no /\ g.query = f.query /\ g.got = f.got /\ g.list = f.list /\ g.late = T
    BY <2>2, <2>4, <2>5 DEF Fetches
  <2> QED
    BY <2>4, <2>6
<1>4. patches' = {M(o) : o \in patches}
  <2>1. patches' = {[p EXCEPT !.late = @ \cup {y \in {x} : p.stored}] : p \in patches \ own}
                     \cup {[p EXCEPT !.stored = TRUE] : p \in own}
    BY DEF Behind
  <2> QED
    BY <2>1
<1>5. ASSUME NEW o \in patches
      PROVE  /\ M(o) \in Patches /\ M(o).no = o.no /\ M(o).id = o.id /\ M(o).change = o.change
             /\ o.stored => o \notin own /\ M(o).stored
             /\ o \in own => M(o).stored /\ M(o).late = o.late
             /\ o \notin own => M(o).stored = o.stored
             /\ o.late \subseteq M(o).late /\ M(o).late \subseteq o.late \cup {x}
             /\ (o.stored => x \in M(o).late)
  <2>1. o \in Patches /\ o.late \subseteq Changes /\ o.stored \in BOOLEAN
    BY <1>0, PatchIs
  <2>2. CASE o \in own
    <3>1. PICK q : q = [o EXCEPT !.stored = TRUE]
      OBVIOUS
    <3>2. q \in Patches /\ q.no = o.no /\ q.id = o.id /\ q.change = o.change /\ q.stored = TRUE /\ q.late = o.late
      BY <2>1, <3>1 DEF Patches
    <3>3. M(o) = q /\ ~o.stored
      BY <2>2, <3>1
    <3> HIDE DEF M, x
    <3> QED
      BY <2>2, <3>2, <3>3
  <2>3. CASE o \notin own
    <3>1. PICK T : T = o.late \cup {y \in {x} : o.stored}
      OBVIOUS
    <3>2. T \subseteq Changes /\ o.late \subseteq T /\ T \subseteq o.late \cup {x} /\ (o.stored => x \in T)
      BY <1>1, <2>1, <3>1
    <3>3. PICK q : q = [o EXCEPT !.late = T]
      OBVIOUS
    <3>4. q \in Patches /\ q.no = o.no /\ q.id = o.id /\ q.change = o.change /\ q.stored = o.stored /\ q.late = T
      BY <2>1, <3>2, <3>3 DEF Patches
    <3>5. M(o) = q
      BY <2>3, <3>1, <3>3
    <3> HIDE DEF M, x
    <3> QED
      BY <2>3, <3>2, <3>4, <3>5
  <2> QED
    BY <2>2, <2>3
<1> HIDE DEF M, x
<1>6. fetches' \subseteq Fetches /\ patches' \subseteq Patches
  BY <1>3, <1>4, <1>5
<1>7. /\ DOMAIN reports' = DOMAIN reports /\ Stands(c.id, c.field, Given(c))'
      /\ \A i \in DOMAIN reports, field \in Fields : \A v :
           i # c.id \/ field # c.field => (Stands(i, field, v)' <=> Stands(i, field, v))
  BY <1>0, WrittenIs
<1>8. LastFetch' /\ ListedThere'
  <2>1. LastFetch'
    BY <1>0, <1>3 DEF DeskInv, LastFetch
  <2>2. ListedThere'
    BY <1>0, <1>3, <1>7 DEF DeskInv, ListedThere
  <2> QED
    BY <2>1, <2>2
<1>9. ChangeNos'
  <2>1. \A q \in patches' : q.no <= patched' /\ q.id \in DOMAIN reports' /\ q.change.no = q.no /\ q.change.id = q.id
    <3> SUFFICES ASSUME NEW o \in patches
                 PROVE  /\ M(o).no <= patched' /\ M(o).id \in DOMAIN reports'
                        /\ M(o).change.no = M(o).no /\ M(o).change.id = M(o).id
      BY <1>4
    <3>1. o.no \in Nat /\ o.no <= patched /\ o.id \in DOMAIN reports /\ o.change.no = o.no /\ o.change.id = o.id
      BY <1>0, PatchIs DEF DeskInv, ChangeNos
    <3>2. o.no <= patched'
      BY <1>0, <3>1
    <3> QED
      BY <1>5, <1>7, <3>1, <3>2
  <2>2. \A q, r \in patches' : q.no = r.no => q = r
    <3>1. \A o, p \in patches : o.no = p.no => o = p
      BY <1>0 DEF DeskInv, ChangeNos
    <3> QED
      BY <1>4, <1>5, <3>1
  <2> QED
    BY <2>1, <2>2 DEF ChangeNos
<1>10. \A o \in patches : M(o).no = c.no => M(o).stored /\ M(o).id = c.id /\ M(o).change = c
  <2> SUFFICES ASSUME NEW o \in patches, M(o).no = c.no
               PROVE  M(o).stored /\ M(o).id = c.id /\ M(o).change = c
    OBVIOUS
  <2>1. o.no = c.no
    BY <1>5
  <2>2. o \in own
    BY <2>1
  <2> QED
    BY <1>5, <2>2
<1>11. ASSUME NEW late, NEW late2, WasStored(late), late2 \subseteq late \cup {x}, late \subseteq Changes
       PROVE  WasStored(late2)'
  <2> SUFFICES ASSUME NEW d \in late2
               PROVE  d.no <= patched' /\ \A o \in patches : M(o).no = d.no => M(o).stored
    BY <1>4 DEF WasStored
  <2>1. CASE d = x
    BY <1>1, <1>10, <2>1
  <2>2. CASE d \in late
    <3>1. d.no \in Nat /\ d.no <= patched /\ \A p \in patches : p.no = d.no => p.stored
      BY <1>11, <2>2, BoundsAre DEF WasStored, Changes
    <3>2. d.no <= patched'
      BY <1>0, <3>1
    <3> QED
      BY <1>5, <3>1, <3>2
  <2> QED
    BY <1>11, <2>1, <2>2
<1>12. LateStored'
  <2>1. \A g \in fetches' : WasStored(g.late)' /\ (g.list # {} => "list" \in g.got)
    <3> SUFFICES ASSUME NEW g \in fetches'
                 PROVE  WasStored(g.late)' /\ (g.list # {} => "list" \in g.got)
      OBVIOUS
    <3>1. PICK f \in fetches : g.got = f.got /\ g.list = f.list /\ g.late \subseteq f.late \cup {x}
      BY <1>3
    <3>2. WasStored(f.late) /\ (f.list # {} => "list" \in f.got) /\ f.late \subseteq Changes
      BY <1>0, FetchIs DEF DeskInv, LateStored
    <3>3. PICK T, T2 : T = f.late /\ T2 = g.late
      OBVIOUS
    <3>4. WasStored(T2)'
      BY <1>11, <3>1, <3>2, <3>3
    <3> QED
      BY <3>1, <3>2, <3>3, <3>4 DEF WasStored
  <2>2. \A q \in patches' : WasStored(q.late)'
    <3> SUFFICES ASSUME NEW q \in patches'
                 PROVE  WasStored(q.late)'
      OBVIOUS
    <3>1. PICK o \in patches : q = M(o)
      BY <1>4
    <3>2. WasStored(o.late) /\ o.late \subseteq Changes
      BY <1>0, PatchIs DEF DeskInv, LateStored
    <3>3. PICK T, T2 : T = o.late /\ T2 = q.late
      OBVIOUS
    <3>4. T2 \subseteq T \cup {x}
      BY <1>5, <3>1, <3>3
    <3>5. WasStored(T2)'
      BY <1>11, <3>2, <3>3, <3>4
    <3> QED
      BY <3>3, <3>5 DEF WasStored
  <2> QED
    BY <2>1, <2>2 DEF LateStored
\* Of a value that is not the one written, what explained it still does.
<1>13. ASSUME NEW o \in patches, NEW i \in DOMAIN reports, NEW field \in Fields,
              i # c.id \/ field # c.field, Fixes(o, i, field)
       PROVE  Fixes(M(o), i, field)'
  <2>1. /\ o.stored /\ o.id = i /\ o.change.field = field /\ Stands(i, field, Given(o.change))
    BY <1>13 DEF Fixes
  <2>2. M(o).stored /\ M(o).id = i /\ M(o).change = o.change
    BY <1>5, <2>1
  <2>3. PICK v : v = Given(o.change)
    OBVIOUS
  <2>4. Stands(i, field, v)'
    BY <1>7, <1>13, <2>1, <2>3
  <2>5. Stands(i, field, Given(M(o).change))'
    BY <2>2, <2>3, <2>4 DEF Stands, Given
  <2> QED
    BY <2>1, <2>2, <2>5 DEF Fixes
<1>14. ASSUME NEW late, NEW late2, late \subseteq late2, NEW i \in DOMAIN reports, NEW field \in Fields,
              i # c.id \/ field # c.field, Explained(late, i, field)
       PROVE  Explained(late2, i, field)'
  <2>1. PICK d \in late : d.id = i /\ \A q \in patches : q.no = d.no => Fixes(q, i, field)
    BY <1>14 DEF Explained
  <2>2. \A o \in patches : M(o).no = d.no => Fixes(M(o), i, field)'
    BY <1>5, <1>13, <1>14, <2>1
  <2>3. \A q \in patches' : q.no = d.no => Fixes(q, i, field)'
    BY <1>4, <2>2
  <2> QED
    BY <1>14, <2>1, <2>3 DEF Explained
\* The value written is explained by the change that wrote it.
<1>15. \A o \in patches : M(o).no = c.no => Fixes(M(o), c.id, c.field)'
  <2> SUFFICES ASSUME NEW o \in patches, M(o).no = c.no
               PROVE  Fixes(M(o), c.id, c.field)'
    OBVIOUS
  <2>1. M(o).stored /\ M(o).id = c.id /\ M(o).change = c
    BY <1>10
  <2>2. Stands(c.id, c.field, Given(M(o).change))'
    BY <1>7, <2>1 DEF Stands, Given
  <2> QED
    BY <2>1, <2>2 DEF Fixes
<1>16. ASSUME NEW late2, x \in late2
       PROVE  Explained(late2, c.id, c.field)'
  <2>1. \A q \in patches' : q.no = x.no => Fixes(q, c.id, c.field)'
    BY <1>1, <1>4, <1>15
  <2> QED
    BY <1>1, <1>16, <2>1 DEF Explained
<1>17. DeskKnown'
  <2> SUFFICES ASSUME NEW e \in desk.list, NEW field \in Fields
               PROVE  \/ e.id \in stale' \/ Stands(e.id, field, ValueOf(e, field))'
                      \/ \E q \in patches' : Fixes(q, e.id, field)'
    BY DEF DeskKnown
  <2>0. e.id \in DOMAIN reports
    BY <1>0 DEF DeskInv, ListedThere
  <2>1. CASE e.id # c.id \/ field # c.field
    <3>1. e.id \in stale \/ Stands(e.id, field, ValueOf(e, field)) \/ \E q \in patches : Fixes(q, e.id, field)
      BY <1>0 DEF DeskInv, DeskKnown
    <3>2. PICK v, i : v = ValueOf(e, field) /\ i = e.id
      OBVIOUS
    <3>3. Stands(i, field, v) => Stands(i, field, v)'
      BY <1>7, <2>0, <2>1, <3>2
    <3>4. (\E q \in patches : Fixes(q, i, field)) => \E q \in patches' : Fixes(q, i, field)'
      BY <1>4, <1>13, <2>0, <2>1, <3>2
    <3> QED
      BY <3>1, <3>2, <3>3, <3>4
  <2>2. CASE e.id = c.id /\ field = c.field
    <3>1. CASE own # {}
      <4>1. PICK p \in own : p.no = c.no
        BY <3>1
      <4>2. M(p) \in patches' /\ M(p).no = c.no
        BY <1>4, <1>5, <4>1
      <4> QED
        BY <1>15, <2>2, <4>1, <4>2
    <3> QED
      BY <2>2, <3>1
  <2> QED
    BY <2>1, <2>2
<1>18. FetchesKnown'
  <2> SUFFICES ASSUME NEW g \in fetches', NEW e \in g.list, NEW field \in Fields
               PROVE  Stands(e.id, field, ValueOf(e, field))' \/ Explained(g.late, e.id, field)'
    BY DEF FetchesKnown
  <2>1. PICK f \in fetches : /\ g.got = f.got /\ g.list = f.list /\ f.late \subseteq g.late
                             /\ ("list" \in f.got => x \in g.late)
    BY <1>3
  <2>2. /\ e.id \in DOMAIN reports /\ "list" \in f.got
        /\ Stands(e.id, field, ValueOf(e, field)) \/ Explained(f.late, e.id, field)
    BY <1>0, <2>1 DEF DeskInv, ListedThere, LateStored, FetchesKnown
  <2>3. PICK i, v, T, T2 : i = e.id /\ v = ValueOf(e, field) /\ T = f.late /\ T2 = g.late
    OBVIOUS
  <2>4. CASE i # c.id \/ field # c.field
    <3>1. Stands(i, field, v) => Stands(i, field, v)'
      BY <1>7, <2>2, <2>3, <2>4
    <3>2. Explained(T, i, field) => Explained(T2, i, field)'
      BY <1>14, <2>1, <2>2, <2>3, <2>4
    <3> QED
      BY <2>2, <2>3, <3>1, <3>2
  <2>5. CASE i = c.id /\ field = c.field
    <3>1. Explained(T2, i, field)'
      BY <1>16, <2>1, <2>2, <2>3, <2>5
    <3> QED
      BY <2>3, <3>1
  <2> QED
    BY <2>4, <2>5
<1>19. AnswersKnown'
  <2> SUFFICES ASSUME NEW q \in patches', q.stored
               PROVE  \/ Stands(q.id, q.change.field, Given(q.change))'
                      \/ Explained(q.late, q.id, q.change.field)'
    BY DEF AnswersKnown
  <2>1. PICK o \in patches : q = M(o)
    BY <1>4
  <2>2. PICK i, field, v, T, T2 : i = q.id /\ field = q.change.field /\ v = Given(q.change) /\ T = o.late /\ T2 = q.late
    OBVIOUS
  <2>3. o.id = i /\ o.change = q.change /\ T \subseteq T2 /\ (o.stored => x \in T2)
    BY <1>5, <2>1, <2>2
  <2>4. i \in DOMAIN reports /\ field \in Fields
    BY <1>0, <2>2, <2>3, PatchIs, ChangeIs DEF DeskInv, ChangeNos
  <2>5. CASE o \in own
    <3>1. q.change = c /\ i = c.id
      BY <2>3, <2>5
    <3> QED
      BY <1>7, <2>2, <3>1
  <2>6. CASE o \notin own
    <3>1. o.stored
      BY <1>5, <2>1, <2>6
    <3>2. Stands(i, field, v) \/ Explained(T, i, field)
      BY <1>0, <2>2, <2>3, <3>1 DEF DeskInv, AnswersKnown
    <3>3. CASE i # c.id \/ field # c.field
      <4>1. Stands(i, field, v) => Stands(i, field, v)'
        BY <1>7, <2>4, <3>3
      <4>2. Explained(T, i, field) => Explained(T2, i, field)'
        BY <1>14, <2>3, <2>4, <3>3
      <4> QED
        BY <2>2, <3>2, <4>1, <4>2
    <3>4. CASE i = c.id /\ field = c.field
      <4>1. Explained(T2, i, field)'
        BY <1>16, <2>3, <3>1, <3>4
      <4> QED
        BY <2>2, <4>1
    <3> QED
      BY <3>3, <3>4
  <2> QED
    BY <2>5, <2>6
<1> QED
  BY <1>6, <1>8, <1>9, <1>12, <1>17, <1>18, <1>19 DEF DeskInv

LEMMA UpdateReportKeeps ==
  ASSUME ReportIndInv, NEW p \in patches, UpdateReport(p)
  PROVE  ReportIndInv'
<1>0. ReportTypeOK /\ FormInv /\ DeskInv
  BY DEF ReportIndInv
<1>1. PICK c, own : c = p.change /\ own = {p}
  OBVIOUS
<1>2. /\ Purged(c) /\ Written(c) /\ Behind(c, own) /\ ~p.stored
      /\ UNCHANGED <<images, form, submits, submitted, closers, desk, fetched, patched, stale>>
  BY <1>1 DEF UpdateReport, formVars
<1>3. c \in ChangeKinds /\ c.id = p.id /\ c.no = p.no /\ c.id \in DOMAIN reports /\ c.no <= patched /\ patched \in Nat
  BY <1>0, <1>1, PatchIs, DeskIs DEF DeskInv, ChangeNos
<1>4. FormInv' /\ purges' \subseteq ReportIds /\ closing' \subseteq ReportIds
  BY <1>0, <1>2, <1>3, PurgedKeeps
<1>5. \A q \in patches \ own : q.no # c.no
  BY <1>0, <1>1, <1>3 DEF DeskInv, ChangeNos
<1>6. DeskInv' /\ fetches' \subseteq Fetches /\ patches' \subseteq Patches
  <2>1. own \in SUBSET patches /\ own # {} /\ \A q \in own : ~q.stored /\ q.change = c /\ q.no = c.no /\ q.id = c.id
    BY <1>1, <1>2, <1>3
  <2>2. patched' \in Nat /\ patched <= patched' /\ c.no <= patched' /\ stale \subseteq stale'
    BY <1>2, <1>3
  <2> QED
    BY <1>2, <1>3, <1>5, <2>1, <2>2, ChangeKeeps
<1>7. ReportTypeOK'
  <2>1. reports' \in Seq(Rows)
    BY <1>0, <1>2, <1>3, WrittenIs
  <2> QED
    BY <1>0, <1>2, <1>4, <1>6, <2>1 DEF ReportTypeOK, Rows
<1> QED
  BY <1>4, <1>6, <1>7 DEF ReportIndInv

LEMMA OtherAdminKeeps ==
  ASSUME ReportIndInv, OtherAdmin
  PROVE  ReportIndInv'
<1>0. ReportTypeOK /\ FormInv /\ DeskInv
  BY DEF ReportIndInv
<1>1. PICK c \in Changing(patched + 1) :
        Purged(c) /\ Written(c) /\ Behind(c, {}) /\ stale' = stale \cup {c.id}
  BY DEF OtherAdmin
<1>2. /\ UNCHANGED <<images, form, submits, submitted, closers, desk, fetched>>
      /\ patched < MaxPatches /\ patched' = patched + 1 /\ patched \in Nat /\ MaxPatches \in Nat
  BY <1>0, DeskIs, BoundsAre DEF OtherAdmin, formVars
<1>3. c \in ChangeKinds /\ c.no = patched + 1 /\ c.id \in DOMAIN reports /\ c.id \in ReportIds
  <2>1. DOMAIN reports \subseteq ReportIds /\ patched + 1 \in 1 .. MaxPatches
    BY <1>0, <1>2, IdsAre DEF FormInv
  <2> QED
    BY <2>1 DEF Changing, ChangeKinds
<1>4. FormInv' /\ purges' \subseteq ReportIds /\ closing' \subseteq ReportIds
  BY <1>0, <1>1, <1>2, <1>3, PurgedKeeps
<1>5. PICK own : own = {}
  OBVIOUS
<1>6. \A q \in patches \ own : q.no # c.no
  <2>1. \A q \in patches : q.no \in Nat /\ q.no <= patched
    BY <1>0, PatchIs DEF DeskInv, ChangeNos
  <2> QED
    BY <1>2, <1>3, <2>1
<1>7. DeskInv' /\ fetches' \subseteq Fetches /\ patches' \subseteq Patches
  <2>1. own \in SUBSET patches /\ Behind(c, own) /\ \A q \in own : ~q.stored /\ q.change = c /\ q.no = c.no /\ q.id = c.id
    BY <1>1, <1>5
  <2>2. patched' \in Nat /\ patched <= patched' /\ c.no <= patched' /\ stale \subseteq stale' /\ c.id \in stale'
    BY <1>1, <1>2, <1>3
  <2> QED
    BY <1>1, <1>2, <1>3, <1>6, <2>1, <2>2, ChangeKeeps
<1>8. ReportTypeOK'
  <2>1. reports' \in Seq(Rows)
    BY <1>0, <1>1, <1>3, WrittenIs
  <2>2. patched' \in 0 .. MaxPatches /\ stale' \subseteq ReportIds
    BY <1>0, <1>1, <1>2, <1>3 DEF ReportTypeOK
  <2> QED
    BY <1>0, <1>2, <1>4, <1>7, <2>1, <2>2 DEF ReportTypeOK, Rows
<1> QED
  BY <1>4, <1>7, <1>8 DEF ReportIndInv

LEMMA UpdateFailsKeeps ==
  ASSUME ReportIndInv, NEW p \in patches, UpdateFails(p)
  PROVE  ReportIndInv'
<1>0. ReportTypeOK /\ FormInv /\ DeskInv
  BY DEF ReportIndInv
<1>1. PICK c : c = p.change
  OBVIOUS
<1>2. /\ UNCHANGED <<reports, images, form, submits, submitted, closers, desk, fetches, fetched, patched, stale>>
      /\ patches' = patches \ {p} /\ ~p.stored /\ (Purged(c) \/ UNCHANGED <<purges, closing>>)
  BY <1>1 DEF UpdateFails, formVars
<1>3. c \in ChangeKinds /\ c.id \in DOMAIN reports
  BY <1>0, <1>1, PatchIs DEF DeskInv, ChangeNos
<1>4. FormInv' /\ purges' \subseteq ReportIds /\ closing' \subseteq ReportIds
  <2>1. CASE Purged(c)
    BY <1>0, <1>2, <1>3, <2>1, PurgedKeeps
  <2>2. CASE UNCHANGED <<purges, closing>>
    BY <1>0, <1>2, <2>2, FormKept DEF ReportTypeOK
  <2> QED
    BY <1>2, <2>1, <2>2
<1>5. ReportTypeOK'
  BY <1>0, <1>2, <1>4 DEF ReportTypeOK
<1>6. LastFetch' /\ ChangeNos' /\ ListedThere'
  BY <1>0, <1>2 DEF DeskInv, LastFetch, ChangeNos, ListedThere
<1>7. PICK P : P = patches \ {p}
  OBVIOUS
<1>8. /\ \A i, field, v : Stands(i, field, v)' <=> Stands(i, field, v)
      /\ \A q, i, field : Fixes(q, i, field) => Fixes(q, i, field)'
      /\ \A late, i, field : Explained(late, i, field) => Explained(late, i, field)'
      /\ \A late : WasStored(late) => WasStored(late)'
  <2>1. P \subseteq patches /\ patches' = P /\ reports' = reports
    BY <1>2, <1>7
  <2> QED
    BY <1>2, <2>1, FewerPatches
<1>9. LateStored' /\ FetchesKnown' /\ AnswersKnown'
  BY <1>0, <1>2, <1>8 DEF DeskInv, LateStored, FetchesKnown, AnswersKnown
<1>10. \A e \in desk.list, field \in Fields :
         e.id \in stale \/ Stands(e.id, field, ValueOf(e, field)) \/ \E q \in P : Fixes(q, e.id, field)
  BY <1>0, <1>2, <1>7 DEF DeskInv, DeskKnown, Fixes
<1>11. DeskKnown'
  BY <1>2, <1>7, <1>8, <1>10 DEF DeskKnown
<1> QED
  BY <1>4, <1>5, <1>6, <1>9, <1>11 DEF ReportIndInv, DeskInv

LEMMA ReportInitial ==
  ASSUME ReportInit
  PROVE  ReportIndInv
<1>1. FirstFetch \in Fetches /\ Everything \in Queries
  BY BoundsAre DEF FirstFetch, Fetches, Queries, Everything
<1>2. desk \in Desks
  <2>1. desk = [query |-> Everything, list |-> {}, total |-> 0, loading |-> TRUE,
                open |-> TRUE, shown |-> Everything, from |-> 0]
    BY DEF ReportInit
  <2>2. 0 \in 0 .. MaxSubmits /\ 0 \in 0 .. MaxFetches
    BY BoundsAre
  <2> QED
    BY <1>1, <2>1, <2>2 DEF Desks
<1>3. form \in [open : BOOLEAN, mount : 0 .. MaxForms, image : BOOLEAN, busy : BOOLEAN, sent : BOOLEAN]
  <2>1. 0 \in 0 .. MaxForms
    BY BoundsAre
  <2> QED
    BY <2>1 DEF ReportInit
<1>4. ReportTypeOK
  BY <1>1, <1>2, <1>3, BoundsAre DEF ReportInit, ReportTypeOK
<1>5. FormInv
  <2>1. SubmitNos = {} /\ UnstoredNos = {} /\ Len(reports) = 0 /\ DOMAIN reports = {}
    BY DEF ReportInit, SubmitNos, UnstoredNos
  <2>2. Cardinality(SubmitNos) = 0 /\ Cardinality(UnstoredNos) = 0
    BY <2>1, FS_EmptySet
  <2>3. SubmitsCount
    BY <2>1, <2>2 DEF ReportInit, SubmitsCount
  <2>4. FilesApart /\ FilesThere /\ ScreenshotKept
    BY <2>1 DEF ReportInit, FilesApart, FilesThere, ScreenshotKept
  <2> QED
    BY <2>3, <2>4 DEF FormInv
<1>6. DeskInv
  <2>1. /\ fetches = {FirstFetch} /\ FirstFetch.no = 1 /\ FirstFetch.query = Everything
        /\ FirstFetch.list = {} /\ FirstFetch.late = {} /\ patches = {} /\ desk.list = {}
        /\ desk.query = Everything /\ desk.from = 0 /\ fetched = 1
    BY DEF ReportInit, FirstFetch
  <2> QED
    BY <2>1 DEF DeskInv, LastFetch, ChangeNos, LateStored, WasStored, ListedThere, DeskKnown,
                FetchesKnown, AnswersKnown
<1> QED
  BY <1>4, <1>5, <1>6 DEF ReportIndInv

LEMMA ReportStep ==
  ASSUME ReportIndInv, [ReportNext]_reportVars
  PROVE  ReportIndInv'
<1>1. CASE OpenForm \/ CloseForm \/ CloseTimer \/ ChooseImage
  BY <1>1, FormStepsKeep
<1>2. CASE Submit
  BY <1>2, SubmitKeeps
<1>3. CASE \E s \in submits : UploadEnds(s) \/ CreateReport(s) \/ PostAnswered(s) \/ SubmitFails(s)
  BY <1>3, UploadEndsKeeps, CreateReportKeeps, SubmitEndsKeeps
<1>4. CASE SetFilter \/ SetPage \/ Refresh
  BY <1>4, AsksKeeps
<1>5. CASE \E f \in fetches : ReadReports(f) \/ CountReports(f) \/ FetchArrives(f) \/ FetchFails(f)
  BY <1>5, FetchReadsKeeps, FetchArrivesKeeps, FetchFailsKeeps
<1>6. CASE SendPatch \/ Purge \/ OtherAdmin
  BY <1>6, SendPatchKeeps, PurgeKeeps, OtherAdminKeeps
<1>7. CASE \E p \in patches : UpdateReport(p) \/ UpdateFails(p) \/ PatchAnswered(p) \/ PatchLost(p)
  BY <1>7, UpdateReportKeeps, UpdateFailsKeeps, PatchAnsweredKeeps, PatchEndsKeeps
<1>8. CASE UNCHANGED reportVars
  <2>1. /\ UNCHANGED <<reports, images, purges, form, submits, submitted, closers, closing>>
        /\ UNCHANGED <<reports, desk, fetches, fetched, patches, patched, stale>>
    BY <1>8 DEF reportVars
  <2>2. FormInv' /\ DeskInv'
    BY <2>1, FormKept, DeskKept DEF ReportIndInv
  <2> QED
    BY <2>1, <2>2 DEF ReportIndInv, ReportTypeOK
<1> QED
  BY <1>1, <1>2, <1>3, <1>4, <1>5, <1>6, <1>7, <1>8 DEF ReportNext

\* With nothing awaited nothing explains a difference but that it is known.
LEMMA ReportIndImplies ==
  ASSUME ReportIndInv
  PROVE  ReportInv
<1>1. ASSUME fetches = {}, patches = {}, desk.from = fetched
      PROVE  /\ desk.shown = desk.query
             /\ \A e \in desk.list : e.id \notin stale => e = Entry(e.id)
  <2>1. desk.shown = desk.query
    BY <1>1 DEF ReportIndInv, DeskInv, LastFetch
  <2>2. ASSUME NEW e \in desk.list, e.id \notin stale
        PROVE  e = Entry(e.id)
    <3>1. \A field \in Fields : Stands(e.id, field, ValueOf(e, field))
      BY <1>1, <2>2 DEF ReportIndInv, DeskInv, DeskKnown
    <3>2. e.status = reports[e.id].status /\ e.note = reports[e.id].note
      BY <3>1 DEF Stands, ValueOf, Fields
    <3>3. e \in Entries
      BY DeskIs DEF ReportIndInv
    <3> QED
      BY <3>2, <3>3 DEF Entries, Entry
  <2> QED
    BY <2>1, <2>2
<1> QED
  BY <1>1 DEF ReportInv, ReportIndInv, FormInv, ListRight

\* A report keeps its screenshot until somebody closes it, and the list of an
\* administrator, once nothing is awaited, is that of the query chosen and shows
\* each report as it is stored, unless it is known not to.
THEOREM ReportSafe == ReportSpec => []ReportInv
<1>1. ReportInit => ReportIndInv
  BY ReportInitial
<1>2. ReportIndInv /\ [ReportNext]_reportVars => ReportIndInv'
  BY ReportStep
<1>3. ReportIndInv => ReportInv
  BY ReportIndImplies
<1> QED
  BY <1>1, <1>2, <1>3, PTL DEF ReportSpec
============================================================================
