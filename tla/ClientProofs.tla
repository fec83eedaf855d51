---------------------------- MODULE ClientProofs ----------------------------
(***************************************************************************)
(* Proofs about parts of the client that share no state: SenderKey, for    *)
(* every set of members, every MaxSkip and every number of messages;       *)
(* Contacts, for every set of peers and of searched texts, and any number  *)
(* of operations and of changes elsewhere; and Calls, for any tabs, users  *)
(* and number of calls, and any tabs that lose their socket or their page. *)
(***************************************************************************)
EXTENDS SenderKey, Contacts, Calls, FiniteSetTheorems, SequenceTheorems, TLAPS

-----------------------------------------------------------------------------
(* SenderKey.  The inductive invariant IndInv says that a receiver's cache *)
(* is exactly the set of messages it has passed and not opened; every      *)
(* safety property of SenderKey is a consequence of it.                    *)

\* A key taken from the cache or from the chain leaves a receiver state.
LEMMA AfterMessageKeyType ==
  ASSUME NEW rs \in ReceiverStates, NEW i \in Nat
  PROVE  AfterMessageKey(rs, i) \in ReceiverStates
BY DEF AfterMessageKey, TakeSkipped, AdvanceTo, Passed, ReceiverStates

\* message_key_for hands out a key it has not handed out before, moves the
\* chain forward past the message, and keeps exactly the keys of the messages
\* it has passed and not handed out (o are the messages opened before).
LEMMA AfterMessageKeyCache ==
  ASSUME NEW rs \in ReceiverStates, NEW j \in Nat, NEW i \in Nat,
         NEW o \in SUBSET Nat,
         j <= rs.iteration,
         o \subseteq j .. (rs.iteration - 1),
         rs.skipped = (j .. (rs.iteration - 1)) \ o,
         HasMessageKey(rs, i)
  PROVE  /\ i \notin o
         /\ j <= i
         /\ rs.iteration <= AfterMessageKey(rs, i).iteration
         /\ i < AfterMessageKey(rs, i).iteration
         /\ AfterMessageKey(rs, i).iteration <= rs.iteration
              \/ AfterMessageKey(rs, i).iteration = i + 1
         /\ o \cup {i} \subseteq j .. (AfterMessageKey(rs, i).iteration - 1)
         /\ AfterMessageKey(rs, i).skipped =
              (j .. (AfterMessageKey(rs, i).iteration - 1)) \ (o \cup {i})
<1> DEFINE new == AfterMessageKey(rs, i)
<1>1. rs.iteration \in Nat /\ rs.skipped \subseteq Nat
  BY DEF ReceiverStates
<1>2. CASE i \in rs.skipped
  <2>1. /\ new.iteration = rs.iteration
        /\ new.skipped = rs.skipped \ {i}
    BY <1>2 DEF AfterMessageKey, TakeSkipped, ReceiverStates
  <2>2. i \notin o /\ j <= i /\ i < rs.iteration
    BY <1>1, <1>2
  <2>3. o \cup {i} \subseteq j .. (new.iteration - 1)
    <3>1. i \in j .. (rs.iteration - 1)
      BY <1>1, <2>2
    <3>2. o \cup {i} \subseteq j .. (rs.iteration - 1)
      BY <3>1
    <3> QED
      BY <2>1, <3>2
  <2>4. new.skipped = (j .. (new.iteration - 1)) \ (o \cup {i})
    BY <2>1
  <2> HIDE DEF new
  <2>5. /\ rs.iteration <= new.iteration
        /\ i < new.iteration
        /\ new.iteration <= rs.iteration
    BY <1>1, <2>1, <2>2
  <2> QED
    BY <2>2, <2>3, <2>4, <2>5 DEF new
<1>3. CASE i \notin rs.skipped
  <2>1. rs.iteration <= i
    BY <1>3 DEF HasMessageKey
  <2>2. /\ new.iteration = i + 1
        /\ new.skipped = rs.skipped \cup (rs.iteration .. (i - 1))
    BY <1>3 DEF AfterMessageKey, AdvanceTo, Passed
  <2>3. i \notin o
    BY <1>1, <2>1
  <2>4. o \cup {i} \subseteq j .. i
    <3>1. ASSUME NEW k \in o PROVE k \in j .. i
      <4>1. k \in j .. (rs.iteration - 1)
        OBVIOUS
      <4> QED
        BY <1>1, <2>1, <4>1
    <3>2. i \in j .. i
      BY <1>1, <2>1
    <3> QED
      BY <3>1, <3>2
  <2>5. rs.skipped \cup (rs.iteration .. (i - 1)) = (j .. i) \ (o \cup {i})
    <3>1. ASSUME NEW k \in rs.skipped \cup (rs.iteration .. (i - 1))
          PROVE  k \in (j .. i) \ (o \cup {i})
      BY <1>1, <2>1, <3>1
    <3>2. ASSUME NEW k \in (j .. i) \ (o \cup {i})
          PROVE  k \in rs.skipped \cup (rs.iteration .. (i - 1))
      BY <1>1, <2>1, <3>2
    <3> QED
      BY <3>1, <3>2
  <2>6. (i + 1) - 1 = i
    OBVIOUS
  <2> HIDE DEF new
  <2> QED
    BY <1>1, <2>1, <2>2, <2>3, <2>4, <2>5, <2>6 DEF new
<1> QED
  BY <1>2, <1>3

-----------------------------------------------------------------------------
\* Before the first message no snapshot exists and no member has a receiver.
LEMMA InitIndInv == Init => IndInv
<1> SUFFICES ASSUME Init PROVE IndInv
  OBVIOUS
<1>1. TypeOK
  BY MaxMessagesAssumption DEF Init, TypeOK
<1>2. SnapshotsAreReached /\ CacheIsWhatIsMissing
  BY DEF Init, SnapshotsAreReached, CacheIsWhatIsMissing, HasReceiver
<1> QED
  BY <1>1, <1>2 DEF IndInv

\* What CacheIsWhatIsMissing says of one member.
MemberInv(rs, j, o, n) ==
  IF rs # NoReceiver
    THEN /\ j <= rs.iteration
         /\ rs.iteration <= n
         /\ o \subseteq j .. (rs.iteration - 1)
         /\ rs.skipped = (j .. (rs.iteration - 1)) \ o
    ELSE o = {}

\* The cache invariant is one statement per member (ReceiverState is kept per
\* sender in each member's own store).
LEMMA CacheByMember ==
  CacheIsWhatIsMissing <=>
    \A m \in Members : MemberInv(receiver[m], joined[m], opened[m], iteration)
BY DEF CacheIsWhatIsMissing, MemberInv, HasReceiver

\* message_key_for keeps one member's part of the invariant when it hands out
\* the key of a message i that was sent.
LEMMA DecryptKeepsMember ==
  ASSUME NEW rs \in ReceiverStates, NEW j \in Nat, NEW o \in SUBSET Nat,
         NEW n \in Nat, NEW i \in Nat,
         MemberInv(rs, j, o, n), i < n, HasMessageKey(rs, i)
  PROVE  /\ i \notin o
         /\ AfterMessageKey(rs, i) \in ReceiverStates
         /\ MemberInv(AfterMessageKey(rs, i), j, o \cup {i}, n)
<1> DEFINE new == AfterMessageKey(rs, i)
<1>1. rs # NoReceiver
  BY NoReceiverAssumption
<1>2. /\ j <= rs.iteration
      /\ rs.iteration <= n
      /\ o \subseteq j .. (rs.iteration - 1)
      /\ rs.skipped = (j .. (rs.iteration - 1)) \ o
  BY <1>1 DEF MemberInv
<1>3. new \in ReceiverStates
  BY AfterMessageKeyType
<1>4. rs.iteration \in Nat /\ new.iteration \in Nat
  BY <1>3 DEF ReceiverStates
<1>5. /\ i \notin o
      /\ rs.iteration <= new.iteration
      /\ new.iteration <= rs.iteration \/ new.iteration = i + 1
      /\ o \cup {i} \subseteq j .. (new.iteration - 1)
      /\ new.skipped = (j .. (new.iteration - 1)) \ (o \cup {i})
  BY <1>2, AfterMessageKeyCache
<1> HIDE DEF new
<1>6. j <= new.iteration /\ new.iteration <= n
  BY <1>2, <1>4, <1>5
<1>7. new # NoReceiver
  BY <1>3, NoReceiverAssumption
<1>8. MemberInv(new, j, o \cup {i}, n)
  BY <1>5, <1>6, <1>7 DEF MemberInv
<1> QED
  BY <1>3, <1>5, <1>8 DEF new

-----------------------------------------------------------------------------
\* Every operation of the ratchet (Encrypt, CreateDistribution,
\* ProcessDistribution, Decrypt) preserves the inductive invariant.
LEMMA NextIndInv == IndInv /\ [Next]_vars => IndInv'
<1> SUFFICES ASSUME IndInv, [Next]_vars PROVE IndInv'
  OBVIOUS
<1> USE MaxMessagesAssumption
<1>1. /\ TypeOK
      /\ SnapshotsAreReached
      /\ \A m \in Members : MemberInv(receiver[m], joined[m], opened[m], iteration)
  BY CacheByMember DEF IndInv
<1>2. CacheIsWhatIsMissing' <=>
        \A m \in Members : MemberInv(receiver[m], joined[m], opened[m], iteration)'
  BY DEF CacheIsWhatIsMissing, MemberInv, HasReceiver
<1>3. CASE Encrypt
  <2>1. iteration \in 0 .. MaxMessages
    BY <1>1 DEF TypeOK
  <2>2. TypeOK'
    BY <1>1, <1>3, <2>1 DEF Encrypt, TypeOK
  <2>3. SnapshotsAreReached'
    <3> SUFFICES ASSUME NEW m \in Members, NEW at \in distributions[m]
                 PROVE  at <= iteration'
      BY <1>3 DEF Encrypt, SnapshotsAreReached
    <3>1. at \in 0 .. MaxMessages
      BY <1>1 DEF TypeOK
    <3> QED
      BY <1>1, <1>3, <2>1, <3>1 DEF Encrypt, SnapshotsAreReached
  <2>4. ASSUME NEW m \in Members
        PROVE  MemberInv(receiver[m], joined[m], opened[m], iteration + 1)
    <3>1. MemberInv(receiver[m], joined[m], opened[m], iteration)
      BY <1>1
    <3>2. receiver[m] # NoReceiver => receiver[m].iteration \in Nat
      BY <1>1 DEF TypeOK, ReceiverStates
    <3>3. receiver[m] # NoReceiver => receiver[m].iteration <= iteration + 1
      BY <2>1, <3>1, <3>2 DEF MemberInv
    <3> QED
      BY <3>1, <3>3 DEF MemberInv
  <2> QED
    BY <1>2, <1>3, <2>2, <2>3, <2>4 DEF Encrypt, IndInv
<1>4. CASE \E m \in Members : CreateDistribution(m)
  <2>1. PICK p \in Members : CreateDistribution(p)
    BY <1>4
  <2>2. TypeOK'
    BY <1>1, <2>1 DEF CreateDistribution, TypeOK
  <2>3. SnapshotsAreReached'
    <3> SUFFICES ASSUME NEW m \in Members, NEW at \in distributions'[m]
                 PROVE  at <= iteration
      BY <2>1 DEF CreateDistribution, SnapshotsAreReached
    <3>1. at \in distributions[m] \/ at = iteration
      BY <1>1, <2>1 DEF CreateDistribution, TypeOK
    <3>2. iteration <= iteration
      BY <1>1 DEF TypeOK
    <3> QED
      BY <1>1, <3>1, <3>2 DEF SnapshotsAreReached
  <2> QED
    BY <1>1, <1>2, <2>1, <2>2, <2>3 DEF CreateDistribution, IndInv
<1>5. CASE \E m \in Members : \E at \in 0 .. MaxMessages : ProcessDistribution(m, at)
  <2>1. PICK p \in Members, at \in 0 .. MaxMessages : ProcessDistribution(p, at)
    BY <1>5
  <2>2. NewReceiverState(at) \in ReceiverStates
    BY DEF NewReceiverState, ReceiverStates
  <2>3. TypeOK'
    BY <1>1, <2>1, <2>2 DEF ProcessDistribution, TypeOK
  <2>4. SnapshotsAreReached'
    BY <1>1, <2>1 DEF ProcessDistribution, SnapshotsAreReached
  <2>5. opened[p] = {} /\ at <= iteration
    BY <1>1, <2>1 DEF ProcessDistribution, SnapshotsAreReached, HasReceiver, MemberInv
  <2>6. MemberInv(NewReceiverState(at), at, {}, iteration)
    <3>1. /\ NewReceiverState(at).iteration = at
          /\ NewReceiverState(at).skipped = {}
      BY DEF NewReceiverState
    <3>2. NewReceiverState(at) # NoReceiver
      BY <2>2, NoReceiverAssumption
    <3> HIDE DEF NewReceiverState
    <3>3. at .. (at - 1) = {} /\ at <= at
      OBVIOUS
    <3> QED
      BY <2>5, <3>1, <3>2, <3>3 DEF MemberInv
  <2>7. ASSUME NEW m \in Members
        PROVE  MemberInv(receiver'[m], joined'[m], opened'[m], iteration')
    <3>1. CASE m = p
      BY <1>1, <2>1, <2>5, <2>6, <3>1 DEF ProcessDistribution, TypeOK
    <3>2. CASE m # p
      BY <1>1, <2>1, <3>2 DEF ProcessDistribution, TypeOK
    <3> QED
      BY <3>1, <3>2
  <2> QED
    BY <1>2, <2>3, <2>4, <2>7 DEF IndInv
<1>6. CASE \E m \in Members : \E i \in Iterations : Decrypt(m, i)
  <2>1. PICK p \in Members, i \in Iterations : Decrypt(p, i)
    BY <1>6
  <2>2. /\ receiver[p] \in ReceiverStates
        /\ joined[p] \in Nat
        /\ opened[p] \in SUBSET Nat
        /\ iteration \in Nat
        /\ i \in Nat
    BY <1>1, <2>1 DEF TypeOK, Iterations, Decrypt, HasReceiver
  <2>3. /\ AfterMessageKey(receiver[p], i) \in ReceiverStates
        /\ MemberInv(AfterMessageKey(receiver[p], i), joined[p],
                     opened[p] \cup {i}, iteration)
    BY <1>1, <2>1, <2>2, DecryptKeepsMember DEF Decrypt
  <2>4. TypeOK'
    BY <1>1, <2>1, <2>3 DEF Decrypt, TypeOK
  <2>5. SnapshotsAreReached'
    BY <1>1, <2>1 DEF Decrypt, SnapshotsAreReached
  <2>6. ASSUME NEW m \in Members
        PROVE  MemberInv(receiver'[m], joined'[m], opened'[m], iteration')
    <3>1. CASE m = p
      BY <1>1, <2>1, <2>3, <3>1 DEF Decrypt, TypeOK
    <3>2. CASE m # p
      BY <1>1, <2>1, <3>2 DEF Decrypt, TypeOK
    <3> QED
      BY <3>1, <3>2
  <2> QED
    BY <1>2, <2>4, <2>5, <2>6 DEF IndInv
<1>7. CASE UNCHANGED vars
  BY <1>1, <1>2, <1>7
     DEF vars, IndInv, TypeOK, SnapshotsAreReached
<1> QED
  BY <1>3, <1>4, <1>5, <1>6, <1>7 DEF Next

\* The cache of a receiver is exactly what it has passed and not opened, in
\* every reachable state (message_key_for, process_distribution_message).
THEOREM IndInvHolds == Spec => []IndInv
BY InitIndInv, NextIndInv, PTL DEF Spec

\* Type correctness of the sender and receiver states.
THEOREM TypeCorrect == Spec => []TypeOK
<1>1. IndInv => TypeOK
  BY DEF IndInv
<1> QED
  BY <1>1, IndInvHolds, PTL

-----------------------------------------------------------------------------
\* The members' receivers, as IndInv describes them.
LEMMA MemberFacts ==
  ASSUME IndInv, NEW m \in Members, HasReceiver(m)
  PROVE  /\ receiver[m] \in ReceiverStates
         /\ receiver[m].iteration \in Nat
         /\ joined[m] \in Nat
         /\ iteration \in Nat
         /\ joined[m] <= receiver[m].iteration
         /\ receiver[m].iteration <= iteration
         /\ opened[m] \subseteq joined[m] .. (receiver[m].iteration - 1)
         /\ receiver[m].skipped =
              (joined[m] .. (receiver[m].iteration - 1)) \ opened[m]
BY MaxMessagesAssumption
   DEF IndInv, TypeOK, CacheIsWhatIsMissing, HasReceiver, ReceiverStates

\* Forward secrecy of the group ratchet: the key of an opened message is gone
\* from the cache and lies behind the chain key.
THEOREM ForwardSecrecy == Spec => []KeysDeletedAfterUse
<1>1. IndInv => KeysDeletedAfterUse
  <2> SUFFICES ASSUME IndInv, NEW m \in Members, HasReceiver(m),
                      NEW i \in opened[m]
               PROVE  ~Derivable(receiver[m], i)
    BY DEF KeysDeletedAfterUse
  <2>1. i \notin receiver[m].skipped
    BY MemberFacts
  <2>2. i \in Nat /\ i < receiver[m].iteration
    BY MemberFacts
  <2>3. receiver[m].iteration \in Nat
    BY MemberFacts
  <2> QED
    BY <2>1, <2>2, <2>3 DEF Derivable
<1> QED
  BY <1>1, IndInvHolds, PTL

\* Whatever was opened, skipped or lost, an unopened message inside the
\* MAX_SKIP window still opens.
THEOREM OutOfOrderDelivery == Spec => []OutOfOrderWithinWindow
<1>1. IndInv => OutOfOrderWithinWindow
  <2> SUFFICES ASSUME IndInv, NEW m \in Members, HasReceiver(m),
                      NEW i \in joined[m] .. (iteration - 1),
                      i \notin opened[m],
                      i <= receiver[m].iteration + MaxSkip
               PROVE  HasMessageKey(receiver[m], i)
    BY DEF OutOfOrderWithinWindow
  <2>1. /\ receiver[m].iteration \in Nat
        /\ joined[m] \in Nat
        /\ iteration \in Nat
        /\ receiver[m].skipped =
             (joined[m] .. (receiver[m].iteration - 1)) \ opened[m]
    BY MemberFacts
  <2>2. CASE i < receiver[m].iteration
    BY <2>1, <2>2 DEF HasMessageKey
  <2>3. CASE receiver[m].iteration <= i
    BY <2>1, <2>3, MaxSkipAssumption DEF HasMessageKey
  <2> QED
    BY <2>1, <2>2, <2>3
<1> QED
  BY <1>1, IndInvHolds, PTL

\* A late joiner holds no key of a message sent before its snapshot.
THEOREM LateJoiner == Spec => []NoKeysBeforeJoining
<1>1. IndInv => NoKeysBeforeJoining
  <2> SUFFICES ASSUME IndInv, NEW m \in Members, HasReceiver(m),
                      NEW i \in 0 .. (joined[m] - 1)
               PROVE  ~Derivable(receiver[m], i)
    BY DEF NoKeysBeforeJoining
  <2>1. /\ receiver[m].iteration \in Nat
        /\ joined[m] \in Nat
        /\ joined[m] <= receiver[m].iteration
        /\ receiver[m].skipped =
             (joined[m] .. (receiver[m].iteration - 1)) \ opened[m]
    BY MemberFacts
  <2> QED
    BY <2>1 DEF Derivable
<1> QED
  BY <1>1, IndInvHolds, PTL

-----------------------------------------------------------------------------
\* message_key_for only consumes: every key derivable after it was derivable
\* before it.
LEMMA AdvanceIsOneWay ==
  ASSUME NEW rs \in ReceiverStates, NEW i \in Nat, HasMessageKey(rs, i),
         NEW k \in Nat, Derivable(AfterMessageKey(rs, i), k)
  PROVE  Derivable(rs, k)
<1>1. rs.iteration \in Nat
  BY DEF ReceiverStates
<1>2. CASE i \in rs.skipped
  BY <1>2 DEF AfterMessageKey, TakeSkipped, Derivable, ReceiverStates
<1>3. CASE i \notin rs.skipped
  <2>1. rs.iteration <= i
    BY <1>3 DEF HasMessageKey
  <2>2. k \in rs.skipped \/ k \in rs.iteration .. (i - 1) \/ i + 1 <= k
    BY <1>3 DEF AfterMessageKey, AdvanceTo, Passed, Derivable
  <2> QED
    BY <1>1, <2>1, <2>2 DEF Derivable
<1> QED
  BY <1>2, <1>3

\* No operation gives a member back a key it could not compute before.
THEOREM KeysOnlyShrink == Spec => KeyMaterialOnlyShrinks
<1> DEFINE Shrinks ==
      \A m \in Members : HasReceiver(m) =>
        /\ receiver'[m] # NoReceiver
        /\ \A i \in 0 .. MaxMessages :
             Derivable(receiver'[m], i) => Derivable(receiver[m], i)
<1>1. IndInv /\ [Next]_vars => [Shrinks]_vars
  <2> SUFFICES ASSUME IndInv, Next, NEW m \in Members, HasReceiver(m)
               PROVE  /\ receiver'[m] # NoReceiver
                      /\ \A k \in 0 .. MaxMessages :
                           Derivable(receiver'[m], k) => Derivable(receiver[m], k)
    OBVIOUS
  <2>1. receiver[m] \in ReceiverStates
    BY MemberFacts
  <2>2. CASE receiver'[m] = receiver[m]
    BY <2>2 DEF HasReceiver
  <2>3. CASE \E i \in Iterations : Decrypt(m, i)
    <3>1. PICK i \in Iterations : Decrypt(m, i)
      BY <2>3
    <3>2. receiver'[m] = AfterMessageKey(receiver[m], i)
      BY <3>1 DEF Decrypt, IndInv, TypeOK
    <3>3. i \in Nat /\ HasMessageKey(receiver[m], i)
      BY <3>1, MaxMessagesAssumption DEF Decrypt, Iterations
    <3>4. receiver'[m] # NoReceiver
      BY <2>1, <3>2, <3>3, AfterMessageKeyType, NoReceiverAssumption
    <3>5. ASSUME NEW k \in 0 .. MaxMessages, Derivable(receiver'[m], k)
          PROVE  Derivable(receiver[m], k)
      <4>1. k \in Nat
        BY MaxMessagesAssumption
      <4> QED
        BY <2>1, <3>2, <3>3, <3>5, <4>1, AdvanceIsOneWay
    <3> QED
      BY <3>4, <3>5
  <2>4. receiver'[m] = receiver[m] \/ \E i \in Iterations : Decrypt(m, i)
    <3>1. CASE Encrypt \/ \E p \in Members : CreateDistribution(p)
      BY <3>1 DEF Encrypt, CreateDistribution
    <3>2. CASE \E p \in Members : \E at \in 0 .. MaxMessages :
                 ProcessDistribution(p, at)
      BY <3>2 DEF ProcessDistribution, HasReceiver, IndInv, TypeOK
    <3>3. CASE \E p \in Members : \E i \in Iterations : Decrypt(p, i)
      BY <3>3 DEF Decrypt, IndInv, TypeOK
    <3> QED
      BY <3>1, <3>2, <3>3 DEF Next
  <2> QED
    BY <2>2, <2>3, <2>4
<1> QED
  BY <1>1, IndInvHolds, PTL DEF Spec, KeyMaterialOnlyShrinks

-----------------------------------------------------------------------------
\* message_key_for costs exactly the key of the message it opens, when the
\* cached positions lie behind the chain key.
LEMMA CostsExactlyItsKey ==
  ASSUME NEW rs \in ReceiverStates, NEW i \in Nat, HasMessageKey(rs, i),
         \A c \in rs.skipped : c < rs.iteration,
         NEW k \in Nat
  PROVE  Derivable(AfterMessageKey(rs, i), k) <=> (Derivable(rs, k) /\ k # i)
<1>1. rs.iteration \in Nat
  BY DEF ReceiverStates
<1>2. CASE i \in rs.skipped
  <2>1. /\ AfterMessageKey(rs, i).iteration = rs.iteration
        /\ AfterMessageKey(rs, i).skipped = rs.skipped \ {i}
    BY <1>2 DEF AfterMessageKey, TakeSkipped, ReceiverStates
  <2>2. ~ (rs.iteration <= i)
    BY <1>1, <1>2
  <2> QED
    BY <2>1, <2>2 DEF Derivable
<1>3. CASE i \notin rs.skipped
  <2>1. rs.iteration <= i
    BY <1>3 DEF HasMessageKey
  <2>2. Derivable(AfterMessageKey(rs, i), k) <=>
          (k \in rs.skipped \/ k \in rs.iteration .. (i - 1) \/ i + 1 <= k)
    BY <1>3 DEF AfterMessageKey, AdvanceTo, Passed, Derivable
  <2>3. (k \in rs.iteration .. (i - 1) \/ i + 1 <= k)
          <=> (rs.iteration <= k /\ k # i)
    BY <1>1, <2>1
  <2> QED
    BY <1>3, <2>2, <2>3 DEF Derivable
<1> QED
  BY <1>2, <1>3

\* A snapshot at position `at' gives the keys from there on
\* (process_distribution_message).
LEMMA SnapshotKeys ==
  ASSUME NEW at \in Nat
  PROVE  {k \in Iterations : Derivable(NewReceiverState(at), k)}
           = at .. (MaxMessages - 1)
BY MaxMessagesAssumption DEF Derivable, NewReceiverState, Iterations

\* The ratchet implements the protocol in which a member is given keys once and
\* opening a message costs exactly its own key: encrypt is Send, installing a
\* snapshot is Join, decrypt is Open; handing out a snapshot changes nothing the
\* protocol speaks of.
THEOREM ImplementsOpenOnce == Spec => OpensOnce
<1> DEFINE keys == [m \in Members |-> KeysOf(m)]
<1>1. Init => Once!Init
  BY DEF Init, Once!Init, KeysOf, HasReceiver
<1>2. IndInv /\ [Next]_vars => [Once!Next]_(Once!vars)
  <2> SUFFICES ASSUME IndInv, [Next]_vars
               PROVE  Once!Next \/ UNCHANGED <<iteration, keys, opened>>
    BY DEF Once!vars
  <2> USE DEF Once!Positions
  <2>1. CASE Encrypt
    <3>1. keys' = keys
      BY <2>1 DEF Encrypt, KeysOf, HasReceiver
    <3> QED
      BY <2>1, <3>1 DEF Encrypt, Once!Next, Once!Send
  <2>2. CASE \E m \in Members : CreateDistribution(m)
    BY <2>2 DEF CreateDistribution, KeysOf, HasReceiver
  <2>3. CASE \E m \in Members : \E at \in 0 .. MaxMessages :
               ProcessDistribution(m, at)
    <3>1. PICK m \in Members, at \in 0 .. MaxMessages : ProcessDistribution(m, at)
      BY <2>3
    <3>2. /\ at \in Nat
          /\ NewReceiverState(at) # NoReceiver
      BY MaxMessagesAssumption, NoReceiverAssumption
         DEF NewReceiverState, ReceiverStates
    <3>3. keys[m] = {} /\ opened[m] = {} /\ at <= iteration
      BY <3>1 DEF ProcessDistribution, IndInv, SnapshotsAreReached,
                  CacheIsWhatIsMissing, HasReceiver, KeysOf
    <3>4. receiver' = [receiver EXCEPT ![m] = NewReceiverState(at)]
      BY <3>1 DEF ProcessDistribution
    <3>5. KeysOf(m)' = at .. (MaxMessages - 1)
      <4>1. receiver'[m] = NewReceiverState(at)
        BY <3>4 DEF IndInv, TypeOK
      <4>2. KeysOf(m)' = {k \in Iterations : Derivable(NewReceiverState(at), k)}
        BY <3>2, <4>1 DEF KeysOf, HasReceiver
      <4> QED
        BY <3>2, <4>2, SnapshotKeys
    <3>6. \A p \in Members : p # m => KeysOf(p)' = KeysOf(p)
      BY <3>4 DEF KeysOf, HasReceiver, IndInv, TypeOK
    <3>7. keys' = [keys EXCEPT ![m] = at .. (MaxMessages - 1)]
      BY <3>5, <3>6
    <3> HIDE DEF keys
    <3>8. Once!Join(m, at)
      BY <3>1, <3>3, <3>7 DEF ProcessDistribution, Once!Join, keys
    <3> QED
      BY <3>1, <3>8 DEF Once!Next
  <2>4. CASE \E m \in Members : \E i \in Iterations : Decrypt(m, i)
    <3>1. PICK m \in Members, i \in Iterations : Decrypt(m, i)
      BY <2>4
    <3>2. i \in Nat /\ HasReceiver(m) /\ HasMessageKey(receiver[m], i)
      BY <3>1, MaxMessagesAssumption DEF Decrypt, Iterations
    <3>3. /\ receiver[m] \in ReceiverStates
          /\ \A c \in receiver[m].skipped : c < receiver[m].iteration
      BY <3>2, MemberFacts
    <3>4. /\ receiver' = [receiver EXCEPT ![m] = AfterMessageKey(receiver[m], i)]
          /\ receiver'[m] = AfterMessageKey(receiver[m], i)
      BY <3>1 DEF Decrypt, IndInv, TypeOK
    <3>5. receiver'[m] # NoReceiver
      BY <3>2, <3>3, <3>4, AfterMessageKeyType, NoReceiverAssumption
    <3>6. i \in KeysOf(m)
      BY <3>1, <3>2 DEF KeysOf, HasMessageKey, Derivable
    <3>7. KeysOf(m)' = KeysOf(m) \ {i}
      <4>1. ASSUME NEW k \in Iterations
            PROVE  Derivable(receiver'[m], k) <=> (Derivable(receiver[m], k) /\ k # i)
        <5>1. k \in Nat
          BY MaxMessagesAssumption DEF Iterations
        <5> QED
          BY <3>2, <3>3, <3>4, <5>1, CostsExactlyItsKey
      <4> QED
        BY <3>2, <3>5, <4>1 DEF KeysOf, HasReceiver
    <3>8. \A p \in Members : p # m => KeysOf(p)' = KeysOf(p)
      BY <3>4 DEF KeysOf, HasReceiver, IndInv, TypeOK
    <3>9. /\ i \in keys[m]
          /\ keys' = [keys EXCEPT ![m] = @ \ {i}]
      BY <3>6, <3>7, <3>8
    <3> HIDE DEF keys
    <3>10. Once!Open(m, i)
      BY <3>1, <3>9 DEF Decrypt, Once!Open, keys
    <3> QED
      BY <3>1, <3>10 DEF Once!Next, Iterations
  <2>5. CASE UNCHANGED vars
    BY <2>5 DEF vars, KeysOf, HasReceiver
  <2> QED
    BY <2>1, <2>2, <2>3, <2>4, <2>5 DEF Next
<1> QED
  BY <1>1, <1>2, IndInvHolds, PTL DEF Spec, OpensOnce, Once!Spec

-----------------------------------------------------------------------------
(* Contacts.  The inductive invariant says of each list shown, list        *)
(* fetched and search answered where it may differ from the rows, and      *)
(* which call still awaited will put it right.                             *)

FetchCalls == [no : Nat, got : SUBSET {"friends", "pending"}, friends : SUBSET Peers,
               lit : SUBSET Peers, pending : SUBSET Peers,
               late : SUBSET Peers, own : SUBSET Peers, moved : SUBSET Peers]
SearchCalls == [no : Nat, text : Texts, read : BOOLEAN, of : [Peers -> Standings],
                late : SUBSET Peers, own : SUBSET Peers]
ResultLists == [no : Nat, text : Texts \cup {Short}, of : [Peers -> Standings]]
SearchStates == [query : Texts \cup {Short}, timer : BOOLEAN, text : Texts \cup {Short},
                 spinning : BOOLEAN, results : ResultLists]
Flows == [op : {"accept", "decline", "remove", "ask"}, peer : Peers, stored : BOOLEAN, overtaken : BOOLEAN]
StatusEvents == [peer : Peers, on : BOOLEAN]

\* What the lists are made of, in a form in which a step can be typed.
Shapes ==
  /\ rows \in [Peers -> Standings] /\ isOnline \subseteq Peers /\ events \in Seq(StatusEvents)
  /\ friends \subseteq Peers /\ lit \subseteq friends /\ pending \subseteq Peers
  /\ fetches \subseteq FetchCalls /\ fetched \in Nat /\ from \in 0 .. fetched
  /\ \A f \in fetches : f.no \in 1 .. fetched /\ f.lit \subseteq f.friends
  /\ flows \subseteq Flows /\ sendingReq \subseteq Peers
  /\ search \in SearchStates /\ asked \in Nat /\ search.results.no <= asked
  /\ search.timer => search.text \in Texts
  /\ searches \subseteq SearchCalls
  /\ \A s \in searches : s.no \in 1 .. asked
  /\ ops \in 0 .. MaxOps
  /\ behind \subseteq Peers /\ back \subseteq Peers /\ dim \subseteq Peers
  /\ odd \subseteq Peers /\ unmarked \subseteq Peers

Right(p) == (p \in friends <=> rows[p] = "friends") /\ (p \in pending <=> rows[p] = "received")

\* An answer still to come that fetches the lists again, or takes p from the
\* friends, or p was removed and is shown again.
Settles(w, p) == w.peer = p /\ w.stored /\ w.op \in {"accept", "decline"}
Removed(p) == rows[p] # "friends" /\ (p \in pending <=> rows[p] = "received")
WillBeRight(p) ==
  \/ \E w \in flows : Settles(w, p)
  \/ Removed(p) /\ (p \in back \/ \E w \in flows : w.peer = p /\ w.stored /\ w.op = "remove")

\* The lists of the last fetch are right, or will be made so by an answer.
ShownFits == from = fetched => \A p \in Peers \ behind : Right(p) \/ WillBeRight(p)

\* What a fetch has read is right, save for the peers that it knows to be late,
\* and for those changed here since: they are settled by an answer that fetches
\* again, or are friends no more.
FetchesFit ==
  \A f \in fetches :
    /\ \A p \in Peers \ (f.late \cup f.own) :
         /\ "friends" \in f.got => (p \in f.friends <=> rows[p] = "friends")
         /\ "pending" \in f.got => (p \in f.pending <=> rows[p] = "received")
    /\ f.own # {} => f.got # {}
    /\ f.no = fetched => \A p \in f.own \ f.late :
         \/ \E w \in flows : Settles(w, p)
         \/ rows[p] # "friends" /\ ("pending" \in f.got => (p \in f.pending <=> rows[p] = "received"))

\* A row is as the last call to write it left it, but for a request after a removal.
WritesStand ==
  \A w \in flows : w.stored /\ ~w.overtaken =>
    /\ w.op = "remove" => rows[w.peer] \in {"none", "sent"}
    /\ w.op = "ask" => rows[w.peer] = "sent"

\* The last event about a peer carries its status.
EventsTell ==
  \A i \in DOMAIN events :
    (\A j \in DOMAIN events : j > i => events[j].peer # events[i].peer)
      => (events[i].on <=> events[i].peer \in isOnline)

\* With no event about a friend to come, the page or the answer has its status.
LightsFit ==
  /\ \A p \in friends \ dim : p \notin Coming => (p \in lit <=> p \in isOnline)
  /\ \A f \in fetches : "friends" \in f.got =>
       \A p \in f.friends \ f.moved : p \in f.lit <=> p \in isOnline

\* The search that is last, and its results, are for the text typed.
SearchFits ==
  search.query # Short =>
    /\ search.text = search.query
    /\ search.spinning => search.timer \/ searches # {}
    /\ ~search.timer =>
         /\ asked >= 1
         /\ \A s \in searches : s.no = asked => s.text = search.query
         /\ search.results.no = asked => search.results.text = search.query

\* A result has the row, or the answer of a request stored will give it.
ResultsFit ==
  /\ search.results.no > 0 => \A p \in Peers \ (odd \cup unmarked) :
       \/ search.results.of[p] = rows[p]
       \/ \E w \in flows : w.op = "ask" /\ w.peer = p /\ w.stored
  /\ \A s \in searches : s.read => \A p \in Peers \ (s.late \cup s.own) : s.of[p] = rows[p]

ContactsIndInv ==
  Shapes /\ ShownFits /\ FetchesFit /\ WritesStand /\ EventsTell /\ LightsFit /\ SearchFits /\ ResultsFit

-----------------------------------------------------------------------------
(* Contacts: the types.                                                    *)

\* What the steps write is of the types they say.
LEMMA NewFetchShape ==
  ASSUME NEW n \in Nat
  PROVE  NewFetch(n) \in FetchCalls
BY DEF NewFetch, FetchCalls

LEMMA NoResultsShape == NoResults \in ResultLists /\ NoResults.no = 0 /\ NoResults.of \in [Peers -> Standings]
BY DEF NoResults, ResultLists, Standings

LEMMA MayShape ==
  ASSUME NEW s \in Standings
  PROVE  May[s] \subseteq Standings
BY DEF May, Standings

LEMMA TakesGives ==
  /\ DOMAIN Takes = {"accept", "decline", "remove", "ask"}
  /\ Takes["accept"] = {"received"} /\ Takes["decline"] = {"received"} /\ Takes["remove"] = {"friends"}
  /\ Takes["ask"] = {"none", "declined", "refused"}
  /\ Gives["accept"] = "friends" /\ Gives["decline"] = "refused" /\ Gives["remove"] = "none"
  /\ Gives["ask"] = "sent"
BY DEF Takes, Gives

\* The type invariant.
LEMMA ShapesAreTyped ==
  ASSUME Shapes
  PROVE  ContactsTypeOK
<1>1. \A i \in DOMAIN events : events[i].peer \in Peers /\ events[i].on \in BOOLEAN
  <2>1. \A i \in DOMAIN events : events[i] \in StatusEvents
    BY ElementOfSeq DEF Shapes
  <2> QED
    BY <2>1 DEF StatusEvents
<1>2. \A f \in fetches : f.friends \cup f.pending \subseteq Peers
  BY DEF Shapes, FetchCalls
<1>3. \A s \in searches : s.text \in Texts
  BY DEF Shapes, SearchCalls
<1>4. search \in [query : Texts \cup {Short}, timer : BOOLEAN, text : Texts \cup {Short}, spinning : BOOLEAN,
                  results : [no : 0 .. asked, text : Texts \cup {Short}, of : [Peers -> Standings]]]
  <2>1. search.results \in [no : 0 .. asked, text : Texts \cup {Short}, of : [Peers -> Standings]]
    BY DEF Shapes, SearchStates, ResultLists
  <2> QED
    BY <2>1 DEF Shapes, SearchStates
<1> QED
  BY <1>1, <1>2, <1>3, <1>4 DEF Shapes, ContactsTypeOK, Flows

\* The first state.
LEMMA ContactsStart == ContactsInit => ContactsIndInv
<1> SUFFICES ASSUME ContactsInit PROVE ContactsIndInv
  OBVIOUS
<1>1. NewFetch(1) \in FetchCalls /\ NewFetch(1).no = 1 /\ NewFetch(1).got = {} /\ NewFetch(1).lit = {}
      /\ NewFetch(1).own = {}
  BY NewFetchShape DEF NewFetch
<1>2. search \in SearchStates /\ search.query = Short /\ search.results.no = 0 /\ ~search.timer
  BY NoResultsShape DEF ContactsInit, SearchStates
<1>3. Shapes
  <2>1. rows \in [Peers -> Standings]
    BY DEF ContactsInit, Standings
  <2>2. events \in Seq(StatusEvents)
    BY EmptySeq DEF ContactsInit
  <2> QED
    BY <1>1, <1>2, <2>1, <2>2, ContactsAssumption DEF ContactsInit, Shapes
<1>4. ShownFits /\ WritesStand /\ EventsTell /\ SearchFits
  BY <1>2 DEF ContactsInit, ShownFits, WritesStand, EventsTell, SearchFits
<1>5. FetchesFit /\ LightsFit
  BY <1>1 DEF ContactsInit, FetchesFit, LightsFit
<1>6. ResultsFit
  BY <1>2 DEF ContactsInit, ResultsFit
<1> QED
  BY <1>3, <1>4, <1>5, <1>6 DEF ContactsIndInv

-----------------------------------------------------------------------------
(* Contacts: what the steps of one part leave as it is.                    *)

LEMMA ListsKept ==
  ASSUME ContactsIndInv,
         UNCHANGED <<rows, isOnline, events, friends, lit, pending, from, behind, back, dim, fetches, fetched, flows>>
  PROVE  ShownFits' /\ FetchesFit' /\ WritesStand' /\ EventsTell' /\ LightsFit'
<1>1. ShownFits'
  BY DEF ContactsIndInv, ShownFits, Right, WillBeRight, Removed, Settles
<1>2. FetchesFit' /\ WritesStand' /\ EventsTell'
  BY DEF ContactsIndInv, FetchesFit, Settles, WritesStand, EventsTell
<1>3. LightsFit'
  BY DEF ContactsIndInv, LightsFit, Coming
<1> QED
  BY <1>1, <1>2, <1>3

LEMMA StatusKept ==
  ASSUME ContactsIndInv, UNCHANGED <<isOnline, events>>
  PROVE  EventsTell' /\ Coming' = Coming
BY DEF ContactsIndInv, EventsTell, Coming

LEMMA SearchKept ==
  ASSUME ContactsIndInv, UNCHANGED <<search, searches, asked>>
  PROVE  SearchFits'
BY DEF ContactsIndInv, SearchFits

LEMMA ResultsKept ==
  ASSUME ContactsIndInv, UNCHANGED <<rows, search, searches, unmarked>>, odd \subseteq odd',
         \A w \in flows : w.op = "ask" /\ w.stored => w \in flows' \/ w.peer \in odd'
  PROVE  ResultsFit'
BY DEF ContactsIndInv, ResultsFit, Shapes, Flows

\* Calls that are only begun or were not stored explain nothing.
LEMMA ShownKept ==
  ASSUME ContactsIndInv, UNCHANGED <<rows, friends, pending, from, back, fetched>>, behind \subseteq behind',
         \A w \in flows : w.stored => w \in flows' \/ w.peer \in behind'
  PROVE  ShownFits'
<1> SUFFICES ASSUME from' = fetched', NEW p \in Peers, p \notin behind' PROVE Right(p)' \/ WillBeRight(p)'
  BY DEF ShownFits
<1>1. Right(p) \/ WillBeRight(p)
  BY DEF ContactsIndInv, ShownFits
<1>2. CASE Right(p)
  BY <1>2 DEF Right
<1>3. CASE WillBeRight(p)
  BY <1>3 DEF WillBeRight, Removed, Settles
<1> QED
  BY <1>1, <1>2, <1>3

LEMMA LightsKept ==
  ASSUME ContactsIndInv, UNCHANGED <<isOnline, events, friends, lit>>, dim \subseteq dim',
         \A f \in fetches' : f \in fetches \/ f.got = {}
  PROVE  LightsFit' /\ EventsTell'
<1>1. Coming' = Coming /\ EventsTell'
  BY StatusKept
<1> QED
  BY <1>1 DEF ContactsIndInv, LightsFit

LEMMA FetchesKept ==
  ASSUME ContactsIndInv, UNCHANGED <<rows, fetched>>, fetches' \subseteq fetches,
         \A w \in flows, p \in Peers : Settles(w, p) => w \in flows'
  PROVE  FetchesFit'
<1> SUFFICES ASSUME NEW f \in fetches
             PROVE  /\ \A p \in Peers \ (f.late \cup f.own) :
                         /\ "friends" \in f.got => (p \in f.friends <=> rows[p] = "friends")
                         /\ "pending" \in f.got => (p \in f.pending <=> rows[p] = "received")
                    /\ f.own # {} => f.got # {}
                    /\ f.no = fetched => \A p \in f.own \ f.late :
                         \/ \E w \in flows' : Settles(w, p)
                         \/ rows[p] # "friends" /\ ("pending" \in f.got => (p \in f.pending <=> rows[p] = "received"))
  BY DEF FetchesFit, Settles
<1>1. f.own \subseteq Peers
  BY DEF ContactsIndInv, Shapes, FetchCalls
<1> QED
  BY <1>1 DEF ContactsIndInv, FetchesFit

LEMMA WritesKept ==
  ASSUME ContactsIndInv, UNCHANGED rows, \A w \in flows' : w \in flows \/ ~w.stored
  PROVE  WritesStand'
BY DEF ContactsIndInv, WritesStand

\* A fetch more, of nothing yet.
LEMMA FetchMore ==
  ASSUME ContactsIndInv, FetchesAgain
  PROVE  /\ fetches' \subseteq FetchCalls /\ fetched' \in Nat /\ from \in 0 .. fetched' /\ from # fetched'
         /\ \A f \in fetches' : f.no \in 1 .. fetched' /\ f.lit \subseteq f.friends
         /\ \A f \in fetches' : f \in fetches \/ f.got = {}
         /\ UNCHANGED rows => FetchesFit'
<1>1. NewFetch(fetched + 1) \in FetchCalls /\ fetched \in Nat
  BY NewFetchShape DEF ContactsIndInv, Shapes
<1>2. /\ NewFetch(fetched + 1).no = fetched + 1 /\ NewFetch(fetched + 1).got = {}
      /\ NewFetch(fetched + 1).lit = {} /\ NewFetch(fetched + 1).own = {}
  BY DEF NewFetch
<1>3. \A f \in fetches : f.no # fetched'
  BY <1>1 DEF ContactsIndInv, Shapes, FetchesAgain
<1>4. UNCHANGED rows => FetchesFit'
  BY <1>2, <1>3 DEF ContactsIndInv, FetchesFit, FetchesAgain
<1> QED
  BY <1>1, <1>2, <1>4 DEF ContactsIndInv, Shapes, FetchesAgain

-----------------------------------------------------------------------------
(* Contacts: the steps of fetchAll.                                        *)

LEMMA TokenSteps ==
  ASSUME ContactsIndInv, TokenChanges
  PROVE  ContactsIndInv'
<1>1. FetchesAgain /\ UNCHANGED <<world, lists, flows, sendingReq, asking>> /\ ops' = ops + 1 /\ ops < MaxOps
  BY DEF TokenChanges, Operate
<1>2. Shapes'
  BY <1>1, FetchMore, ContactsAssumption DEF ContactsIndInv, Shapes, world, lists, asking
<1>3. ShownFits'
  BY <1>1, FetchMore DEF ShownFits, lists
<1>4. FetchesFit' /\ WritesStand' /\ LightsFit' /\ EventsTell'
  BY <1>1, FetchMore, WritesKept, LightsKept DEF world, lists
<1>5. SearchFits' /\ ResultsFit'
  BY <1>1, SearchKept, ResultsKept DEF world, asking
<1> QED
  BY <1>2, <1>3, <1>4, <1>5 DEF ContactsIndInv

LEMMA ReadsLists ==
  ASSUME ContactsIndInv, NEW f \in fetches, ReadFriends(f) \/ ReadPending(f)
  PROVE  ContactsIndInv'
<1>1. /\ UNCHANGED <<rows, isOnline, events, friends, lit, pending, from, behind, back, dim, fetched, flows,
                     sendingReq, search, searches, asked, odd, unmarked, ops>>
  BY DEF ReadFriends, ReadPending, world, lists, asking
<1>2. f \in FetchCalls /\ f.no \in 1 .. fetched /\ f.lit \subseteq f.friends
  BY DEF ContactsIndInv, Shapes
<1>3. PICK g : g = IF ReadFriends(f)
                   THEN [f EXCEPT !.got = f.got \cup {"friends"}, !.friends = With("friends"),
                                  !.lit = With("friends") \cap isOnline]
                   ELSE [f EXCEPT !.got = f.got \cup {"pending"}, !.pending = With("received")]
  OBVIOUS
<1>4. fetches' = (fetches \ {f}) \cup {g}
  BY <1>3 DEF ReadFriends, ReadPending, Goes
<1>5. /\ g \in FetchCalls /\ g.no = f.no /\ g.lit \subseteq g.friends /\ g.late = f.late /\ g.moved = f.moved
      /\ g.own = f.own
      /\ \/ /\ g.got = f.got \cup {"friends"} /\ g.friends = With("friends") /\ g.pending = f.pending
            /\ g.lit = With("friends") \cap isOnline
         \/ /\ g.got = f.got \cup {"pending"} /\ g.pending = With("received") /\ g.friends = f.friends
            /\ g.lit = f.lit
  <2>1. With("friends") \subseteq Peers /\ With("received") \subseteq Peers
    BY DEF With
  <2>2. CASE ReadFriends(f)
    <3>1. g = [f EXCEPT !.got = f.got \cup {"friends"}, !.friends = With("friends"),
                        !.lit = With("friends") \cap isOnline]
      BY <1>3, <2>2
    <3> QED
      BY <1>2, <2>1, <3>1 DEF FetchCalls
  <2>3. CASE ~ReadFriends(f)
    <3>1. g = [f EXCEPT !.got = f.got \cup {"pending"}, !.pending = With("received")]
      BY <1>3, <2>3
    <3> QED
      BY <1>2, <2>1, <3>1 DEF FetchCalls
  <2> QED
    BY <2>2, <2>3
<1>6. Shapes'
  BY <1>1, <1>2, <1>4, <1>5 DEF ContactsIndInv, Shapes
<1>7. ShownFits' /\ WritesStand'
  BY <1>1, ShownKept, WritesKept
<1>8. FetchesFit'
  <2>1. ASSUME NEW p \in Peers, p \notin g.late, p \notin g.own
        PROVE  /\ "friends" \in g.got => (p \in g.friends <=> rows[p] = "friends")
               /\ "pending" \in g.got => (p \in g.pending <=> rows[p] = "received")
    BY <1>5, <2>1 DEF ContactsIndInv, FetchesFit, With
  <2>2. ASSUME g.no = fetched, NEW p \in g.own, p \notin g.late
        PROVE  \/ \E w \in flows : Settles(w, p)
               \/ rows[p] # "friends" /\ ("pending" \in g.got => (p \in g.pending <=> rows[p] = "received"))
    <3>1. p \in Peers /\ f.no = fetched /\ p \in f.own /\ p \notin f.late
      BY <1>5, <2>2 DEF FetchCalls
    <3>2. \/ \E w \in flows : Settles(w, p)
          \/ rows[p] # "friends" /\ ("pending" \in f.got => (p \in f.pending <=> rows[p] = "received"))
      BY <3>1 DEF ContactsIndInv, FetchesFit
    <3>3. p \in With("received") <=> rows[p] = "received"
      BY <3>1 DEF With
    <3> QED
      BY <1>5, <3>2, <3>3
  <2>3. g.got # {}
    BY <1>5
  <2> QED
    BY <1>1, <1>4, <2>1, <2>2, <2>3 DEF ContactsIndInv, FetchesFit, Settles
<1>9. EventsTell' /\ LightsFit'
  <2>1. EventsTell' /\ Coming' = Coming
    BY <1>1, StatusKept
  <2>2. ASSUME "friends" \in g.got, NEW p \in g.friends, p \notin g.moved PROVE p \in g.lit <=> p \in isOnline
    BY <1>5, <2>2 DEF ContactsIndInv, LightsFit
  <2>3. \A h \in fetches' : "friends" \in h.got =>
          \A p \in h.friends \ h.moved : p \in h.lit <=> p \in isOnline'
    BY <1>1, <1>4, <2>2 DEF ContactsIndInv, LightsFit
  <2> QED
    BY <1>1, <2>1, <2>3 DEF ContactsIndInv, LightsFit
<1>10. SearchFits' /\ ResultsFit'
  BY <1>1, SearchKept, ResultsKept
<1> QED
  BY <1>6, <1>7, <1>8, <1>9, <1>10 DEF ContactsIndInv

LEMMA FetchesArrive ==
  ASSUME ContactsIndInv, NEW f \in fetches, FetchArrives(f)
  PROVE  ContactsIndInv'
<1>1. /\ UNCHANGED <<rows, isOnline, events, fetched, flows, sendingReq, search, searches, asked, odd, unmarked, ops>>
      /\ f.got = {"friends", "pending"} /\ fetches' = fetches \ {f} /\ behind' = f.late
      /\ friends' = f.friends /\ lit' = f.lit /\ pending' = f.pending /\ from' = f.no
      /\ dim' = f.moved \ Coming
      /\ back' = {p \in f.own : \A w \in flows : w.peer = p /\ w.stored => w.op = "ask"}
  BY DEF FetchArrives, Goes, world, asking
<1>2. f \in FetchCalls /\ f.no \in 1 .. fetched /\ f.lit \subseteq f.friends
  BY DEF ContactsIndInv, Shapes
<1>3. Shapes'
  <2>1. /\ f.late \subseteq Peers /\ f.moved \subseteq Peers /\ f.pending \subseteq Peers
        /\ f.friends \subseteq Peers /\ f.own \subseteq Peers
    BY <1>2 DEF FetchCalls
  <2> QED
    BY <1>1, <1>2, <2>1 DEF ContactsIndInv, Shapes
<1>4. ShownFits'
  <2> SUFFICES ASSUME f.no = fetched, NEW p \in Peers, p \notin f.late PROVE Right(p)' \/ WillBeRight(p)'
    BY <1>1 DEF ShownFits
  <2>1. CASE p \notin f.own
    BY <1>1, <2>1 DEF ContactsIndInv, FetchesFit, Right
  <2>2. CASE p \in f.own
    <3>1. CASE \E w \in flows : Settles(w, p)
      BY <1>1, <3>1 DEF WillBeRight, Settles
    <3>2. CASE ~\E w \in flows : Settles(w, p)
      <4>1. rows[p] # "friends" /\ (p \in f.pending <=> rows[p] = "received")
        BY <1>1, <2>2, <3>2 DEF ContactsIndInv, FetchesFit
      <4>2. \A w \in flows : w.op \in {"accept", "decline", "remove", "ask"}
        BY DEF ContactsIndInv, Shapes, Flows
      <4>3. p \in back' \/ \E w \in flows : w.peer = p /\ w.stored /\ w.op = "remove"
        BY <1>1, <2>2, <3>2, <4>2 DEF Settles
      <4> QED
        BY <1>1, <4>1, <4>3 DEF WillBeRight, Removed
    <3> QED
      BY <3>1, <3>2
  <2> QED
    BY <2>1, <2>2
<1>5. FetchesFit' /\ WritesStand'
  BY <1>1, FetchesKept, WritesKept
<1>6. EventsTell' /\ LightsFit'
  <2>1. EventsTell' /\ Coming' = Coming
    BY <1>1, StatusKept
  <2> QED
    BY <1>1, <2>1 DEF ContactsIndInv, LightsFit
<1>7. SearchFits' /\ ResultsFit'
  BY <1>1, SearchKept, ResultsKept
<1> QED
  BY <1>3, <1>4, <1>5, <1>6, <1>7 DEF ContactsIndInv

LEMMA ListsFailing ==
  ASSUME ContactsIndInv, NEW f \in fetches, ListsFail(f)
  PROVE  ContactsIndInv'
<1>1. /\ UNCHANGED <<rows, isOnline, events, friends, lit, pending, from, behind, back, dim, fetched, flows,
                     sendingReq, search, searches, asked, odd, unmarked, ops>>
      /\ fetches' = fetches \ {f}
  BY DEF ListsFail, Goes, world, lists, asking
<1>2. Shapes'
  BY <1>1 DEF ContactsIndInv, Shapes
<1>3. ShownFits' /\ FetchesFit' /\ WritesStand' /\ EventsTell' /\ LightsFit'
  BY <1>1, ShownKept, FetchesKept, WritesKept, LightsKept
<1>4. SearchFits' /\ ResultsFit'
  BY <1>1, SearchKept, ResultsKept
<1> QED
  BY <1>2, <1>3, <1>4 DEF ContactsIndInv

-----------------------------------------------------------------------------
(* Contacts: the steps of handleSearch.                                    *)

LEMMA Types ==
  ASSUME ContactsIndInv, NEW text \in Texts \cup {Short}, Type(text) \/ OpenDirect
  PROVE  ContactsIndInv'
<1>1. /\ UNCHANGED <<rows, isOnline, events, friends, lit, pending, from, behind, back, dim, fetches, fetched, flows,
                     sendingReq, searches, asked, odd, unmarked>>
      /\ ops' \in 0 .. MaxOps
  BY ContactsAssumption DEF Type, OpenDirect, Operate, world, lists, ContactsIndInv, Shapes
<1>2. \/ /\ search' = [search EXCEPT !.query = text, !.timer = TRUE, !.text = text, !.spinning = TRUE]
         /\ text \in Texts
      \/ search' = [search EXCEPT !.query = Short, !.timer = FALSE, !.results = NoResults]
      \/ search' = [search EXCEPT !.query = Short, !.results = NoResults]
  BY DEF Type, OpenDirect
<1>3. search \in SearchStates /\ search.results.no <= asked /\ asked \in Nat
      /\ (search.timer => search.text \in Texts)
  BY DEF ContactsIndInv, Shapes
<1>4. /\ search' \in SearchStates
      /\ \/ search'.query = Short /\ search'.results = NoResults
         \/ /\ search'.results = search.results /\ search'.query = text /\ search'.text = text
            /\ search'.timer
      /\ search'.timer => search'.text \in Texts
  BY <1>2, <1>3, NoResultsShape DEF SearchStates
<1>5. Shapes'
  BY <1>1, <1>3, <1>4, NoResultsShape DEF ContactsIndInv, Shapes
<1>6. ShownFits' /\ FetchesFit' /\ WritesStand' /\ EventsTell' /\ LightsFit'
  BY <1>1, ListsKept
<1>7. SearchFits'
  BY <1>4 DEF SearchFits
<1>8. ResultsFit'
  BY <1>1, <1>4, NoResultsShape DEF ContactsIndInv, ResultsFit
<1> QED
  BY <1>5, <1>6, <1>7, <1>8 DEF ContactsIndInv

LEMMA TimerSteps ==
  ASSUME ContactsIndInv, TimerFires
  PROVE  ContactsIndInv'
<1>1. /\ UNCHANGED <<rows, isOnline, events, friends, lit, pending, from, behind, back, dim, fetches, fetched, flows,
                     sendingReq, odd, unmarked, ops>>
      /\ search.timer /\ search' = [search EXCEPT !.timer = FALSE] /\ asked' = asked + 1
  BY DEF TimerFires, world, lists
<1>2. PICK s : s = [no |-> asked + 1, text |-> search.text, read |-> FALSE, of |-> NoResults.of, late |-> {},
                    own |-> {}]
  OBVIOUS
<1>3. searches' = searches \cup {s}
  BY <1>2 DEF TimerFires
<1>4. search \in SearchStates /\ search.results.no <= asked /\ asked \in Nat /\ search.results.no \in Nat
  BY DEF ContactsIndInv, Shapes, SearchStates, ResultLists
<1>5. /\ search' \in SearchStates /\ search'.query = search.query /\ search'.text = search.text
      /\ search'.results = search.results /\ ~search'.timer /\ search'.spinning = search.spinning
  BY <1>1, <1>4 DEF SearchStates
<1>6. s.no = asked + 1 /\ s.text = search.text /\ ~s.read
  BY <1>2
<1>7. s \in SearchCalls
  <2>1. search.text \in Texts
    BY <1>1 DEF ContactsIndInv, Shapes
  <2> QED
    BY <1>2, <1>4, <2>1, NoResultsShape DEF SearchCalls
<1>8. Shapes'
  BY <1>1, <1>3, <1>4, <1>5, <1>6, <1>7 DEF ContactsIndInv, Shapes
<1>9. ShownFits' /\ FetchesFit' /\ WritesStand' /\ EventsTell' /\ LightsFit'
  BY <1>1, ListsKept
<1>10. SearchFits'
  <2>1. \A r \in searches : r.no # asked'
    BY <1>1, <1>4 DEF ContactsIndInv, Shapes
  <2> QED
    BY <1>1, <1>3, <1>4, <1>5, <1>6, <2>1 DEF ContactsIndInv, SearchFits
<1>11. ResultsFit'
  BY <1>1, <1>3, <1>5, <1>6 DEF ContactsIndInv, ResultsFit
<1> QED
  BY <1>8, <1>9, <1>10, <1>11 DEF ContactsIndInv

LEMMA SearchReads ==
  ASSUME ContactsIndInv, NEW s \in searches, SearchUsers(s)
  PROVE  ContactsIndInv'
<1>1. /\ UNCHANGED <<rows, isOnline, events, friends, lit, pending, from, behind, back, dim, fetches, fetched, flows,
                     sendingReq, search, asked, odd, unmarked, ops>>
  BY DEF SearchUsers, world, lists
<1>2. PICK t : t = [s EXCEPT !.read = TRUE, !.of = rows]
  OBVIOUS
<1>3. searches' = (searches \ {s}) \cup {t}
  BY <1>2 DEF SearchUsers
<1>4. s \in SearchCalls /\ s.no \in 1 .. asked /\ rows \in [Peers -> Standings]
  BY DEF ContactsIndInv, Shapes
<1>5. t \in SearchCalls /\ t.no = s.no /\ t.text = s.text /\ t.of = rows
  BY <1>2, <1>4 DEF SearchCalls
<1>6. Shapes'
  BY <1>1, <1>3, <1>4, <1>5 DEF ContactsIndInv, Shapes
<1>7. ShownFits' /\ FetchesFit' /\ WritesStand' /\ EventsTell' /\ LightsFit'
  BY <1>1, ListsKept
<1>8. SearchFits'
  BY <1>1, <1>3, <1>5 DEF ContactsIndInv, SearchFits
<1>9. ResultsFit'
  BY <1>1, <1>3, <1>5 DEF ContactsIndInv, ResultsFit
<1> QED
  BY <1>6, <1>7, <1>8, <1>9 DEF ContactsIndInv

LEMMA SearchesEnd ==
  ASSUME ContactsIndInv, NEW s \in searches, SearchEnds(s)
  PROVE  ContactsIndInv'
<1>1. /\ UNCHANGED <<rows, isOnline, events, friends, lit, pending, from, behind, back, dim, fetches, fetched, flows,
                     sendingReq, asked, ops>>
      /\ searches' = searches \ {s}
  BY DEF SearchEnds, world, lists
<1>2. search \in SearchStates /\ s \in SearchCalls /\ s.no \in 1 .. asked
  BY DEF ContactsIndInv, Shapes
<1>3. /\ search' \in SearchStates /\ search'.query = search.query /\ search'.text = search.text
      /\ search'.timer = search.timer /\ ~search'.spinning
      /\ \/ /\ s.read /\ odd' = s.late /\ unmarked' = s.own /\ search'.results.no = s.no /\ search'.results.text = s.text
            /\ search'.results.of = s.of
         \/ odd' = odd /\ unmarked' = unmarked /\ search'.results = search.results
  <2>1. CASE s.read /\ SearchSettled(s, TRUE) /\ odd' = s.late /\ unmarked' = s.own
    <3>1. PICK r : r = [no |-> s.no, text |-> s.text, of |-> s.of]
      OBVIOUS
    <3>2. r \in ResultLists /\ r.no = s.no /\ r.text = s.text /\ r.of = s.of
      BY <1>2, <3>1 DEF SearchCalls, ResultLists
    <3>3. search' = [search EXCEPT !.results = r, !.spinning = FALSE]
      BY <2>1, <3>1 DEF SearchSettled
    <3> QED
      BY <1>2, <2>1, <3>2, <3>3 DEF SearchStates
  <2>2. CASE SearchSettled(s, FALSE) /\ UNCHANGED <<odd, unmarked>>
    <3>1. search' = [search EXCEPT !.results = search.results, !.spinning = FALSE]
      BY <2>2 DEF SearchSettled
    <3> QED
      BY <1>2, <2>2, <3>1 DEF SearchStates
  <2> QED
    BY <2>1, <2>2 DEF SearchEnds
<1>4. Shapes'
  <2>1. odd' \subseteq Peers /\ unmarked' \subseteq Peers
    BY <1>2, <1>3 DEF ContactsIndInv, Shapes, SearchCalls
  <2>2. search'.results.no <= asked
    BY <1>2, <1>3 DEF ContactsIndInv, Shapes
  <2> QED
    BY <1>1, <1>3, <2>1, <2>2 DEF ContactsIndInv, Shapes
<1>5. ShownFits' /\ FetchesFit' /\ WritesStand' /\ EventsTell' /\ LightsFit'
  BY <1>1, ListsKept
<1>6. SearchFits'
  BY <1>1, <1>3 DEF ContactsIndInv, SearchFits
<1>7. ResultsFit'
  BY <1>1, <1>3 DEF ContactsIndInv, ResultsFit
<1> QED
  BY <1>4, <1>5, <1>6, <1>7 DEF ContactsIndInv

-----------------------------------------------------------------------------
(* Contacts: what happens elsewhere.                                       *)

\* A change of p's row is known of every fetch that had read, and of p's result.
SameAnswer(g, f) ==
  /\ g.no = f.no /\ g.got = f.got /\ g.friends = f.friends /\ g.lit = f.lit
  /\ g.pending = f.pending /\ g.moved = f.moved

LEMMA OvertakenFetches ==
  ASSUME ContactsIndInv, NEW p \in Peers, Overtakes(p) \/ OvertakesOwn(p),
         UNCHANGED <<isOnline, events, friends, lit, dim>>
  PROVE  /\ fetches' \subseteq FetchCalls /\ LightsFit'
         /\ \A f \in fetches' : f.no \in 1 .. fetched /\ f.lit \subseteq f.friends
         /\ Overtakes(p) => \A g \in fetches' : \E f \in fetches :
              SameAnswer(g, f) /\ g.late = f.late \cup {q \in {p} : f.got # {}} /\ g.own = f.own
         /\ OvertakesOwn(p) => \A g \in fetches' : \E f \in fetches :
              SameAnswer(g, f) /\ g.own = f.own \cup {q \in {p} : f.got # {}} /\ g.late = f.late
<1> DEFINE Late(f) == [f EXCEPT !.late = f.late \cup {q \in {p} : f.got # {}}]
           Own(f) == [f EXCEPT !.own = f.own \cup {q \in {p} : f.got # {}}]
<1>1. /\ Overtakes(p) => fetches' = {Late(f) : f \in fetches}
      /\ OvertakesOwn(p) => fetches' = {Own(f) : f \in fetches}
  BY DEF Overtakes, OvertakesOwn
<1>2. ASSUME NEW f \in fetches
      PROVE  /\ Late(f) \in FetchCalls /\ SameAnswer(Late(f), f) /\ Late(f).own = f.own
             /\ Late(f).late = f.late \cup {q \in {p} : f.got # {}}
             /\ Own(f) \in FetchCalls /\ SameAnswer(Own(f), f) /\ Own(f).late = f.late
             /\ Own(f).own = f.own \cup {q \in {p} : f.got # {}}
             /\ f.no \in 1 .. fetched /\ f.lit \subseteq f.friends
  <2>1. f \in FetchCalls /\ f.no \in 1 .. fetched /\ f.lit \subseteq f.friends
    BY DEF ContactsIndInv, Shapes
  <2> QED
    BY <2>1 DEF FetchCalls, SameAnswer
<1> HIDE DEF Late, Own
<1>3. \A g \in fetches' : \E f \in fetches :
        SameAnswer(g, f) /\ g \in FetchCalls /\ f.no \in 1 .. fetched /\ f.lit \subseteq f.friends
  BY <1>1, <1>2
<1>6. /\ Overtakes(p) => \A g \in fetches' : \E f \in fetches :
           SameAnswer(g, f) /\ g.late = f.late \cup {q \in {p} : f.got # {}} /\ g.own = f.own
      /\ OvertakesOwn(p) => \A g \in fetches' : \E f \in fetches :
           SameAnswer(g, f) /\ g.own = f.own \cup {q \in {p} : f.got # {}} /\ g.late = f.late
  BY <1>1, <1>2
<1>4. /\ fetches' \subseteq FetchCalls
      /\ \A f \in fetches' : f.no \in 1 .. fetched /\ f.lit \subseteq f.friends
  BY <1>3 DEF SameAnswer
<1>5. LightsFit'
  <2>1. Coming' = Coming
    BY DEF Coming
  <2>2. \A f \in fetches' : "friends" \in f.got =>
          \A q \in f.friends \ f.moved : q \in f.lit <=> q \in isOnline'
    BY <1>3 DEF ContactsIndInv, LightsFit, SameAnswer
  <2> QED
    BY <2>1, <2>2 DEF ContactsIndInv, LightsFit
<1> QED
  BY <1>4, <1>5, <1>6

\* The searches that had read p's row know it as well.
LateSearches(p) == searches' = {[s EXCEPT !.late = @ \cup {q \in {p} : s.read}] : s \in searches}
OwnSearches(p) == searches' = {[s EXCEPT !.own = @ \cup {q \in {p} : s.read}] : s \in searches}

LEMMA OvertakenSearches ==
  ASSUME ContactsIndInv, NEW p \in Peers, LateSearches(p) \/ OwnSearches(p), rows' \in [Peers -> Standings],
         \A q \in Peers \ {p} : rows'[q] = rows[q], UNCHANGED <<search, asked>>
  PROVE  /\ searches' \subseteq SearchCalls /\ SearchFits'
         /\ \A s \in searches' : s.no \in 1 .. asked
         /\ \A s \in searches' : s.read => \A q \in Peers \ (s.late \cup s.own) : s.of[q] = rows'[q]
<1> DEFINE Late(s) == [s EXCEPT !.late = s.late \cup {q \in {p} : s.read}]
           Own(s) == [s EXCEPT !.own = s.own \cup {q \in {p} : s.read}]
<1>1. searches' = {Late(s) : s \in searches} \/ searches' = {Own(s) : s \in searches}
  BY DEF LateSearches, OwnSearches
<1>2. ASSUME NEW s \in searches
      PROVE  /\ Late(s) \in SearchCalls /\ Late(s).no = s.no /\ Late(s).text = s.text
             /\ Late(s).read = s.read /\ Late(s).of = s.of /\ Late(s).own = s.own
             /\ Late(s).late = s.late \cup {q \in {p} : s.read}
             /\ Own(s) \in SearchCalls /\ Own(s).no = s.no /\ Own(s).text = s.text
             /\ Own(s).read = s.read /\ Own(s).of = s.of /\ Own(s).late = s.late
             /\ Own(s).own = s.own \cup {q \in {p} : s.read}
             /\ s.no \in 1 .. asked
  <2>1. s \in SearchCalls /\ s.no \in 1 .. asked
    BY DEF ContactsIndInv, Shapes
  <2> QED
    BY <2>1 DEF SearchCalls
<1> HIDE DEF Late, Own
<1>3. \A t \in searches' : \E s \in searches :
        /\ t \in SearchCalls /\ t.no = s.no /\ t.text = s.text /\ t.read = s.read /\ t.of = s.of
        /\ t.late \cup t.own = s.late \cup s.own \cup {q \in {p} : s.read} /\ s.no \in 1 .. asked
  <2>1. ASSUME NEW s \in searches
        PROVE  /\ Late(s).late \cup Late(s).own = s.late \cup s.own \cup {q \in {p} : s.read}
               /\ Own(s).late \cup Own(s).own = s.late \cup s.own \cup {q \in {p} : s.read}
    BY <1>2
  <2> QED
    BY <1>1, <1>2, <2>1
<1>4. SearchFits'
  <2>1. searches # {} => searches' # {}
    BY <1>1
  <2> QED
    BY <1>3, <2>1 DEF ContactsIndInv, SearchFits
<1>5. \A s \in searches' : s.read => \A q \in Peers \ (s.late \cup s.own) : s.of[q] = rows'[q]
  <2> SUFFICES ASSUME NEW t \in searches', t.read, NEW q \in Peers, q \notin t.late \cup t.own
               PROVE  t.of[q] = rows'[q]
    OBVIOUS
  <2>1. PICK s \in searches : /\ t.read = s.read /\ t.of = s.of
                              /\ t.late \cup t.own = s.late \cup s.own \cup {r \in {p} : s.read}
    BY <1>3
  <2>2. q \notin s.late \cup s.own /\ q # p /\ s.read
    BY <2>1
  <2> QED
    BY <2>1, <2>2 DEF ContactsIndInv, ResultsFit
<1> QED
  BY <1>3, <1>4, <1>5

\* The calls that had stored something for p are known to be overtaken; ws are
\* the calls that may be.
Overtaken(new, ws, p) ==
  /\ new \subseteq Flows
  /\ \A v \in new : \E w \in ws : /\ v.op = w.op /\ v.peer = w.peer /\ (v.stored <=> w.stored)
                                  /\ ~v.overtaken => ~w.overtaken /\ ~(w.peer = p /\ w.stored)
  /\ \A w \in ws : \E v \in new : v.op = w.op /\ v.peer = w.peer /\ (v.stored <=> w.stored)

LEMMA OvertakenFlows ==
  ASSUME NEW p \in Peers, NEW ws \in SUBSET Flows
  PROVE  Overtaken({[w EXCEPT !.overtaken = @ \/ (w.peer = p /\ w.stored)] : w \in ws}, ws, p)
<1> DEFINE Over(w) == [w EXCEPT !.overtaken = w.overtaken \/ (w.peer = p /\ w.stored)]
           new == {Over(w) : w \in ws}
<1>1. ASSUME NEW w \in ws
      PROVE  /\ Over(w) \in Flows /\ Over(w).op = w.op /\ Over(w).peer = w.peer /\ (Over(w).stored <=> w.stored)
             /\ ~Over(w).overtaken => ~w.overtaken /\ ~(w.peer = p /\ w.stored)
  <2>1. w \in Flows
    OBVIOUS
  <2>2. (w.overtaken \/ (w.peer = p /\ w.stored)) \in BOOLEAN
    OBVIOUS
  <2>3. Over(w) \in Flows /\ Over(w).op = w.op /\ Over(w).peer = w.peer /\ Over(w).stored = w.stored
    BY <2>1, <2>2 DEF Flows
  <2>4. Over(w).overtaken <=> (w.overtaken \/ (w.peer = p /\ w.stored))
    BY <2>1 DEF Flows
  <2> QED
    BY <2>3, <2>4
<1>2. \A v \in new : \E w \in ws : v = Over(w)
  OBVIOUS
<1>3. \A w \in ws : Over(w) \in new
  OBVIOUS
<1>4. new = {[w EXCEPT !.overtaken = @ \/ (w.peer = p /\ w.stored)] : w \in ws}
  OBVIOUS
<1> HIDE DEF Over, new
<1>5. Overtaken(new, ws, p)
  <2>1. new \subseteq Flows
    BY <1>1, <1>2
  <2>2. \A v \in new : \E w \in ws : /\ v.op = w.op /\ v.peer = w.peer /\ (v.stored <=> w.stored)
                                     /\ ~v.overtaken => ~w.overtaken /\ ~(w.peer = p /\ w.stored)
    BY <1>1, <1>2
  <2>3. \A w \in ws : \E v \in new : v.op = w.op /\ v.peer = w.peer /\ (v.stored <=> w.stored)
    BY <1>1, <1>3
  <2> QED
    BY <2>1, <2>2, <2>3 DEF Overtaken
<1> QED
  BY <1>4, <1>5

LEMMA ChangesElsewhere ==
  ASSUME ContactsIndInv, NEW p \in Peers, Elsewhere(p)
  PROVE  ContactsIndInv'
<1>1. /\ UNCHANGED <<isOnline, events, friends, lit, pending, from, back, dim, fetched, sendingReq, search,
                     asked, unmarked>>
      /\ behind' = behind \cup {p} /\ odd' = odd \cup {p} /\ Overtakes(p) /\ LateSearches(p)
      /\ ops < MaxOps /\ ops' = ops + 1
  BY DEF Elsewhere, Operate, LateSearches
<1>2. /\ rows' \in [Peers -> Standings]
      /\ \A q \in Peers \ {p} : rows'[q] = rows[q]
  <2>1. rows[p] \in Standings /\ rows \in [Peers -> Standings]
    BY DEF ContactsIndInv, Shapes
  <2>2. PICK s \in May[rows[p]] : rows' = [rows EXCEPT ![p] = s]
    BY DEF Elsewhere
  <2>3. s \in Standings
    BY <2>1, MayShape
  <2> QED
    BY <2>1, <2>2, <2>3
<1>3. /\ flows' \subseteq Flows
      /\ \A v \in flows' : \E w \in flows : /\ v.op = w.op /\ v.peer = w.peer /\ (v.stored <=> w.stored)
                                            /\ ~v.overtaken => ~w.overtaken /\ ~(w.peer = p /\ w.stored)
      /\ \A w \in flows : \E v \in flows' : v.op = w.op /\ v.peer = w.peer /\ (v.stored <=> w.stored)
  <2>1. flows \in SUBSET Flows
    BY DEF ContactsIndInv, Shapes
  <2>2. Overtaken({[w EXCEPT !.overtaken = @ \/ (w.peer = p /\ w.stored)] : w \in flows}, flows, p)
    BY <2>1, OvertakenFlows
  <2>3. flows' = {[w EXCEPT !.overtaken = @ \/ (w.peer = p /\ w.stored)] : w \in flows}
    BY DEF Elsewhere
  <2>4. Overtaken(flows', flows, p)
    BY <2>2, <2>3
  <2> QED
    BY <2>4 DEF Overtaken
<1>4. /\ fetches' \subseteq FetchCalls /\ LightsFit'
      /\ \A f \in fetches' : f.no \in 1 .. fetched /\ f.lit \subseteq f.friends
      /\ \A g \in fetches' : \E f \in fetches :
           SameAnswer(g, f) /\ g.late = f.late \cup {q \in {p} : f.got # {}} /\ g.own = f.own
  BY <1>1, OvertakenFetches
<1>11. FetchesFit'
  <2> SUFFICES ASSUME NEW g \in fetches'
               PROVE  /\ \A q \in Peers \ (g.late \cup g.own) :
                           /\ "friends" \in g.got => (q \in g.friends <=> rows'[q] = "friends")
                           /\ "pending" \in g.got => (q \in g.pending <=> rows'[q] = "received")
                      /\ g.own # {} => g.got # {}
                      /\ g.no = fetched => \A q \in g.own \ g.late :
                           \/ \E w \in flows' : Settles(w, q)
                           \/ /\ rows'[q] # "friends"
                              /\ "pending" \in g.got => (q \in g.pending <=> rows'[q] = "received")
    BY <1>1 DEF FetchesFit, Settles
  <2>1. PICK f \in fetches : SameAnswer(g, f) /\ g.late = f.late \cup {q \in {p} : f.got # {}} /\ g.own = f.own
    BY <1>4
  <2>2. /\ \A q \in Peers \ (f.late \cup f.own) :
             /\ "friends" \in f.got => (q \in f.friends <=> rows[q] = "friends")
             /\ "pending" \in f.got => (q \in f.pending <=> rows[q] = "received")
        /\ f.own # {} => f.got # {}
    BY DEF ContactsIndInv, FetchesFit
  <2>3. ASSUME NEW q \in Peers, q \notin g.late, q \notin g.own
        PROVE  /\ "friends" \in g.got => (q \in g.friends <=> rows'[q] = "friends")
               /\ "pending" \in g.got => (q \in g.pending <=> rows'[q] = "received")
    BY <1>2, <2>1, <2>2, <2>3 DEF SameAnswer
  <2>4. ASSUME g.no = fetched, NEW q \in g.own, q \notin g.late
        PROVE  \/ \E w \in flows' : Settles(w, q)
               \/ /\ rows'[q] # "friends"
                  /\ "pending" \in g.got => (q \in g.pending <=> rows'[q] = "received")
    <3>1. q \in Peers /\ q # p /\ q \in f.own /\ q \notin f.late /\ f.no = fetched
      BY <2>1, <2>2, <2>4 DEF ContactsIndInv, Shapes, FetchCalls, SameAnswer
    <3>2. \/ \E w \in flows : Settles(w, q)
          \/ rows[q] # "friends" /\ ("pending" \in f.got => (q \in f.pending <=> rows[q] = "received"))
      BY <3>1 DEF ContactsIndInv, FetchesFit
    <3>3. rows'[q] = rows[q]
      BY <1>2, <3>1
    <3> QED
      BY <1>3, <2>1, <3>2, <3>3 DEF Settles, SameAnswer
  <2> QED
    BY <2>1, <2>2, <2>3, <2>4 DEF SameAnswer
<1>5. /\ searches' \subseteq SearchCalls /\ SearchFits'
      /\ \A s \in searches' : s.no \in 1 .. asked
      /\ \A s \in searches' : s.read => \A q \in Peers \ (s.late \cup s.own) : s.of[q] = rows'[q]
  BY <1>1, <1>2, OvertakenSearches
<1>6. Shapes'
  BY <1>1, <1>2, <1>3, <1>4, <1>5, ContactsAssumption DEF ContactsIndInv, Shapes
<1>7. ShownFits'
  <2> SUFFICES ASSUME from = fetched, NEW q \in Peers, q # p, q \notin behind PROVE Right(q)' \/ WillBeRight(q)'
    BY <1>1 DEF ShownFits
  <2>1. Right(q) \/ WillBeRight(q)
    BY DEF ContactsIndInv, ShownFits
  <2>2. rows'[q] = rows[q]
    BY <1>2
  <2>3. CASE Right(q)
    BY <1>1, <2>2, <2>3 DEF Right
  <2>4. CASE WillBeRight(q)
    BY <1>1, <1>3, <2>2, <2>4 DEF WillBeRight, Removed, Settles
  <2> QED
    BY <2>1, <2>3, <2>4
<1>8. WritesStand'
  <2> SUFFICES ASSUME NEW v \in flows', v.stored, ~v.overtaken
               PROVE  (v.op = "remove" => rows'[v.peer] \in {"none", "sent"}) /\ (v.op = "ask" => rows'[v.peer] = "sent")
    BY DEF WritesStand
  <2>1. PICK w \in flows : /\ v.op = w.op /\ v.peer = w.peer /\ (v.stored <=> w.stored)
                           /\ ~w.overtaken /\ ~(w.peer = p /\ w.stored)
    BY <1>3
  <2>2. w.peer \in Peers
    BY DEF ContactsIndInv, Shapes, Flows
  <2>3. rows'[w.peer] = rows[w.peer]
    BY <1>2, <2>1, <2>2
  <2> QED
    BY <2>1, <2>3 DEF ContactsIndInv, WritesStand
<1>9. EventsTell'
  BY <1>1, StatusKept
<1>10. ResultsFit'
  <2>1. ASSUME search.results.no > 0, NEW q \in Peers, q # p, q \notin odd \cup unmarked
        PROVE  search.results.of[q] = rows'[q] \/ \E w \in flows' : w.op = "ask" /\ w.peer = q /\ w.stored
    <3>1. search.results.of[q] = rows[q] \/ \E w \in flows : w.op = "ask" /\ w.peer = q /\ w.stored
      BY <2>1 DEF ContactsIndInv, ResultsFit
    <3> QED
      BY <1>2, <1>3, <2>1, <3>1
  <2> QED
    BY <1>1, <1>5, <2>1 DEF ResultsFit
<1> QED
  BY <1>4, <1>5, <1>6, <1>7, <1>8, <1>9, <1>10, <1>11 DEF ContactsIndInv

LEMMA StatusesChange ==
  ASSUME ContactsIndInv, NEW p \in Peers, StatusChanges(p)
  PROVE  ContactsIndInv'
<1>1. /\ UNCHANGED <<rows, friends, lit, pending, from, behind, back, dim, fetched, flows, sendingReq, search,
                     searches, asked, odd, unmarked>>
      /\ isOnline' = (isOnline \ {p}) \cup ({p} \ isOnline)
      /\ ops < MaxOps /\ ops' = ops + 1
  BY DEF StatusChanges, Operate, lists, asking
<1>2. PICK e : e = [peer |-> p, on |-> p \notin isOnline]
  OBVIOUS
<1>3. e \in StatusEvents /\ e.peer = p /\ (e.on <=> p \in isOnline')
  BY <1>1, <1>2 DEF StatusEvents
<1>4. /\ events' = Append(events, e) /\ events \in Seq(StatusEvents)
  BY <1>2 DEF StatusChanges, ContactsIndInv, Shapes
<1>5. /\ events' \in Seq(StatusEvents) /\ Len(events') = Len(events) + 1 /\ events'[Len(events) + 1] = e
      /\ \A i \in 1 .. Len(events) : events'[i] = events[i]
      /\ Len(events) \in Nat /\ DOMAIN events = 1 .. Len(events) /\ DOMAIN events' = 1 .. Len(events) + 1
  BY <1>3, <1>4, AppendProperties
<1> DEFINE Moved(f) == [f EXCEPT !.moved = f.moved \cup {q \in {p} : "friends" \in f.got}]
<1>6. fetches' = {Moved(f) : f \in fetches}
  BY DEF StatusChanges
<1>7. ASSUME NEW f \in fetches
      PROVE  /\ Moved(f) \in FetchCalls /\ Moved(f).got = f.got /\ Moved(f).friends = f.friends
             /\ Moved(f).lit = f.lit /\ Moved(f).pending = f.pending /\ Moved(f).late = f.late /\ Moved(f).own = f.own
             /\ Moved(f).no = f.no /\ Moved(f).moved = f.moved \cup {q \in {p} : "friends" \in f.got}
             /\ f.no \in 1 .. fetched /\ f.lit \subseteq f.friends
  <2>1. f \in FetchCalls /\ f.no \in 1 .. fetched /\ f.lit \subseteq f.friends
    BY DEF ContactsIndInv, Shapes
  <2> QED
    BY <2>1 DEF FetchCalls
<1> HIDE DEF Moved
<1>8. Shapes'
  <2>1. /\ fetches' \subseteq FetchCalls
        /\ \A f \in fetches' : f.no \in 1 .. fetched /\ f.lit \subseteq f.friends
    BY <1>6, <1>7
  <2> QED
    BY <1>1, <1>5, <2>1, ContactsAssumption DEF ContactsIndInv, Shapes
<1>9. ShownFits' /\ WritesStand'
  BY <1>1, ShownKept, WritesKept
<1>10. FetchesFit'
  <2>1. \A g \in fetches' : \E f \in fetches : /\ g.got = f.got /\ g.friends = f.friends /\ g.pending = f.pending
                                             /\ g.late = f.late /\ g.own = f.own /\ g.no = f.no
    BY <1>6, <1>7
  <2> QED
    BY <1>1, <2>1 DEF ContactsIndInv, FetchesFit, Settles
<1>11. EventsTell'
  <2> SUFFICES ASSUME NEW i \in DOMAIN events', \A j \in DOMAIN events' : j > i => events'[j].peer # events'[i].peer
               PROVE  events'[i].on <=> events'[i].peer \in isOnline'
    BY DEF EventsTell
  <2>1. CASE i = Len(events) + 1
    BY <1>3, <1>5, <2>1
  <2>2. CASE i # Len(events) + 1
    <3>1. i \in DOMAIN events /\ events'[i] = events[i] /\ events[i].peer # p
      BY <1>3, <1>5, <2>2
    <3>2. \A j \in DOMAIN events : j > i => events[j].peer # events[i].peer
      BY <1>5, <3>1
    <3>3. events[i].on <=> events[i].peer \in isOnline
      BY <3>1, <3>2 DEF ContactsIndInv, EventsTell
    <3> QED
      BY <1>1, <3>1, <3>3
  <2> QED
    BY <2>1, <2>2
<1>12. LightsFit'
  <2>1. p \in Coming' /\ Coming \subseteq Coming'
    BY <1>3, <1>5 DEF Coming
  <2>2. ASSUME NEW f \in fetches, "friends" \in f.got, NEW q \in f.friends, q \notin Moved(f).moved
        PROVE  q \in f.lit <=> q \in isOnline'
    BY <1>1, <1>7, <2>2 DEF ContactsIndInv, LightsFit
  <2>3. \A f \in fetches' : "friends" \in f.got => \A q \in f.friends \ f.moved : q \in f.lit <=> q \in isOnline'
    BY <1>6, <1>7, <2>2
  <2> QED
    BY <1>1, <2>1, <2>3 DEF ContactsIndInv, LightsFit
<1>13. SearchFits' /\ ResultsFit'
  BY <1>1, SearchKept, ResultsKept
<1> QED
  BY <1>8, <1>9, <1>10, <1>11, <1>12, <1>13 DEF ContactsIndInv

LEMMA StatusesArrive ==
  ASSUME ContactsIndInv, StatusArrives
  PROVE  ContactsIndInv'
<1>1. /\ UNCHANGED <<rows, isOnline, friends, pending, from, behind, back, fetches, fetched, flows, sendingReq,
                     search, searches, asked, odd, unmarked, ops>>
      /\ events # <<>> /\ events' = Tail(events) /\ events \in Seq(StatusEvents)
  BY DEF StatusArrives, asking, ContactsIndInv, Shapes
<1>2. /\ Tail(events) \in Seq(StatusEvents) /\ Len(Tail(events)) = Len(events) - 1
      /\ \A i \in 1 .. Len(Tail(events)) : Tail(events)[i] = events[i + 1]
      /\ Len(events) \in Nat \ {0} /\ DOMAIN events = 1 .. Len(events)
      /\ DOMAIN Tail(events) = 1 .. Len(events) - 1 /\ Head(events) = events[1] /\ Head(events) \in StatusEvents
  BY <1>1, HeadTailProperties, EmptySeq, ElementOfSeq
<1>3. PICK e : e = Head(events)
  OBVIOUS
<1>4. e \in StatusEvents /\ e.peer \in Peers /\ e.on \in BOOLEAN
  BY <1>2, <1>3 DEF StatusEvents
<1>5. \/ lit' = (lit \ {e.peer}) \cup {p \in {e.peer} \cap friends : e.on} /\ dim' = dim
      \/ lit' = lit /\ dim' = dim \cup {e.peer}
  BY <1>3 DEF StatusArrives, Lights
<1>6. Shapes'
  <2>1. lit' \subseteq friends /\ dim' \subseteq Peers
    BY <1>4, <1>5 DEF ContactsIndInv, Shapes
  <2> QED
    BY <1>1, <1>2, <2>1 DEF ContactsIndInv, Shapes
<1>7. ShownFits' /\ FetchesFit' /\ WritesStand'
  BY <1>1, ShownKept, FetchesKept, WritesKept
<1>8. EventsTell'
  <2> SUFFICES ASSUME NEW i \in DOMAIN Tail(events),
                      \A j \in DOMAIN Tail(events) : j > i => Tail(events)[j].peer # Tail(events)[i].peer
               PROVE  Tail(events)[i].on <=> Tail(events)[i].peer \in isOnline
    BY <1>1 DEF EventsTell
  <2>1. i + 1 \in DOMAIN events /\ Tail(events)[i] = events[i + 1]
    BY <1>2
  <2>2. ASSUME NEW j \in DOMAIN events, j > i + 1 PROVE events[j].peer # events[i + 1].peer
    <3>1. j - 1 \in DOMAIN Tail(events) /\ j - 1 > i /\ Tail(events)[j - 1] = events[j]
      BY <1>2, <2>2
    <3> QED
      BY <2>1, <3>1
  <2> QED
    BY <2>1, <2>2 DEF ContactsIndInv, EventsTell
<1>9. LightsFit'
  <2>1. Coming' \subseteq Coming /\ Coming \subseteq Coming' \cup {e.peer}
    <3>1. \A i \in DOMAIN events : i = 1 \/ (i - 1 \in DOMAIN Tail(events) /\ Tail(events)[i - 1] = events[i])
      BY <1>2
    <3>2. \A i \in DOMAIN Tail(events) : i + 1 \in DOMAIN events /\ Tail(events)[i] = events[i + 1]
      BY <1>2
    <3>3. Coming' = {Tail(events)[i].peer : i \in DOMAIN Tail(events)}
      BY <1>1 DEF Coming
    <3>4. \A q \in Coming' : \E i \in DOMAIN Tail(events) : q = Tail(events)[i].peer
      BY <3>3
    <3>5. \A q \in Coming : \E i \in DOMAIN events : q = events[i].peer
      BY DEF Coming
    <3>6. \A i \in DOMAIN events : events[i].peer \in Coming
      BY DEF Coming
    <3>7. \A i \in DOMAIN Tail(events) : Tail(events)[i].peer \in Coming'
      BY <3>3
    <3>8. Coming' \subseteq Coming
      BY <3>2, <3>4, <3>6
    <3>9. \A q \in Coming : q \in Coming' \/ q = e.peer
      <4> SUFFICES ASSUME NEW q \in Coming PROVE q \in Coming' \/ q = e.peer
        OBVIOUS
      <4>1. PICK i \in DOMAIN events : q = events[i].peer
        BY <3>5
      <4> QED
        BY <1>2, <1>3, <3>1, <3>7, <4>1
    <3> QED
      BY <3>8, <3>9
  <2>2. e.peer \notin Coming' => (e.on <=> e.peer \in isOnline)
    <3> SUFFICES ASSUME e.peer \notin Coming' PROVE e.on <=> e.peer \in isOnline
      OBVIOUS
    <3>1. \A j \in DOMAIN events : j > 1 => events[j].peer # e.peer
      <4> SUFFICES ASSUME NEW j \in DOMAIN events, j > 1 PROVE events[j].peer # e.peer
        OBVIOUS
      <4>1. j - 1 \in DOMAIN Tail(events) /\ Tail(events)[j - 1] = events[j]
        BY <1>2
      <4> QED
        BY <1>1, <4>1 DEF Coming
    <3>2. 1 \in DOMAIN events /\ events[1] = e
      BY <1>2, <1>3
    <3> QED
      BY <3>1, <3>2 DEF ContactsIndInv, EventsTell
  <2>3. ASSUME NEW q \in friends, q \notin dim', q \notin Coming' PROVE q \in lit' <=> q \in isOnline
    <3>1. CASE q = e.peer
      BY <1>4, <1>5, <2>2, <2>3, <3>1
    <3>2. CASE q # e.peer
      BY <1>5, <2>1, <2>3, <3>2 DEF ContactsIndInv, LightsFit
    <3> QED
      BY <3>1, <3>2
  <2> QED
    BY <1>1, <2>3 DEF ContactsIndInv, LightsFit
<1>10. SearchFits' /\ ResultsFit'
  BY <1>1, SearchKept, ResultsKept
<1> QED
  BY <1>6, <1>7, <1>8, <1>9, <1>10 DEF ContactsIndInv

-----------------------------------------------------------------------------
(* Contacts: requests answered and made, friendships ended.                *)

LEMMA PressesButton ==
  ASSUME ContactsIndInv, NEW p \in Peers, NEW op \in DOMAIN Takes, Press(op, p)
  PROVE  ContactsIndInv'
<1>1. /\ UNCHANGED <<rows, isOnline, events, friends, lit, pending, from, behind, back, dim, fetches, fetched,
                     search, searches, asked, odd, unmarked>>
      /\ ops < MaxOps /\ ops' = ops + 1
  BY DEF Press, Operate, world, lists, asking
<1>2. PICK w : w = [op |-> op, peer |-> p, stored |-> FALSE, overtaken |-> FALSE]
  OBVIOUS
<1>3. flows' = flows \cup {w} /\ sendingReq' \subseteq Peers
  BY <1>2 DEF Press, ContactsIndInv, Shapes
<1>4. w \in Flows /\ ~w.stored
  BY <1>2, TakesGives DEF Flows
<1>5. Shapes'
  BY <1>1, <1>3, <1>4, ContactsAssumption DEF ContactsIndInv, Shapes
<1>6. ShownFits' /\ FetchesFit' /\ WritesStand' /\ EventsTell' /\ LightsFit'
  BY <1>1, <1>3, <1>4, ShownKept, FetchesKept, WritesKept, LightsKept
<1>7. SearchFits' /\ ResultsFit'
  BY <1>1, <1>3, SearchKept, ResultsKept
<1> QED
  BY <1>5, <1>6, <1>7 DEF ContactsIndInv

LEMMA StoresAnswer ==
  ASSUME ContactsIndInv, NEW w \in flows, Store(w)
  PROVE  ContactsIndInv'
<1>1. /\ UNCHANGED <<isOnline, events, friends, lit, pending, from, back, dim, behind, fetched, sendingReq,
                     search, asked, odd, ops>>
      /\ IF w.op = "ask" THEN UNCHANGED fetches ELSE OvertakesOwn(w.peer)
      /\ OwnSearches(w.peer) /\ ~w.stored /\ rows[w.peer] \in Takes[w.op]
      /\ unmarked' = unmarked \cup {p \in {w.peer} : w.op # "ask"}
      /\ rows' = [rows EXCEPT ![w.peer] = Gives[w.op]]
  BY DEF Store, OwnSearches, lists
<1>2. w \in Flows /\ w.peer \in Peers /\ w.op \in {"accept", "decline", "remove", "ask"}
  BY DEF ContactsIndInv, Shapes, Flows
<1>3. /\ rows' \in [Peers -> Standings] /\ rows'[w.peer] = Gives[w.op]
      /\ \A q \in Peers \ {w.peer} : rows'[q] = rows[q]
  <2>1. Gives[w.op] \in Standings
    BY <1>2, TakesGives DEF Standings
  <2> QED
    BY <1>1, <1>2, <2>1 DEF ContactsIndInv, Shapes
<1>4. PICK done : done = [w EXCEPT !.stored = TRUE]
  OBVIOUS
<1>5. done \in Flows /\ done.op = w.op /\ done.peer = w.peer /\ done.stored
  BY <1>2, <1>4 DEF Flows
<1>6. flows' = (flows \ {w}) \cup {done} /\ flows' \subseteq Flows /\ \A u \in flows : u.stored => u \in flows'
  BY <1>1, <1>4, <1>5 DEF Store, ContactsIndInv, Shapes
<1>7. /\ w.op \in {"accept", "decline"} => rows[w.peer] = "received"
      /\ w.op = "remove" => rows[w.peer] = "friends" /\ rows'[w.peer] = "none"
      /\ w.op = "ask" => rows[w.peer] \in {"none", "declined", "refused"} /\ rows'[w.peer] = "sent"
  BY <1>1, <1>3, TakesGives
<1>8. /\ fetches' \subseteq FetchCalls /\ LightsFit'
      /\ \A f \in fetches' : f.no \in 1 .. fetched /\ f.lit \subseteq f.friends
      /\ \A g \in fetches' : \E f \in fetches :
           /\ SameAnswer(g, f) /\ g.late = f.late
           /\ g.own = IF w.op = "ask" THEN f.own ELSE f.own \cup {q \in {w.peer} : f.got # {}}
  <2>1. CASE w.op = "ask"
    BY <1>1, <2>1 DEF ContactsIndInv, Shapes, LightsFit, Coming, SameAnswer
  <2>2. CASE w.op # "ask"
    <3>1. OvertakesOwn(w.peer)
      BY <1>1, <2>2
    <3>2. \A g \in fetches' : \E f \in fetches :
            SameAnswer(g, f) /\ g.late = f.late /\ g.own = f.own \cup {q \in {w.peer} : f.got # {}}
      <4>1. \A f \in fetches : LET g == [f EXCEPT !.own = f.own \cup {q \in {w.peer} : f.got # {}}] IN
              SameAnswer(g, f) /\ g.late = f.late /\ g.own = f.own \cup {q \in {w.peer} : f.got # {}}
        BY DEF ContactsIndInv, Shapes, FetchCalls, SameAnswer
      <4> QED
        BY <3>1, <4>1 DEF OvertakesOwn
    <3> QED
      BY <1>1, <1>2, <2>2, <3>1, <3>2, OvertakenFetches
  <2> QED
    BY <2>1, <2>2
<1>9. FetchesFit'
  <2> SUFFICES ASSUME NEW g \in fetches'
               PROVE  /\ \A q \in Peers \ (g.late \cup g.own) :
                           /\ "friends" \in g.got => (q \in g.friends <=> rows'[q] = "friends")
                           /\ "pending" \in g.got => (q \in g.pending <=> rows'[q] = "received")
                      /\ g.own # {} => g.got # {}
                      /\ g.no = fetched => \A q \in g.own \ g.late :
                           \/ \E u \in flows' : Settles(u, q)
                           \/ /\ rows'[q] # "friends"
                              /\ "pending" \in g.got => (q \in g.pending <=> rows'[q] = "received")
    BY <1>1 DEF FetchesFit, Settles
  <2>1. PICK f \in fetches : /\ SameAnswer(g, f) /\ g.late = f.late
                             /\ g.own = IF w.op = "ask" THEN f.own ELSE f.own \cup {q \in {w.peer} : f.got # {}}
    BY <1>8
  <2>2. /\ \A q \in Peers \ (f.late \cup f.own) :
             /\ "friends" \in f.got => (q \in f.friends <=> rows[q] = "friends")
             /\ "pending" \in f.got => (q \in f.pending <=> rows[q] = "received")
        /\ f.own # {} => f.got # {}
    BY DEF ContactsIndInv, FetchesFit
  <2>3. ASSUME NEW q \in Peers, q \notin g.late, q \notin g.own
        PROVE  /\ "friends" \in g.got => (q \in g.friends <=> rows'[q] = "friends")
               /\ "pending" \in g.got => (q \in g.pending <=> rows'[q] = "received")
    <3>1. q \notin f.late /\ q \notin f.own
      BY <2>1, <2>3
    <3>2. CASE q # w.peer
      BY <1>3, <2>1, <2>2, <2>3, <3>1, <3>2 DEF SameAnswer
    <3>3. CASE q = w.peer /\ w.op = "ask"
      BY <1>7, <2>1, <2>2, <2>3, <3>1, <3>3 DEF SameAnswer
    <3>4. CASE q = w.peer /\ w.op # "ask"
      BY <2>1, <2>3, <3>4 DEF SameAnswer
    <3> QED
      BY <3>2, <3>3, <3>4
  <2>4. ASSUME g.no = fetched, NEW q \in g.own, q \notin g.late
        PROVE  \/ \E u \in flows' : Settles(u, q)
               \/ /\ rows'[q] # "friends"
                  /\ "pending" \in g.got => (q \in g.pending <=> rows'[q] = "received")
    <3>1. q \in Peers /\ q \notin f.late /\ f.no = fetched
      BY <1>2, <1>8, <2>1, <2>4 DEF ContactsIndInv, Shapes, FetchCalls, SameAnswer
    <3>2. q \in f.own => \/ \E u \in flows : Settles(u, q)
                         \/ rows[q] # "friends" /\ ("pending" \in f.got => (q \in f.pending <=> rows[q] = "received"))
      BY <3>1 DEF ContactsIndInv, FetchesFit
    <3>3. (\E u \in flows : Settles(u, q)) => \E u \in flows' : Settles(u, q)
      BY <1>6 DEF Settles
    <3>4. CASE q # w.peer
      BY <1>3, <2>1, <2>4, <3>1, <3>2, <3>3, <3>4 DEF SameAnswer
    <3>5. CASE q = w.peer /\ w.op \in {"accept", "decline"}
      BY <1>5, <1>6, <3>5 DEF Settles
    <3>6. CASE q = w.peer /\ w.op = "remove"
      <4>1. q \in f.own \/ ("pending" \in f.got => q \notin f.pending)
        BY <1>7, <2>2, <3>1, <3>6
      <4> QED
        BY <1>7, <2>1, <3>2, <3>3, <3>6, <4>1 DEF SameAnswer
    <3>7. CASE q = w.peer /\ w.op = "ask"
      BY <1>7, <2>1, <2>4, <3>2, <3>3, <3>7 DEF SameAnswer
    <3> QED
      BY <1>2, <3>4, <3>5, <3>6, <3>7
  <2>5. g.own # {} => g.got # {}
    BY <2>1, <2>2 DEF SameAnswer
  <2> QED
    BY <2>3, <2>4, <2>5
<1>10. /\ searches' \subseteq SearchCalls /\ SearchFits'
       /\ \A s \in searches' : s.no \in 1 .. asked
       /\ \A s \in searches' : s.read => \A q \in Peers \ (s.late \cup s.own) : s.of[q] = rows'[q]
  BY <1>1, <1>2, <1>3, OvertakenSearches
<1>11. Shapes'
  <2>1. unmarked' \subseteq Peers
    BY <1>1, <1>2 DEF ContactsIndInv, Shapes
  <2> QED
    BY <1>1, <1>3, <1>6, <1>8, <1>10, <2>1 DEF ContactsIndInv, Shapes
<1>12. ShownFits'
  <2> SUFFICES ASSUME from = fetched, NEW q \in Peers, q \notin behind PROVE Right(q)' \/ WillBeRight(q)'
    BY <1>1 DEF ShownFits
  <2>1. Right(q) \/ WillBeRight(q)
    BY DEF ContactsIndInv, ShownFits
  <2>2. CASE q # w.peer
    <3>1. rows'[q] = rows[q]
      BY <1>3, <2>2
    <3>2. CASE Right(q)
      BY <1>1, <3>1, <3>2 DEF Right
    <3>3. CASE WillBeRight(q)
      BY <1>1, <1>6, <3>1, <3>3 DEF WillBeRight, Removed, Settles
    <3> QED
      BY <2>1, <3>2, <3>3
  <2>3. CASE q = w.peer /\ w.op \in {"accept", "decline"}
    BY <1>5, <1>6, <2>3 DEF WillBeRight, Settles
  <2>4. CASE q = w.peer /\ w.op = "remove"
    <3>1. CASE Right(q)
      <4>1. Removed(q)'
        BY <1>1, <1>7, <2>4, <3>1 DEF Right, Removed
      <4> QED
        BY <1>5, <1>6, <2>4, <4>1 DEF WillBeRight
    <3>2. CASE \E u \in flows : Settles(u, q)
      BY <1>6, <3>2 DEF WillBeRight, Settles
    <3> QED
      BY <1>7, <2>1, <2>4, <3>1, <3>2 DEF WillBeRight, Removed
  <2>5. CASE q = w.peer /\ w.op = "ask"
    <3>1. CASE Right(q)
      BY <1>1, <1>7, <2>5, <3>1 DEF Right
    <3>2. CASE \E u \in flows : Settles(u, q)
      BY <1>6, <3>2 DEF WillBeRight, Settles
    <3>3. CASE Removed(q) /\ (q \in back \/ \E u \in flows : u.peer = q /\ u.stored /\ u.op = "remove")
      <4>1. Removed(q)'
        BY <1>1, <1>7, <2>5, <3>3 DEF Removed
      <4> QED
        BY <1>1, <1>6, <3>3, <4>1 DEF WillBeRight
    <3> QED
      BY <2>1, <3>1, <3>2, <3>3 DEF WillBeRight
  <2> QED
    BY <1>2, <2>2, <2>3, <2>4, <2>5
<1>13. WritesStand'
  <2> SUFFICES ASSUME NEW v \in flows', v.stored, ~v.overtaken
               PROVE  (v.op = "remove" => rows'[v.peer] \in {"none", "sent"}) /\ (v.op = "ask" => rows'[v.peer] = "sent")
    BY DEF WritesStand
  <2>1. CASE v = done
    BY <1>3, <1>5, <2>1, TakesGives
  <2>2. CASE v # done
    <3>1. /\ v \in flows /\ v.peer \in Peers
          /\ (v.op = "remove" => rows[v.peer] \in {"none", "sent"}) /\ (v.op = "ask" => rows[v.peer] = "sent")
      BY <1>6, <2>2 DEF ContactsIndInv, WritesStand, Shapes, Flows
    <3>2. CASE v.peer # w.peer
      BY <1>3, <3>1, <3>2
    <3>3. CASE v.peer = w.peer
      BY <1>2, <1>7, <3>1, <3>3
    <3> QED
      BY <3>2, <3>3
  <2> QED
    BY <2>1, <2>2
<1>14. EventsTell'
  BY <1>1, StatusKept
<1>15. ResultsFit'
  <2>1. ASSUME search.results.no > 0, NEW q \in Peers, q \notin odd, q \notin unmarked'
        PROVE  search.results.of[q] = rows'[q] \/ \E u \in flows' : u.op = "ask" /\ u.peer = q /\ u.stored
    <3>1. search.results.of[q] = rows[q] \/ \E u \in flows : u.op = "ask" /\ u.peer = q /\ u.stored
      BY <1>1, <2>1 DEF ContactsIndInv, ResultsFit
    <3>2. CASE q = w.peer
      <4>1. w.op = "ask"
        BY <1>1, <2>1, <3>2
      <4> QED
        BY <1>5, <1>6, <3>2, <4>1
    <3>3. CASE q # w.peer
      BY <1>1, <1>3, <1>6, <3>1, <3>3
    <3> QED
      BY <3>2, <3>3
  <2> QED
    BY <1>1, <1>10, <2>1 DEF ResultsFit
<1> QED
  BY <1>8, <1>9, <1>10, <1>11, <1>12, <1>13, <1>14, <1>15 DEF ContactsIndInv

LEMMA RefusesAnswer ==
  ASSUME ContactsIndInv, NEW w \in flows, Refused(w)
  PROVE  ContactsIndInv'
<1>1. /\ UNCHANGED <<rows, isOnline, events, friends, lit, pending, from, back, dim, fetched, search,
                     searches, asked, unmarked, ops>>
      /\ flows' = flows \ {w} /\ sendingReq' \subseteq sendingReq
      /\ behind' = behind \cup {p \in {w.peer} : w.stored} /\ odd' = odd \cup {p \in {w.peer} : w.stored}
  BY DEF Refused, Ends, world
<1>2. w \in Flows /\ w.peer \in Peers
  BY DEF ContactsIndInv, Shapes, Flows
<1> DEFINE Late(f) == [f EXCEPT !.late = f.late \cup {p \in f.own : p = w.peer /\ w.stored}]
<1>3. fetches' = {Late(f) : f \in fetches}
  BY DEF Refused
<1>4. ASSUME NEW f \in fetches
      PROVE  /\ Late(f) \in FetchCalls /\ SameAnswer(Late(f), f) /\ Late(f).own = f.own
             /\ Late(f).late = f.late \cup {p \in f.own : p = w.peer /\ w.stored}
             /\ f.no \in 1 .. fetched /\ f.lit \subseteq f.friends
  <2>1. f \in FetchCalls /\ f.no \in 1 .. fetched /\ f.lit \subseteq f.friends
    BY DEF ContactsIndInv, Shapes
  <2>2. {p \in f.own : p = w.peer /\ w.stored} \subseteq Peers
    BY <2>1 DEF FetchCalls
  <2> QED
    BY <2>1, <2>2 DEF FetchCalls, SameAnswer
<1> HIDE DEF Late
<1>5. Shapes'
  <2>1. /\ fetches' \subseteq FetchCalls
        /\ \A f \in fetches' : f.no \in 1 .. fetched /\ f.lit \subseteq f.friends
    BY <1>3, <1>4 DEF SameAnswer
  <2> QED
    BY <1>1, <1>2, <2>1 DEF ContactsIndInv, Shapes
<1>6. ShownFits' /\ WritesStand' /\ EventsTell'
  BY <1>1, <1>2, ShownKept, WritesKept, StatusKept
<1>7. LightsFit'
  <2>1. \A f \in fetches' : "friends" \in f.got =>
          \A q \in f.friends \ f.moved : q \in f.lit <=> q \in isOnline'
    BY <1>1, <1>3, <1>4 DEF ContactsIndInv, LightsFit, SameAnswer
  <2> QED
    BY <1>1, <2>1, StatusKept DEF ContactsIndInv, LightsFit
<1>8. FetchesFit'
  <2> SUFFICES ASSUME NEW f \in fetches
               PROVE  LET g == Late(f) IN
                      /\ \A q \in Peers \ (g.late \cup g.own) :
                           /\ "friends" \in g.got => (q \in g.friends <=> rows[q] = "friends")
                           /\ "pending" \in g.got => (q \in g.pending <=> rows[q] = "received")
                      /\ g.own # {} => g.got # {}
                      /\ g.no = fetched => \A q \in g.own \ g.late :
                           \/ \E u \in flows' : Settles(u, q)
                           \/ /\ rows[q] # "friends"
                              /\ "pending" \in g.got => (q \in g.pending <=> rows[q] = "received")
    BY <1>1, <1>3 DEF FetchesFit, Settles
  <2>1. /\ \A q \in Peers \ (f.late \cup f.own) :
             /\ "friends" \in f.got => (q \in f.friends <=> rows[q] = "friends")
             /\ "pending" \in f.got => (q \in f.pending <=> rows[q] = "received")
        /\ f.own # {} => f.got # {}
    BY DEF ContactsIndInv, FetchesFit
  <2>2. ASSUME f.no = fetched, NEW q \in f.own, q \notin Late(f).late
        PROVE  \/ \E u \in flows' : Settles(u, q)
               \/ rows[q] # "friends" /\ ("pending" \in f.got => (q \in f.pending <=> rows[q] = "received"))
    <3>1. q \notin f.late /\ ~Settles(w, q)
      BY <1>4, <2>2 DEF Settles
    <3>2. \/ \E u \in flows : Settles(u, q)
          \/ rows[q] # "friends" /\ ("pending" \in f.got => (q \in f.pending <=> rows[q] = "received"))
      BY <2>2, <3>1 DEF ContactsIndInv, FetchesFit
    <3> QED
      BY <1>1, <3>1, <3>2
  <2> QED
    BY <1>4, <2>1, <2>2 DEF SameAnswer
<1>9. SearchFits' /\ ResultsFit'
  BY <1>1, <1>2, SearchKept, ResultsKept
<1> QED
  BY <1>5, <1>6, <1>7, <1>8, <1>9 DEF ContactsIndInv

LEMMA AnswersFetch ==
  ASSUME ContactsIndInv, NEW w \in flows, Answered(w), w.op \in {"accept", "decline"}
  PROVE  ContactsIndInv'
<1>1. /\ UNCHANGED <<rows, isOnline, events, friends, lit, pending, from, behind, back, dim, sendingReq, search,
                     searches, asked, odd, unmarked, ops>>
      /\ FetchesAgain /\ flows' = flows \ {w}
  BY DEF Answered, Ends, world, lists
<1>2. Shapes'
  BY <1>1, FetchMore DEF ContactsIndInv, Shapes
<1>3. ShownFits'
  BY <1>1, FetchMore DEF ShownFits
<1>4. FetchesFit' /\ WritesStand' /\ LightsFit' /\ EventsTell'
  BY <1>1, FetchMore, WritesKept, LightsKept
<1>5. SearchFits' /\ ResultsFit'
  BY <1>1, SearchKept, ResultsKept
<1> QED
  BY <1>2, <1>3, <1>4, <1>5 DEF ContactsIndInv

LEMMA AnswersRemoval ==
  ASSUME ContactsIndInv, NEW w \in flows, Answered(w), w.op = "remove"
  PROVE  ContactsIndInv'
<1>1. /\ UNCHANGED <<rows, isOnline, events, pending, from, back, dim, fetches, fetched, sendingReq, search,
                     searches, asked, odd, unmarked, ops>>
      /\ friends' = friends \ {w.peer} /\ lit' = lit \ {w.peer} /\ flows' = flows \ {w} /\ w.stored
      /\ behind' = behind \cup {p \in {w.peer} : w.overtaken}
  BY DEF Answered, Ends, world
<1>2. w \in Flows /\ w.peer \in Peers
  BY DEF ContactsIndInv, Shapes, Flows
<1>3. Shapes'
  BY <1>1, <1>2 DEF ContactsIndInv, Shapes
<1>4. ShownFits'
  <2> SUFFICES ASSUME from = fetched, NEW q \in Peers, q \notin behind' PROVE Right(q)' \/ WillBeRight(q)'
    BY <1>1 DEF ShownFits
  <2>1. Right(q) \/ WillBeRight(q)
    BY <1>1 DEF ContactsIndInv, ShownFits
  <2>2. CASE q # w.peer
    <3>1. CASE Right(q)
      BY <1>1, <2>2, <3>1 DEF Right
    <3>2. CASE WillBeRight(q)
      BY <1>1, <2>2, <3>2 DEF WillBeRight, Removed, Settles
    <3> QED
      BY <2>1, <3>1, <3>2
  <2>3. CASE q = w.peer
    <3>1. rows[q] \in {"none", "sent"}
      BY <1>1, <2>3 DEF ContactsIndInv, WritesStand
    <3>2. CASE q \notin pending
      BY <1>1, <2>3, <3>1, <3>2 DEF Right
    <3>3. CASE q \in pending
      <4>1. \E u \in flows : Settles(u, q)
        BY <2>1, <3>1, <3>3 DEF Right, Removed, WillBeRight
      <4>2. \E u \in flows' : Settles(u, q)
        BY <1>1, <4>1 DEF Settles
      <4> QED
        BY <4>2 DEF WillBeRight, Settles
    <3> QED
      BY <3>2, <3>3
  <2> QED
    BY <2>2, <2>3
<1>5. FetchesFit' /\ WritesStand'
  BY <1>1, FetchesKept, WritesKept DEF Settles
<1>6. EventsTell' /\ LightsFit'
  BY <1>1, StatusKept DEF ContactsIndInv, LightsFit
<1>7. SearchFits' /\ ResultsFit'
  BY <1>1, SearchKept, ResultsKept
<1> QED
  BY <1>3, <1>4, <1>5, <1>6, <1>7 DEF ContactsIndInv

LEMMA AnswersRequest ==
  ASSUME ContactsIndInv, NEW w \in flows, Answered(w), w.op = "ask"
  PROVE  ContactsIndInv'
<1>1. /\ UNCHANGED <<rows, isOnline, events, friends, lit, pending, from, behind, back, dim, fetches, fetched,
                     searches, asked, ops>>
      /\ flows' = flows \ {w} /\ w.stored /\ Marked(w.peer) /\ sendingReq' = {}
      /\ odd' = odd \cup {p \in {w.peer} : w.overtaken} /\ unmarked' = unmarked \ {w.peer}
  BY DEF Answered, Ends, world, lists
<1>2. w \in Flows /\ w.peer \in Peers
  BY DEF ContactsIndInv, Shapes, Flows
<1>3. search \in SearchStates /\ search.results \in ResultLists
  BY DEF ContactsIndInv, Shapes, SearchStates
<1>4. /\ search' \in SearchStates /\ search'.query = search.query /\ search'.text = search.text
      /\ search'.timer = search.timer /\ search'.spinning = search.spinning
      /\ search'.results.no = search.results.no /\ search'.results.text = search.results.text
      /\ \A q \in Peers \ {w.peer} : search'.results.of[q] = search.results.of[q]
      /\ search.results.no > 0 => search'.results.of[w.peer] = "sent"
  <2>1. CASE search.results.no > 0
    <3>1. PICK of : of = [search.results.of EXCEPT ![w.peer] = "sent"]
      OBVIOUS
    <3>2. search.results.of \in [Peers -> Standings] /\ "sent" \in Standings
      BY <1>3 DEF ResultLists, Standings
    <3>3. of \in [Peers -> Standings] /\ of[w.peer] = "sent" /\ \A q \in Peers \ {w.peer} : of[q] = search.results.of[q]
      BY <1>2, <3>1, <3>2
    <3>4. PICK r : r = [search.results EXCEPT !.of = of]
      OBVIOUS
    <3>5. r \in ResultLists /\ r.no = search.results.no /\ r.text = search.results.text /\ r.of = of
      BY <1>3, <3>3, <3>4 DEF ResultLists
    <3>6. search' = [search EXCEPT !.results = r]
      BY <1>1, <2>1, <3>1, <3>4 DEF Marked
    <3>7. /\ search' \in SearchStates /\ search'.query = search.query /\ search'.text = search.text
          /\ search'.timer = search.timer /\ search'.spinning = search.spinning /\ search'.results = r
      BY <1>3, <3>5, <3>6 DEF SearchStates
    <3> QED
      BY <3>3, <3>5, <3>7
  <2>2. CASE ~(search.results.no > 0)
    <3>1. search' = search
      BY <1>1, <2>2 DEF Marked
    <3> QED
      BY <1>3, <2>2, <3>1
  <2> QED
    BY <2>1, <2>2
<1>5. Shapes'
  <2>1. odd' \subseteq Peers
    BY <1>1, <1>2 DEF ContactsIndInv, Shapes
  <2> QED
    BY <1>1, <1>4, <2>1 DEF ContactsIndInv, Shapes
<1>6. ShownFits' /\ FetchesFit' /\ EventsTell' /\ LightsFit'
  <2>1. ShownFits'
    <3> SUFFICES ASSUME from = fetched, NEW q \in Peers, q \notin behind PROVE Right(q)' \/ WillBeRight(q)'
      BY <1>1 DEF ShownFits
    <3>1. Right(q) \/ WillBeRight(q)
      BY DEF ContactsIndInv, ShownFits
    <3>2. CASE Right(q)
      BY <1>1, <3>2 DEF Right
    <3>3. CASE WillBeRight(q)
      BY <1>1, <3>3 DEF WillBeRight, Removed, Settles
    <3> QED
      BY <3>1, <3>2, <3>3
  <2> QED
    BY <1>1, <2>1, FetchesKept, LightsKept DEF Settles
<1>7. WritesStand'
  BY <1>1, WritesKept
<1>8. SearchFits'
  BY <1>1, <1>4 DEF ContactsIndInv, SearchFits
<1>9. ResultsFit'
  <2>1. ASSUME search'.results.no > 0, NEW q \in Peers, q \notin odd' \cup unmarked'
        PROVE  search'.results.of[q] = rows[q] \/ \E u \in flows' : u.op = "ask" /\ u.peer = q /\ u.stored
    <3>1. CASE q = w.peer
      <4>1. rows[q] = "sent"
        BY <1>1, <2>1, <3>1 DEF ContactsIndInv, WritesStand
      <4> QED
        BY <1>4, <2>1, <3>1, <4>1
    <3>2. CASE q # w.peer
      <4>1. search.results.of[q] = rows[q] \/ \E u \in flows : u.op = "ask" /\ u.peer = q /\ u.stored
        BY <1>1, <1>4, <2>1 DEF ContactsIndInv, ResultsFit
      <4> QED
        BY <1>1, <1>4, <3>2, <4>1
    <3> QED
      BY <3>1, <3>2
  <2> QED
    BY <1>1, <2>1 DEF ContactsIndInv, ResultsFit
<1> QED
  BY <1>5, <1>6, <1>7, <1>8, <1>9 DEF ContactsIndInv

-----------------------------------------------------------------------------
(* Contacts: every step, and what follows.                                 *)

LEMMA ContactsStep == ContactsIndInv /\ [ContactsNext]_contactVars => ContactsIndInv'
<1> SUFFICES ASSUME ContactsIndInv, [ContactsNext]_contactVars PROVE ContactsIndInv'
  OBVIOUS
<1>1. CASE TokenChanges
  BY <1>1, TokenSteps
<1>2. CASE StatusArrives
  BY <1>2, StatusesArrive
<1>3. CASE \E f \in fetches : ReadFriends(f) \/ ReadPending(f) \/ FetchArrives(f) \/ ListsFail(f)
  BY <1>3, ReadsLists, FetchesArrive, ListsFailing
<1>4. CASE \E p \in Peers : Elsewhere(p) \/ StatusChanges(p)
  BY <1>4, ChangesElsewhere, StatusesChange
<1>5. CASE \E p \in Peers, op \in DOMAIN Takes : Press(op, p)
  BY <1>5, PressesButton
<1>6. CASE \E w \in flows : Store(w) \/ Answered(w) \/ Refused(w)
  <2>1. PICK w \in flows : Store(w) \/ Answered(w) \/ Refused(w)
    BY <1>6
  <2>2. w.op \in {"accept", "decline", "remove", "ask"}
    BY DEF ContactsIndInv, Shapes, Flows
  <2> QED
    BY <2>1, <2>2, StoresAnswer, RefusesAnswer, AnswersFetch, AnswersRemoval, AnswersRequest
<1>7. CASE \E text \in Texts \cup {Short} : Type(text)
  BY <1>7, Types
<1>8. CASE OpenDirect
  BY <1>8, Types
<1>9. CASE TimerFires
  BY <1>9, TimerSteps
<1>10. CASE \E s \in searches : SearchUsers(s) \/ SearchEnds(s)
  BY <1>10, SearchReads, SearchesEnd
<1>11. CASE UNCHANGED contactVars
  <2>1. UNCHANGED <<rows, isOnline, events, friends, lit, pending, fetches, fetched, from, flows, sendingReq,
                    search, searches, asked, ops, behind, back, dim, odd, unmarked>>
    BY <1>11 DEF contactVars
  <2>2. Shapes'
    BY <2>1 DEF ContactsIndInv, Shapes
  <2> QED
    BY <2>1, <2>2, ListsKept, SearchKept, ResultsKept DEF ContactsIndInv
<1> QED
  BY <1>1, <1>2, <1>3, <1>4, <1>5, <1>6, <1>7, <1>8, <1>9, <1>10, <1>11 DEF ContactsNext

\* With nothing awaited, what the page shows is what the invariant says of it.
LEMMA ContactsShown == ContactsIndInv => ContactsInv
<1> SUFFICES ASSUME ContactsIndInv PROVE ContactsInv
  OBVIOUS
<1>1. ContactsTypeOK
  BY ShapesAreTyped DEF ContactsIndInv
<1>2. FriendsRight
  <2> SUFFICES ASSUME fetches = {}, flows = {}, from = fetched
               PROVE  /\ \A p \in Peers \ behind : Right(p) \/ (Removed(p) /\ p \in back)
                      /\ events = <<>> => \A p \in friends \ dim : p \in lit <=> p \in isOnline
    BY DEF FriendsRight, Right, Removed
  <2>1. \A p \in Peers \ behind : Right(p) \/ (Removed(p) /\ p \in back)
    BY DEF ContactsIndInv, ShownFits, WillBeRight
  <2>2. ASSUME events = <<>> PROVE Coming = {}
    BY <2>2, EmptySeq DEF Coming
  <2> QED
    BY <2>1, <2>2 DEF ContactsIndInv, LightsFit
<1>3. SearchRight
  <2> SUFFICES ASSUME search.query # Short, ~search.timer, searches = {}
               PROVE  /\ ~search.spinning
                      /\ search.results.no = asked =>
                           /\ search.results.text = search.query
                           /\ flows = {} => \A p \in Peers \ (odd \cup unmarked) : search.results.of[p] = rows[p]
    BY DEF SearchRight
  <2>1. asked >= 1 /\ ~search.spinning /\ (search.results.no = asked => search.results.text = search.query)
    BY DEF ContactsIndInv, SearchFits
  <2> QED
    BY <2>1 DEF ContactsIndInv, ResultsFit, Shapes
<1> QED
  BY <1>1, <1>2, <1>3 DEF ContactsInv

\* When nothing is awaited, the friends, requests and lights of a page whose last
\* fetch was the one shown are the server's, and the results of the last search
\* are of the text typed and of the rows, whatever calls, answers, failures and
\* events overlapped before (fetchAll, respondToRequest, removeFriend, onStatus,
\* handleSearch, handleSendRequest).
THEOREM ContactsSafe == ContactsSpec => []ContactsInv
<1>1. ContactsIndInv /\ [ContactsNext]_contactVars => ContactsIndInv'
  BY ContactsStep
<1> QED
  BY <1>1, ContactsStart, ContactsShown, PTL DEF ContactsSpec

-----------------------------------------------------------------------------
(* Calls.  A page hears of each end because the socket keeps the order of  *)
(* what the server sends: CallsIndInv says where the end of every call is  *)
(* that some page still shows or is still to be told of.  First, what is   *)
(* in a queue.                                                             *)

Kinds == {"call", "accept", "reject", "end", "busy", "offer", "answer"}
Overs == {"reject", "end", "busy"}

Has(q, m, c) == \E i \in DOMAIN q : q[i].m = m /\ q[i].call = c
Over(q, c) == \E m \in Overs : Has(q, m, c)

\* A call is announced once in a queue; its end comes after its announcement.
TellsOnce(q, c) ==
  \A i, j \in DOMAIN q : q[i].m = "call" /\ q[i].call = c /\ q[j].m = "call" /\ q[j].call = c => i = j
Followed(q, c) ==
  \A i \in DOMAIN q : q[i].m = "call" /\ q[i].call = c =>
    \E j \in DOMAIN q : j > i /\ q[j].m \in Overs /\ q[j].call = c

-----------------------------------------------------------------------------
(* Calls: queues of messages.                                              *)

LEMMA MsgIs ==
  ASSUME NEW m \in Kinds, NEW c \in Calls
  PROVE  Msg(m, c) \in Messages /\ Msg(m, c).m = m /\ Msg(m, c).call = c
BY DEF Msg, Messages, Kinds

LEMMA EmptyQueue == \A m, c : ~Has(<<>>, m, c) /\ ~Over(<<>>, c) /\ TellsOnce(<<>>, c) /\ Followed(<<>>, c)
BY DEF Has, Over, TellsOnce, Followed

LEMMA QueueAppend ==
  ASSUME NEW q \in Seq(Messages), NEW m \in Kinds, NEW c \in Calls
  PROVE  /\ Append(q, Msg(m, c)) \in Seq(Messages)
         /\ \A k, x : Has(Append(q, Msg(m, c)), k, x) <=> Has(q, k, x) \/ (k = m /\ x = c)
         /\ \A x : TellsOnce(q, x) /\ ~(m = "call" /\ x = c /\ Has(q, "call", x)) => TellsOnce(Append(q, Msg(m, c)), x)
         /\ \A x : Followed(q, x) /\ ~(m = "call" /\ x = c) => Followed(Append(q, Msg(m, c)), x)
         /\ m \in Overs => Followed(Append(q, Msg(m, c)), c)
<1>1. PICK new : new = Append(q, Msg(m, c))
  OBVIOUS
<1>2. Msg(m, c) \in Messages /\ Msg(m, c).m = m /\ Msg(m, c).call = c
  BY MsgIs
<1>3. /\ new \in Seq(Messages) /\ DOMAIN new = 1 .. Len(q) + 1 /\ DOMAIN q = 1 .. Len(q) /\ Len(q) \in Nat
      /\ \A i \in 1 .. Len(q) : new[i] = q[i]
      /\ new[Len(q) + 1].m = m /\ new[Len(q) + 1].call = c
  BY <1>1, <1>2, AppendProperties
<1>4. \A k, x : Has(new, k, x) <=> Has(q, k, x) \/ (k = m /\ x = c)
  BY <1>3 DEF Has
<1>5. ASSUME NEW x, TellsOnce(q, x), ~(m = "call" /\ x = c /\ Has(q, "call", x)) PROVE TellsOnce(new, x)
  BY <1>3, <1>5 DEF TellsOnce, Has
<1>6. ASSUME NEW x, Followed(q, x), ~(m = "call" /\ x = c) PROVE Followed(new, x)
  BY <1>3, <1>6 DEF Followed
<1>7. ASSUME m \in Overs PROVE Followed(new, c)
  <2>1. m # "call"
    BY <1>7 DEF Overs
  <2> QED
    BY <1>3, <1>7, <2>1 DEF Followed
<1> QED
  BY <1>1, <1>3, <1>4, <1>5, <1>6, <1>7

LEMMA QueueTail ==
  ASSUME NEW q \in Seq(Messages), q # <<>>
  PROVE  /\ Head(q) \in Messages /\ Tail(q) \in Seq(Messages) /\ Has(q, Head(q).m, Head(q).call)
         /\ \A k, x : Has(Tail(q), k, x) => Has(q, k, x)
         /\ \A k, x : Has(q, k, x) => Has(Tail(q), k, x) \/ (k = Head(q).m /\ x = Head(q).call)
         /\ \A x : TellsOnce(q, x) => TellsOnce(Tail(q), x)
         /\ \A x : Followed(q, x) => Followed(Tail(q), x)
         /\ \A x : TellsOnce(q, x) /\ Head(q).m = "call" /\ Head(q).call = x => ~Has(Tail(q), "call", x)
         /\ \A x : Followed(q, x) /\ Head(q).m = "call" /\ Head(q).call = x => Over(Tail(q), x)
<1>1. PICK new : new = Tail(q)
  OBVIOUS
<1>2. /\ new \in Seq(Messages) /\ DOMAIN new = 1 .. Len(q) - 1 /\ DOMAIN q = 1 .. Len(q) /\ Len(q) \in Nat \ {0}
      /\ \A i \in 1 .. Len(q) - 1 : new[i] = q[i + 1]
      /\ Head(q) = q[1] /\ Head(q) \in Messages
  BY <1>1, HeadTailProperties, EmptySeq
<1>3. Has(q, Head(q).m, Head(q).call)
  BY <1>2 DEF Has
<1>4. \A i \in DOMAIN new : i + 1 \in DOMAIN q /\ new[i] = q[i + 1] /\ i + 1 # 1
  BY <1>2
<1>5. \A i \in DOMAIN q : i = 1 \/ (i - 1 \in DOMAIN new /\ q[i] = new[i - 1])
  BY <1>2
<1>6. \A k, x : Has(new, k, x) => Has(q, k, x)
  BY <1>4 DEF Has
<1>7. \A k, x : Has(q, k, x) => Has(new, k, x) \/ (k = Head(q).m /\ x = Head(q).call)
  BY <1>2, <1>5 DEF Has
<1>8. ASSUME NEW x, TellsOnce(q, x) PROVE TellsOnce(new, x)
  BY <1>2, <1>4, <1>8 DEF TellsOnce
<1>9. ASSUME NEW x, Followed(q, x) PROVE Followed(new, x)
  <2> SUFFICES ASSUME NEW i \in DOMAIN new, new[i].m = "call", new[i].call = x
               PROVE  \E j \in DOMAIN new : j > i /\ new[j].m \in Overs /\ new[j].call = x
    BY DEF Followed
  <2>1. PICK j \in DOMAIN q : j > i + 1 /\ q[j].m \in Overs /\ q[j].call = x
    BY <1>4, <1>9 DEF Followed
  <2>2. j - 1 \in DOMAIN new /\ j - 1 > i /\ new[j - 1] = q[j]
    BY <1>2, <2>1
  <2> QED
    BY <2>1, <2>2
<1>10. ASSUME NEW x, TellsOnce(q, x), Head(q).m = "call", Head(q).call = x PROVE ~Has(new, "call", x)
  BY <1>2, <1>4, <1>10 DEF TellsOnce, Has
<1>11. ASSUME NEW x, Followed(q, x), Head(q).m = "call", Head(q).call = x PROVE Over(new, x)
  <2>1. PICK j \in DOMAIN q : j > 1 /\ q[j].m \in Overs /\ q[j].call = x
    BY <1>2, <1>11 DEF Followed
  <2> QED
    BY <1>2, <1>5, <2>1 DEF Over, Has
<1> QED
  BY <1>1, <1>2, <1>3, <1>6, <1>7, <1>8, <1>9, <1>10, <1>11

\* What is joined to a queue, when it is all of ends, neither announces a call
\* nor hides what follows an announcement.
LEMMA QueueJoin ==
  ASSUME NEW q \in Seq(Messages), NEW r \in Seq(Messages), \A i \in DOMAIN r : r[i].m = "end"
  PROVE  /\ q \o r \in Seq(Messages)
         /\ \A k, x : Has(q, k, x) => Has(q \o r, k, x)
         /\ \A k, x : Has(q \o r, k, x) => Has(q, k, x) \/ (k = "end" /\ Has(r, k, x))
         /\ \A x : TellsOnce(q, x) => TellsOnce(q \o r, x)
         /\ \A x : Followed(q, x) => Followed(q \o r, x)
<1>1. PICK new : new = q \o r
  OBVIOUS
<1>2. /\ new \in Seq(Messages) /\ DOMAIN new = 1 .. Len(q) + Len(r)
      /\ DOMAIN q = 1 .. Len(q) /\ Len(q) \in Nat /\ DOMAIN r = 1 .. Len(r) /\ Len(r) \in Nat
      /\ \A i \in 1 .. Len(q) + Len(r) : new[i] = IF i <= Len(q) THEN q[i] ELSE r[i - Len(q)]
  BY <1>1, ConcatProperties
<1>3. \A i \in DOMAIN q : i \in DOMAIN new /\ new[i] = q[i]
  BY <1>2
<1>4. ASSUME NEW i \in DOMAIN new
      PROVE  \/ i \in DOMAIN q /\ new[i] = q[i]
             \/ i - Len(q) \in DOMAIN r /\ new[i] = r[i - Len(q)] /\ new[i].m = "end"
  <2>1. CASE i <= Len(q)
    BY <1>2, <2>1
  <2>2. CASE ~(i <= Len(q))
    <3>1. i - Len(q) \in DOMAIN r /\ new[i] = r[i - Len(q)]
      BY <1>2, <2>2
    <3> QED
      BY <3>1
  <2> QED
    BY <2>1, <2>2
<1>5. \A k, x : Has(q, k, x) => Has(new, k, x)
  BY <1>3 DEF Has
<1>6. \A k, x : Has(new, k, x) => Has(q, k, x) \/ (k = "end" /\ Has(r, k, x))
  BY <1>4 DEF Has
<1>7. ASSUME NEW x, TellsOnce(q, x) PROVE TellsOnce(new, x)
  BY <1>4, <1>7 DEF TellsOnce
<1>8. ASSUME NEW x, Followed(q, x) PROVE Followed(new, x)
  BY <1>3, <1>4, <1>8 DEF Followed
<1> QED
  BY <1>1, <1>2, <1>5, <1>6, <1>7, <1>8

\* The ends of some calls, in any order.
LEMMA EndsInOrder ==
  ASSUME NEW S \in SUBSET {Msg("end", c) : c \in Calls}, CallsOwner
  PROVE  SetToSeq(S) \in Seq(Messages) /\ \A i \in DOMAIN SetToSeq(S) : SetToSeq(S)[i] \in S
<1>1. IsFiniteSet(Calls)
  BY FS_Interval DEF Calls, CallsOwner
<1>2. IsFiniteSet({Msg("end", c) : c \in Calls})
  <2>1. PICK f : f = [c \in Calls |-> Msg("end", c)]
    OBVIOUS
  <2>2. f \in Surjection(Calls, {Msg("end", c) : c \in Calls})
    BY <2>1 DEF Surjection
  <2> QED
    BY <1>1, <2>2, FS_Surjection
<1>3. IsFiniteSet(S)
  BY <1>2, FS_Subset
<1>4. Cardinality(S) \in Nat /\ ExistsBijection(1 .. Cardinality(S), S)
  BY <1>3, FS_CardinalityType
<1>5. \E f \in [1 .. Cardinality(S) -> S] : IsInjective(f)
  BY <1>4 DEF ExistsBijection, Bijection, Injection
<1>6. SetToSeq(S) \in [1 .. Cardinality(S) -> S]
  BY <1>5 DEF SetToSeq
<1>7. S \subseteq Messages
  BY MsgIs DEF Kinds
<1>8. SetToSeq(S) \in Seq(Messages)
  BY <1>4, <1>6, <1>7, SeqDef
<1> QED
  BY <1>6, <1>8

-----------------------------------------------------------------------------
(* Calls: the inductive invariant.                                         *)

Known == DOMAIN started
Gone(c) == c \notin active \cup excused
StartAsk(c) == [for |-> "start", call |-> c]
AcceptAsk(c) == [for |-> "accept", call |-> c]
Showing == {"incoming", "calling", "connecting", "active"}

\* Tab t has taken part in call c: it shows or may yet show it, or ends it.
Knows(t, c) ==
  \/ page[t].call = c
  \/ \E r \in page[t].rings : r.call = c
  \/ AcceptAsk(c) \in page[t].asks
  \/ Over(up[t], c)
Told(t, c) == Has(down[t], "call", c) \/ Over(down[t], c)

\* What is said of a call is said of one that was started.
CallsKnown ==
  /\ \A t \in Tabs, c \in Calls :
       Knows(t, c) \/ StartAsk(c) \in page[t].asks \/ Has(up[t], "call", c) \/ Told(t, c) => c \in Known
  /\ active \cup naming \subseteq Known
  /\ \A c \in Known : From(c) # To(c)

\* The caller's tabs start a call and the callee's take and refuse it.
SidesFit ==
  \A t \in Tabs :
    /\ page[t].status \in Showing <=> page[t].call # 0
    /\ page[t].status = "incoming" => Owner[t] = To(page[t].call)
    /\ \A c \in Calls :
         /\ page[t].call = c \/ Has(up[t], "end", c) => Owner[t] \in {From(c), To(c)}
         /\ StartAsk(c) \in page[t].asks \/ Has(up[t], "call", c) => Owner[t] = From(c)
         /\ AcceptAsk(c) \in page[t].asks \/ Has(up[t], "reject", c) \/ Has(up[t], "busy", c)
              \/ Has(down[t], "call", c) => Owner[t] = To(c)
         /\ [at |-> "calling", call |-> c] \in page[t].rings => Owner[t] = From(c)
         /\ [at |-> "incoming", call |-> c] \in page[t].rings => Owner[t] = To(c)

\* Of a call whose media are still asked for nobody has heard.
StartsFresh ==
  \A t \in Tabs, c \in Calls : StartAsk(c) \in page[t].asks =>
    /\ c \notin active \cup naming
    /\ \A o \in Tabs : /\ ~Knows(o, c) /\ ~Has(up[o], "call", c) /\ ~Told(o, c)
                       /\ o # t => StartAsk(c) \notin page[o].asks

\* Of a call on its way to the server only its own tab knows.
CallsGoOut ==
  \A t \in Tabs, c \in Calls : Has(up[t], "call", c) =>
    /\ c \notin active \cup naming /\ TellsOnce(up[t], c)
    /\ \A o \in Tabs : ~Told(o, c) /\ (o # t => ~Knows(o, c) /\ ~Has(up[o], "call", c))

\* A tab of the callee hears of a call once.
HeardOnce ==
  \A t \in Tabs, c \in Calls :
    /\ TellsOnce(down[t], c)
    /\ Owner[t] = To(c) /\ Knows(t, c) => c \notin naming /\ ~Has(down[t], "call", c)
    /\ c \in naming => ~Has(down[t], "call", c)

\* Nothing is on its way to a tab without a socket, and the call that it shows
\* is excused or not yet known to the server.
OfflineFits ==
  \A t \in Tabs \ online :
    /\ down[t] = <<>>
    /\ \A c \in Calls : page[t].call = c => c \in excused \/ Has(up[t], "call", c)

\* A call that is over and still shown, or still to be announced, has its end on the way.
EndsArrive ==
  \A t \in Tabs, c \in Calls :
    /\ page[t].call = c /\ Gone(c) => Has(up[t], "call", c) \/ Over(down[t], c)
    /\ Has(down[t], "call", c) /\ Gone(c) => Followed(down[t], c)
    /\ Over(up[t], c) => page[t].call # c \/ c \in excused

HangInd ==
  CallsKnown /\ SidesFit /\ StartsFresh /\ CallsGoOut /\ HeardOnce /\ OfflineFits /\ EndsArrive

\* The microphone on is that of the call shown.
MicrophoneFit(p) ==
  p.live \subseteq {p.stream} /\ (p.live # {} => p.status \in {"calling", "connecting", "active"})
MicrophoneFits == \A t \in Tabs \ astray : MicrophoneFit(page[t])

CallsIndInv == CallsTypeOK /\ HangInd /\ MicrophoneFits

\* What HangUpReachesEveryPage says follows.
LEMMA HangUpFollows == CallsIndInv => CallInv /\ HangUpReachesEveryPage
<1> SUFFICES ASSUME CallsIndInv PROVE CallInv /\ HangUpReachesEveryPage
  OBVIOUS
<1>1. CallInv
  BY DEF CallsIndInv, CallInv, MicrophoneFits, MicrophoneFit, MicrophoneShown
<1>2. ASSUME Quiet, NEW t \in Tabs PROVE page[t].call \in {0} \cup active \cup excused
  <2>1. up[t] = <<>> /\ down[t] = <<>>
    BY <1>2 DEF Quiet
  <2>2. page[t].call = 0 \/ page[t].call \in Calls
    BY DEF CallsIndInv, CallsTypeOK, Pages, Maybe
  <2> QED
    BY <2>1, <2>2, EmptyQueue DEF CallsIndInv, HangInd, EndsArrive, Gone
<1> QED
  BY <1>1, <1>2 DEF HangUpReachesEveryPage

-----------------------------------------------------------------------------
(* Calls: a step of a tab that starts no call and takes none.              *)

\* Tab t comes to p: it shows the call that it showed, or none, or one excused
\* that it accepts; it forgets what it asked and what rings.
CalmPage(t, p) ==
  /\ page' = [page EXCEPT ![t] = p]
  /\ \/ p.call \in {0, page[t].call}
     \/ p.call \in excused' /\ AcceptAsk(p.call) \in page[t].asks
  /\ p.status \in Showing <=> p.call # 0
  /\ p.status = "incoming" => page[t].status = "incoming" /\ p.call = page[t].call
  /\ \A a \in p.asks : a \in page[t].asks \/ (page[t].status = "incoming" /\ a = AcceptAsk(page[t].call))
  /\ p.rings \subseteq page[t].rings

\* It takes a message or none; one that ends a call leaves none shown.
CalmDown(t, p) ==
  \/ down' = down
  \/ /\ down[t] # <<>> /\ down' = [down EXCEPT ![t] = Tail(down[t])]
     /\ Head(down[t]).m \in Overs => p.call = 0

\* It ends a call only that it knows and shows no more, or refuses the one it takes.
Ending(t, p, m, c) ==
  /\ m = "end" => Owner[t] \in {From(c), To(c)}
  /\ m \in {"reject", "busy"} => Owner[t] = To(c)
  /\ \/ Knows(t, c) /\ p.call # c
     \/ /\ p.call = page[t].call /\ down[t] # <<>> /\ Head(down[t]).m = "call" /\ Head(down[t]).call = c
        /\ down' = [down EXCEPT ![t] = Tail(down[t])] /\ m = "busy"
CalmUp(t, p) ==
  \/ up' = up
  \/ \E m \in Kinds \ {"call"}, c \in Calls :
       up' = [up EXCEPT ![t] = Append(up[t], Msg(m, c))] /\ (m \in Overs => Ending(t, p, m, c))

\* What t's queues come to.
CalmQueues(t, p) ==
  /\ \A x \in Calls : Has(up[t], "call", x)' <=> Has(up[t], "call", x)
  /\ \A x \in Calls : TellsOnce(up[t], x) => TellsOnce(up[t], x)'
  /\ \A m \in Overs, x \in Calls :
       Has(up[t], m, x)' => Has(up[t], m, x) \/ (Ending(t, p, m, x) /\ (Knows(t, x) \/ ~Has(down[t], "call", x)'))
  /\ \A m \in Kinds, x \in Calls : Has(down[t], m, x)' => Has(down[t], m, x)
  /\ \A x \in Calls : TellsOnce(down[t], x) => TellsOnce(down[t], x)'
  /\ \A x \in Calls : Followed(down[t], x) => Followed(down[t], x)'
  /\ \A x \in Calls : Over(down[t], x) => Over(down[t], x)' \/ p.call = 0
  /\ down[t] = <<>> => down'[t] = <<>>

LEMMA CalmQueuesAre ==
  ASSUME CallsTypeOK, HangInd, NEW t \in Tabs, NEW p, CalmDown(t, p), CalmUp(t, p)
  PROVE  /\ CalmQueues(t, p)
         /\ \A o \in Tabs \ {t} : up'[o] = up[o] /\ down'[o] = down[o]
<1>1. up \in [Tabs -> Seq(Messages)] /\ down \in [Tabs -> Seq(Messages)] /\ up[t] \in Seq(Messages)
      /\ down[t] \in Seq(Messages)
  BY DEF CallsTypeOK
<1>2. \A o \in Tabs \ {t} : up'[o] = up[o] /\ down'[o] = down[o]
  BY <1>1 DEF CalmDown, CalmUp
<1>3. /\ \A m \in Kinds, x \in Calls : Has(down'[t], m, x) => Has(down[t], m, x)
      /\ \A x \in Calls : TellsOnce(down[t], x) => TellsOnce(down'[t], x)
      /\ \A x \in Calls : Followed(down[t], x) => Followed(down'[t], x)
      /\ \A x \in Calls : Over(down[t], x) => Over(down'[t], x) \/ p.call = 0
      /\ down[t] = <<>> => down'[t] = <<>>
  <2>1. CASE down' = down
    BY <2>1
  <2>2. CASE /\ down[t] # <<>> /\ down' = [down EXCEPT ![t] = Tail(down[t])]
             /\ Head(down[t]).m \in Overs => p.call = 0
    <3>1. down'[t] = Tail(down[t])
      BY <1>1, <2>2
    <3>2. \A x \in Calls : Over(down[t], x) => Over(Tail(down[t]), x) \/ p.call = 0
      <4> SUFFICES ASSUME NEW x \in Calls, NEW m \in Overs, Has(down[t], m, x)
                   PROVE  Has(Tail(down[t]), m, x) \/ p.call = 0
        BY DEF Over
      <4> QED
        BY <1>1, <2>2, QueueTail
    <3> QED
      BY <1>1, <2>2, <3>1, <3>2, QueueTail
  <2> QED
    BY <2>1, <2>2 DEF CalmDown
<1>4. ASSUME up' = up PROVE CalmQueues(t, p)
  BY <1>3, <1>4 DEF CalmQueues, Has, TellsOnce, Over, Followed
<1>5. ASSUME NEW m \in Kinds \ {"call"}, NEW c \in Calls, up' = [up EXCEPT ![t] = Append(up[t], Msg(m, c))],
             m \in Overs => Ending(t, p, m, c)
      PROVE  CalmQueues(t, p)
  <2>1. up'[t] = Append(up[t], Msg(m, c))
    BY <1>1, <1>5
  <2>2. /\ \A k, x : Has(up'[t], k, x) <=> Has(up[t], k, x) \/ (k = m /\ x = c)
        /\ \A x : TellsOnce(up[t], x) => TellsOnce(up'[t], x)
    BY <1>1, <1>5, <2>1, QueueAppend
  <2>3. ASSUME m \in Overs PROVE Ending(t, p, m, c) /\ (Knows(t, c) \/ ~Has(down'[t], "call", c))
    <3>1. CASE Knows(t, c)
      BY <1>5, <2>3, <3>1
    <3>2. CASE ~Knows(t, c)
      <4>1. /\ down[t] # <<>> /\ Head(down[t]).m = "call" /\ Head(down[t]).call = c
            /\ down' = [down EXCEPT ![t] = Tail(down[t])]
        BY <1>5, <2>3, <3>2 DEF Ending
      <4>2. TellsOnce(down[t], c)
        BY <1>5 DEF HangInd, HeardOnce
      <4>3. ~Has(Tail(down[t]), "call", c)
        BY <1>1, <4>1, <4>2, QueueTail
      <4> QED
        BY <1>1, <1>5, <2>3, <4>1, <4>3
    <3> QED
      BY <3>1, <3>2
  <2>4. \A x \in Calls : Has(up'[t], "call", x) <=> Has(up[t], "call", x)
    BY <1>5, <2>2
  <2>5. \A k \in Overs, x \in Calls :
          Has(up'[t], k, x) => Has(up[t], k, x) \/ (Ending(t, p, k, x) /\ (Knows(t, x) \/ ~Has(down'[t], "call", x)))
    BY <2>2, <2>3
  <2> QED
    BY <1>3, <2>2, <2>4, <2>5 DEF CalmQueues, Has, TellsOnce, Over, Followed
<1> QED
  BY <1>2, <1>4, <1>5 DEF CalmUp

\* What a calm step knows, it knew, or learns from the call it refuses.
LEMMA CalmKnows ==
  ASSUME CallsTypeOK, HangInd, NEW t \in Tabs, NEW p, CalmPage(t, p), CalmQueues(t, p),
         \A o \in Tabs \ {t} : up'[o] = up[o] /\ down'[o] = down[o]
  PROVE  /\ page'[t] = p
         /\ \A o \in Tabs \ {t} : page'[o] = page[o]
         /\ \A o \in Tabs \ {t} : \A x \in Calls : (Knows(o, x)' <=> Knows(o, x)) /\ (Told(o, x)' <=> Told(o, x))
         /\ \A x \in Calls : Told(t, x)' => Told(t, x)
         /\ \A x \in Calls : Knows(t, x)' => Knows(t, x) \/ (Has(down[t], "call", x) /\ ~Has(down[t], "call", x)')
         /\ \A x \in Calls : StartAsk(x) \in p.asks => StartAsk(x) \in page[t].asks
<1>1. page \in [Tabs -> Pages]
  BY DEF CallsTypeOK
<1>2. page'[t] = p /\ \A o \in Tabs \ {t} : page'[o] = page[o]
  BY <1>1 DEF CalmPage
<1>3. \A o \in Tabs \ {t} : \A x \in Calls : (Knows(o, x)' <=> Knows(o, x)) /\ (Told(o, x)' <=> Told(o, x))
  BY <1>2 DEF Knows, Told, Over, Has
<1>4. \A x \in Calls : Told(t, x)' => Told(t, x)
  BY DEF CalmQueues, Told, Over, Overs, Kinds
<1>5. ASSUME NEW x \in Calls, Knows(t, x)', ~Knows(t, x) PROVE Has(down[t], "call", x) /\ ~Has(down[t], "call", x)'
  <2>1. page'[t].call # x
    BY <1>2, <1>5 DEF CalmPage, Knows, Calls
  <2>2. ~\E r \in page'[t].rings : r.call = x
    BY <1>2, <1>5 DEF CalmPage, Knows
  <2>3. AcceptAsk(x) \notin page'[t].asks
    <3> SUFFICES ASSUME AcceptAsk(x) \in p.asks PROVE FALSE
      BY <1>2
    <3>1. AcceptAsk(x) = AcceptAsk(page[t].call)
      BY <1>5 DEF CalmPage, Knows
    <3>2. x = page[t].call
      BY <3>1 DEF AcceptAsk
    <3> QED
      BY <1>5, <3>2 DEF Knows
  <2>4. Over(up'[t], x)
    BY <1>5, <2>1, <2>2, <2>3 DEF Knows
  <2>5. PICK m \in Overs : Has(up'[t], m, x) /\ ~Has(up[t], m, x)
    BY <1>5, <2>4 DEF Knows, Over
  <2>6. Ending(t, p, m, x) /\ ~Has(down[t], "call", x)'
    BY <1>5, <2>5 DEF CalmQueues
  <2>7. Has(down[t], Head(down[t]).m, Head(down[t]).call)
    <3>1. down[t] \in Seq(Messages) /\ down[t] # <<>>
      BY <1>5, <2>6 DEF CallsTypeOK, Ending
    <3> QED
      BY <3>1, QueueTail
  <2> QED
    BY <1>5, <2>6, <2>7 DEF Ending
<1>6. \A x \in Calls : StartAsk(x) \in p.asks => StartAsk(x) \in page[t].asks
  <2>1. \A x, y : StartAsk(x) # AcceptAsk(y)
    BY DEF StartAsk, AcceptAsk
  <2> QED
    BY <2>1 DEF CalmPage
<1> QED
  BY <1>2, <1>3, <1>4, <1>5, <1>6

LEMMA CalmStep ==
  ASSUME CallsTypeOK, HangInd, NEW t \in Tabs, NEW p, CalmPage(t, p), CalmDown(t, p), CalmUp(t, p),
         UNCHANGED <<online, started, server>>, excused \subseteq excused'
  PROVE  HangInd'
<1>1. CalmQueues(t, p) /\ \A o \in Tabs \ {t} : up'[o] = up[o] /\ down'[o] = down[o]
  BY CalmQueuesAre
<1>2. /\ page'[t] = p
      /\ \A o \in Tabs \ {t} : page'[o] = page[o]
      /\ \A o \in Tabs \ {t} : \A x \in Calls : (Knows(o, x)' <=> Knows(o, x)) /\ (Told(o, x)' <=> Told(o, x))
      /\ \A x \in Calls : Told(t, x)' => Told(t, x)
      /\ \A x \in Calls : Knows(t, x)' => Knows(t, x) \/ (Has(down[t], "call", x) /\ ~Has(down[t], "call", x)')
      /\ \A x \in Calls : StartAsk(x) \in p.asks => StartAsk(x) \in page[t].asks
  BY <1>1, CalmKnows
<1>3. /\ active' = active /\ naming' = naming /\ started' = started /\ online' = online /\ Known' = Known
      /\ \A x : From(x)' = From(x) /\ To(x)' = To(x)
      /\ \A x : Gone(x)' => Gone(x)
  BY DEF server, Known, From, To, Gone
<1>4. \A x \in Calls : Knows(t, x)' => Knows(t, x) \/ Told(t, x)
  BY <1>2 DEF Told
<1>5. \A o \in Tabs, x \in Calls :
        /\ Has(up[o], "call", x)' <=> Has(up[o], "call", x)
        /\ StartAsk(x) \in page'[o].asks => StartAsk(x) \in page[o].asks
        /\ Told(o, x)' => Told(o, x)
        /\ Knows(o, x)' => Knows(o, x) \/ Told(o, x)
        /\ TellsOnce(up[o], x) => TellsOnce(up[o], x)'
        /\ TellsOnce(down[o], x) => TellsOnce(down[o], x)'
        /\ Has(down[o], "call", x)' => Has(down[o], "call", x)
  <2> SUFFICES ASSUME NEW o \in Tabs, NEW x \in Calls
               PROVE  /\ Has(up[o], "call", x)' <=> Has(up[o], "call", x)
                      /\ StartAsk(x) \in page'[o].asks => StartAsk(x) \in page[o].asks
                      /\ Told(o, x)' => Told(o, x)
                      /\ Knows(o, x)' => Knows(o, x) \/ Told(o, x)
                      /\ TellsOnce(up[o], x) => TellsOnce(up[o], x)'
                      /\ TellsOnce(down[o], x) => TellsOnce(down[o], x)'
                      /\ Has(down[o], "call", x)' => Has(down[o], "call", x)
    OBVIOUS
  <2>1. CASE o = t
    BY <1>1, <1>2, <1>4, <2>1 DEF CalmQueues, Kinds
  <2>2. CASE o # t
    BY <1>1, <1>2, <2>2 DEF Has, TellsOnce
  <2> QED
    BY <2>1, <2>2
<1>6. CallsKnown'
  BY <1>3, <1>5 DEF HangInd, CallsKnown
<1>7. StartsFresh' /\ CallsGoOut'
  <2>1. StartsFresh'
    BY <1>3, <1>5 DEF HangInd, StartsFresh
  <2>2. CallsGoOut'
    BY <1>3, <1>5 DEF HangInd, CallsGoOut
  <2> QED
    BY <2>1, <2>2
<1>8. HeardOnce'
  <2> SUFFICES ASSUME NEW o \in Tabs, NEW x \in Calls
               PROVE  /\ TellsOnce(down[o], x)'
                      /\ Owner[o] = To(x) /\ Knows(o, x)' => x \notin naming /\ ~Has(down[o], "call", x)'
                      /\ x \in naming => ~Has(down[o], "call", x)'
    BY <1>3 DEF HeardOnce
  <2>1. TellsOnce(down[o], x)' /\ (x \in naming => ~Has(down[o], "call", x)')
    BY <1>5 DEF HangInd, HeardOnce
  <2>2. ASSUME Owner[o] = To(x), Knows(o, x)' PROVE x \notin naming /\ ~Has(down[o], "call", x)'
    <3>1. CASE Knows(o, x)
      BY <1>5, <2>2, <3>1 DEF HangInd, HeardOnce
    <3>2. CASE ~Knows(o, x)
      <4>1. o = t /\ Has(down[t], "call", x) /\ ~Has(down[t], "call", x)'
        BY <1>2, <2>2, <3>2
      <4> QED
        BY <4>1 DEF HangInd, HeardOnce
    <3> QED
      BY <3>1, <3>2
  <2> QED
    BY <2>1, <2>2
<1>9. OfflineFits'
  <2>1. ASSUME t \notin online, NEW x \in Calls, p.call = x PROVE x \in excused' \/ Has(up[t], "call", x)'
    BY <1>5, <2>1 DEF HangInd, OfflineFits, CalmPage, Calls
  <2> QED
    BY <1>1, <1>2, <1>3, <1>5, <2>1 DEF HangInd, OfflineFits, CalmQueues
<1>10. EndsArrive'
  <2>1. ASSUME NEW x \in Calls
        PROVE  /\ p.call = x /\ Gone(x)' => Has(up[t], "call", x)' \/ Over(down[t], x)'
               /\ Has(down[t], "call", x)' /\ Gone(x)' => Followed(down[t], x)'
               /\ Over(up[t], x)' => p.call # x \/ x \in excused'
    <3>1. ASSUME p.call = x, Gone(x)' PROVE Has(up[t], "call", x)' \/ Over(down[t], x)'
      <4>1. page[t].call = x /\ Gone(x)
        BY <1>3, <3>1 DEF CalmPage, Calls, Gone
      <4>2. Has(up[t], "call", x) \/ Over(down[t], x)
        BY <4>1 DEF HangInd, EndsArrive
      <4> QED
        BY <1>1, <3>1, <4>2 DEF CalmQueues, Calls
    <3>2. Has(down[t], "call", x)' /\ Gone(x)' => Followed(down[t], x)'
      BY <1>1, <1>3, <1>5 DEF HangInd, EndsArrive, CalmQueues
    <3>3. ASSUME Over(up[t], x)', p.call = x PROVE x \in excused'
      <4>1. CASE page[t].call # x
        BY <3>3, <4>1 DEF CalmPage, Calls
      <4>2. CASE page[t].call = x /\ Over(up[t], x)
        BY <4>2 DEF HangInd, EndsArrive
      <4>3. CASE page[t].call = x /\ ~Over(up[t], x)
        <5>1. PICK m \in Overs : Has(up'[t], m, x)
          BY <3>3 DEF Over
        <5>2. Ending(t, p, m, x)
          BY <1>1, <4>3, <5>1 DEF CalmQueues, Over
        <5>3. Has(down[t], "call", x) /\ Owner[t] = To(x)
          <6>1. down[t] \in Seq(Messages)
            BY DEF CallsTypeOK
          <6> QED
            BY <3>3, <5>2, <6>1, QueueTail DEF Ending
        <5>4. Knows(t, x)
          BY <4>3 DEF Knows
        <5> QED
          BY <5>3, <5>4 DEF HangInd, HeardOnce
      <4> QED
        BY <4>1, <4>2, <4>3
    <3> QED
      BY <3>1, <3>2, <3>3
  <2>2. ASSUME NEW o \in Tabs \ {t}, NEW x \in Calls
        PROVE  /\ page'[o].call = x /\ Gone(x)' => Has(up[o], "call", x)' \/ Over(down[o], x)'
               /\ Has(down[o], "call", x)' /\ Gone(x)' => Followed(down[o], x)'
               /\ Over(up[o], x)' => page'[o].call # x \/ x \in excused'
    BY <1>1, <1>2, <1>3 DEF HangInd, EndsArrive, Over, Has, Followed
  <2> QED
    BY <1>2, <2>1, <2>2 DEF EndsArrive
<1>11. SidesFit'
  <2>1. ASSUME NEW x \in Calls
        PROVE  /\ p.call = x \/ Has(up[t], "end", x)' => Owner[t] \in {From(x), To(x)}
               /\ StartAsk(x) \in p.asks \/ Has(up[t], "call", x)' => Owner[t] = From(x)
               /\ AcceptAsk(x) \in p.asks \/ Has(up[t], "reject", x)' \/ Has(up[t], "busy", x)'
                    \/ Has(down[t], "call", x)' => Owner[t] = To(x)
               /\ [at |-> "calling", call |-> x] \in p.rings => Owner[t] = From(x)
               /\ [at |-> "incoming", call |-> x] \in p.rings => Owner[t] = To(x)
    <3>1. ASSUME p.call = x PROVE Owner[t] \in {From(x), To(x)}
      <4>1. CASE page[t].call = x
        BY <4>1 DEF HangInd, SidesFit
      <4>2. CASE AcceptAsk(x) \in page[t].asks
        BY <4>2 DEF HangInd, SidesFit
      <4> QED
        BY <3>1, <4>1, <4>2 DEF CalmPage, Calls
    <3>2. \A m \in Overs : Has(up[t], m, x)' => Has(up[t], m, x) \/ Ending(t, p, m, x)
      BY <1>1 DEF CalmQueues
    <3>3. Has(up[t], "end", x)' => Owner[t] \in {From(x), To(x)}
      BY <3>2 DEF HangInd, SidesFit, Ending, Overs
    <3>4. Has(up[t], "reject", x)' \/ Has(up[t], "busy", x)' => Owner[t] = To(x)
      BY <3>2 DEF HangInd, SidesFit, Ending, Overs
    <3>5. AcceptAsk(x) \in p.asks => Owner[t] = To(x)
      <4> SUFFICES ASSUME AcceptAsk(x) \in p.asks, AcceptAsk(x) \notin page[t].asks PROVE Owner[t] = To(x)
        BY DEF HangInd, SidesFit
      <4>1. page[t].status = "incoming" /\ AcceptAsk(x) = AcceptAsk(page[t].call)
        BY DEF CalmPage
      <4>2. x = page[t].call
        BY <4>1 DEF AcceptAsk
      <4> QED
        BY <4>1, <4>2 DEF HangInd, SidesFit
    <3>6. /\ StartAsk(x) \in p.asks \/ Has(up[t], "call", x)' => Owner[t] = From(x)
          /\ Has(down[t], "call", x)' => Owner[t] = To(x)
      BY <1>2, <1>5 DEF HangInd, SidesFit
    <3>7. /\ [at |-> "calling", call |-> x] \in p.rings => Owner[t] = From(x)
          /\ [at |-> "incoming", call |-> x] \in p.rings => Owner[t] = To(x)
      BY DEF CalmPage, HangInd, SidesFit
    <3> QED
      BY <3>1, <3>3, <3>4, <3>5, <3>6, <3>7
  <2>2. (p.status \in Showing <=> p.call # 0) /\ (p.status = "incoming" => Owner[t] = To(p.call))
    BY DEF CalmPage, HangInd, SidesFit
  <2>3. \A o \in Tabs \ {t} : page'[o] = page[o] /\ up'[o] = up[o] /\ down'[o] = down[o]
    BY <1>1, <1>2
  <2> QED
    BY <1>2, <1>3, <2>1, <2>2, <2>3 DEF HangInd, SidesFit, Has
<1> QED
  BY <1>6, <1>7, <1>8, <1>9, <1>10, <1>11 DEF HangInd

\* A calm step with the rest of what it may change.
CalmTab(t, p) ==
  /\ CalmPage(t, p) /\ CalmDown(t, p) /\ CalmUp(t, p)
  /\ UNCHANGED <<online, started, server>>
  /\ excused \subseteq excused' /\ excused' \subseteq Calls
  /\ astray \subseteq astray' /\ astray' \subseteq Tabs /\ drops' \subseteq Fragile
  /\ p \in Pages /\ (t \notin astray' => MicrophoneFit(p))

LEMMA MicrophoneStep ==
  ASSUME CallsTypeOK, MicrophoneFits, NEW t \in Tabs, NEW p, page' = [page EXCEPT ![t] = p],
         astray \subseteq astray', t \notin astray' => MicrophoneFit(p)
  PROVE  MicrophoneFits'
<1> SUFFICES ASSUME NEW o \in Tabs \ astray' PROVE MicrophoneFit(page'[o])
  BY DEF MicrophoneFits, MicrophoneFit
<1>1. page'[o] = IF o = t THEN p ELSE page[o]
  BY DEF CallsTypeOK
<1> QED
  BY <1>1 DEF MicrophoneFits

LEMMA CalmTabStep ==
  ASSUME CallsIndInv, NEW t \in Tabs, NEW p, CalmTab(t, p)
  PROVE  CallsIndInv'
<1>1. HangInd' /\ MicrophoneFits'
  <2>1. HangInd'
    BY CalmStep DEF CallsIndInv, CalmTab
  <2>2. MicrophoneFits'
    BY MicrophoneStep DEF CallsIndInv, CalmTab, CalmPage
  <2> QED
    BY <2>1, <2>2
<1>2. /\ page \in [Tabs -> Pages] /\ up \in [Tabs -> Seq(Messages)] /\ down \in [Tabs -> Seq(Messages)]
      /\ up[t] \in Seq(Messages) /\ down[t] \in Seq(Messages)
  BY DEF CallsIndInv, CallsTypeOK
<1>3. page' \in [Tabs -> Pages]
  BY <1>2 DEF CalmTab, CalmPage
<1>4. up' \in [Tabs -> Seq(Messages)]
  <2>1. \A m \in Kinds, c \in Calls : Append(up[t], Msg(m, c)) \in Seq(Messages)
    BY <1>2, MsgIs, AppendProperties
  <2> QED
    BY <1>2, <2>1 DEF CalmTab, CalmUp
<1>5. down' \in [Tabs -> Seq(Messages)]
  <2>1. down[t] # <<>> => Tail(down[t]) \in Seq(Messages)
    BY <1>2, QueueTail
  <2> QED
    BY <1>2, <2>1 DEF CalmTab, CalmDown
<1>6. CallsTypeOK'
  BY <1>3, <1>4, <1>5 DEF CallsIndInv, CallsTypeOK, CalmTab, server
<1> QED
  BY <1>1, <1>6 DEF CallsIndInv

-----------------------------------------------------------------------------
(* Calls: pages put to rest, and each calm step of a tab.                  *)

LEMMA Rested ==
  ASSUME NEW p \in Pages
  PROVE  /\ Cleaned(p) \in Pages /\ Idle(p) \in Pages /\ Ended(p) \in Pages
         /\ Cleaned(p).status = p.status /\ Cleaned(p).call = p.call /\ Cleaned(p).asks = p.asks
         /\ Cleaned(p).rings \subseteq p.rings /\ Cleaned(p).live = p.live \ {p.stream}
         /\ Idle(p).status = "idle" /\ Idle(p).call = 0 /\ Idle(p).asks = p.asks
         /\ Idle(p).rings = p.rings /\ Idle(p).live = p.live /\ Idle(p).stream = p.stream
         /\ Ended(p).status = "ended" /\ Ended(p).call = 0 /\ Ended(p).asks = p.asks
         /\ Ended(p).rings = p.rings /\ Ended(p).live = p.live /\ Ended(p).stream = p.stream
<1>1. Cleaned(p) \in Pages
  <2>1. NoPC \in [call : Maybe(Calls), caller : BOOLEAN, ready : BOOLEAN] /\ 0 \in Maybe(Calls)
    BY DEF NoPC, Maybe
  <2> QED
    BY <2>1 DEF Cleaned, Pages
<1>2. Idle(p) \in Pages
  BY DEF Idle, Pages, Statuses, Maybe
<1>3. Ended(p) \in Pages
  <2>1. p.idles + 1 \in Nat /\ "ended" \in Statuses /\ 0 \in Maybe(Calls)
    BY DEF Pages, Statuses, Maybe
  <2> QED
    BY <2>1 DEF Ended, Pages
<1>4. /\ Cleaned(p).status = p.status /\ Cleaned(p).call = p.call /\ Cleaned(p).asks = p.asks
      /\ Cleaned(p).rings \subseteq p.rings /\ Cleaned(p).live = p.live \ {p.stream}
  BY DEF Cleaned, Pages
<1>5. /\ Idle(p).status = "idle" /\ Idle(p).call = 0 /\ Idle(p).asks = p.asks
      /\ Idle(p).rings = p.rings /\ Idle(p).live = p.live /\ Idle(p).stream = p.stream
  BY DEF Idle, Pages
<1>6. /\ Ended(p).status = "ended" /\ Ended(p).call = 0 /\ Ended(p).asks = p.asks
      /\ Ended(p).rings = p.rings /\ Ended(p).live = p.live /\ Ended(p).stream = p.stream
  BY DEF Ended, Pages
<1> QED
  BY <1>1, <1>2, <1>3, <1>4, <1>5, <1>6

\* A page cleaned and no longer shown has no microphone on.
LEMMA RestedQuiet ==
  ASSUME NEW p \in Pages, p.live \subseteq {p.stream}
  PROVE  MicrophoneFit(Idle(Cleaned(p))) /\ MicrophoneFit(Ended(Cleaned(p))) /\ MicrophoneFit(Cleaned(p))
<1>1. Cleaned(p) \in Pages /\ Cleaned(p).live = {}
  BY Rested
<1>2. Idle(Cleaned(p)).live = {} /\ Ended(Cleaned(p)).live = {}
  BY <1>1, Rested
<1> QED
  BY <1>1, <1>2 DEF MicrophoneFit

\* What each page is like.
LEMMA PageIs ==
  ASSUME CallsIndInv, NEW t \in Tabs
  PROVE  /\ page[t] \in Pages
         /\ t \notin astray => MicrophoneFit(page[t])
         /\ page[t].status \in Showing => page[t].call \in Calls
         /\ page[t].status \notin Showing => page[t].call = 0
         /\ page[t].call \in Maybe(Calls)
         /\ \A a \in page[t].asks : a \in Asks /\ (a = StartAsk(a.call) \/ a = AcceptAsk(a.call))
         /\ down[t] \in Seq(Messages)
<1>1. page[t] \in Pages /\ down[t] \in Seq(Messages)
  BY DEF CallsIndInv, CallsTypeOK
<1>2. page[t].call \in Maybe(Calls) /\ page[t].asks \subseteq Asks
  BY <1>1 DEF Pages
<1>3. \A a \in page[t].asks : a \in Asks /\ (a = StartAsk(a.call) \/ a = AcceptAsk(a.call))
  BY <1>2 DEF Asks, StartAsk, AcceptAsk
<1>4. (page[t].status \in Showing => page[t].call \in Calls) /\ (page[t].status \notin Showing => page[t].call = 0)
  BY <1>2 DEF CallsIndInv, HangInd, SidesFit, Maybe
<1> QED
  BY <1>1, <1>2, <1>3, <1>4 DEF CallsIndInv, MicrophoneFits

LEMMA StartDeniedStep ==
  ASSUME CallsIndInv, NEW t \in Tabs, StartDenied(t)
  PROVE  CallsIndInv'
<1>1. PICK a \in page[t].asks :
        LET p == Cleaned([page[t] EXCEPT !.asks = @ \ {a}])
        IN page' = [page EXCEPT ![t] = IF p.status = "away" THEN p ELSE Idle(p)]
  BY DEF StartDenied
<1>2. PICK q : q = [page[t] EXCEPT !.asks = @ \ {a}]
  OBVIOUS
<1>3. PICK p : p = IF Cleaned(q).status = "away" THEN Cleaned(q) ELSE Idle(Cleaned(q))
  OBVIOUS
<1>4. page' = [page EXCEPT ![t] = p]
  BY <1>1, <1>2, <1>3
<1>5. /\ q \in Pages /\ q.status = page[t].status /\ q.call = page[t].call /\ q.asks \subseteq page[t].asks
      /\ q.rings = page[t].rings /\ q.live = page[t].live /\ q.stream = page[t].stream
  BY <1>2, PageIs DEF Pages
<1>6. /\ p \in Pages /\ p.call = 0 /\ p.status \notin Showing /\ p.asks \subseteq page[t].asks
      /\ p.rings \subseteq page[t].rings
      /\ t \notin astray => MicrophoneFit(p)
  <2>1. Cleaned(q) \in Pages
    BY <1>5, Rested
  <2>2. ASSUME t \notin astray PROVE MicrophoneFit(p)
    <3>1. q.live \subseteq {q.stream}
      BY <1>5, <2>2, PageIs DEF MicrophoneFit
    <3> QED
      BY <1>3, <1>5, <3>1, RestedQuiet
  <2>3. CASE Cleaned(q).status = "away"
    BY <1>3, <1>5, <2>1, <2>2, <2>3, Rested, PageIs DEF Showing
  <2>4. CASE Cleaned(q).status # "away"
    BY <1>3, <1>5, <2>1, <2>2, <2>4, Rested DEF Showing
  <2> QED
    BY <2>3, <2>4
<1>7. CalmTab(t, p)
  <2>1. CalmPage(t, p)
    BY <1>4, <1>6, PageIs DEF CalmPage, Showing
  <2> QED
    BY <1>6, <2>1 DEF CalmTab, StartDenied, CalmDown, CalmUp, net, server, CallsIndInv, CallsTypeOK
<1> QED
  BY <1>7, CalmTabStep

LEMMA StillPage ==
  ASSUME CallsIndInv, NEW t \in Tabs, UNCHANGED page
  PROVE  CalmPage(t, page[t])
<1>1. page' = [page EXCEPT ![t] = page[t]]
  BY DEF CallsIndInv, CallsTypeOK
<1>2. page[t].status \in Showing <=> page[t].call # 0
  BY DEF CallsIndInv, HangInd, SidesFit
<1> QED
  BY <1>1, <1>2 DEF CalmPage

LEMMA AcceptCallStep ==
  ASSUME CallsIndInv, NEW t \in Tabs, AcceptCall(t)
  PROVE  CallsIndInv'
<1>1. PICK p : p = [page[t] EXCEPT !.asks = @ \cup {[for |-> "accept", call |-> page[t].call]},
                                   !.rings = @ \ {page[t].ring}, !.ring = NoRing]
  OBVIOUS
<1>2. page' = [page EXCEPT ![t] = p] /\ page[t].status = "incoming" /\ page[t].call \in Calls
  BY <1>1, PageIs DEF AcceptCall, Showing
<1>3. /\ p \in Pages /\ p.status = page[t].status /\ p.call = page[t].call /\ p.live = page[t].live
      /\ p.stream = page[t].stream /\ p.asks = page[t].asks \cup {AcceptAsk(page[t].call)}
      /\ p.rings \subseteq page[t].rings
  <2>1. [for |-> "accept", call |-> page[t].call] \in Asks
    BY <1>2 DEF Asks
  <2>2. page[t].asks \cup {[for |-> "accept", call |-> page[t].call]} \in SUBSET Asks
    BY <2>1, PageIs
  <2>3. page[t] \in Pages
    BY PageIs
  <2>4. p \in Pages
    BY <1>1, <2>2, <2>3 DEF Pages
  <2> QED
    BY <1>1, <2>3, <2>4 DEF Pages, AcceptAsk
<1>4. CalmPage(t, p)
  BY <1>2, <1>3 DEF CalmPage, Showing, Calls
<1>5. CalmTab(t, p)
  BY <1>3, <1>4, PageIs
     DEF CalmTab, AcceptCall, CalmDown, CalmUp, net, server, CallsIndInv, CallsTypeOK, MicrophoneFit
<1> QED
  BY <1>5, CalmTabStep

LEMMA AcceptGrantedStep ==
  ASSUME CallsIndInv, NEW t \in Tabs, AcceptGranted(t)
  PROVE  CallsIndInv'
<1>1. PICK a \in page[t].asks :
        /\ a.for = "accept"
        /\ LET p == [page[t] EXCEPT !.asks = @ \ {a},
                   !.stream = a.call, !.live = @ \cup {a.call},
                   !.status = IF @ = "away" THEN @ ELSE "connecting",
                   !.call = IF page[t].status = "away" THEN 0 ELSE a.call]
           IN page' = [page EXCEPT ![t] = p]
        /\ Emit(t, "accept", a.call)
        /\ astray' = astray \cup {o \in {t} : ~StillRinging(t, a)}
        /\ excused' = excused \cup {c \in Calls : ~StillRinging(t, a) /\ c \in {a.call, page[t].call}}
  BY DEF AcceptGranted
<1>2. PICK p : p = [page[t] EXCEPT !.asks = @ \ {a},
                   !.stream = a.call, !.live = @ \cup {a.call},
                   !.status = IF @ = "away" THEN @ ELSE "connecting",
                   !.call = IF page[t].status = "away" THEN 0 ELSE a.call]
  OBVIOUS
<1>3. page' = [page EXCEPT ![t] = p]
  BY <1>1, <1>2
<1>4. a.call \in Calls /\ a = AcceptAsk(a.call)
  BY <1>1, PageIs DEF Asks, StartAsk
<1>5. /\ p \in Pages /\ p.asks = page[t].asks \ {a} /\ p.rings = page[t].rings
      /\ p.stream = a.call /\ p.live = page[t].live \cup {a.call}
  BY <1>2, <1>4, PageIs DEF Pages, Statuses, Maybe
<1>6. /\ page[t].status = "away" => p.status = "away" /\ p.call = 0
      /\ page[t].status # "away" => p.status = "connecting" /\ p.call = a.call
  BY <1>2, <1>4, PageIs DEF Pages
<1>7. CalmPage(t, p)
  <2>1. CASE StillRinging(t, a)
    BY <1>3, <1>4, <1>5, <1>6, <2>1 DEF StillRinging, CalmPage, Showing, Calls
  <2>2. CASE ~StillRinging(t, a)
    <3>1. a.call \in excused'
      BY <1>1, <1>4, <2>2
    <3> QED
      BY <1>3, <1>4, <1>5, <1>6, <3>1 DEF CalmPage, Showing, Calls
  <2> QED
    BY <2>1, <2>2
<1>8. t \notin astray' => MicrophoneFit(p)
  <2> SUFFICES ASSUME t \notin astray' PROVE MicrophoneFit(p)
    OBVIOUS
  <2>1. StillRinging(t, a) /\ t \notin astray
    BY <1>1
  <2>2. page[t].live = {}
    BY <2>1, PageIs DEF StillRinging, MicrophoneFit
  <2> QED
    BY <1>5, <1>6, <2>1, <2>2 DEF StillRinging, MicrophoneFit
<1>9. CalmUp(t, p)
  BY <1>1, <1>4 DEF CalmUp, Emit, Kinds, Overs
<1> QED
  <2>1. CalmTab(t, p)
    BY <1>1, <1>5, <1>7, <1>8, <1>9 DEF CalmTab, AcceptGranted, CalmDown, server, CallsIndInv, CallsTypeOK
  <2> QED
    BY <2>1, CalmTabStep

\* A rejection, of a page that may have forgotten a question.
LEMMA RejectedStep ==
  ASSUME CallsIndInv, NEW t \in Tabs, page[t].status = "incoming", NEW q \in Pages,
         q.call = page[t].call, q.asks \subseteq page[t].asks, q.rings = page[t].rings,
         q.live = page[t].live, q.stream = page[t].stream,
         Rejected(t, q), UNCHANGED <<down, online, started, server, drops, astray, excused>>
  PROVE  CallsIndInv'
<1>1. PICK p : p = Idle(Cleaned(q))
  OBVIOUS
<1>2. /\ page' = [page EXCEPT ![t] = p] /\ up' = [up EXCEPT ![t] = Append(up[t], Msg("reject", page[t].call))]
      /\ page[t].call \in Calls
  BY <1>1, PageIs DEF Rejected, Emit, Showing
<1>3. /\ p \in Pages /\ p.status = "idle" /\ p.call = 0 /\ p.asks \subseteq page[t].asks
      /\ p.rings \subseteq page[t].rings
  <2>1. Cleaned(q) \in Pages
    BY Rested
  <2> QED
    BY <1>1, <2>1, Rested
<1>4. t \notin astray' => MicrophoneFit(p)
  BY <1>1, PageIs, RestedQuiet DEF MicrophoneFit
<1>5. CalmPage(t, p)
  BY <1>2, <1>3 DEF CalmPage, Showing
<1>6. Ending(t, p, "reject", page[t].call)
  BY <1>2, <1>3 DEF Ending, Knows, CallsIndInv, HangInd, SidesFit, Calls
<1>7. CalmUp(t, p)
  BY <1>2, <1>6 DEF CalmUp, Kinds
<1> QED
  <2>1. CalmTab(t, p)
    BY <1>3, <1>4, <1>5, <1>7 DEF CalmTab, CalmDown, server, CallsIndInv, CallsTypeOK
  <2> QED
    BY <2>1, CalmTabStep

LEMMA RejectStep ==
  ASSUME CallsIndInv, NEW t \in Tabs, RejectCall(t) \/ AcceptDenied(t)
  PROVE  CallsIndInv'
<1>1. CASE RejectCall(t)
  BY <1>1, RejectedStep, PageIs DEF RejectCall
<1>2. CASE AcceptDenied(t)
  <2>1. PICK a \in page[t].asks :
          LET p == [page[t] EXCEPT !.asks = @ \ {a}]
          IN IF p.status = "incoming"
               THEN Rejected(t, p)
               ELSE page' = [page EXCEPT ![t] = p] /\ UNCHANGED up
    BY <1>2 DEF AcceptDenied
  <2>2. PICK q : q = [page[t] EXCEPT !.asks = @ \ {a}]
    OBVIOUS
  <2>3. /\ q \in Pages /\ q.call = page[t].call /\ q.asks = page[t].asks \ {a} /\ q.rings = page[t].rings
        /\ q.live = page[t].live /\ q.stream = page[t].stream /\ q.status = page[t].status
    BY <2>2, PageIs DEF Pages
  <2>4. UNCHANGED <<down, online, started, server, drops, astray, excused>>
    BY <1>2 DEF AcceptDenied
  <2>5. CASE page[t].status = "incoming"
    <3>1. Rejected(t, q)
      BY <2>1, <2>2, <2>3, <2>5
    <3> QED
      BY <2>3, <2>4, <2>5, <3>1, RejectedStep
  <2>6. CASE page[t].status # "incoming"
    <3>1. page' = [page EXCEPT ![t] = q] /\ UNCHANGED up
      BY <2>1, <2>2, <2>3, <2>6
    <3>2. CalmPage(t, q)
      BY <2>3, <3>1, PageIs DEF CalmPage, Calls
    <3>3. CalmTab(t, q)
      BY <2>3, <2>4, <3>1, <3>2, PageIs
         DEF CalmTab, CalmDown, CalmUp, server, CallsIndInv, CallsTypeOK, MicrophoneFit
    <3> QED
      BY <3>3, CalmTabStep
  <2> QED
    BY <2>5, <2>6
<1> QED
  BY <1>1, <1>2

\* A page that shows a call, hung up.
LEMMA EndedPage ==
  ASSUME CallsIndInv, NEW t \in Tabs, NEW q \in Pages, q.asks = page[t].asks, q.rings \subseteq page[t].rings,
         q.live = page[t].live, q.stream = page[t].stream,
         NEW p, p \in {Ended(Cleaned(q)), Idle(Cleaned(q))}, page' = [page EXCEPT ![t] = p], astray' = astray
  PROVE  CalmPage(t, p) /\ p \in Pages /\ p.call = 0 /\ (t \notin astray' => MicrophoneFit(p))
<1>1. Cleaned(q) \in Pages
  BY Rested
<1>2. /\ p \in Pages /\ p.status \in {"ended", "idle"} /\ p.call = 0 /\ p.asks = page[t].asks
      /\ p.rings \subseteq page[t].rings
  BY <1>1, Rested
<1>3. t \notin astray' => MicrophoneFit(p)
  BY PageIs, RestedQuiet DEF MicrophoneFit
<1> QED
  BY <1>2, <1>3 DEF CalmPage, Showing

LEMMA EndCallStep ==
  ASSUME CallsIndInv, NEW t \in Tabs, EndCall(t)
  PROVE  CallsIndInv'
<1>1. PICK p : p = Ended(Cleaned(page[t]))
  OBVIOUS
<1>2. page[t].call \in Calls /\ page' = [page EXCEPT ![t] = p] /\ Emit(t, "end", page[t].call)
  BY <1>1, PageIs DEF EndCall, Showing
<1>3. CalmPage(t, p) /\ p \in Pages /\ p.call = 0 /\ (t \notin astray' => MicrophoneFit(p))
  BY <1>1, <1>2, EndedPage, PageIs DEF EndCall
<1>4. Ending(t, p, "end", page[t].call)
  <2>1. Owner[t] \in {From(page[t].call), To(page[t].call)}
    BY <1>2 DEF CallsIndInv, HangInd, SidesFit
  <2> QED
    BY <1>2, <1>3, <2>1 DEF Ending, Knows, Calls
<1>5. CalmUp(t, p)
  BY <1>2, <1>4 DEF CalmUp, Emit, Kinds
<1> QED
  <2>1. CalmTab(t, p)
    BY <1>3, <1>5 DEF CalmTab, CalmDown, EndCall, server, CallsIndInv, CallsTypeOK
  <2> QED
    BY <2>1, CalmTabStep

LEMMA RingTimeoutStep ==
  ASSUME CallsIndInv, NEW t \in Tabs, RingTimeout(t)
  PROVE  CallsIndInv'
<1>1. PICK r \in page[t].rings :
    LET p == [page[t] EXCEPT !.rings = @ \ {r}] IN
    IF p.status # r.at
      THEN /\ page' = [page EXCEPT ![t] = p]
           /\ UNCHANGED <<net, started, server, astray, excused>>
      ELSE /\ page' = [page EXCEPT ![t] =
                IF r.at = "calling" THEN Ended(Cleaned(p)) ELSE Idle(Cleaned(p))]
           /\ Emit(t, IF r.at = "calling" THEN "end" ELSE "reject", r.call)
           /\ excused' = excused \cup {c \in Calls : c = p.call /\ c # r.call}
           /\ UNCHANGED <<down, online, started, server, drops, astray>>
  BY DEF RingTimeout
<1>2. PICK q : q = [page[t] EXCEPT !.rings = @ \ {r}]
  OBVIOUS
<1>3. /\ q \in Pages /\ q.rings \subseteq page[t].rings /\ q.status = page[t].status /\ q.call = page[t].call
      /\ q.asks = page[t].asks /\ q.live = page[t].live /\ q.stream = page[t].stream
  BY <1>2, PageIs DEF Pages
<1>4. /\ r.call \in Calls /\ r.at \in {"calling", "incoming"} /\ r = [at |-> r.at, call |-> r.call]
  BY PageIs DEF Pages, Rings
<1>5. CASE page[t].status # r.at
  <2>1. page' = [page EXCEPT ![t] = q] /\ UNCHANGED <<net, started, server, astray, excused>>
    BY <1>1, <1>2, <1>3, <1>5
  <2>2. CalmPage(t, q)
    <3>1. page[t].status \in Showing <=> page[t].call # 0
      BY DEF CallsIndInv, HangInd, SidesFit
    <3> QED
      BY <1>3, <2>1, <3>1 DEF CalmPage
  <2>3. CalmTab(t, q)
    BY <1>3, <2>1, <2>2, PageIs
       DEF CalmTab, CalmDown, CalmUp, net, server, CallsIndInv, CallsTypeOK, MicrophoneFit
  <2> QED
    BY <2>3, CalmTabStep
<1>6. CASE page[t].status = r.at
  <2>1. PICK p : p = IF r.at = "calling" THEN Ended(Cleaned(q)) ELSE Idle(Cleaned(q))
    OBVIOUS
  <2>2. PICK m : m = IF r.at = "calling" THEN "end" ELSE "reject"
    OBVIOUS
  <2>3. /\ page' = [page EXCEPT ![t] = p]
        /\ Emit(t, m, r.call)
        /\ excused' = excused \cup {c \in Calls : c = q.call /\ c # r.call}
        /\ UNCHANGED <<down, online, started, server, drops, astray>>
    BY <1>1, <1>2, <1>3, <1>6, <2>1, <2>2
  <2>4. CalmPage(t, p) /\ p \in Pages /\ p.call = 0 /\ (t \notin astray' => MicrophoneFit(p))
    BY <1>3, <2>1, <2>3, EndedPage
  <2>5. Ending(t, p, m, r.call)
    <3>1. /\ r.at = "calling" => Owner[t] = From(r.call)
          /\ r.at = "incoming" => Owner[t] = To(r.call)
      BY <1>4 DEF CallsIndInv, HangInd, SidesFit
    <3>2. Knows(t, r.call)
      BY <1>4 DEF Knows
    <3> QED
      BY <1>4, <2>2, <2>4, <3>1, <3>2 DEF Ending, Calls
  <2>6. CalmUp(t, p)
    BY <1>4, <2>2, <2>3, <2>5 DEF CalmUp, Emit, Kinds
  <2>7. CalmTab(t, p)
    BY <2>3, <2>4, <2>6 DEF CalmTab, CalmDown, server, CallsIndInv, CallsTypeOK
  <2> QED
    BY <2>7, CalmTabStep
<1> QED
  BY <1>5, <1>6

LEMMA IdleTimerStep ==
  ASSUME CallsIndInv, NEW t \in Tabs, IdleTimer(t)
  PROVE  CallsIndInv'
<1>1. PICK q : q = [page[t] EXCEPT !.idles = @ - 1]
  OBVIOUS
<1>2. PICK p : p = IF q.status = "away" THEN q ELSE Idle(q)
  OBVIOUS
<1>3. page' = [page EXCEPT ![t] = p]
  BY <1>1, <1>2 DEF IdleTimer
<1>4. /\ q \in Pages /\ q.rings = page[t].rings /\ q.status = page[t].status /\ q.call = page[t].call
      /\ q.asks = page[t].asks /\ q.live = page[t].live /\ q.stream = page[t].stream
  BY <1>1, PageIs DEF Pages, IdleTimer
<1>5. /\ p \in Pages /\ p.status \notin Showing /\ p.call = 0 /\ p.asks = page[t].asks
      /\ p.rings = page[t].rings /\ p.live = page[t].live /\ p.stream = page[t].stream
  BY <1>2, <1>4, Rested, PageIs DEF Showing
<1>6. CalmPage(t, p)
  BY <1>3, <1>5 DEF CalmPage, Showing
<1>7. t \notin astray' => MicrophoneFit(p)
  <2> SUFFICES ASSUME t \notin astray' PROVE MicrophoneFit(p)
    OBVIOUS
  <2>1. page[t].status \in {"ended", "idle", "away"} /\ t \notin astray
    BY DEF IdleTimer
  <2>2. page[t].live = {}
    BY <2>1, PageIs DEF MicrophoneFit
  <2> QED
    BY <1>5, <2>2 DEF MicrophoneFit
<1> QED
  <2>1. CalmTab(t, p)
    BY <1>5, <1>6, <1>7 DEF CalmTab, IdleTimer, CalmDown, CalmUp, net, server, CallsIndInv, CallsTypeOK
  <2> QED
    BY <2>1, CalmTabStep

\* What the message taken was, and what taking it is for a calm step.
LEMMA Taken ==
  ASSUME CallsIndInv, NEW t \in Tabs, NEW m, Take(t, m)
  PROVE  /\ Head1(t) \in Messages /\ Head1(t).call \in Calls /\ down[t] # <<>> /\ Head1(t) = Head(down[t])
         /\ Head(down[t]).m = m /\ down' = [down EXCEPT ![t] = Tail(down[t])]
         /\ Has(down[t], m, Head1(t).call)
<1>1. down[t] \in Seq(Messages) /\ down[t] # <<>> /\ Head(down[t]).m = m /\ Head1(t) = Head(down[t])
  BY PageIs DEF Take, Head1
<1>2. Head(down[t]) \in Messages /\ Has(down[t], Head(down[t]).m, Head(down[t]).call)
  BY <1>1, QueueTail
<1>3. Head1(t).call \in Calls
  BY <1>1, <1>2 DEF Messages
<1> QED
  BY <1>1, <1>2, <1>3 DEF Take

LEMMA BusyStep ==
  ASSUME CallsIndInv, NEW t \in Tabs, OnIncomingCall(t), page[t].status # "idle"
  PROVE  CallsIndInv'
<1>1. /\ Take(t, "call") /\ UNCHANGED page /\ Emit(t, "busy", Head1(t).call)
      /\ UNCHANGED <<online, started, server, drops, astray, excused>>
  BY DEF OnIncomingCall
<1>2. /\ Head1(t).call \in Calls /\ down[t] # <<>> /\ Head1(t) = Head(down[t]) /\ Head(down[t]).m = "call"
      /\ down' = [down EXCEPT ![t] = Tail(down[t])] /\ Has(down[t], "call", Head1(t).call)
  BY <1>1, Taken
<1>3. Owner[t] = To(Head1(t).call)
  BY <1>2 DEF CallsIndInv, HangInd, SidesFit
<1>4. Ending(t, page[t], "busy", Head1(t).call)
  BY <1>2, <1>3 DEF Ending
<1>5. CalmUp(t, page[t]) /\ CalmDown(t, page[t])
  BY <1>1, <1>2, <1>4 DEF CalmUp, CalmDown, Emit, Kinds, Overs
<1>6. CalmTab(t, page[t])
  BY <1>1, <1>5, StillPage, PageIs DEF CalmTab, server, CallsIndInv, CallsTypeOK
<1> QED
  BY <1>6, CalmTabStep

\* An event without a page's change, that emits nothing.
LEMMA StillTaken ==
  ASSUME CallsIndInv, NEW t \in Tabs, NEW m, Take(t, m), m \in Overs => page[t].call = 0, UNCHANGED <<page, up>>,
         UNCHANGED <<online, started, server, drops, astray, excused>>
  PROVE  CallsIndInv'
<1>1. CalmDown(t, page[t])
  BY Taken DEF CalmDown
<1>2. CalmTab(t, page[t])
  BY <1>1, StillPage, PageIs DEF CalmTab, CalmUp, server, CallsIndInv, CallsTypeOK
<1> QED
  BY <1>2, CalmTabStep

\* An event after which the page goes on with its call.
LEMMA GoesOn ==
  ASSUME CallsIndInv, NEW t \in Tabs, NEW p \in Pages, page' = [page EXCEPT ![t] = p],
         p.call = page[t].call, p.asks = page[t].asks, p.rings \subseteq page[t].rings,
         p.live = page[t].live, p.stream = page[t].stream,
         p.status = page[t].status \/ (page[t].status \in Showing /\ p.status \in {"connecting", "active"}),
         CalmDown(t, p), CalmUp(t, p),
         UNCHANGED <<online, started, server, drops, astray, excused>>
  PROVE  CallsIndInv'
<1>1. (page[t].status \in Showing <=> page[t].call # 0) /\ "incoming" \notin {"connecting", "active"}
  BY DEF CallsIndInv, HangInd, SidesFit
<1>2. p.status \in Showing <=> page[t].status \in Showing
  BY DEF Showing
<1>3. CalmPage(t, p)
  BY <1>1, <1>2 DEF CalmPage
<1>4. t \notin astray' => MicrophoneFit(p)
  BY PageIs DEF MicrophoneFit
<1>5. CalmTab(t, p)
  BY <1>3, <1>4 DEF CalmTab, server, CallsIndInv, CallsTypeOK
<1> QED
  BY <1>5, CalmTabStep

LEMMA EmitsOther ==
  ASSUME NEW t \in Tabs, NEW p, NEW m \in {"accept", "offer", "answer"}, NEW c \in Calls, Emit(t, m, c)
  PROVE  CalmUp(t, p)
<1>1. m \in Kinds \ {"call"} /\ m \notin Overs
  BY DEF Kinds, Overs
<1> QED
  BY <1>1 DEF CalmUp, Emit

LEMMA MineKnown == ASSUME CallsTypeOK, CallsOwner PROVE \A t : Mine(t) \subseteq Known /\ Known \subseteq Calls
<1>1. Known = 1 .. Len(started) /\ Len(started) \in Nat /\ Len(started) <= MaxCalls
  BY DEF CallsTypeOK, Known
<1>2. Known \subseteq Calls
  BY <1>1 DEF Calls, CallsOwner
<1> QED
  BY <1>2 DEF Mine, Known

LEMMA MediaSteps ==
  ASSUME CallsIndInv, NEW t \in Tabs,
         OnCallAccepted(t) \/ OnSdpOffer(t) \/ OnSdpAnswer(t) \/ IceConnected(t)
  PROVE  CallsIndInv'
<1>1. page[t] \in Pages
  BY PageIs
<1>2. CASE OnCallAccepted(t)
  <2>1. Take(t, "accept") /\ UNCHANGED <<online, started, server, drops, astray, excused>>
    BY <1>2 DEF OnCallAccepted
  <2>2. "accept" \notin Overs /\ Head1(t).call \in Calls
    BY <2>1, Taken DEF Overs
  <2>3. CASE page[t].status # "calling"
    BY <1>2, <2>1, <2>2, <2>3, StillTaken DEF OnCallAccepted
  <2>4. CASE page[t].status = "calling"
    <3>1. PICK p : p = [page[t] EXCEPT !.status = "connecting", !.rings = @ \ {page[t].ring}, !.ring = NoRing,
                           !.pc = [call |-> Head1(t).call, caller |-> TRUE, ready |-> FALSE]]
      OBVIOUS
    <3>2. page' = [page EXCEPT ![t] = p] /\ Emit(t, "offer", Head1(t).call)
      BY <1>2, <2>4, <3>1 DEF OnCallAccepted
    <3>3. [call |-> Head1(t).call, caller |-> TRUE, ready |-> FALSE]
            \in [call : Maybe(Calls), caller : BOOLEAN, ready : BOOLEAN]
      BY <2>2 DEF Maybe
    <3>4. /\ p \in Pages /\ p.status = "connecting" /\ p.call = page[t].call /\ p.live = page[t].live
          /\ p.stream = page[t].stream /\ p.asks = page[t].asks /\ p.rings \subseteq page[t].rings
      BY <1>1, <3>1, <3>3 DEF Pages, Statuses
    <3>5. CalmDown(t, p)
      BY <2>1, <2>2, Taken DEF CalmDown
    <3>6. CalmUp(t, p)
      BY <2>2, <3>2, EmitsOther
    <3> QED
      BY <2>1, <2>4, <3>2, <3>4, <3>5, <3>6, GoesOn DEF Showing
  <2> QED
    BY <2>3, <2>4
<1>3. CASE OnSdpOffer(t)
  <2>1. Take(t, "offer") /\ UNCHANGED <<online, started, server, drops, astray, excused>>
    BY <1>3 DEF OnSdpOffer
  <2>2. "offer" \notin Overs /\ Head1(t).call \in Calls
    BY <2>1, Taken DEF Overs
  <2>3. CASE page[t].status \notin {"connecting", "incoming"}
    BY <1>3, <2>1, <2>2, <2>3, StillTaken DEF OnSdpOffer
  <2>4. CASE page[t].status \in {"connecting", "incoming"}
    <3>1. PICK p : p = [page[t] EXCEPT !.pc = [call |-> Head1(t).call, caller |-> FALSE, ready |-> TRUE]]
      OBVIOUS
    <3>2. page' = [page EXCEPT ![t] = p] /\ Emit(t, "answer", Head1(t).call)
      BY <1>1, <1>3, <2>4, <3>1 DEF OnSdpOffer, Pages, CallsIndInv, CallsTypeOK
    <3>3. [call |-> Head1(t).call, caller |-> FALSE, ready |-> TRUE]
            \in [call : Maybe(Calls), caller : BOOLEAN, ready : BOOLEAN]
      BY <2>2 DEF Maybe
    <3>4. /\ p \in Pages /\ p.status = page[t].status /\ p.call = page[t].call /\ p.live = page[t].live
          /\ p.stream = page[t].stream /\ p.asks = page[t].asks /\ p.rings \subseteq page[t].rings
      BY <1>1, <3>1, <3>3 DEF Pages, Statuses
    <3>5. CalmDown(t, p)
      BY <2>1, <2>2, Taken DEF CalmDown
    <3>6. CalmUp(t, p)
      BY <2>2, <3>2, EmitsOther
    <3> QED
      BY <2>1, <3>2, <3>4, <3>5, <3>6, GoesOn
  <2> QED
    BY <2>3, <2>4
<1>4. CASE OnSdpAnswer(t)
  <2>1. Take(t, "answer") /\ UNCHANGED <<up, online, started, server, drops, astray, excused>>
    BY <1>4 DEF OnSdpAnswer
  <2>2. PICK ready \in BOOLEAN : ready = (page[t].pc.ready \/ page[t].pc.caller)
    OBVIOUS
  <2>3. PICK p : p = [page[t] EXCEPT !.pc = [page[t].pc EXCEPT !.ready = ready]]
    OBVIOUS
  <2>4. page' = [page EXCEPT ![t] = p]
    BY <1>1, <1>4, <2>2, <2>3 DEF OnSdpAnswer, Pages, CallsIndInv, CallsTypeOK
  <2>5. [page[t].pc EXCEPT !.ready = ready] \in [call : Maybe(Calls), caller : BOOLEAN, ready : BOOLEAN]
    BY <1>1 DEF Pages
  <2>6. /\ p \in Pages /\ p.status = page[t].status /\ p.call = page[t].call /\ p.live = page[t].live
        /\ p.stream = page[t].stream /\ p.asks = page[t].asks /\ p.rings \subseteq page[t].rings
    BY <1>1, <2>3, <2>5 DEF Pages
  <2>7. CalmDown(t, p) /\ CalmUp(t, p)
    BY <2>1, Taken DEF CalmDown, CalmUp, Overs
  <2> QED
    BY <2>1, <2>4, <2>6, <2>7, GoesOn
<1>5. CASE IceConnected(t)
  <2>1. PICK p : p = [page[t] EXCEPT !.status = "active"]
    OBVIOUS
  <2>2. page' = [page EXCEPT ![t] = p] /\ page[t].status = "connecting"
    BY <1>1, <1>5, <2>1 DEF IceConnected, Pages, CallsIndInv, CallsTypeOK
  <2>3. /\ p \in Pages /\ p.status = "active" /\ p.call = page[t].call /\ p.live = page[t].live
        /\ p.stream = page[t].stream /\ p.asks = page[t].asks /\ p.rings \subseteq page[t].rings
    BY <1>1, <2>1 DEF Pages, Statuses
  <2>4. CalmDown(t, p) /\ CalmUp(t, p) /\ UNCHANGED <<online, started, server, drops, astray, excused>>
    BY <1>5 DEF IceConnected, CalmDown, CalmUp, net
  <2> QED
    BY <2>2, <2>3, <2>4, GoesOn DEF Showing
<1> QED
  BY <1>2, <1>3, <1>4, <1>5

LEMMA OverSteps ==
  ASSUME CallsIndInv, NEW t \in Tabs, OnCallOver(t) \/ IceLost(t) \/ Unheard(t)
  PROVE  CallsIndInv'
<1>1. PICK p : p = Ended(Cleaned(page[t]))
  OBVIOUS
<1>2. CASE OnCallOver(t)
  <2>1. PICK m \in {"reject", "end", "busy"} : Take(t, m)
    BY <1>2 DEF OnCallOver
  <2>2. page' = [page EXCEPT ![t] = p] /\ UNCHANGED <<up, online, started, server, drops, astray>>
    BY <1>1, <1>2 DEF OnCallOver
  <2>3. CalmPage(t, p) /\ p \in Pages /\ p.call = 0 /\ (t \notin astray' => MicrophoneFit(p))
    BY <1>1, <2>2, EndedPage, PageIs
  <2>4. CalmDown(t, p)
    BY <2>1, <2>3, Taken DEF CalmDown
  <2>5. CalmTab(t, p)
    BY <1>2, <2>2, <2>3, <2>4 DEF CalmTab, CalmUp, OnCallOver, server, CallsIndInv, CallsTypeOK
  <2> QED
    BY <2>5, CalmTabStep
<1>3. CASE IceLost(t)
  <2>1. page' = [page EXCEPT ![t] = p] /\ UNCHANGED <<net, started, server, astray, excused>>
    BY <1>1, <1>3 DEF IceLost
  <2>2. CalmPage(t, p) /\ p \in Pages /\ (t \notin astray' => MicrophoneFit(p))
    BY <1>1, <2>1, EndedPage, PageIs
  <2>3. CalmTab(t, p)
    BY <2>1, <2>2 DEF CalmTab, CalmDown, CalmUp, net, server, CallsIndInv, CallsTypeOK
  <2> QED
    BY <2>3, CalmTabStep
<1>4. CASE Unheard(t)
  <2>1. page[t].call = 0
    BY <1>4, PageIs DEF Unheard, Listening, Showing
  <2> QED
    BY <1>4, <2>1, StillTaken DEF Unheard
<1> QED
  BY <1>2, <1>3, <1>4

LEMMA LeaveChatStep ==
  ASSUME CallsIndInv, NEW t \in Tabs, LeaveChat(t)
  PROVE  CallsIndInv'
<1>1. PICK q : q = Cleaned(page[t])
  OBVIOUS
<1>2. PICK p : p = [q EXCEPT !.status = "away", !.call = 0]
  OBVIOUS
<1>3. page' = [page EXCEPT ![t] = p]
  BY <1>1, <1>2 DEF LeaveChat
<1>4. /\ q \in Pages /\ q.rings \subseteq page[t].rings /\ q.asks = page[t].asks
      /\ q.live = page[t].live \ {page[t].stream}
  BY <1>1, Rested, PageIs
<1>5. /\ p \in Pages /\ p.status = "away" /\ p.call = 0 /\ p.asks = q.asks /\ p.rings = q.rings /\ p.live = q.live
  BY <1>2, <1>4 DEF Pages, Statuses, Maybe
<1>6. CalmPage(t, p)
  BY <1>3, <1>4, <1>5 DEF CalmPage, Showing
<1>7. t \notin astray => MicrophoneFit(p)
  BY <1>4, <1>5, PageIs DEF MicrophoneFit
<1>8. Mine(t) \subseteq Calls
  BY MineKnown, CallsOwner DEF CallsIndInv
<1> QED
  <2>1. CalmTab(t, p)
    BY <1>5, <1>6, <1>7, <1>8 DEF CalmTab, LeaveChat, CalmDown, CalmUp, server, CallsIndInv, CallsTypeOK
  <2> QED
    BY <2>1, CalmTabStep

LEMMA OpenChatStep ==
  ASSUME CallsIndInv, NEW t \in Tabs, OpenChat(t)
  PROVE  CallsIndInv'
<1>1. page' = [page EXCEPT ![t] = Fresh] /\ UNCHANGED <<net, started, server, astray, excused>>
  BY DEF OpenChat
<1>2. /\ Fresh \in Pages /\ Fresh.status = "idle" /\ Fresh.call = 0 /\ Fresh.asks = {} /\ Fresh.rings = {}
      /\ Fresh.live = {}
  BY DEF Fresh, Pages, Statuses, Maybe, NoPC
<1>3. CalmPage(t, Fresh) /\ MicrophoneFit(Fresh)
  BY <1>1, <1>2 DEF CalmPage, Showing, MicrophoneFit
<1>4. CalmTab(t, Fresh)
  BY <1>1, <1>2, <1>3 DEF CalmTab, CalmDown, CalmUp, net, server, CallsIndInv, CallsTypeOK
<1> QED
  BY <1>4, CalmTabStep

-----------------------------------------------------------------------------
(* Calls: a call started, announced and shown.                             *)

\* Of a call not yet started nothing is known.
LEMMA UnknownCall ==
  ASSUME CallsKnown, NEW c \in Calls, c \notin Known
  PROVE  /\ c \notin active \cup naming
         /\ \A o \in Tabs : ~Knows(o, c) /\ StartAsk(c) \notin page[o].asks /\ ~Has(up[o], "call", c) /\ ~Told(o, c)
BY DEF CallsKnown

LEMMA StartCallStep ==
  ASSUME CallsIndInv, CallsOwner, NEW t \in Tabs, StartCall(t)
  PROVE  CallsIndInv'
<1>1. PICK u \in Users \ {Owner[t]} : started' = Append(started, [from |-> Owner[t], to |-> u])
  BY DEF StartCall
<1>2. PICK new : new = Len(started) + 1
  OBVIOUS
<1>3. /\ Len(started) \in Nat /\ Known = 1 .. Len(started) /\ new \in Calls /\ new \notin Known
      /\ started' \in Seq([from : Users, to : Users]) /\ Len(started') = new
      /\ Known' = Known \cup {new} /\ From(new)' = Owner[t] /\ To(new)' = u
      /\ \A x \in Known : From(x)' = From(x) /\ To(x)' = To(x)
  <2>1. Len(started) \in Nat /\ started \in Seq([from : Users, to : Users]) /\ Len(started) < MaxCalls
    BY DEF CallsIndInv, CallsTypeOK, StartCall
  <2>2. [from |-> Owner[t], to |-> u] \in [from : Users, to : Users]
    BY DEF CallsOwner
  <2>3. /\ started' \in Seq([from : Users, to : Users]) /\ Len(started') = new
        /\ \A x \in 1 .. Len(started) : started'[x] = started[x]
        /\ started'[new] = [from |-> Owner[t], to |-> u]
    BY <1>1, <1>2, <2>1, <2>2, AppendProperties
  <2>4. Known = 1 .. Len(started) /\ Known' = 1 .. new
    BY <2>1, <2>3 DEF Known
  <2>5. new \in Calls
    BY <1>2, <2>1 DEF Calls, CallsOwner
  <2> QED
    BY <1>2, <2>1, <2>3, <2>4, <2>5 DEF From, To
<1>4. PICK p : p = [page[t] EXCEPT !.asks = @ \cup {StartAsk(new)}]
  OBVIOUS
<1>5. page \in [Tabs -> Pages] /\ page[t] \in Pages
  BY DEF CallsIndInv, CallsTypeOK
<1>6. page' = [page EXCEPT ![t] = p]
  BY <1>2, <1>4, <1>5 DEF StartCall, StartAsk, Pages
<1>7. /\ p \in Pages /\ p.status = page[t].status /\ p.call = page[t].call /\ p.live = page[t].live
      /\ p.stream = page[t].stream /\ p.asks = page[t].asks \cup {StartAsk(new)} /\ p.rings = page[t].rings
  <2>1. StartAsk(new) \in Asks
    BY <1>3 DEF StartAsk, Asks
  <2> QED
    BY <1>4, <1>5, <2>1 DEF Pages
<1>8. UNCHANGED <<up, down, online, drops, active, naming, astray, excused>>
  BY DEF StartCall, net, server
<1>9. /\ \A o \in Tabs : /\ page'[o].call = page[o].call /\ page'[o].rings = page[o].rings
                         /\ page'[o].status = page[o].status
                         /\ \A x : AcceptAsk(x) \in page'[o].asks <=> AcceptAsk(x) \in page[o].asks
                         /\ \A x \in Calls : StartAsk(x) \in page'[o].asks
                               <=> StartAsk(x) \in page[o].asks \/ (o = t /\ x = new)
  <2>1. \A x, y : AcceptAsk(x) # StartAsk(y) /\ (StartAsk(x) = StartAsk(y) => x = y)
    BY DEF AcceptAsk, StartAsk
  <2>2. \A o \in Tabs : page'[o] = IF o = t THEN p ELSE page[o]
    BY <1>5, <1>6
  <2> QED
    BY <1>7, <2>1, <2>2
<1>10. \A o \in Tabs, x \in Calls : /\ Knows(o, x)' <=> Knows(o, x)
                                    /\ Told(o, x)' <=> Told(o, x)
                                    /\ Has(up[o], "call", x)' <=> Has(up[o], "call", x)
  BY <1>8, <1>9 DEF Knows, Told, Over, Has
<1>11. /\ new \notin active \cup naming
       /\ \A o \in Tabs : ~Knows(o, new) /\ StartAsk(new) \notin page[o].asks /\ ~Has(up[o], "call", new) /\ ~Told(o, new)
  BY <1>3, UnknownCall DEF CallsIndInv, HangInd
<1>12. CallsKnown'
  BY <1>1, <1>3, <1>8, <1>9, <1>10 DEF CallsIndInv, HangInd, CallsKnown
<1>13. StartsFresh'
  BY <1>8, <1>9, <1>10, <1>11 DEF CallsIndInv, HangInd, StartsFresh
<1>14. CallsGoOut'
  BY <1>8, <1>10 DEF CallsIndInv, HangInd, CallsGoOut, TellsOnce
<1>15. HeardOnce'
  <2> SUFFICES ASSUME NEW o \in Tabs, NEW x \in Calls
               PROVE  /\ TellsOnce(down[o], x)'
                      /\ Owner[o] = To(x)' /\ Knows(o, x)' => x \notin naming /\ ~Has(down[o], "call", x)'
                      /\ x \in naming => ~Has(down[o], "call", x)'
    BY <1>8 DEF HeardOnce
  <2>1. TellsOnce(down[o], x)' /\ (x \in naming => ~Has(down[o], "call", x)')
    BY <1>8 DEF CallsIndInv, HangInd, HeardOnce, TellsOnce, Has
  <2>2. ASSUME Owner[o] = To(x)', Knows(o, x)' PROVE x \notin naming /\ ~Has(down[o], "call", x)'
    <3>1. Knows(o, x) /\ x \in Known
      BY <1>10, <2>2 DEF CallsIndInv, HangInd, CallsKnown
    <3> QED
      BY <1>3, <1>8, <2>2, <3>1 DEF CallsIndInv, HangInd, HeardOnce, Has
  <2> QED
    BY <2>1, <2>2
<1>16. OfflineFits' /\ EndsArrive'
  BY <1>8, <1>9, <1>10 DEF CallsIndInv, HangInd, OfflineFits, EndsArrive, Gone, Over, Has, Followed
<1>17. SidesFit'
  <2> SUFFICES ASSUME NEW o \in Tabs, NEW x \in Calls
               PROVE  /\ page[o].call = x \/ Has(up[o], "end", x) => Owner[o] \in {From(x)', To(x)'}
                      /\ StartAsk(x) \in page'[o].asks \/ Has(up[o], "call", x) => Owner[o] = From(x)'
                      /\ AcceptAsk(x) \in page[o].asks \/ Has(up[o], "reject", x) \/ Has(up[o], "busy", x)
                           \/ Has(down[o], "call", x) => Owner[o] = To(x)'
                      /\ [at |-> "calling", call |-> x] \in page[o].rings => Owner[o] = From(x)'
                      /\ [at |-> "incoming", call |-> x] \in page[o].rings => Owner[o] = To(x)'
    <3>1. ASSUME NEW o \in Tabs, page[o].status = "incoming" PROVE Owner[o] = To(page[o].call)'
      <4>1. page[o].call \in Calls
        BY <3>1, PageIs DEF Showing
      <4>2. page[o].call \in Known
        BY <4>1 DEF CallsIndInv, HangInd, CallsKnown, Knows
      <4> QED
        BY <1>3, <1>9, <3>1, <4>2 DEF CallsIndInv, HangInd, SidesFit, To
    <3> QED
      BY <1>8, <1>9, <3>1 DEF CallsIndInv, HangInd, SidesFit, Has, To
  <2>1. CASE x \in Known
    <3>1. From(x)' = From(x) /\ To(x)' = To(x) /\ x # new
      BY <1>3, <2>1
    <3> QED
      BY <1>9, <3>1 DEF CallsIndInv, HangInd, SidesFit
  <2>2. CASE x \notin Known
    <3>1. ~Knows(o, x) /\ StartAsk(x) \notin page[o].asks /\ ~Has(up[o], "call", x) /\ ~Told(o, x)
      BY <2>2, UnknownCall DEF CallsIndInv, HangInd
    <3>2. StartAsk(x) \in page'[o].asks => Owner[o] = From(x)'
      BY <1>3, <1>9, <3>1
    <3> QED
      BY <3>1, <3>2 DEF Knows, Told, Over, Overs
  <2> QED
    BY <2>1, <2>2
<1>18. MicrophoneFits'
  <2>1. t \notin astray => MicrophoneFit(p)
    BY <1>7, PageIs DEF MicrophoneFit
  <2> QED
    BY <1>6, <1>8, <2>1, MicrophoneStep DEF CallsIndInv
<1>19. CallsTypeOK'
  BY <1>3, <1>5, <1>6, <1>7, <1>8 DEF CallsIndInv, CallsTypeOK, Calls, CallsOwner
<1> QED
  BY <1>12, <1>13, <1>14, <1>15, <1>16, <1>17, <1>18, <1>19 DEF CallsIndInv, HangInd

\* A step of tab t alone.
LEMMA OthersStill ==
  ASSUME CallsTypeOK, NEW t \in Tabs, NEW p, page' = [page EXCEPT ![t] = p],
         NEW q, down' = [down EXCEPT ![t] = q], NEW r, up' = [up EXCEPT ![t] = r]
  PROVE  /\ page'[t] = p /\ down'[t] = q /\ up'[t] = r
         /\ \A o \in Tabs \ {t} :
              /\ page'[o] = page[o] /\ up'[o] = up[o] /\ down'[o] = down[o]
              /\ \A x \in Calls : (Knows(o, x)' <=> Knows(o, x)) /\ (Told(o, x)' <=> Told(o, x))
<1>1. /\ page'[t] = p /\ down'[t] = q /\ up'[t] = r
      /\ \A o \in Tabs \ {t} : page'[o] = page[o] /\ up'[o] = up[o] /\ down'[o] = down[o]
  BY DEF CallsTypeOK
<1> QED
  BY <1>1 DEF Knows, Told, Over, Has

LEMMA StartGrantedStep ==
  ASSUME CallsIndInv, NEW t \in Tabs, StartGranted(t)
  PROVE  CallsIndInv'
<1>1. PICK a \in page[t].asks :
        /\ a.for = "start"
        /\ LET ring == [at |-> "calling", call |-> a.call]
               p == [page[t] EXCEPT !.asks = @ \ {a},
                       !.stream = a.call, !.live = @ \cup {a.call},
                       !.status = IF @ = "away" THEN @ ELSE "calling",
                       !.call = IF page[t].status = "away" THEN 0 ELSE a.call,
                       !.rings = @ \cup {ring}, !.ring = ring]
           IN page' = [page EXCEPT ![t] = p]
        /\ Emit(t, "call", a.call)
        /\ astray' = astray \cup {o \in {t} : page[t].status # "idle"}
        /\ excused' = excused \cup {c \in Calls : page[t].status # "idle" /\ c \in {a.call, page[t].call}}
  BY DEF StartGranted
<1>2. PICK c \in Calls : c = a.call /\ a = StartAsk(c)
  BY <1>1, PageIs DEF Asks, AcceptAsk
<1>3. PICK ring : ring = [at |-> "calling", call |-> c]
  OBVIOUS
<1>4. PICK p : p = [page[t] EXCEPT !.asks = @ \ {a},
                       !.stream = a.call, !.live = @ \cup {a.call},
                       !.status = IF @ = "away" THEN @ ELSE "calling",
                       !.call = IF page[t].status = "away" THEN 0 ELSE a.call,
                       !.rings = @ \cup {ring}, !.ring = ring]
  OBVIOUS
<1>5. page' = [page EXCEPT ![t] = p]
  BY <1>1, <1>2, <1>3, <1>4
<1>6. ring \in Rings
  BY <1>3 DEF Rings
<1>7. /\ p \in Pages /\ p.asks = page[t].asks \ {a} /\ p.rings = page[t].rings \cup {ring}
      /\ p.stream = c /\ p.live = page[t].live \cup {c}
  BY <1>2, <1>4, <1>6, PageIs DEF Pages, Statuses, Maybe
<1>8. /\ page[t].status = "away" => p.status = "away" /\ p.call = 0
      /\ page[t].status # "away" => p.status = "calling" /\ p.call = c
  BY <1>2, <1>4, PageIs DEF Pages
<1>9. up' = [up EXCEPT ![t] = Append(up[t], Msg("call", c))]
  BY <1>1, <1>2 DEF Emit
<1>10. UNCHANGED <<down, online, started, active, naming, drops>> /\ down' = [down EXCEPT ![t] = down[t]]
  BY DEF StartGranted, server, CallsIndInv, CallsTypeOK
<1>11. /\ page'[t] = p /\ down'[t] = down[t] /\ up'[t] = Append(up[t], Msg("call", c))
       /\ \A o \in Tabs \ {t} :
            /\ page'[o] = page[o] /\ up'[o] = up[o] /\ down'[o] = down[o]
            /\ \A x \in Calls : (Knows(o, x)' <=> Knows(o, x)) /\ (Told(o, x)' <=> Told(o, x))
  BY <1>5, <1>9, <1>10, OthersStill DEF CallsIndInv
<1>12. /\ Append(up[t], Msg("call", c)) \in Seq(Messages)
       /\ \A k, x : Has(up[t], k, x)' <=> Has(up[t], k, x) \/ (k = "call" /\ x = c)
       /\ \A x : TellsOnce(up[t], x) /\ ~(x = c /\ Has(up[t], "call", x)) => TellsOnce(up[t], x)'
  <2>1. up[t] \in Seq(Messages) /\ "call" \in Kinds
    BY DEF CallsIndInv, CallsTypeOK, Kinds
  <2>2. /\ Append(up[t], Msg("call", c)) \in Seq(Messages)
        /\ \A k, x : Has(Append(up[t], Msg("call", c)), k, x) <=> Has(up[t], k, x) \/ (k = "call" /\ x = c)
        /\ \A x : TellsOnce(up[t], x) /\ ~("call" = "call" /\ x = c /\ Has(up[t], "call", x))
                    => TellsOnce(Append(up[t], Msg("call", c)), x)
    BY <2>1, QueueAppend
  <2>3. \A k, x : Has(up'[t], k, x) <=> Has(up[t], k, x) \/ (k = "call" /\ x = c)
    BY <1>11, <2>2
  <2>4. \A x : TellsOnce(up[t], x) /\ ~(x = c /\ Has(up[t], "call", x)) => TellsOnce(up'[t], x)
    BY <1>11, <2>2
  <2> QED
    BY <2>2, <2>3, <2>4 DEF Has, TellsOnce
<1>13. \A x \in Calls : Over(up[t], x)' <=> Over(up[t], x)
  BY <1>12 DEF Over, Overs
<1>14. \A x \in Calls : Told(t, x)' <=> Told(t, x)
  BY <1>11 DEF Told, Over, Has
<1>15. \A x \in Calls : /\ AcceptAsk(x) \in p.asks <=> AcceptAsk(x) \in page[t].asks
                        /\ StartAsk(x) \in p.asks => StartAsk(x) \in page[t].asks /\ x # c
  <2>1. \A x, y : AcceptAsk(x) # StartAsk(y)
    BY DEF AcceptAsk, StartAsk
  <2> QED
    BY <1>2, <1>7, <2>1
<1>16. \A x \in Calls : Knows(t, x)' => Knows(t, x) \/ x = c
  <2> SUFFICES ASSUME NEW x \in Calls, Knows(t, x)', x # c PROVE Knows(t, x)
    OBVIOUS
  <2>1. page'[t].call # x
    BY <1>8, <1>11 DEF Calls
  <2>2. (\E r \in page'[t].rings : r.call = x) => \E r \in page[t].rings : r.call = x
    BY <1>3, <1>7, <1>11
  <2> QED
    BY <1>11, <1>13, <1>15, <2>1, <2>2 DEF Knows
<1>17. /\ c \in Known /\ Owner[t] = From(c) /\ c \notin active \cup naming
       /\ \A o \in Tabs : /\ ~Knows(o, c) /\ ~Has(up[o], "call", c) /\ ~Told(o, c)
                          /\ o # t => StartAsk(c) \notin page[o].asks
  <2>1. StartAsk(c) \in page[t].asks
    BY <1>2
  <2>2. c \in Known /\ Owner[t] = From(c)
    BY <2>1 DEF CallsIndInv, HangInd, CallsKnown, SidesFit
  <2>3. /\ c \notin active \cup naming
        /\ \A o \in Tabs : /\ ~Knows(o, c) /\ ~Has(up[o], "call", c) /\ ~Told(o, c)
                           /\ o # t => StartAsk(c) \notin page[o].asks
    BY <2>1 DEF CallsIndInv, HangInd, StartsFresh
  <2> QED
    BY <2>2, <2>3
<1>18. \A x : From(x)' = From(x) /\ To(x)' = To(x) /\ Known' = Known
  BY <1>10 DEF From, To, Known
<1>19. CallsKnown'
  <2>1. ASSUME NEW o \in Tabs, NEW x \in Calls,
               Knows(o, x)' \/ StartAsk(x) \in page'[o].asks \/ Has(up[o], "call", x)' \/ Told(o, x)'
        PROVE  x \in Known
    <3>1. x = c \/ Knows(o, x) \/ StartAsk(x) \in page[o].asks \/ Has(up[o], "call", x) \/ Told(o, x)
      <4>1. CASE o = t
        BY <1>11, <1>12, <1>14, <1>15, <1>16, <2>1, <4>1
      <4>2. CASE o # t
        BY <1>11, <2>1, <4>2 DEF Has
      <4> QED
        BY <4>1, <4>2
    <3> QED
      BY <1>17, <3>1 DEF CallsIndInv, HangInd, CallsKnown
  <2> QED
    BY <1>10, <1>18, <2>1 DEF CallsIndInv, HangInd, CallsKnown
<1>20. StartsFresh'
  <2> SUFFICES ASSUME NEW s \in Tabs, NEW x \in Calls, StartAsk(x) \in page'[s].asks
               PROVE  /\ x \notin active \cup naming
                      /\ \A o \in Tabs : /\ ~Knows(o, x)' /\ ~Has(up[o], "call", x)' /\ ~Told(o, x)'
                                         /\ o # s => StartAsk(x) \notin page'[o].asks
    BY <1>10 DEF StartsFresh
  <2>1. StartAsk(x) \in page[s].asks /\ x # c
    <3>1. CASE s = t
      BY <1>11, <1>15, <3>1
    <3>2. CASE s # t
      BY <1>11, <1>17, <3>2
    <3> QED
      BY <3>1, <3>2
  <2>2. /\ x \notin active \cup naming
        /\ \A o \in Tabs : /\ ~Knows(o, x) /\ ~Has(up[o], "call", x) /\ ~Told(o, x)
                           /\ o # s => StartAsk(x) \notin page[o].asks
    BY <2>1 DEF CallsIndInv, HangInd, StartsFresh
  <2> SUFFICES ASSUME NEW o \in Tabs
               PROVE  /\ ~Knows(o, x)' /\ ~Has(up[o], "call", x)' /\ ~Told(o, x)'
                      /\ o # s => StartAsk(x) \notin page'[o].asks
    BY <2>2
  <2>3. CASE o = t
    BY <1>11, <1>12, <1>14, <1>15, <1>16, <2>1, <2>2, <2>3
  <2>4. CASE o # t
    BY <1>11, <2>2, <2>4 DEF Has
  <2> QED
    BY <2>3, <2>4
<1>21. CallsGoOut'
  <2> SUFFICES ASSUME NEW s \in Tabs, NEW x \in Calls, Has(up[s], "call", x)'
               PROVE  /\ x \notin active \cup naming /\ TellsOnce(up[s], x)'
                      /\ \A o \in Tabs : ~Told(o, x)' /\ (o # s => ~Knows(o, x)' /\ ~Has(up[o], "call", x)')
    BY <1>10 DEF CallsGoOut
  <2>1. CASE x = c
    <3>1. s = t
      BY <1>11, <1>17, <2>1 DEF Has
    <3>2. TellsOnce(up[t], c)
      BY <1>17 DEF TellsOnce, Has
    <3>3. TellsOnce(up[t], c)'
      BY <1>12, <1>17, <3>2
    <3>4. ASSUME NEW o \in Tabs PROVE ~Told(o, c)' /\ (o # t => ~Knows(o, c)' /\ ~Has(up'[o], "call", c))
      <4>1. CASE o = t
        BY <1>14, <1>17, <4>1
      <4>2. CASE o # t
        BY <1>11, <1>17, <4>2
      <4> QED
        BY <4>1, <4>2
    <3>5. \A o \in Tabs : ~Told(o, c)' /\ (o # t => ~Knows(o, c)' /\ ~Has(up[o], "call", c)')
      BY <3>4 DEF Has
    <3>6. c \notin active \cup naming
      BY <1>17
    <3> QED
      BY <2>1, <3>1, <3>3, <3>5, <3>6
  <2>2. CASE x # c
    <3>1. Has(up[s], "call", x)
      <4>1. CASE s = t
        BY <1>12, <2>2, <4>1
      <4>2. CASE s # t
        BY <1>11, <4>2 DEF Has
      <4> QED
        BY <4>1, <4>2
    <3>2. /\ x \notin active \cup naming /\ TellsOnce(up[s], x)
          /\ \A o \in Tabs : ~Told(o, x) /\ (o # s => ~Knows(o, x) /\ ~Has(up[o], "call", x))
      BY <3>1 DEF CallsIndInv, HangInd, CallsGoOut
    <3>3. TellsOnce(up[s], x)'
      <4>1. CASE s = t
        BY <1>12, <2>2, <3>2, <4>1
      <4>2. CASE s # t
        BY <1>11, <3>2, <4>2 DEF TellsOnce
      <4> QED
        BY <4>1, <4>2
    <3>4. ASSUME NEW o \in Tabs PROVE ~Told(o, x)' /\ (o # s => ~Knows(o, x)' /\ ~Has(up[o], "call", x)')
      <4>1. CASE o = t
        BY <1>12, <1>14, <1>16, <2>2, <3>2, <4>1
      <4>2. CASE o # t
        BY <1>11, <3>2, <4>2 DEF Has
      <4> QED
        BY <4>1, <4>2
    <3> QED
      BY <3>2, <3>3, <3>4
  <2> QED
    BY <2>1, <2>2
<1>22. HeardOnce'
  <2> SUFFICES ASSUME NEW o \in Tabs, NEW x \in Calls
               PROVE  /\ TellsOnce(down[o], x)
                      /\ Owner[o] = To(x) /\ Knows(o, x)' => x \notin naming /\ ~Has(down[o], "call", x)
                      /\ x \in naming => ~Has(down[o], "call", x)
    BY <1>10, <1>18 DEF HeardOnce, TellsOnce, Has
  <2>1. TellsOnce(down[o], x) /\ (x \in naming => ~Has(down[o], "call", x))
    BY DEF CallsIndInv, HangInd, HeardOnce
  <2>2. ASSUME Owner[o] = To(x), Knows(o, x)' PROVE x \notin naming /\ ~Has(down[o], "call", x)
    <3>1. CASE x = c
      BY <1>17, <3>1 DEF Told
    <3>2. CASE x # c
      <4>1. Knows(o, x)
        BY <1>11, <1>16, <2>2, <3>2
      <4> QED
        BY <2>2, <4>1 DEF CallsIndInv, HangInd, HeardOnce
    <3> QED
      BY <3>1, <3>2
  <2> QED
    BY <2>1, <2>2
<1>23. OfflineFits'
  <2> SUFFICES ASSUME NEW o \in Tabs \ online
               PROVE  down[o] = <<>> /\ \A x \in Calls : page'[o].call = x => x \in excused' \/ Has(up[o], "call", x)'
    BY <1>10 DEF OfflineFits
  <2>1. down[o] = <<>> /\ \A x \in Calls : page[o].call = x => x \in excused \/ Has(up[o], "call", x)
    BY DEF CallsIndInv, HangInd, OfflineFits
  <2>2. CASE o = t
    <3>1. page'[t].call \in Calls => page'[t].call = c
      BY <1>8, <1>11 DEF Calls
    <3>2. Has(up[t], "call", c)'
      BY <1>12
    <3> QED
      BY <2>1, <2>2, <3>1, <3>2
  <2>3. CASE o # t
    BY <1>1, <1>11, <2>1, <2>3 DEF Has
  <2> QED
    BY <2>2, <2>3
<1>24. EndsArrive'
  <2> SUFFICES ASSUME NEW o \in Tabs, NEW x \in Calls
               PROVE  /\ page'[o].call = x /\ Gone(x)' => Has(up[o], "call", x)' \/ Over(down[o], x)
                      /\ Has(down[o], "call", x) /\ Gone(x)' => Followed(down[o], x)
                      /\ Over(up[o], x)' => page'[o].call # x \/ x \in excused'
    BY <1>10 DEF EndsArrive, Over, Has, Followed
  <2>1. Gone(x)' => Gone(x)
    BY <1>1, <1>10 DEF Gone
  <2>2. CASE o = t
    <3>1. page'[t].call = x => x = c
      BY <1>8, <1>11 DEF Calls
    <3>2. ~Over(up[t], c)
      BY <1>17 DEF Knows
    <3> QED
      BY <1>11, <1>12, <1>13, <2>1, <2>2, <3>1, <3>2 DEF CallsIndInv, HangInd, EndsArrive
  <2>3. CASE o # t
    BY <1>1, <1>11, <2>1, <2>3 DEF CallsIndInv, HangInd, EndsArrive, Over, Has
  <2> QED
    BY <2>2, <2>3
<1>25. SidesFit'
  <2>1. ASSUME NEW x \in Calls
        PROVE  /\ p.call = x \/ Has(up[t], "end", x)' => Owner[t] \in {From(x), To(x)}
               /\ StartAsk(x) \in p.asks \/ Has(up[t], "call", x)' => Owner[t] = From(x)
               /\ AcceptAsk(x) \in p.asks \/ Has(up[t], "reject", x)' \/ Has(up[t], "busy", x)'
                    \/ Has(down[t], "call", x) => Owner[t] = To(x)
               /\ [at |-> "calling", call |-> x] \in p.rings => Owner[t] = From(x)
               /\ [at |-> "incoming", call |-> x] \in p.rings => Owner[t] = To(x)
    <3>1. p.call = x \/ Has(up[t], "end", x)' => Owner[t] \in {From(x), To(x)}
      <4>1. p.call = x => x = c
        BY <1>8 DEF Calls
      <4>2. Has(up[t], "end", x)' => Has(up[t], "end", x)
        BY <1>12
      <4> QED
        BY <1>17, <4>1, <4>2 DEF CallsIndInv, HangInd, SidesFit
    <3>2. StartAsk(x) \in p.asks \/ Has(up[t], "call", x)' => Owner[t] = From(x)
      BY <1>12, <1>15, <1>17 DEF CallsIndInv, HangInd, SidesFit
    <3>3. AcceptAsk(x) \in p.asks \/ Has(up[t], "reject", x)' \/ Has(up[t], "busy", x)'
                    \/ Has(down[t], "call", x) => Owner[t] = To(x)
      BY <1>12, <1>15 DEF CallsIndInv, HangInd, SidesFit
    <3>4. /\ [at |-> "calling", call |-> x] \in p.rings => [at |-> "calling", call |-> x] \in page[t].rings \/ x = c
          /\ [at |-> "incoming", call |-> x] \in p.rings => [at |-> "incoming", call |-> x] \in page[t].rings
      BY <1>3, <1>7
    <3> QED
      BY <1>17, <3>1, <3>2, <3>3, <3>4 DEF CallsIndInv, HangInd, SidesFit
  <2>2. (p.status \in Showing <=> p.call # 0) /\ p.status # "incoming"
    BY <1>8 DEF Showing, Calls
  <2>3. \A o \in Tabs \ {t} : page'[o] = page[o] /\ up'[o] = up[o] /\ down'[o] = down[o]
    BY <1>11
  <2>4. page'[t] = p
    BY <1>11
  <2>5. \A x \in Calls : Has(down[t], "call", x)' => Has(down[t], "call", x)
    BY <1>10 DEF Has
  <2>6. ASSUME NEW x \in Calls
        PROVE  /\ p.call = x \/ Has(up[t], "end", x)' => Owner[t] \in {From(x), To(x)}
               /\ StartAsk(x) \in p.asks \/ Has(up[t], "call", x)' => Owner[t] = From(x)
               /\ AcceptAsk(x) \in p.asks \/ Has(up[t], "reject", x)' \/ Has(up[t], "busy", x)'
                    \/ Has(down[t], "call", x)' => Owner[t] = To(x)
               /\ [at |-> "calling", call |-> x] \in p.rings => Owner[t] = From(x)
               /\ [at |-> "incoming", call |-> x] \in p.rings => Owner[t] = To(x)
    BY <2>1, <2>5
  <2> QED
    BY <1>18, <2>2, <2>3, <2>4, <2>6 DEF CallsIndInv, HangInd, SidesFit, Has
<1>26. MicrophoneFits'
  <2>1. ASSUME t \notin astray' PROVE MicrophoneFit(p)
    <3>1. page[t].status = "idle" /\ t \notin astray
      BY <1>1, <2>1
    <3>2. page[t].live = {}
      BY <3>1, PageIs DEF MicrophoneFit
    <3> QED
      BY <1>7, <1>8, <3>1, <3>2 DEF MicrophoneFit
  <2> QED
    BY <1>1, <1>5, <2>1, MicrophoneStep DEF CallsIndInv
<1>27. CallsTypeOK'
  BY <1>1, <1>5, <1>7, <1>9, <1>10, <1>12 DEF CallsIndInv, CallsTypeOK
<1> QED
  BY <1>19, <1>20, <1>21, <1>22, <1>23, <1>24, <1>25, <1>26, <1>27 DEF CallsIndInv, HangInd

LEMMA RingsStep ==
  ASSUME CallsIndInv, NEW t \in Tabs, OnIncomingCall(t), page[t].status = "idle"
  PROVE  CallsIndInv'
<1>1. Take(t, "call") /\ UNCHANGED <<up, online, started, active, naming, drops, astray, excused>>
  BY DEF OnIncomingCall, server
<1>2. PICK c \in Calls : c = Head1(t).call
  BY <1>1, Taken
<1>3. /\ down[t] # <<>> /\ Head(down[t]).m = "call" /\ Head(down[t]).call = c
      /\ down' = [down EXCEPT ![t] = Tail(down[t])] /\ Has(down[t], "call", c)
  BY <1>1, <1>2, Taken
<1>4. PICK ring : ring = [at |-> "incoming", call |-> c]
  OBVIOUS
<1>5. PICK p : p = [page[t] EXCEPT !.status = "incoming", !.call = c, !.rings = @ \cup {ring}, !.ring = ring]
  OBVIOUS
<1>6. page' = [page EXCEPT ![t] = p]
  BY <1>2, <1>4, <1>5 DEF OnIncomingCall
<1>7. ring \in Rings
  BY <1>4 DEF Rings
<1>8. /\ p \in Pages /\ p.asks = page[t].asks /\ p.rings = page[t].rings \cup {ring} /\ p.status = "incoming"
      /\ p.stream = page[t].stream /\ p.live = page[t].live /\ p.call = c
  BY <1>5, <1>7, PageIs DEF Pages, Statuses, Maybe
<1>9. up' = [up EXCEPT ![t] = up[t]]
  BY <1>1 DEF CallsIndInv, CallsTypeOK
<1>10. /\ page'[t] = p /\ down'[t] = Tail(down[t]) /\ up'[t] = up[t]
       /\ \A o \in Tabs \ {t} :
            /\ page'[o] = page[o] /\ up'[o] = up[o] /\ down'[o] = down[o]
            /\ \A x \in Calls : (Knows(o, x)' <=> Knows(o, x)) /\ (Told(o, x)' <=> Told(o, x))
  BY <1>3, <1>6, <1>9, OthersStill DEF CallsIndInv
<1>11. PICK rest \in Seq(Messages) :
         /\ rest = Tail(down[t])
         /\ \A m, x : Has(rest, m, x) => Has(down[t], m, x)
         /\ \A x : TellsOnce(down[t], x) => TellsOnce(rest, x)
         /\ \A x : Followed(down[t], x) => Followed(rest, x)
         /\ TellsOnce(down[t], c) => ~Has(rest, "call", c)
         /\ Followed(down[t], c) => Over(rest, c)
  <2>1. down[t] \in Seq(Messages)
    BY DEF CallsIndInv, CallsTypeOK
  <2>2. /\ Tail(down[t]) \in Seq(Messages)
        /\ \A k, x : Has(Tail(down[t]), k, x) => Has(down[t], k, x)
        /\ \A x : TellsOnce(down[t], x) => TellsOnce(Tail(down[t]), x)
        /\ \A x : Followed(down[t], x) => Followed(Tail(down[t]), x)
        /\ \A x : TellsOnce(down[t], x) /\ Head(down[t]).m = "call" /\ Head(down[t]).call = x => ~Has(Tail(down[t]), "call", x)
        /\ \A x : Followed(down[t], x) /\ Head(down[t]).m = "call" /\ Head(down[t]).call = x => Over(Tail(down[t]), x)
    BY <1>3, <2>1, QueueTail
  <2> QED
    BY <1>3, <2>2
<1>12. down'[t] = rest
  BY <1>10, <1>11
<1>13. \A x \in Calls : (Told(t, x)' => Told(t, x)) /\ (Has(down[t], "call", x)' => Has(down[t], "call", x))
  BY <1>11, <1>12 DEF Told, Over, Has
<1>14. /\ Owner[t] = To(c) /\ c \in Known /\ c \notin naming /\ TellsOnce(down[t], c) /\ ~Knows(t, c)
       /\ ~Has(up[t], "call", c) /\ t \in online
       /\ Gone(c) => Followed(down[t], c)
  <2>1. Owner[t] = To(c) /\ c \in Known
    BY <1>3 DEF CallsIndInv, HangInd, SidesFit, CallsKnown, Told
  <2>2. c \notin naming /\ TellsOnce(down[t], c) /\ ~Knows(t, c)
    BY <1>3, <2>1 DEF CallsIndInv, HangInd, HeardOnce
  <2>3. ~Has(up[t], "call", c)
    BY <1>3 DEF CallsIndInv, HangInd, CallsGoOut, Told
  <2>4. t \in online
    BY <1>3 DEF CallsIndInv, HangInd, OfflineFits
  <2>5. Gone(c) => Followed(down[t], c)
    BY <1>3 DEF CallsIndInv, HangInd, EndsArrive
  <2> QED
    BY <2>1, <2>2, <2>3, <2>4, <2>5
<1>15. \A x \in Calls : Knows(t, x)' => Knows(t, x) \/ x = c
  <2> SUFFICES ASSUME NEW x \in Calls, Knows(t, x)', x # c PROVE Knows(t, x)
    OBVIOUS
  <2>1. page'[t].call # x
    BY <1>8, <1>10 DEF Calls
  <2>2. (\E r \in page'[t].rings : r.call = x) => \E r \in page[t].rings : r.call = x
    BY <1>4, <1>8, <1>10
  <2>3. Over(up[t], x)' => Over(up[t], x)
    BY <1>1 DEF Over, Has
  <2> QED
    BY <1>8, <1>10, <2>1, <2>2, <2>3 DEF Knows
<1>16. \A x : From(x)' = From(x) /\ To(x)' = To(x) /\ Known' = Known
  BY <1>1 DEF From, To, Known
<1>17. \A o \in Tabs : page'[o].asks = page[o].asks
  BY <1>8, <1>10
<1>18. ASSUME NEW o \in Tabs, NEW x \in Calls
       PROVE  /\ Knows(o, x)' => Knows(o, x) \/ Told(o, x)
              /\ Told(o, x)' => Told(o, x)
              /\ TellsOnce(down[o], x) => TellsOnce(down[o], x)'
              /\ Has(down[o], "call", x)' => Has(down[o], "call", x)
              /\ Has(up[o], "call", x)' <=> Has(up[o], "call", x)
  <2>1. CASE o = t
    <3>1. Told(t, c)
      BY <1>3 DEF Told
    <3>2. TellsOnce(down[t], x) => TellsOnce(down[t], x)'
      BY <1>11, <1>12 DEF TellsOnce
    <3> QED
      BY <1>1, <1>13, <1>15, <2>1, <3>1, <3>2 DEF Has
  <2>2. CASE o # t
    BY <1>1, <1>10, <2>2 DEF Has, TellsOnce
  <2> QED
    BY <2>1, <2>2
<1>19. CallsKnown'
  BY <1>1, <1>16, <1>17, <1>18 DEF CallsIndInv, HangInd, CallsKnown
<1>20. StartsFresh'
  BY <1>1, <1>17, <1>18 DEF CallsIndInv, HangInd, StartsFresh
<1>21. CallsGoOut'
  <2>1. \A o \in Tabs, x \in Calls : TellsOnce(up[o], x)' <=> TellsOnce(up[o], x)
    BY <1>1 DEF TellsOnce
  <2> QED
    BY <1>1, <1>18, <2>1 DEF CallsIndInv, HangInd, CallsGoOut
<1>22. HeardOnce'
  <2> SUFFICES ASSUME NEW o \in Tabs, NEW x \in Calls
               PROVE  /\ TellsOnce(down[o], x)'
                      /\ Owner[o] = To(x) /\ Knows(o, x)' => x \notin naming /\ ~Has(down[o], "call", x)'
                      /\ x \in naming => ~Has(down[o], "call", x)'
    BY <1>1, <1>16 DEF HeardOnce
  <2>1. TellsOnce(down[o], x)' /\ (x \in naming => ~Has(down[o], "call", x)')
    BY <1>18 DEF CallsIndInv, HangInd, HeardOnce
  <2>2. ASSUME Owner[o] = To(x), Knows(o, x)' PROVE x \notin naming /\ ~Has(down[o], "call", x)'
    <3>1. CASE Knows(o, x)
      BY <1>18, <2>2, <3>1 DEF CallsIndInv, HangInd, HeardOnce
    <3>2. CASE ~Knows(o, x)
      <4>1. o = t /\ x = c
        BY <1>10, <1>15, <2>2, <3>2
      <4>2. ~Has(down[t], "call", c)'
        BY <1>11, <1>12, <1>14 DEF Has
      <4> QED
        BY <1>14, <4>1, <4>2
    <3> QED
      BY <3>1, <3>2
  <2> QED
    BY <2>1, <2>2
<1>23. OfflineFits'
  BY <1>1, <1>10, <1>14 DEF CallsIndInv, HangInd, OfflineFits, Has
<1>24. EndsArrive'
  <2> SUFFICES ASSUME NEW o \in Tabs, NEW x \in Calls
               PROVE  /\ page'[o].call = x /\ Gone(x) => Has(up[o], "call", x) \/ Over(down[o], x)'
                      /\ Has(down[o], "call", x)' /\ Gone(x) => Followed(down[o], x)'
                      /\ Over(up[o], x) => page'[o].call # x \/ x \in excused
    BY <1>1 DEF EndsArrive, Gone, Over, Has
  <2>1. CASE o = t /\ x = c
    <3>1. ~Over(up[t], c)
      BY <1>14 DEF Knows
    <3>2. Gone(c) => Over(down[t], c)'
      BY <1>11, <1>12, <1>14 DEF Over, Has
    <3>3. ~Has(down[t], "call", c)'
      BY <1>11, <1>12, <1>14 DEF Has
    <3> QED
      BY <2>1, <3>1, <3>2, <3>3
  <2>2. CASE o = t /\ x # c
    <3>1. page'[t].call # x
      BY <1>8, <1>10, <2>2
    <3>2. Followed(down[t], x) => Followed(down[t], x)'
      <4>1. Followed(down[t], x) => Followed(rest, x)
        BY <1>11
      <4>2. Followed(rest, x) => Followed(down[t], x)'
        BY <1>12 DEF Followed
      <4> QED
        BY <4>1, <4>2
    <3> QED
      BY <1>18, <2>2, <3>1, <3>2 DEF CallsIndInv, HangInd, EndsArrive
  <2>3. CASE o # t
    BY <1>10, <2>3 DEF CallsIndInv, HangInd, EndsArrive, Over, Has, Followed
  <2> QED
    BY <2>1, <2>2, <2>3
<1>25. SidesFit'
  <2>1. ASSUME NEW x \in Calls
        PROVE  /\ p.call = x \/ Has(up[t], "end", x)' => Owner[t] \in {From(x), To(x)}
               /\ StartAsk(x) \in p.asks \/ Has(up[t], "call", x)' => Owner[t] = From(x)
               /\ AcceptAsk(x) \in p.asks \/ Has(up[t], "reject", x)' \/ Has(up[t], "busy", x)'
                    \/ Has(down[t], "call", x)' => Owner[t] = To(x)
               /\ [at |-> "calling", call |-> x] \in p.rings => Owner[t] = From(x)
               /\ [at |-> "incoming", call |-> x] \in p.rings => Owner[t] = To(x)
    <3>1. \A m : Has(up[t], m, x)' <=> Has(up[t], m, x)
      BY <1>1 DEF Has
    <3>2. /\ [at |-> "calling", call |-> x] \in p.rings => [at |-> "calling", call |-> x] \in page[t].rings
          /\ [at |-> "incoming", call |-> x] \in p.rings => [at |-> "incoming", call |-> x] \in page[t].rings \/ x = c
      BY <1>4, <1>8
    <3>3. Has(down[t], "call", x)' => Has(down[t], "call", x)
      BY <1>13
    <3> QED
      BY <1>8, <1>14, <3>1, <3>2, <3>3 DEF CallsIndInv, HangInd, SidesFit
  <2>2. (p.status \in Showing <=> p.call # 0) /\ (p.status = "incoming" => Owner[t] = To(p.call))
    BY <1>8, <1>14 DEF Showing, Calls
  <2>3. \A o \in Tabs \ {t} : page'[o] = page[o] /\ up'[o] = up[o] /\ down'[o] = down[o]
    BY <1>10
  <2>4. page'[t] = p
    BY <1>10
  <2> QED
    BY <1>16, <2>1, <2>2, <2>3, <2>4 DEF CallsIndInv, HangInd, SidesFit, Has
<1>26. MicrophoneFits'
  <2>1. t \notin astray => MicrophoneFit(p)
    BY <1>8, PageIs DEF MicrophoneFit
  <2> QED
    BY <1>1, <1>6, <2>1, MicrophoneStep DEF CallsIndInv
<1>27. CallsTypeOK'
  BY <1>1, <1>3, <1>6, <1>8, <1>11 DEF CallsIndInv, CallsTypeOK
<1> QED
  BY <1>19, <1>20, <1>21, <1>22, <1>23, <1>24, <1>25, <1>26, <1>27 DEF CallsIndInv, HangInd

-----------------------------------------------------------------------------
(* Calls: the server's steps and those of the sockets.                     *)

\* What no page does: nothing comes to be known but of a call that is active or being named, or announced.
ServerMove ==
  /\ UNCHANGED <<page, started>> /\ excused \subseteq excused'
  /\ \A o \in Tabs, x \in Calls :
       /\ \A m \in Kinds : Has(up'[o], m, x) => Has(up[o], m, x)
       /\ TellsOnce(up[o], x) => TellsOnce(up'[o], x)
       /\ Told(o, x)' => Told(o, x) \/ x \in active \cup naming
       /\ Has(down'[o], "call", x) =>
            Has(down[o], "call", x) \/ (x \in naming \ naming' /\ Owner[o] = To(x))
       /\ TellsOnce(down'[o], x)
  /\ \A x \in Calls : x \in active' \cup naming' =>
       \/ x \in active \cup naming
       \/ (\E o \in Tabs : Has(up[o], "call", x)) /\ \A o \in Tabs : ~Has(up'[o], "call", x)
  /\ \A x \in Calls : x \in naming' => x \in naming \/ \E o \in Tabs : Has(up[o], "call", x)
  /\ active' \cup naming' \subseteq Calls
  /\ \A o \in Tabs \ online' :
       /\ down'[o] = <<>>
       /\ \/ o \notin online /\ up'[o] = up[o]
          \/ \A x \in Calls : page[o].call = x => x \in excused'

LEMMA ServerStep ==
  ASSUME CallsTypeOK, HangInd, ServerMove, EndsArrive'
  PROVE  HangInd'
<1>1. \A o \in Tabs, x \in Calls : Knows(o, x)' => Knows(o, x)
  BY DEF ServerMove, Knows, Over, Overs, Kinds
<1>2. \A x : From(x)' = From(x) /\ To(x)' = To(x)
  BY DEF ServerMove, From, To
<1>3. Known' = Known /\ page' = page
  BY DEF ServerMove, Known
<1>4. \A o \in Tabs, x \in Calls :
        /\ \A m \in Kinds : Has(up[o], m, x)' => Has(up[o], m, x)
        /\ TellsOnce(up[o], x) => TellsOnce(up[o], x)'
        /\ Told(o, x)' => Told(o, x) \/ x \in active \cup naming
        /\ Has(down[o], "call", x)' => Has(down[o], "call", x) \/ (x \in naming \ naming' /\ Owner[o] = To(x))
        /\ TellsOnce(down[o], x)'
  BY DEF ServerMove, Has, TellsOnce
<1>5. \A x \in Calls : x \in active' \cup naming' =>
        \/ x \in active \cup naming
        \/ (\E o \in Tabs : Has(up[o], "call", x)) /\ \A o \in Tabs : ~Has(up[o], "call", x)'
  BY DEF ServerMove, Has
<1>6. "call" \in Kinds /\ "end" \in Kinds /\ "reject" \in Kinds /\ "busy" \in Kinds
  BY DEF Kinds
<1>7. CallsKnown'
  <2>1. ASSUME NEW o \in Tabs, NEW x \in Calls,
               Knows(o, x)' \/ StartAsk(x) \in page'[o].asks \/ Has(up[o], "call", x)' \/ Told(o, x)'
        PROVE  x \in Known
    BY <1>1, <1>3, <1>4, <1>6, <2>1 DEF HangInd, CallsKnown
  <2>2. ASSUME NEW x \in active' \cup naming' PROVE x \in Known
    <3>1. x \in Calls
      BY DEF ServerMove
    <3> QED
      BY <1>5, <3>1 DEF HangInd, CallsKnown
  <2> QED
    BY <1>2, <1>3, <2>1, <2>2 DEF HangInd, CallsKnown
<1>8. SidesFit'
  <2>1. ASSUME NEW o \in Tabs, NEW x \in Calls
        PROVE  /\ page[o].call = x \/ Has(up[o], "end", x)' => Owner[o] \in {From(x), To(x)}
               /\ StartAsk(x) \in page[o].asks \/ Has(up[o], "call", x)' => Owner[o] = From(x)
               /\ AcceptAsk(x) \in page[o].asks \/ Has(up[o], "reject", x)' \/ Has(up[o], "busy", x)'
                    \/ Has(down[o], "call", x)' => Owner[o] = To(x)
               /\ [at |-> "calling", call |-> x] \in page[o].rings => Owner[o] = From(x)
               /\ [at |-> "incoming", call |-> x] \in page[o].rings => Owner[o] = To(x)
    BY <1>4, <1>6 DEF HangInd, SidesFit
  <2> QED
    BY <1>2, <1>3, <2>1 DEF HangInd, SidesFit
<1>9. StartsFresh'
  BY <1>1, <1>3, <1>4, <1>5, <1>6 DEF HangInd, StartsFresh
<1>10. CallsGoOut'
  <2> SUFFICES ASSUME NEW s \in Tabs, NEW x \in Calls, Has(up[s], "call", x)'
               PROVE  /\ x \notin active' \cup naming' /\ TellsOnce(up[s], x)'
                      /\ \A o \in Tabs : ~Told(o, x)' /\ (o # s => ~Knows(o, x)' /\ ~Has(up[o], "call", x)')
    BY DEF CallsGoOut
  <2>1. /\ x \notin active \cup naming /\ TellsOnce(up[s], x)
        /\ \A o \in Tabs : ~Told(o, x) /\ (o # s => ~Knows(o, x) /\ ~Has(up[o], "call", x))
    BY <1>4, <1>6 DEF HangInd, CallsGoOut
  <2>2. x \notin active' \cup naming'
    BY <1>5, <2>1
  <2> QED
    BY <1>1, <1>4, <1>6, <2>1, <2>2
<1>11. HeardOnce'
  <2> SUFFICES ASSUME NEW o \in Tabs, NEW x \in Calls
               PROVE  /\ TellsOnce(down[o], x)'
                      /\ Owner[o] = To(x) /\ Knows(o, x)' => x \notin naming' /\ ~Has(down[o], "call", x)'
                      /\ x \in naming' => ~Has(down[o], "call", x)'
    BY <1>2 DEF HeardOnce
  <2>1. ASSUME Owner[o] = To(x), Knows(o, x)' PROVE x \notin naming' /\ ~Has(down[o], "call", x)'
    <3>1. Knows(o, x) /\ x \notin naming /\ ~Has(down[o], "call", x)
      BY <1>1, <2>1 DEF HangInd, HeardOnce
    <3>2. ASSUME NEW s \in Tabs, Has(up[s], "call", x) PROVE FALSE
      <4>1. s = o
        BY <3>1, <3>2 DEF HangInd, CallsGoOut
      <4>2. From(x) = To(x) /\ x \in Known
        BY <2>1, <3>1, <3>2, <4>1 DEF HangInd, SidesFit, CallsKnown
      <4> QED
        BY <4>2 DEF HangInd, CallsKnown
    <3>3. x \notin naming'
      BY <3>1, <3>2 DEF ServerMove
    <3> QED
      BY <1>4, <3>1, <3>3
  <2>2. ASSUME x \in naming' PROVE ~Has(down[o], "call", x)'
    <3>1. ~Has(down[o], "call", x)
      <4>1. CASE x \in naming
        BY <4>1 DEF HangInd, HeardOnce
      <4>2. CASE x \notin naming
        <5>1. PICK s \in Tabs : Has(up[s], "call", x)
          BY <2>2, <4>2 DEF ServerMove
        <5> QED
          BY <5>1 DEF HangInd, CallsGoOut, Told
      <4> QED
        BY <4>1, <4>2
    <3> QED
      BY <1>4, <2>2, <3>1
  <2> QED
    BY <1>4, <2>1, <2>2
<1>12. OfflineFits'
  <2> SUFFICES ASSUME NEW o \in Tabs \ online'
               PROVE  down'[o] = <<>> /\ \A x \in Calls : page[o].call = x => x \in excused' \/ Has(up[o], "call", x)'
    BY <1>3 DEF OfflineFits
  <2>1. CASE o \notin online /\ up'[o] = up[o]
    <3>1. down[o] = <<>> /\ \A x \in Calls : page[o].call = x => x \in excused \/ Has(up[o], "call", x)
      BY <2>1 DEF HangInd, OfflineFits
    <3> QED
      BY <2>1, <3>1 DEF ServerMove, Has
  <2>2. CASE \A x \in Calls : page[o].call = x => x \in excused'
    BY <2>2 DEF ServerMove
  <2> QED
    BY <2>1, <2>2 DEF ServerMove
<1> QED
  BY <1>7, <1>8, <1>9, <1>10, <1>11, <1>12 DEF HangInd

\* The server takes message m of call c from t.
Took(t, m, c) ==
  /\ t \in online /\ c \in Calls /\ Has(up[t], m, c) /\ up' \in [Tabs -> Seq(Messages)]
  /\ \A o \in Tabs \ {t} : up'[o] = up[o]
  /\ \A o \in Tabs : /\ \A k, x : Has(up'[o], k, x) => Has(up[o], k, x)
                     /\ \A x : TellsOnce(up[o], x) => TellsOnce(up'[o], x)
  /\ \A o \in Tabs : \A k, x : Has(up[o], k, x) => Has(up'[o], k, x) \/ (o = t /\ k = m /\ x = c)
  /\ m = "call" /\ TellsOnce(up[t], c) => ~Has(up'[t], "call", c)

LEMMA SentIs ==
  ASSUME CallsTypeOK, NEW t \in Tabs, NEW m, Sent(t, m)
  PROVE  Took(t, m, Asked(t))
<1>1. /\ up \in [Tabs -> Seq(Messages)] /\ up[t] \in Seq(Messages) /\ up[t] # <<>> /\ t \in online
      /\ Head(up[t]).m = m /\ Head(up[t]).call = Asked(t) /\ up' = [up EXCEPT ![t] = Tail(up[t])]
  BY DEF CallsTypeOK, Sent, Asked
<1>2. PICK rest : rest = Tail(up[t])
  OBVIOUS
<1>3. /\ Head(up[t]) \in Messages /\ rest \in Seq(Messages) /\ Has(up[t], m, Asked(t))
      /\ \A k, x : Has(rest, k, x) => Has(up[t], k, x)
      /\ \A k, x : Has(up[t], k, x) => Has(rest, k, x) \/ (k = m /\ x = Asked(t))
      /\ \A x : TellsOnce(up[t], x) => TellsOnce(rest, x)
      /\ m = "call" /\ TellsOnce(up[t], Asked(t)) => ~Has(rest, "call", Asked(t))
  BY <1>1, <1>2, QueueTail
<1>4. up'[t] = rest /\ \A o \in Tabs \ {t} : up'[o] = up[o]
  BY <1>1, <1>2
<1>5. up' \in [Tabs -> Seq(Messages)]
  BY <1>1, <1>2, <1>3
<1>6. Asked(t) \in Calls
  BY <1>1, <1>3 DEF Messages
<1>7. ASSUME NEW o \in Tabs
      PROVE  /\ \A k, x : Has(up'[o], k, x) => Has(up[o], k, x)
             /\ \A x : TellsOnce(up[o], x) => TellsOnce(up'[o], x)
             /\ \A k, x : Has(up[o], k, x) => Has(up'[o], k, x) \/ (o = t /\ k = m /\ x = Asked(t))
  <2>1. CASE o = t
    BY <1>3, <1>4, <2>1
  <2>2. CASE o # t
    BY <1>4, <2>2
  <2> QED
    BY <2>1, <2>2
<1> QED
  BY <1>1, <1>3, <1>4, <1>5, <1>6, <1>7 DEF Took

\* The tabs of user u are sent message m of call c.
Gave(u, m, c) ==
  /\ down' \in [Tabs -> Seq(Messages)]
  /\ \A o \in Tabs : \A k, x :
       Has(down'[o], k, x) <=> Has(down[o], k, x) \/ (k = m /\ x = c /\ o \in online /\ Owner[o] = u)
  /\ \A o \in Tabs : \A x : TellsOnce(down[o], x) /\ ~(m = "call" /\ x = c /\ Has(down[o], "call", x)) => TellsOnce(down'[o], x)
  /\ \A o \in Tabs : \A x : Followed(down[o], x) /\ ~(m = "call" /\ x = c) => Followed(down'[o], x)
  /\ \A o \in Tabs : m \in Overs /\ o \in online /\ Owner[o] = u => Followed(down'[o], c)
  /\ \A o \in Tabs \ online : down'[o] = down[o]

LEMMA ToUserIs ==
  ASSUME CallsTypeOK, NEW u, NEW m \in Kinds, NEW c \in Calls, down' = ToUser(u, m, c, down)
  PROVE  Gave(u, m, c)
<1>1. down \in [Tabs -> Seq(Messages)]
  BY DEF CallsTypeOK
<1>2. ASSUME NEW o \in Tabs
      PROVE  /\ down'[o] \in Seq(Messages)
             /\ \A k, x : Has(down'[o], k, x) <=> Has(down[o], k, x) \/ (k = m /\ x = c /\ o \in online /\ Owner[o] = u)
             /\ \A x : TellsOnce(down[o], x) /\ ~(m = "call" /\ x = c /\ Has(down[o], "call", x)) => TellsOnce(down'[o], x)
             /\ \A x : Followed(down[o], x) /\ ~(m = "call" /\ x = c) => Followed(down'[o], x)
             /\ m \in Overs /\ o \in online /\ Owner[o] = u => Followed(down'[o], c)
             /\ o \notin online => down'[o] = down[o]
  <2>1. down[o] \in Seq(Messages)
    BY <1>1
  <2>2. CASE o \in online /\ Owner[o] = u
    <3>1. down'[o] = Append(down[o], Msg(m, c))
      BY <2>2 DEF ToUser
    <3>2. PICK new : new = Append(down[o], Msg(m, c))
      OBVIOUS
    <3>3. /\ new \in Seq(Messages)
          /\ \A k, x : Has(new, k, x) <=> Has(down[o], k, x) \/ (k = m /\ x = c)
          /\ \A x : TellsOnce(down[o], x) /\ ~(m = "call" /\ x = c /\ Has(down[o], "call", x)) => TellsOnce(new, x)
          /\ \A x : Followed(down[o], x) /\ ~(m = "call" /\ x = c) => Followed(new, x)
          /\ m \in Overs => Followed(new, c)
      BY <2>1, <3>2, QueueAppend
    <3>4. down'[o] = new
      BY <3>1, <3>2
    <3> QED
      BY <2>2, <3>3, <3>4
  <2>3. CASE ~(o \in online /\ Owner[o] = u)
    <3>1. down'[o] = down[o]
      BY <2>3 DEF ToUser
    <3> QED
      BY <2>1, <2>3, <3>1
  <2> QED
    BY <2>2, <2>3
<1>3. down' \in [Tabs -> Seq(Messages)]
  BY <1>2 DEF ToUser
<1> QED
  BY <1>2, <1>3 DEF Gave

\* The rest of the invariant, for a step that leaves pages and calls started.
LEMMA ServerRest ==
  ASSUME CallsIndInv, ServerMove, EndsArrive',
         up' \in [Tabs -> Seq(Messages)], down' \in [Tabs -> Seq(Messages)], online' \in SUBSET Tabs,
         astray' = astray, drops' \in SUBSET Fragile, excused' \subseteq Calls
  PROVE  CallsIndInv'
<1>1. HangInd'
  BY ServerStep DEF CallsIndInv
<1>2. CallsTypeOK'
  BY DEF CallsIndInv, CallsTypeOK, ServerMove
<1>3. MicrophoneFits'
  BY DEF CallsIndInv, MicrophoneFits, MicrophoneFit, ServerMove
<1> QED
  BY <1>1, <1>2, <1>3 DEF CallsIndInv

\* A call that was over stays shown and announced as before, while nothing is lost.
LEMMA StillOver ==
  ASSUME CallsIndInv, NEW o \in Tabs, NEW x \in Calls, page' = page, excused \subseteq excused', Gone(x), Gone(x)',
         Has(up[o], "call", x) => Has(up'[o], "call", x),
         \A m \in Overs : Has(down[o], m, x) => Has(down'[o], m, x),
         Followed(down[o], x) => Followed(down'[o], x),
         Has(down'[o], "call", x) => Has(down[o], "call", x),
         \A m \in Kinds : Has(up'[o], m, x) => Has(up[o], m, x)
  PROVE  /\ page'[o].call = x /\ Gone(x)' => Has(up[o], "call", x)' \/ Over(down[o], x)'
         /\ Has(down[o], "call", x)' /\ Gone(x)' => Followed(down[o], x)'
         /\ Over(up[o], x)' => page'[o].call # x \/ x \in excused'
<1>1. /\ page[o].call = x => Has(up[o], "call", x) \/ Over(down[o], x)
      /\ Has(down[o], "call", x) => Followed(down[o], x)
      /\ Over(up[o], x) => page[o].call # x \/ x \in excused
  BY DEF CallsIndInv, HangInd, EndsArrive
<1>2. Over(down[o], x) => Over(down'[o], x)
  BY DEF Over
<1>3. Over(up'[o], x) => Over(up[o], x)
  BY DEF Over, Overs, Kinds
<1>4. page[o].call = x => Has(up'[o], "call", x) \/ Over(down'[o], x)
  BY <1>1, <1>2
<1>5. Has(down'[o], "call", x) => Followed(down'[o], x)
  BY <1>1
<1>6. Over(up'[o], x) => page[o].call # x \/ x \in excused'
  BY <1>1, <1>3
<1> QED
  BY <1>4, <1>5, <1>6 DEF Over, Has, Followed

LEMMA CallUserStep ==
  ASSUME CallsIndInv, NEW t \in Tabs, HandleCallUser(t)
  PROVE  CallsIndInv'
<1>1. /\ Sent(t, "call") /\ UNCHANGED <<page, down, online, started, drops, astray>>
      /\ \/ active' = active \cup {Asked(t)} /\ naming' = naming \cup {Asked(t)} /\ excused' = excused
         \/ active' = active /\ naming' = naming /\ excused' = excused \cup {Asked(t)}
  BY DEF HandleCallUser, server
<1>2. PICK c : c = Asked(t)
  OBVIOUS
<1>3. c \in Calls /\ Took(t, "call", c)
  <2>1. Took(t, "call", Asked(t))
    BY <1>1, SentIs DEF CallsIndInv
  <2>2. Took(t, "call", c)
    BY <1>2, <2>1
  <2> QED
    BY <2>2 DEF Took
<1>4. \A o \in Tabs : ~Has(up'[o], "call", c)
  <2>1. TellsOnce(up[t], c) /\ \A o \in Tabs : o # t => ~Has(up[o], "call", c)
    BY <1>3 DEF CallsIndInv, HangInd, CallsGoOut, Took
  <2> QED
    BY <1>3, <2>1 DEF Took
<1>5. ServerMove
  <2>1. ASSUME NEW o \in Tabs, NEW x \in Calls
        PROVE  /\ \A m \in Kinds : Has(up'[o], m, x) => Has(up[o], m, x)
               /\ TellsOnce(up[o], x) => TellsOnce(up'[o], x)
               /\ Told(o, x)' => Told(o, x) \/ x \in active \cup naming
               /\ Has(down'[o], "call", x) => Has(down[o], "call", x) \/ (x \in naming \ naming' /\ Owner[o] = To(x))
               /\ TellsOnce(down'[o], x)
    <3>1. Told(o, x)' => Told(o, x)
      BY <1>1 DEF Told, Over, Has
    <3>2. TellsOnce(down'[o], x) /\ (Has(down'[o], "call", x) => Has(down[o], "call", x))
      BY <1>1 DEF CallsIndInv, HangInd, HeardOnce
    <3> QED
      BY <1>3, <3>1, <3>2 DEF Took
  <2>2. \A x \in Calls : x \in active' \cup naming' =>
          \/ x \in active \cup naming
          \/ (\E o \in Tabs : Has(up[o], "call", x)) /\ \A o \in Tabs : ~Has(up'[o], "call", x)
    BY <1>1, <1>2, <1>3, <1>4 DEF Took
  <2>3. \A x \in Calls : x \in naming' => x \in naming \/ \E o \in Tabs : Has(up[o], "call", x)
    BY <1>1, <1>2, <1>3 DEF Took
  <2>4. active' \cup naming' \subseteq Calls
    BY <1>1, <1>2, <1>3 DEF CallsIndInv, CallsTypeOK, Took
  <2>5. \A o \in Tabs \ online' : down'[o] = <<>> /\ o \notin online /\ up'[o] = up[o]
    BY <1>1, <1>3 DEF CallsIndInv, HangInd, OfflineFits, Took
  <2> QED
    BY <1>1, <2>1, <2>2, <2>3, <2>4, <2>5 DEF ServerMove
<1>6. EndsArrive'
  <2> SUFFICES ASSUME NEW o \in Tabs, NEW x \in Calls
               PROVE  /\ page'[o].call = x /\ Gone(x)' => Has(up[o], "call", x)' \/ Over(down[o], x)'
                      /\ Has(down[o], "call", x)' /\ Gone(x)' => Followed(down[o], x)'
                      /\ Over(up[o], x)' => page'[o].call # x \/ x \in excused'
    BY DEF EndsArrive
  <2>1. CASE Gone(x)'
    <3>1. Gone(x) /\ x # c
      BY <1>1, <1>2, <2>1 DEF Gone
    <3> QED
      BY <1>1, <1>3, <2>1, <3>1, StillOver DEF Took
  <2>2. CASE ~Gone(x)'
    <3>1. Over(up'[o], x) => Over(up[o], x)
      BY <1>3 DEF Over, Took
    <3>2. Over(up'[o], x) => page[o].call # x \/ x \in excused
      BY <3>1 DEF CallsIndInv, HangInd, EndsArrive
    <3> QED
      BY <1>1, <2>2, <3>2 DEF Over, Has
  <2> QED
    BY <2>1, <2>2
<1>7. excused' \subseteq Calls
  BY <1>1, <1>2, <1>3 DEF CallsIndInv, CallsTypeOK
<1>8. /\ up' \in [Tabs -> Seq(Messages)] /\ down' \in [Tabs -> Seq(Messages)] /\ online' \in SUBSET Tabs
      /\ drops' \in SUBSET Fragile
  BY <1>1, <1>3 DEF CallsIndInv, CallsTypeOK, Took
<1> QED
  BY <1>1, <1>5, <1>6, <1>7, <1>8, ServerRest

\* What a server step does to a queue downwards, when it gives message m of call c to u, or nothing.
LEMMA PassedIs ==
  ASSUME CallsIndInv, NEW u, NEW m \in Kinds \ {"call"}, NEW c \in Calls,
         down' = down \/ down' = ToUser(u, m, c, down)
  PROVE  /\ down' \in [Tabs -> Seq(Messages)]
         /\ \A o \in Tabs, x \in Calls :
              /\ \A k \in Kinds : Has(down[o], k, x) => Has(down'[o], k, x)
              /\ Has(down'[o], "call", x) => Has(down[o], "call", x)
              /\ TellsOnce(down'[o], x)
              /\ Followed(down[o], x) => Followed(down'[o], x)
              /\ Told(o, x)' => Told(o, x) \/ (m \in Overs /\ x = c /\ down' # down)
         /\ \A o \in Tabs \ online : down'[o] = <<>>
<1>1. \A o \in Tabs, x \in Calls : TellsOnce(down[o], x)
  BY DEF CallsIndInv, HangInd, HeardOnce
<1>2. \A o \in Tabs \ online : down[o] = <<>>
  BY DEF CallsIndInv, HangInd, OfflineFits
<1>3. CASE down' = down
  BY <1>1, <1>2, <1>3 DEF CallsIndInv, CallsTypeOK, Told, Over, Has, TellsOnce, Followed
<1>4. CASE down' = ToUser(u, m, c, down) /\ down' # down
  <2>1. Gave(u, m, c)
    BY <1>4, ToUserIs DEF CallsIndInv
  <2>2. ASSUME NEW o \in Tabs, NEW x \in Calls, Told(o, x)', ~Told(o, x) PROVE m \in Overs /\ x = c
    <3>1. \A k : Has(down'[o], k, x) => Has(down[o], k, x) \/ (k = m /\ x = c)
      BY <2>1 DEF Gave
    <3>2. Has(down'[o], "call", x) \/ \E k \in Overs : Has(down'[o], k, x)
      BY <2>2 DEF Told, Over, Has
    <3> QED
      BY <2>2, <3>1, <3>2 DEF Told, Over
  <2> QED
    BY <1>1, <1>2, <1>4, <2>1, <2>2 DEF Gave
<1> QED
  BY <1>3, <1>4

LEMMA PassedMove ==
  ASSUME CallsIndInv, NEW t \in Tabs, NEW m \in Kinds \ {"call"}, NEW c, Took(t, m, c), NEW u,
         down' = down \/ (down' = ToUser(u, m, c, down) /\ c \in active),
         UNCHANGED <<page, online, started, naming>>, active' \subseteq active, excused \subseteq excused'
  PROVE  ServerMove
<1>1. c \in Calls
  BY DEF Took
<1>2. ASSUME NEW o \in Tabs, NEW x \in Calls
      PROVE  /\ \A k \in Kinds : Has(up'[o], k, x) => Has(up[o], k, x)
             /\ TellsOnce(up[o], x) => TellsOnce(up'[o], x)
             /\ Told(o, x)' => Told(o, x) \/ x \in active \cup naming
             /\ Has(down'[o], "call", x) => Has(down[o], "call", x) \/ (x \in naming \ naming' /\ Owner[o] = To(x))
             /\ TellsOnce(down'[o], x)
  <2>1. /\ Has(down'[o], "call", x) => Has(down[o], "call", x)
        /\ TellsOnce(down'[o], x)
        /\ Told(o, x)' => Told(o, x) \/ (m \in Overs /\ x = c /\ down' # down)
    BY <1>1, PassedIs
  <2> QED
    BY <2>1 DEF Took
<1>3. \A x \in Calls : x \in active' \cup naming' => x \in active \cup naming
  OBVIOUS
<1>4. active' \cup naming' \subseteq Calls
  BY DEF CallsIndInv, CallsTypeOK
<1>5. \A o \in Tabs \ online' : down'[o] = <<>> /\ o \notin online /\ up'[o] = up[o]
  BY <1>1, PassedIs DEF Took
<1> QED
  BY <1>2, <1>3, <1>4, <1>5 DEF ServerMove

LEMMA PassedStep ==
  ASSUME CallsIndInv, NEW t \in Tabs, HandleCallAccept(t) \/ \E m \in {"offer", "answer"} : HandleSdp(t, m)
  PROVE  CallsIndInv'
<1>1. PICK m \in {"accept", "offer", "answer"}, u \in {From(Asked(t)), Remote(t, Asked(t))} :
        /\ Sent(t, m)
        /\ down' = IF Asked(t) \in active THEN ToUser(u, m, Asked(t), down) ELSE down
        /\ UNCHANGED <<page, online, started, server, drops, astray, excused>>
  <2>1. CASE HandleCallAccept(t)
    BY <2>1 DEF HandleCallAccept
  <2>2. CASE \E m \in {"offer", "answer"} : HandleSdp(t, m)
    BY <2>2 DEF HandleSdp
  <2> QED
    BY <2>1, <2>2
<1>2. PICK c : c = Asked(t)
  OBVIOUS
<1>3. Took(t, m, c)
  <2>1. Took(t, m, Asked(t))
    BY <1>1, SentIs DEF CallsIndInv
  <2> QED
    BY <1>2, <2>1
<1>4. c \in Calls /\ m \in Kinds \ {"call"} /\ m \notin Overs
  BY <1>3 DEF Took, Kinds, Overs
<1>5. down' = down \/ (down' = ToUser(u, m, c, down) /\ c \in active)
  BY <1>1, <1>2
<1>6. UNCHANGED <<page, online, started, active, naming, drops, astray, excused>>
  BY <1>1 DEF server
<1>7. ServerMove
  BY <1>3, <1>4, <1>5, <1>6, PassedMove
<1>8. /\ down' \in [Tabs -> Seq(Messages)]
      /\ \A o \in Tabs, x \in Calls :
           /\ \A k \in Kinds : Has(down[o], k, x) => Has(down'[o], k, x)
           /\ Has(down'[o], "call", x) => Has(down[o], "call", x)
           /\ Followed(down[o], x) => Followed(down'[o], x)
  BY <1>4, <1>5, PassedIs
<1>9. EndsArrive'
  <2> SUFFICES ASSUME NEW o \in Tabs, NEW x \in Calls
               PROVE  /\ page'[o].call = x /\ Gone(x)' => Has(up[o], "call", x)' \/ Over(down[o], x)'
                      /\ Has(down[o], "call", x)' /\ Gone(x)' => Followed(down[o], x)'
                      /\ Over(up[o], x)' => page'[o].call # x \/ x \in excused'
    BY DEF EndsArrive
  <2>1. Over(up[o], x)' => page'[o].call # x \/ x \in excused'
    <3>1. Over(up'[o], x) => Over(up[o], x)
      BY <1>3 DEF Took, Over
    <3> QED
      BY <1>6, <3>1 DEF CallsIndInv, HangInd, EndsArrive, Over, Has
  <2>2. CASE Gone(x)'
    <3>1. Gone(x)
      BY <1>6, <2>2 DEF Gone
    <3>2. Has(up[o], "call", x) => Has(up'[o], "call", x)
      BY <1>3, <1>4 DEF Took
    <3>3. \A k \in Kinds : Has(up'[o], k, x) => Has(up[o], k, x)
      BY <1>3 DEF Took
    <3>4. \A k \in Overs : Has(down[o], k, x) => Has(down'[o], k, x)
      BY <1>8 DEF Overs, Kinds
    <3> QED
      BY <1>6, <1>8, <2>2, <3>1, <3>2, <3>3, <3>4, StillOver
  <2> QED
    BY <2>1, <2>2
<1> QED
  BY <1>3, <1>6, <1>7, <1>8, <1>9, ServerRest DEF CallsIndInv, CallsTypeOK, Took

\* The end of a call, from one side to the other.
LEMMA OverPassed ==
  ASSUME CallsIndInv, NEW t \in Tabs, NEW m \in Overs, NEW c, Took(t, m, c), Owner[t] \in {From(c), To(c)},
         down' = IF c \in active THEN ToUser(Remote(t, c), m, c, down) ELSE down,
         active' = active \ {c}, excused' = excused \cup {x \in {c} : ManyTabs(Owner[t])},
         UNCHANGED <<page, online, started, naming, drops, astray>>
  PROVE  CallsIndInv'
<1>1. c \in Calls /\ m \in Kinds \ {"call"}
  BY DEF Took, Kinds, Overs
<1>2. PICK u : u = Remote(t, c)
  OBVIOUS
<1>3. down' = down \/ (down' = ToUser(u, m, c, down) /\ c \in active)
  BY <1>2
<1>4. ServerMove
  BY <1>1, <1>3, PassedMove
<1>5. /\ down' \in [Tabs -> Seq(Messages)]
      /\ \A o \in Tabs, x \in Calls :
           /\ \A k \in Kinds : Has(down[o], k, x) => Has(down'[o], k, x)
           /\ Has(down'[o], "call", x) => Has(down[o], "call", x)
           /\ Followed(down[o], x) => Followed(down'[o], x)
  BY <1>1, <1>3, PassedIs
<1>6. EndsArrive'
  <2> SUFFICES ASSUME NEW o \in Tabs, NEW x \in Calls
               PROVE  /\ page'[o].call = x /\ Gone(x)' => Has(up[o], "call", x)' \/ Over(down[o], x)'
                      /\ Has(down[o], "call", x)' /\ Gone(x)' => Followed(down[o], x)'
                      /\ Over(up[o], x)' => page'[o].call # x \/ x \in excused'
    BY DEF EndsArrive
  <2>1. Over(up[o], x)' => page'[o].call # x \/ x \in excused'
    <3>1. Over(up'[o], x) => Over(up[o], x)
      BY DEF Took, Over
    <3> QED
      BY <3>1 DEF CallsIndInv, HangInd, EndsArrive, Over, Has
  <2>2. CASE Gone(x)' /\ Gone(x)
    <3>1. Has(up[o], "call", x) => Has(up'[o], "call", x)
      BY <1>1 DEF Took
    <3>2. \A k \in Kinds : Has(up'[o], k, x) => Has(up[o], k, x)
      BY DEF Took
    <3>3. \A k \in Overs : Has(down[o], k, x) => Has(down'[o], k, x)
      BY <1>5 DEF Overs, Kinds
    <3> QED
      BY <1>5, <2>2, <3>1, <3>2, <3>3, StillOver
  <2>3. CASE Gone(x)' /\ ~Gone(x)
    <3>1. x = c /\ c \in active /\ c \notin excused /\ ~ManyTabs(Owner[t])
      BY <2>3 DEF Gone
    <3>2. down' = ToUser(u, m, c, down) /\ Gave(u, m, c)
      <4>1. down' = ToUser(u, m, c, down)
        BY <1>2, <3>1
      <4> QED
        BY <1>1, <4>1, ToUserIs DEF CallsIndInv
    <3>3. c \in Known /\ From(c) # To(c) /\ Over(up[t], c) /\ Knows(t, c)
      BY <3>1 DEF Took, Over, Knows, CallsIndInv, HangInd, CallsKnown
    <3>4. page[t].call # c /\ ~Has(down[t], "call", c)
      <4>1. page[t].call # c
        BY <1>1, <3>1, <3>3 DEF CallsIndInv, HangInd, EndsArrive
      <4>2. Has(down[t], "call", c) => Owner[t] = To(c)
        BY <1>1 DEF CallsIndInv, HangInd, SidesFit
      <4>3. Owner[t] = To(c) => ~Has(down[t], "call", c)
        BY <1>1, <3>3 DEF CallsIndInv, HangInd, HeardOnce
      <4> QED
        BY <4>1, <4>2, <4>3
    <3>5. CASE Owner[o] = Owner[t]
      <4>1. o = t
        BY <3>1, <3>5 DEF ManyTabs
      <4>2. ~Has(down'[t], "call", c)
        BY <1>1, <1>5, <3>4
      <4>3. ~Has(down[o], "call", x)'
        BY <3>1, <4>1, <4>2 DEF Has
      <4> QED
        BY <2>1, <3>1, <3>4, <4>1, <4>3
    <3>6. CASE Owner[o] # Owner[t]
      <4>1. Owner[o] \in {From(c), To(c)} => Owner[o] = u
        BY <1>2, <3>3, <3>6 DEF Remote
      <4>2. ASSUME page[o].call = c PROVE Over(down[o], c)'
        <5>1. Owner[o] = u
          BY <1>1, <4>1, <4>2 DEF CallsIndInv, HangInd, SidesFit
        <5>2. o \in online
          BY <1>1, <3>1, <4>2 DEF CallsIndInv, HangInd, OfflineFits, CallsGoOut
        <5>3. Has(down'[o], m, c)
          BY <3>2, <5>1, <5>2 DEF Gave
        <5> QED
          BY <5>3 DEF Over, Has
      <4>3. ASSUME Has(down'[o], "call", c) PROVE Followed(down'[o], c)
        <5>1. Has(down[o], "call", c)
          BY <1>1, <1>5, <4>3
        <5>2. Owner[o] = u
          BY <1>1, <4>1, <5>1 DEF CallsIndInv, HangInd, SidesFit
        <5>3. o \in online
          BY <5>1, EmptyQueue DEF CallsIndInv, HangInd, OfflineFits
        <5> QED
          BY <3>2, <5>2, <5>3 DEF Gave
      <4>4. Has(down[o], "call", c)' => Followed(down[o], c)'
        BY <4>3 DEF Has, Followed
      <4> QED
        BY <2>1, <3>1, <4>2, <4>4
    <3> QED
      BY <3>5, <3>6
  <2> QED
    BY <2>1, <2>2, <2>3
<1>7. excused' \subseteq Calls
  BY <1>1 DEF CallsIndInv, CallsTypeOK
<1> QED
  BY <1>4, <1>5, <1>6, <1>7, ServerRest DEF CallsIndInv, CallsTypeOK, Took

LEMMA OverStep ==
  ASSUME CallsIndInv, NEW t \in Tabs,
         HandleCallEnd(t) \/ \E m \in {"reject", "busy"} : HandleCallRefused(t, m)
  PROVE  CallsIndInv'
<1>1. PICK c : c = Asked(t)
  OBVIOUS
<1>2. ASSUME NEW m \in Overs, Sent(t, m) PROVE Took(t, m, c) /\ c \in Calls /\ c \in Known /\ From(c) # To(c)
  <2>1. Took(t, m, Asked(t))
    BY <1>2, SentIs DEF CallsIndInv
  <2>2. Took(t, m, c)
    BY <1>1, <2>1
  <2>3. c \in Calls /\ Knows(t, c)
    BY <2>2 DEF Took, Knows, Over
  <2> QED
    BY <2>2, <2>3 DEF CallsIndInv, HangInd, CallsKnown
<1>3. CASE HandleCallEnd(t)
  <2>1. Took(t, "end", c) /\ c \in Calls
    BY <1>2, <1>3 DEF HandleCallEnd, Overs
  <2>2. Owner[t] \in {From(c), To(c)}
    BY <2>1 DEF CallsIndInv, HangInd, SidesFit, Took
  <2>3. "end" \in Overs
    BY DEF Overs
  <2> QED
    BY <1>1, <1>3, <2>1, <2>2, <2>3, OverPassed DEF HandleCallEnd
<1>4. CASE \E m \in {"reject", "busy"} : HandleCallRefused(t, m)
  <2>1. PICK m \in {"reject", "busy"} : HandleCallRefused(t, m)
    BY <1>4
  <2>2. m \in Overs
    BY DEF Overs
  <2>3. Took(t, m, c) /\ c \in Calls /\ From(c) # To(c)
    BY <1>2, <2>1, <2>2 DEF HandleCallRefused
  <2>4. Owner[t] = To(c)
    <3>1. Has(up[t], m, c)
      BY <2>3 DEF Took
    <3>2. Has(up[t], "reject", c) \/ Has(up[t], "busy", c)
      BY <3>1
    <3> QED
      BY <2>3, <3>2 DEF CallsIndInv, HangInd, SidesFit
  <2>5. Remote(t, c) = From(c)
    BY <2>3, <2>4 DEF Remote
  <2>6. /\ down' = IF c \in active THEN ToUser(Remote(t, c), m, c, down) ELSE down
        /\ active' = active \ {c} /\ excused' = excused \cup {x \in {c} : ManyTabs(Owner[t])}
        /\ UNCHANGED <<page, online, started, naming, drops, astray>>
    BY <1>1, <2>1, <2>4, <2>5 DEF HandleCallRefused
  <2> QED
    BY <2>2, <2>3, <2>4, <2>6, OverPassed
<1> QED
  BY <1>3, <1>4

LEMMA NameReadStep ==
  ASSUME CallsIndInv, NEW c \in Calls, NameRead(c)
  PROVE  CallsIndInv'
<1>1. /\ c \in naming /\ naming' = naming \ {c} /\ excused' = excused \cup ({c} \ active)
      /\ UNCHANGED <<page, up, online, started, active, drops, astray>>
  BY DEF NameRead
<1>2. PICK u : u = To(c)
  OBVIOUS
<1>3. Gave(u, "call", c)
  <2>1. down' = ToUser(u, "call", c, down) /\ "call" \in Kinds
    BY <1>2 DEF NameRead, Kinds
  <2> QED
    BY <2>1, ToUserIs DEF CallsIndInv
<1>4. \A o \in Tabs : ~Has(down[o], "call", c)
  BY <1>1 DEF CallsIndInv, HangInd, HeardOnce
<1>5. ASSUME NEW o \in Tabs, NEW x \in Calls
      PROVE  /\ Told(o, x)' => Told(o, x) \/ x \in active \cup naming
             /\ Has(down'[o], "call", x) => Has(down[o], "call", x) \/ (x \in naming \ naming' /\ Owner[o] = To(x))
             /\ TellsOnce(down'[o], x)
  <2>1. ASSUME Told(o, x)', x # c PROVE Told(o, x)
    <3>1. \A k : Has(down'[o], k, x) => Has(down[o], k, x)
      BY <1>3, <2>1 DEF Gave
    <3>2. Has(down'[o], "call", x) \/ \E k \in Overs : Has(down'[o], k, x)
      BY <2>1 DEF Told, Over, Has
    <3> QED
      BY <3>1, <3>2 DEF Told, Over
  <2>2. Has(down'[o], "call", x) => Has(down[o], "call", x) \/ (x = c /\ Owner[o] = u)
    BY <1>3 DEF Gave
  <2>3. TellsOnce(down'[o], x)
    <3>1. TellsOnce(down[o], x)
      BY DEF CallsIndInv, HangInd, HeardOnce
    <3> QED
      BY <1>3, <1>4, <3>1 DEF Gave
  <2> QED
    BY <1>1, <1>2, <2>1, <2>2, <2>3
<1>6. ServerMove
  <2>1. \A o \in Tabs \ online' : down'[o] = <<>> /\ o \notin online /\ up'[o] = up[o]
    BY <1>1, <1>3 DEF Gave, CallsIndInv, HangInd, OfflineFits
  <2>2. active' \cup naming' \subseteq active \cup naming /\ active \cup naming \subseteq Calls
    BY <1>1 DEF CallsIndInv, CallsTypeOK
  <2> QED
    BY <1>1, <1>5, <2>1, <2>2 DEF ServerMove
<1>7. EndsArrive'
  <2> SUFFICES ASSUME NEW o \in Tabs, NEW x \in Calls
               PROVE  /\ page'[o].call = x /\ Gone(x)' => Has(up[o], "call", x)' \/ Over(down[o], x)'
                      /\ Has(down[o], "call", x)' /\ Gone(x)' => Followed(down[o], x)'
                      /\ Over(up[o], x)' => page'[o].call # x \/ x \in excused'
    BY DEF EndsArrive
  <2>1. Over(up[o], x)' => page'[o].call # x \/ x \in excused'
    BY <1>1 DEF CallsIndInv, HangInd, EndsArrive, Over, Has
  <2>2. CASE Gone(x)'
    <3>1. Gone(x) /\ x # c
      BY <1>1, <2>2 DEF Gone
    <3>2. /\ \A m \in Overs : Has(down[o], m, x) => Has(down'[o], m, x)
          /\ Followed(down[o], x) => Followed(down'[o], x)
          /\ Has(down'[o], "call", x) => Has(down[o], "call", x)
      BY <1>3, <3>1 DEF Gave
    <3> QED
      BY <1>1, <2>2, <3>1, <3>2, StillOver
  <2> QED
    BY <2>1, <2>2
<1> QED
  BY <1>1, <1>3, <1>6, <1>7, ServerRest DEF CallsIndInv, CallsTypeOK, Gave

LEMMA SocketLostStep ==
  ASSUME CallsIndInv, CallsOwner, NEW t \in Tabs, SocketLost(t)
  PROVE  CallsIndInv'
<1>1. /\ online' = online \ {t} /\ active' = active \ Mine(t) /\ drops' = drops \cup {t} /\ t \in Fragile
      /\ excused' = excused \cup Mine(t) /\ up' = [up EXCEPT ![t] = <<>>]
      /\ UNCHANGED <<page, started, naming, astray>>
      /\ down' = [o \in Tabs |-> IF o = t THEN <<>>
                                 ELSE IF o \in online THEN down[o] \o SetToSeq(Hung(t, o)) ELSE down[o]]
  BY DEF SocketLost, Disconnected
<1>2. /\ up \in [Tabs -> Seq(Messages)] /\ down \in [Tabs -> Seq(Messages)] /\ <<>> \in Seq(Messages)
      /\ up'[t] = <<>> /\ down'[t] = <<>> /\ \A o \in Tabs \ {t} : up'[o] = up[o]
  BY <1>1 DEF CallsIndInv, CallsTypeOK
<1>3. Mine(t) \subseteq Known /\ Known \subseteq Calls
  BY MineKnown DEF CallsIndInv
<1>4. \A x \in Calls : page[t].call = x => x \in Mine(t)
  BY DEF CallsIndInv, HangInd, CallsKnown, SidesFit, Knows, Mine, Known
<1>5. ASSUME NEW o \in Tabs \ {t}
      PROVE  /\ down'[o] \in Seq(Messages)
             /\ \A k, x : Has(down[o], k, x) => Has(down'[o], k, x)
             /\ \A k, x : Has(down'[o], k, x) => Has(down[o], k, x) \/ x \in active
             /\ \A x : Has(down'[o], "call", x) => Has(down[o], "call", x)
             /\ \A x : TellsOnce(down[o], x) => TellsOnce(down'[o], x)
             /\ \A x : Followed(down[o], x) => Followed(down'[o], x)
             /\ o \notin online => down'[o] = down[o]
  <2>1. CASE o \notin online
    <3>1. down'[o] = down[o]
      BY <1>1, <2>1
    <3> QED
      BY <1>2, <3>1
  <2>2. CASE o \in online
    <3>1. PICK S : S = Hung(t, o)
      OBVIOUS
    <3>2. S \subseteq {Msg("end", x) : x \in Calls} /\ S \subseteq {Msg("end", x) : x \in active}
      BY <3>1 DEF Hung, CallsIndInv, CallsTypeOK
    <3>3. PICK r : r = SetToSeq(S)
      OBVIOUS
    <3>4. r \in Seq(Messages) /\ \A i \in DOMAIN r : r[i] \in S
      BY <3>2, <3>3, EndsInOrder
    <3>5. \A i \in DOMAIN r : r[i].m = "end" /\ r[i].call \in active
      <4>1. \A x \in active : Msg("end", x).m = "end" /\ Msg("end", x).call = x
        BY DEF Msg
      <4> QED
        BY <3>2, <3>4, <4>1
    <3>6. \A k, x : Has(r, k, x) => x \in active
      BY <3>5 DEF Has
    <3>7. down'[o] = down[o] \o r
      BY <1>1, <2>2, <3>1, <3>3
    <3>8. PICK new : new = down[o] \o r
      OBVIOUS
    <3>9. /\ new \in Seq(Messages)
          /\ \A k, x : Has(down[o], k, x) => Has(new, k, x)
          /\ \A k, x : Has(new, k, x) => Has(down[o], k, x) \/ (k = "end" /\ Has(r, k, x))
          /\ \A x : TellsOnce(down[o], x) => TellsOnce(new, x)
          /\ \A x : Followed(down[o], x) => Followed(new, x)
      <4>1. down[o] \in Seq(Messages) /\ \A i \in DOMAIN r : r[i].m = "end"
        BY <1>2, <3>5
      <4> QED
        BY <3>4, <3>8, <4>1, QueueJoin
    <3>10. down'[o] = new
      BY <3>7, <3>8
    <3>11. \A x : ~Has(r, "call", x)
      BY <3>5 DEF Has
    <3>12. \A x : Has(new, "call", x) => Has(down[o], "call", x)
      BY <3>9, <3>11
    <3> QED
      BY <2>2, <3>6, <3>9, <3>10, <3>12
  <2> QED
    BY <2>1, <2>2
<1>6. \A m, x : ~Has(up'[t], m, x) /\ ~Over(up'[t], x) /\ TellsOnce(up'[t], x)
               /\ ~Has(down'[t], m, x) /\ ~Over(down'[t], x) /\ TellsOnce(down'[t], x)
  BY <1>2, EmptyQueue
<1>7. ASSUME NEW o \in Tabs, NEW x \in Calls
      PROVE  /\ \A m \in Kinds : Has(up'[o], m, x) => Has(up[o], m, x)
             /\ TellsOnce(up[o], x) => TellsOnce(up'[o], x)
             /\ Told(o, x)' => Told(o, x) \/ x \in active \cup naming
             /\ Has(down'[o], "call", x) => Has(down[o], "call", x)
             /\ TellsOnce(down'[o], x)
  <2>1. Told(o, x)' <=> Has(down'[o], "call", x) \/ Over(down'[o], x)
    BY DEF Told, Over, Has
  <2>2. CASE o = t
    BY <1>6, <2>1, <2>2
  <2>3. CASE o # t
    <3>1. TellsOnce(down[o], x)
      BY DEF CallsIndInv, HangInd, HeardOnce
    <3>2. Over(down'[o], x) => Over(down[o], x) \/ x \in active
      BY <1>5, <2>3 DEF Over
    <3>3. Has(down'[o], "call", x) => Has(down[o], "call", x)
      BY <1>5, <2>3
    <3>4. Told(o, x)' => Told(o, x) \/ x \in active
      BY <2>1, <3>2, <3>3 DEF Told
    <3> QED
      BY <1>2, <1>5, <2>3, <3>1, <3>3, <3>4
  <2> QED
    BY <2>2, <2>3
<1>8. ServerMove
  <2>1. ASSUME NEW o \in Tabs \ online'
        PROVE  /\ down'[o] = <<>>
               /\ \/ o \notin online /\ up'[o] = up[o]
                  \/ \A x \in Calls : page[o].call = x => x \in excused'
    <3>1. CASE o = t
      BY <1>1, <1>2, <1>4, <3>1
    <3>2. CASE o # t
      BY <1>1, <1>2, <1>5, <3>2 DEF CallsIndInv, HangInd, OfflineFits
    <3> QED
      BY <3>1, <3>2
  <2>2. active' \cup naming' \subseteq active \cup naming /\ active \cup naming \subseteq Calls
    BY <1>1 DEF CallsIndInv, CallsTypeOK
  <2> QED
    BY <1>1, <1>7, <2>1, <2>2 DEF ServerMove
<1>9. EndsArrive'
  <2> SUFFICES ASSUME NEW o \in Tabs, NEW x \in Calls
               PROVE  /\ page'[o].call = x /\ Gone(x)' => Has(up[o], "call", x)' \/ Over(down[o], x)'
                      /\ Has(down[o], "call", x)' /\ Gone(x)' => Followed(down[o], x)'
                      /\ Over(up[o], x)' => page'[o].call # x \/ x \in excused'
    BY DEF EndsArrive
  <2>1. CASE o = t
    <3>1. page'[t].call = x => ~Gone(x)'
      BY <1>1, <1>4 DEF Gone
    <3>2. ~Has(down[t], "call", x)' /\ ~Over(up[t], x)'
      BY <1>6 DEF Over, Has
    <3> QED
      BY <2>1, <3>1, <3>2
  <2>2. CASE o # t
    <3>1. Over(up[o], x)' => page'[o].call # x \/ x \in excused'
      BY <1>1, <1>2, <2>2 DEF CallsIndInv, HangInd, EndsArrive, Over, Has
    <3>2. CASE Gone(x)'
      <4>1. Gone(x)
        BY <1>1, <3>2 DEF Gone
      <4>2. /\ \A m \in Overs : Has(down[o], m, x) => Has(down'[o], m, x)
            /\ Followed(down[o], x) => Followed(down'[o], x)
            /\ Has(down'[o], "call", x) => Has(down[o], "call", x)
        BY <1>5, <2>2
      <4>3. up'[o] = up[o]
        BY <1>2, <2>2
      <4> QED
        BY <1>1, <3>2, <4>1, <4>2, <4>3, StillOver
    <3> QED
      BY <3>1, <3>2
  <2> QED
    BY <2>1, <2>2
<1>10. /\ up' \in [Tabs -> Seq(Messages)] /\ down' \in [Tabs -> Seq(Messages)] /\ online' \in SUBSET Tabs
       /\ drops' \in SUBSET Fragile /\ excused' \subseteq Calls
  <2>1. \A o \in Tabs : down'[o] \in Seq(Messages)
    BY <1>2, <1>5
  <2>2. down' \in [Tabs -> Seq(Messages)]
    BY <1>1, <2>1
  <2> QED
    BY <1>1, <1>2, <1>3, <2>2 DEF CallsIndInv, CallsTypeOK
<1> QED
  BY <1>1, <1>8, <1>9, <1>10, ServerRest

LEMMA ReconnectStep ==
  ASSUME CallsIndInv, NEW t \in Tabs, Reconnect(t)
  PROVE  CallsIndInv'
<1>1. online' = online \cup {t} /\ UNCHANGED <<page, up, down, started, active, naming, drops, astray, excused>>
  BY DEF Reconnect, server
<1>2. ServerMove
  <2>1. \A o \in Tabs, x \in Calls : (Told(o, x)' <=> Told(o, x)) /\ TellsOnce(down[o], x)
    BY <1>1 DEF Told, Over, Has, CallsIndInv, HangInd, HeardOnce
  <2>2. \A o \in Tabs \ online' : down'[o] = <<>> /\ o \notin online /\ up'[o] = up[o]
    BY <1>1 DEF CallsIndInv, HangInd, OfflineFits
  <2>3. active' \cup naming' = active \cup naming /\ active \cup naming \subseteq Calls
    BY <1>1 DEF CallsIndInv, CallsTypeOK
  <2> QED
    BY <1>1, <2>1, <2>2, <2>3 DEF ServerMove
<1>3. EndsArrive'
  BY <1>1 DEF CallsIndInv, HangInd, EndsArrive, Gone, Over, Has, Followed
<1> QED
  BY <1>1, <1>2, <1>3, ServerRest DEF CallsIndInv, CallsTypeOK

-----------------------------------------------------------------------------
(* Calls: every step, and the theorems.                                    *)

LEMMA CallsStart ==
  ASSUME CallsOwner, CallsInit
  PROVE  CallsIndInv
<1>1. /\ Fresh \in Pages /\ Fresh.status = "idle" /\ Fresh.call = 0 /\ Fresh.asks = {} /\ Fresh.rings = {}
      /\ Fresh.live = {}
  BY DEF Fresh, Pages, Statuses, Maybe, NoPC
<1>2. \A t \in Tabs : page[t] = Fresh /\ up[t] = <<>> /\ down[t] = <<>>
  BY DEF CallsInit
<1>3. \A t \in Tabs, c \in Calls :
        /\ ~Knows(t, c) /\ ~Told(t, c) /\ StartAsk(c) \notin page[t].asks /\ AcceptAsk(c) \notin page[t].asks
        /\ page[t].call # c /\ \A m : ~Has(up[t], m, c) /\ ~Has(down[t], m, c)
        /\ TellsOnce(down[t], c) /\ Followed(down[t], c) /\ ~Over(up[t], c)
  BY <1>1, <1>2, EmptyQueue DEF Knows, Told, Calls
<1>4. Known = {}
  BY DEF CallsInit, Known
<1>5. CallsTypeOK
  BY <1>1 DEF CallsInit, CallsTypeOK, CallsOwner
<1>6. HangInd
  <2>1. CallsKnown /\ StartsFresh /\ CallsGoOut /\ HeardOnce /\ EndsArrive
    BY <1>3, <1>4 DEF CallsInit, CallsKnown, StartsFresh, CallsGoOut, HeardOnce, EndsArrive
  <2>2. SidesFit
    BY <1>1, <1>2, <1>3 DEF SidesFit, Showing
  <2>3. OfflineFits
    BY DEF CallsInit, OfflineFits
  <2> QED
    BY <2>1, <2>2, <2>3 DEF HangInd
<1>7. MicrophoneFits
  BY <1>1, <1>2 DEF MicrophoneFits, MicrophoneFit
<1> QED
  BY <1>5, <1>6, <1>7 DEF CallsIndInv

LEMMA CallsStep ==
  ASSUME CallsOwner, CallsIndInv, [CallsNext]_callVars
  PROVE  CallsIndInv'
<1>1. CASE UNCHANGED callVars
  BY <1>1 DEF callVars, CallsIndInv, CallsTypeOK, HangInd, CallsKnown, SidesFit, StartsFresh, CallsGoOut, HeardOnce,
              OfflineFits, EndsArrive, Knows, Told, Known, Gone, Over, Has, TellsOnce, Followed, From, To,
              MicrophoneFits, MicrophoneFit
<1>2. CASE CallsNext
  <2>1. ASSUME NEW t \in Tabs, Tab(t) PROVE CallsIndInv'
    BY <2>1, StartCallStep, StartGrantedStep, StartDeniedStep, AcceptCallStep, AcceptGrantedStep, RejectStep,
       EndCallStep, RingTimeoutStep, IdleTimerStep, BusyStep, RingsStep, MediaSteps, OverSteps, LeaveChatStep,
       OpenChatStep DEF Tab
  <2>2. ASSUME NEW t \in Tabs, Serve(t) PROVE CallsIndInv'
    BY <2>2, CallUserStep, PassedStep, OverStep DEF Serve
  <2>3. ASSUME NEW t \in Tabs, SocketLost(t) \/ Reconnect(t) PROVE CallsIndInv'
    BY <2>3, SocketLostStep, ReconnectStep
  <2> QED
    BY <1>2, <2>1, <2>2, <2>3, NameReadStep DEF CallsNext
<1> QED
  BY <1>1, <1>2

LEMMA CallsInductive == CallsSpec => []CallsIndInv
<1>1. CallsInit => CallsIndInv
  BY CallsStart, CallsOwner
<1>2. CallsIndInv /\ [CallsNext]_callVars => CallsIndInv'
  BY CallsStep, CallsOwner
<1> QED
  BY <1>1, <1>2, PTL DEF CallsSpec

\* useWebRTC.ts: every value stays in its type, and no microphone is on behind a
\* page that shows no call, but after a late answer or an earlier call's timer.
THEOREM CallsSafe == CallsSpec => []CallInv
<1>1. CallsIndInv => CallInv
  BY HangUpFollows
<1> QED
  BY <1>1, CallsInductive, PTL

\* handleCallReject, handleCallEnd, handleCallBusy, handleDisconnect: once everything
\* sent has arrived, no page shows a call that is over and not excused.
THEOREM HangUpHeard == CallsSpec => []HangUpReachesEveryPage
<1>1. CallsIndInv => HangUpReachesEveryPage
  BY HangUpFollows
<1> QED
  BY <1>1, CallsInductive, PTL
=============================================================================
