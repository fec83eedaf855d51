----------------------------- MODULE SenderKey -----------------------------
(***************************************************************************)
(* One sender chain of a group conversation and the receivers built from   *)
(* its distribution messages (crypto/core/src/group).  The sender ratchets *)
(* forward with every message; the server stores every message, so a       *)
(* message once sent may reach a member late, out of order, more than      *)
(* once, or never.  A distribution message carries the sender's position   *)
(* at the time it was made and may also arrive late.                       *)
(*                                                                         *)
(* Every operation here is atomic: this is the ratchet itself.  What the   *)
(* browser does between loading and saving its state is in GroupKeys.      *)
(***************************************************************************)
EXTENDS GroupRatchet

CONSTANTS Members,     \* the recipients of the chain
          NoReceiver,  \* stands for "no ReceiverState stored"
          MaxMessages  \* bound: how many messages the sender sends

ASSUME NoReceiverAssumption == NoReceiver \notin ReceiverStates
ASSUME MaxMessagesAssumption == MaxMessages \in Nat

VARIABLES
  iteration,     \* SenderState.iteration: the next message's position
  distributions, \* for each member the snapshots sealed for it, by iteration
  receiver,      \* for each member its ReceiverState, or NoReceiver
  joined,        \* history: the iteration at which the member's receiver began
  opened         \* history: the messages each member has decrypted

vars == <<iteration, distributions, receiver, joined, opened>>

Iterations == 0 .. (MaxMessages - 1)

TypeOK ==
  /\ iteration \in 0 .. MaxMessages
  /\ distributions \in [Members -> SUBSET (0 .. MaxMessages)]
  /\ receiver \in [Members -> ReceiverStates \cup {NoReceiver}]
  /\ joined \in [Members -> 0 .. MaxMessages]
  /\ opened \in [Members -> SUBSET Iterations]

HasReceiver(m) == receiver[m] # NoReceiver

-----------------------------------------------------------------------------
Init ==
  /\ iteration = 0
  /\ distributions = [m \in Members |-> {}]
  /\ receiver = [m \in Members |-> NoReceiver]
  /\ joined = [m \in Members |-> 0]
  /\ opened = [m \in Members |-> {}]

\* encrypt: captures the iteration and advances the chain by one.
Encrypt ==
  /\ iteration < MaxMessages
  /\ iteration' = iteration + 1
  /\ UNCHANGED <<distributions, receiver, joined, opened>>

\* create_distribution_message: a snapshot of the current position.
CreateDistribution(m) ==
  /\ distributions' = [distributions EXCEPT ![m] = @ \cup {iteration}]
  /\ UNCHANGED <<iteration, receiver, joined, opened>>

\* Mutant of ProcessDistribution: a receiver that starts one position early.
StartOneEarly(m, at) ==
  /\ ~HasReceiver(m)
  /\ at \in distributions[m]
  /\ receiver' = [receiver EXCEPT ![m] =
                    NewReceiverState(IF at > 0 THEN at - 1 ELSE 0)]
  /\ joined' = [joined EXCEPT ![m] = at]
  /\ UNCHANGED <<iteration, distributions, opened>>

\* Mutant of ProcessDistribution: a snapshot replaces a receiver in use.
ReplaceReceiver(m, at) ==
  /\ at \in distributions[m]
  /\ receiver' = [receiver EXCEPT ![m] = NewReceiverState(at)]
  /\ joined' = [joined EXCEPT ![m] = at]
  /\ UNCHANGED <<iteration, distributions, opened>>

\* process_distribution_message.  The client keeps a receiver it already has
\* (prefetchGroupSenderKeys), so a snapshot is installed only once.
ProcessDistribution(m, at) ==
  /\ ~HasReceiver(m)
  /\ at \in distributions[m]
  /\ receiver' = [receiver EXCEPT ![m] = NewReceiverState(at)]
  /\ joined' = [joined EXCEPT ![m] = at]
  /\ UNCHANGED <<iteration, distributions, opened>>

\* Mutant of Decrypt: the message is opened but the ratchet is not advanced.
DecryptWithoutAdvance(m, i) ==
  /\ HasReceiver(m)
  /\ i < iteration
  /\ HasMessageKey(receiver[m], i)
  /\ opened' = [opened EXCEPT ![m] = @ \cup {i}]
  /\ UNCHANGED <<iteration, distributions, receiver, joined>>

\* decrypt on message i of this chain: the signature verifies, and the
\* message opens iff message_key_for finds its key.  A refused message leaves
\* every variable as it was, so it is a stuttering step.
Decrypt(m, i) ==
  /\ HasReceiver(m)
  /\ i < iteration
  /\ HasMessageKey(receiver[m], i)
  /\ receiver' = [receiver EXCEPT ![m] = AfterMessageKey(@, i)]
  /\ opened' = [opened EXCEPT ![m] = @ \cup {i}]
  /\ UNCHANGED <<iteration, distributions, joined>>

Next ==
  \/ Encrypt
  \/ \E m \in Members : CreateDistribution(m)
  \/ \E m \in Members : \E at \in 0 .. MaxMessages : ProcessDistribution(m, at)
  \/ \E m \in Members : \E i \in Iterations : Decrypt(m, i)

Spec == Init /\ [][Next]_vars

-----------------------------------------------------------------------------
\* Forward secrecy (group/mod.rs: "old message keys are deleted after use"):
\* the key of a message a member has opened can no longer be computed from
\* what the member stores, neither from its cache nor from its chain key.
KeysDeletedAfterUse ==
  \A m \in Members : HasReceiver(m) =>
    \A i \in opened[m] : ~Derivable(receiver[m], i)

\* Out-of-order delivery (group/mod.rs: "can decrypt out-of-order messages
\* within the MAX_SKIP window"): a message sent at or after the member's
\* snapshot, not opened yet and no more than MaxSkip ahead can be decrypted,
\* whatever was opened, skipped or lost before it.
OutOfOrderWithinWindow ==
  \A m \in Members : HasReceiver(m) =>
    \A i \in joined[m] .. (iteration - 1) :
      (i \notin opened[m] /\ i <= receiver[m].iteration + MaxSkip)
        => HasMessageKey(receiver[m], i)

\* A late joiner (group/mod.rs, late_joiner_cannot_decrypt_past_messages) holds
\* no key of a message sent before the snapshot it was given was taken.
NoKeysBeforeJoining ==
  \A m \in Members : HasReceiver(m) =>
    \A i \in 0 .. (joined[m] - 1) : ~Derivable(receiver[m], i)

\* A receiver's key material only shrinks: no decrypt gives back a key that
\* could not be computed before it (advance is one-way, the cache is erased).
KeyMaterialOnlyShrinks ==
  [][\A m \in Members : HasReceiver(m) =>
       /\ receiver'[m] # NoReceiver
       /\ \A i \in 0 .. MaxMessages :
            Derivable(receiver'[m], i) => Derivable(receiver[m], i)]_vars

\* The messages a member can still derive the key of, however far ahead.
KeysOf(m) == {i \in Iterations : HasReceiver(m) /\ Derivable(receiver[m], i)}

\* The ratchet implements the abstract protocol in which a member is given keys
\* once and opening a message costs exactly its own key (group/mod.rs:4-10).
Once == INSTANCE OpenOnce WITH sent <- iteration,
                               keys <- [m \in Members |-> KeysOf(m)]
OpensOnce == Once!Spec

-----------------------------------------------------------------------------
\* The cache of a member holds exactly the keys of the messages between its
\* snapshot and its chain position that it has not opened: the invariant the
\* properties above follow from.
CacheIsWhatIsMissing ==
  \A m \in Members :
    IF HasReceiver(m)
      THEN /\ joined[m] <= receiver[m].iteration
           /\ receiver[m].iteration <= iteration
           /\ opened[m] \subseteq joined[m] .. (receiver[m].iteration - 1)
           /\ receiver[m].skipped =
                (joined[m] .. (receiver[m].iteration - 1)) \ opened[m]
      ELSE opened[m] = {}

\* No snapshot is ahead of the sender.
SnapshotsAreReached ==
  \A m \in Members : \A at \in distributions[m] : at <= iteration

IndInv == TypeOK /\ SnapshotsAreReached /\ CacheIsWhatIsMissing
=============================================================================
