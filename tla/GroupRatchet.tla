---------------------------- MODULE GroupRatchet ----------------------------
(***************************************************************************)
(* The receiving half of the group ("sender key") ratchet of crypto/core,  *)
(* as pure operators.  A chain key can only be advanced, so the key        *)
(* material of a receiver is known from two things: the iteration its      *)
(* chain key stands at, and the iterations whose message keys it keeps in  *)
(* the cache of skipped keys.  The bytes of the keys, the signature and    *)
(* the AEAD are abstracted: on a message of this receiver's chain they     *)
(* succeed, on any other message the signature check fails first.          *)
(***************************************************************************)
EXTENDS Naturals, FiniteSets

CONSTANT MaxSkip    \* how far one message may jump ahead of the chain

ASSUME MaxSkipAssumption == MaxSkip \in Nat

\* ReceiverState: `iteration' is the next iteration of the chain key,
\* `skipped' the iterations whose message keys are cached.
ReceiverStates == [iteration : Nat, skipped : SUBSET Nat]

\* Mutant of NewReceiverState: off by one.
OneBefore(at) == [iteration |-> at - 1, skipped |-> {}]

\* process_distribution_message: a receiver starts at the snapshot's iteration.
NewReceiverState(at) == [iteration |-> at, skipped |-> {}]

\* The iterations an advance to `target' passes over.
Passed(rs, target) == rs.iteration .. (target - 1)

\* message_key_for returns Ok: the key is cached, or it lies ahead of the
\* chain by no more than MaxSkip.
HasMessageKey(rs, target) ==
  \/ target \in rs.skipped
  \/ /\ rs.iteration <= target
     /\ target - rs.iteration <= MaxSkip

\* The two branches of message_key_for that return a key.
TakeSkipped(rs, target) == [rs EXCEPT !.skipped = @ \ {target}]
AdvanceTo(rs, target) ==
  [iteration |-> target + 1, skipped |-> rs.skipped \cup Passed(rs, target)]

\* Mutants of AfterMessageKey: an advance that forgets the keys it passes over,
\* and one that caches the key it hands out.
ForgetPassedKeys(rs, target) ==
  IF target \in rs.skipped
    THEN TakeSkipped(rs, target)
    ELSE [iteration |-> target + 1, skipped |-> rs.skipped]
CacheTargetToo(rs, target) ==
  IF target \in rs.skipped
    THEN TakeSkipped(rs, target)
    ELSE [iteration |-> target + 1,
          skipped |-> rs.skipped \cup (rs.iteration .. target)]

\* The state message_key_for leaves behind when it returns a key; it is
\* applied only under HasMessageKey.
AfterMessageKey(rs, target) ==
  IF target \in rs.skipped THEN TakeSkipped(rs, target) ELSE AdvanceTo(rs, target)

\* Every iteration whose key can still be computed from `rs', however far
\* ahead it lies.
Derivable(rs, target) == target \in rs.skipped \/ rs.iteration <= target
=============================================================================
