---------------------------- MODULE RequestProofs ----------------------------
(***************************************************************************)
(* Proofs about OfflineQueue, CryptoWorker, Push, SignedUrls, Search and   *)
(* Typing, for any messages, users, files, texts, times and bounds.  Each  *)
(* is about requests or events that come late.  The invariants say what    *)
(* one under way still knows of the page that made it, and what it may be  *)
(* worth when it comes.                                                    *)
(***************************************************************************)
EXTENDS OfflineQueue, CryptoWorker, Push, SignedUrls, Search, Typing,
        FiniteSetTheorems, SequenceTheorems, WellFoundedInduction, TLAPS

-----------------------------------------------------------------------------
(* Proofs about OfflineQueue, for every number of messages and every set   *)
(* of conversations: no queued message is emitted twice, and none is lost  *)
(* but what is queued while a flush runs.  The inductive invariant says    *)
(* what a running flush still holds: the messages refused so far and those *)
(* to come are distinct, none of them was emitted, and with the emitted    *)
(* ones they account for the queue the flush will overwrite.               *)

IdsOf(s) == {s[i].id : i \in DOMAIN s}
Distinct(s) == \A j, k \in DOMAIN s : s[j].id = s[k].id => j = k
EmittedIds == {emitted[j].item.id : j \in DOMAIN emitted}

\* The messages that wait to be handed to onFlush, or again to be flushed.
WaitingIds == IF flushing THEN IdsOf(todo) \cup IdsOf(failed) ELSE IdsOf(queue)

\* flushingRef, the loop's variables and the message being sealed agree.
LoopAgrees ==
  /\ flushing => todo # <<>>
  /\ ~flushing => todo = <<>> /\ failed = <<>> /\ sealing = None
  /\ sealing # None => flushing /\ sealing.item = Head(todo)

\* No message waits twice.
WaitsOnce ==
  /\ Distinct(todo) /\ Distinct(failed) /\ IdsOf(todo) \cap IdsOf(failed) = {}
  /\ ~flushing => Distinct(queue)

\* What waits was queued and not emitted.
WaitsUnsent ==
  /\ WaitingIds \subseteq 1 .. created /\ EmittedIds \subseteq 1 .. created
  /\ WaitingIds \cap EmittedIds = {}

\* The queue a flush will overwrite has nothing that the flush does not hold,
\* has not emitted, and was not queued meanwhile.
FlushHolds == IdsOf(queue) \subseteq WaitingIds \cup EmittedIds \cup during

AllKept == (1 .. created) \ during \subseteq IdsOf(queue) \cup EmittedIds

IndInv ==
  /\ TypeOK
  /\ LoopAgrees
  /\ WaitsOnce
  /\ WaitsUnsent
  /\ FlushHolds
  /\ AllKept
  /\ EmittedOnce

-----------------------------------------------------------------------------
(* Sequences of queued messages.                                           *)

\* enqueue and failed.push.
LEMMA AppendItem ==
  ASSUME NEW s \in Seq(Items), NEW x \in Items
  PROVE  /\ Append(s, x) \in Seq(Items)
         /\ IdsOf(Append(s, x)) = IdsOf(s) \cup {x.id}
         /\ Distinct(s) /\ x.id \notin IdsOf(s) => Distinct(Append(s, x))
<1>1. /\ Append(s, x) \in Seq(Items) /\ Len(s) \in Nat
      /\ DOMAIN Append(s, x) = DOMAIN s \cup {Len(s) + 1}
      /\ \A i \in DOMAIN s : i # Len(s) + 1 /\ Append(s, x)[i] = s[i]
      /\ Append(s, x)[Len(s) + 1] = x
  OBVIOUS
<1> DEFINE new == Append(s, x)
<1> HIDE DEF new
<1>2. IdsOf(new) = IdsOf(s) \cup {x.id}
  BY <1>1 DEF IdsOf, new
<1>3. Distinct(s) /\ x.id \notin IdsOf(s) => Distinct(new)
  BY <1>1 DEF IdsOf, Distinct, new
<1> QED
  BY <1>1, <1>2, <1>3 DEF new

\* The loop of flush moves on.
LEMMA TailItem ==
  ASSUME NEW s \in Seq(Items), s # <<>>, Distinct(s)
  PROVE  /\ Head(s) \in Items /\ Tail(s) \in Seq(Items)
         /\ Head(s).id \in IdsOf(s)
         /\ IdsOf(Tail(s)) = IdsOf(s) \ {Head(s).id}
         /\ Distinct(Tail(s))
         /\ Len(s) = 1 => Tail(s) = <<>>
         /\ Len(s) # 1 => Tail(s) # <<>>
<1> DEFINE new == Tail(s)
<1>1. /\ new \in Seq(Items) /\ Head(s) = s[1] /\ Len(s) \in Nat /\ Len(s) > 0
      /\ DOMAIN s = 1 .. Len(s) /\ DOMAIN new = 1 .. (Len(s) - 1)
      /\ Len(new) = Len(s) - 1
      /\ \A i \in DOMAIN new : new[i] = s[i + 1]
  OBVIOUS
<1>4. Head(s) \in Items
  OBVIOUS
<1> HIDE DEF new
<1>2. Len(s) = 1 => new = <<>>
  BY <1>1, EmptySeq
<1>3. Len(s) # 1 => new # <<>>
  BY <1>1
<1>5. Head(s).id \in IdsOf(s)
  BY <1>1 DEF IdsOf
<1>6. IdsOf(new) \subseteq IdsOf(s) \ {Head(s).id}
  BY <1>1 DEF IdsOf, Distinct
<1>7. ASSUME NEW d \in IdsOf(s) \ {Head(s).id} PROVE d \in IdsOf(new)
  <2>1. PICK i \in DOMAIN s : s[i].id = d
    BY DEF IdsOf
  <2>2. i - 1 \in DOMAIN new /\ new[i - 1] = s[i]
    BY <1>1, <2>1
  <2> QED
    BY <2>1, <2>2 DEF IdsOf
<1>8. Distinct(new)
  BY <1>1 DEF Distinct
<1> QED
  BY <1>1, <1>2, <1>3, <1>4, <1>5, <1>6, <1>7, <1>8 DEF new

\* failed followed by what was not tried.
LEMMA ConcatItems ==
  ASSUME NEW s \in Seq(Items), NEW t \in Seq(Items)
  PROVE  /\ s \o t \in Seq(Items)
         /\ IdsOf(s \o t) = IdsOf(s) \cup IdsOf(t)
         /\ Distinct(s) /\ Distinct(t) /\ IdsOf(s) \cap IdsOf(t) = {} => Distinct(s \o t)
<1> DEFINE new == s \o t
<1>1. /\ new \in Seq(Items) /\ Len(s) \in Nat /\ Len(t) \in Nat
      /\ DOMAIN s = 1 .. Len(s) /\ DOMAIN t = 1 .. Len(t)
      /\ DOMAIN new = 1 .. (Len(s) + Len(t))
      /\ \A i \in DOMAIN new : new[i] = IF i <= Len(s) THEN s[i] ELSE t[i - Len(s)]
  OBVIOUS
<1> HIDE DEF new
<1>2. \A i \in DOMAIN s : i \in DOMAIN new /\ new[i] = s[i]
  BY <1>1
<1>3. \A i \in DOMAIN t : i + Len(s) \in DOMAIN new /\ new[i + Len(s)] = t[i]
  BY <1>1
<1>4. \A i \in DOMAIN new :
        \/ i \in DOMAIN s /\ new[i] = s[i]
        \/ i - Len(s) \in DOMAIN t /\ new[i] = t[i - Len(s)]
  BY <1>1
<1>5. IdsOf(new) = IdsOf(s) \cup IdsOf(t)
  BY <1>2, <1>3, <1>4 DEF IdsOf
<1>6. ASSUME Distinct(s), Distinct(t), IdsOf(s) \cap IdsOf(t) = {} PROVE Distinct(new)
  <2>1. ASSUME NEW j \in DOMAIN new, NEW k \in DOMAIN new, new[j].id = new[k].id PROVE j = k
    <3>1. j \in Nat /\ k \in Nat
      BY <1>1
    <3>2. \A a \in DOMAIN s, b \in DOMAIN t : s[a].id # t[b].id
      BY <1>6 DEF IdsOf
    <3> QED
      BY <1>1, <1>4, <1>6, <2>1, <3>1, <3>2 DEF Distinct
  <2> QED
    BY <2>1 DEF Distinct
<1> QED
  BY <1>1, <1>5, <1>6 DEF new

-----------------------------------------------------------------------------
LEMMA InitIndInv == Init => IndInv
<1> SUFFICES ASSUME Init PROVE IndInv
  OBVIOUS
<1>1. TypeOK
  <2>1. <<>> \in Seq(Items) /\ <<>> \in Seq(Sealings)
    BY EmptySeq
  <2>2. queue \in Seq(Items) /\ todo \in Seq(Items) /\ failed \in Seq(Items)
        /\ emitted \in Seq(Sealings)
    BY <2>1 DEF Init
  <2>3. created \in 0 .. MaxItems
    BY QueueBounds DEF Init
  <2>4. /\ open \in Conversations \cup {None} /\ sealing \in Sealings \cup {None}
        /\ connected \in BOOLEAN /\ online \in BOOLEAN /\ flushing \in BOOLEAN
        /\ during \in SUBSET Ids
    BY DEF Init
  <2> QED
    BY <2>2, <2>3, <2>4 DEF TypeOK
<1>2. /\ open \in Conversations /\ created = 0 /\ queue = <<>> /\ todo = <<>>
      /\ failed = <<>> /\ flushing = FALSE /\ sealing = None /\ emitted = <<>> /\ during = {}
  BY DEF Init
<1>3. IdsOf(<<>>) = {} /\ Distinct(<<>>)
  BY DEF IdsOf, Distinct
<1>4. EmittedIds = {} /\ EmittedOnce
  BY <1>2 DEF EmittedIds, EmittedOnce
<1>5. WaitingIds = {} /\ 1 .. created = {}
  BY <1>2, <1>3 DEF WaitingIds
<1>6. LoopAgrees /\ WaitsOnce /\ WaitsUnsent /\ FlushHolds /\ AllKept
  BY <1>2, <1>3, <1>4, <1>5 DEF LoopAgrees, WaitsOnce, WaitsUnsent, FlushHolds, AllKept
<1> QED
  BY <1>1, <1>4, <1>6 DEF IndInv

\* The connection and the screen are not the queue's.
LEMMA OutsideKeeps ==
  ASSUME IndInv, open' \in Conversations \cup {None}, connected' \in BOOLEAN, online' \in BOOLEAN,
         UNCHANGED <<created, queue, loop, emitted, during>>
  PROVE  IndInv'
<1>1. UNCHANGED <<created, queue, flushing, todo, failed, sealing, emitted, during>>
  BY DEF loop
<1>2. TypeOK' /\ LoopAgrees' /\ EmittedOnce'
  BY <1>1 DEF IndInv, TypeOK, LoopAgrees, EmittedOnce
<1>3. WaitingIds' = WaitingIds /\ EmittedIds' = EmittedIds /\ IdsOf(queue') = IdsOf(queue)
  BY <1>1 DEF WaitingIds, EmittedIds
<1>4. WaitsOnce' /\ WaitsUnsent' /\ FlushHolds' /\ AllKept'
  BY <1>1, <1>3 DEF IndInv, WaitsOnce, WaitsUnsent, FlushHolds, AllKept
<1> QED
  BY <1>2, <1>4 DEF IndInv

\* A message is queued under a number that none had.
LEMMA EnqueueKeeps ==
  ASSUME IndInv, Enqueue
  PROVE  IndInv'
<1> DEFINE x == [id |-> created + 1, to |-> open]
<1>1. /\ open # None /\ created < MaxItems /\ created' = created + 1
      /\ queue' = Append(queue, x)
      /\ during' = IF flushing THEN during \cup {created + 1} ELSE during
      /\ UNCHANGED <<open, net, loop, emitted>>
  BY DEF Enqueue
<1>2. created \in Nat /\ MaxItems \in Nat /\ open \in Conversations /\ queue \in Seq(Items)
  BY <1>1, QueueBounds DEF IndInv, TypeOK
<1>3. x \in Items /\ x.id = created + 1
  BY <1>1, <1>2 DEF Items, Ids
<1> HIDE DEF x
<1>4. /\ queue' \in Seq(Items)
      /\ IdsOf(queue') = IdsOf(queue) \cup {created + 1}
      /\ Distinct(queue) /\ created + 1 \notin IdsOf(queue) => Distinct(queue')
  BY <1>1, <1>2, <1>3, AppendItem
<1>5. created + 1 \in Ids /\ created' \in 0 .. MaxItems
  BY <1>1, <1>2 DEF Ids
<1>6. /\ UNCHANGED <<open, connected, online, flushing, todo, failed, sealing, emitted>>
      /\ EmittedIds' = EmittedIds
  BY <1>1 DEF net, loop, EmittedIds
<1>7. TypeOK'
  BY <1>1, <1>4, <1>5, <1>6 DEF IndInv, TypeOK
<1>8. LoopAgrees' /\ EmittedOnce'
  BY <1>6 DEF IndInv, LoopAgrees, EmittedOnce
<1>9. 1 .. created' = (1 .. created) \cup {created + 1} /\ created + 1 \notin 1 .. created
  BY <1>1, <1>2
<1>10. WaitsOnce'
  <2>1. ~flushing => created + 1 \notin IdsOf(queue)
    BY <1>9 DEF IndInv, WaitsUnsent, WaitingIds
  <2> QED
    BY <1>4, <1>6, <2>1 DEF IndInv, WaitsOnce
<1>11. WaitingIds' = IF flushing THEN WaitingIds ELSE WaitingIds \cup {created + 1}
  BY <1>4, <1>6 DEF WaitingIds
<1>12. WaitsUnsent'
  BY <1>6, <1>9, <1>11 DEF IndInv, WaitsUnsent
<1>13. FlushHolds'
  BY <1>1, <1>4, <1>6, <1>11 DEF IndInv, FlushHolds
<1>14. AllKept'
  BY <1>1, <1>4, <1>6, <1>9 DEF IndInv, AllKept
<1> QED
  BY <1>7, <1>8, <1>10, <1>12, <1>13, <1>14 DEF IndInv

\* flush holds what it took from the queue.
LEMMA StartFlushKeeps ==
  ASSUME IndInv, StartFlush, connected' \in BOOLEAN, online' \in BOOLEAN,
         UNCHANGED <<open, created, queue, sealing, emitted, during>>
  PROVE  IndInv'
<1>1. CASE flushing \/ queue = <<>>
  BY <1>1, OutsideKeeps DEF StartFlush, loop, IndInv, TypeOK
<1>2. CASE ~(flushing \/ queue = <<>>)
  <2>1. ~flushing /\ queue # <<>> /\ flushing' = TRUE /\ todo' = queue /\ failed' = <<>>
    BY <1>2 DEF StartFlush
  <2>2. TypeOK'
    BY <2>1 DEF IndInv, TypeOK
  <2>3. sealing = None
    BY <2>1 DEF IndInv, LoopAgrees
  <2>4. LoopAgrees'
    BY <2>1, <2>3 DEF LoopAgrees
  <2>5. IdsOf(failed') = {} /\ Distinct(failed')
    BY <2>1 DEF IdsOf, Distinct
  <2>6. WaitsOnce'
    BY <2>1, <2>5 DEF IndInv, WaitsOnce, Distinct, IdsOf
  <2>7. WaitingIds' = WaitingIds /\ EmittedIds' = EmittedIds
    BY <2>1, <2>5 DEF WaitingIds, EmittedIds, IdsOf
  <2>8. WaitsUnsent' /\ FlushHolds' /\ AllKept' /\ EmittedOnce'
    BY <2>1, <2>7 DEF IndInv, WaitsUnsent, FlushHolds, AllKept, EmittedOnce, IdsOf
  <2> QED
    BY <2>2, <2>4, <2>6, <2>8 DEF IndInv
<1> QED
  BY <1>1, <1>2

\* The end of a flush: what it still holds becomes the queue.
LEMMA FinishKeeps ==
  ASSUME IndInv, flushing, NEW refused \in Seq(Items), Finish(refused), sealing' = None,
         Distinct(refused), IdsOf(refused) \subseteq WaitingIds,
         EmittedIds' \subseteq EmittedIds \cup WaitingIds,
         EmittedIds \subseteq EmittedIds',
         WaitingIds \subseteq IdsOf(refused) \cup EmittedIds',
         IdsOf(refused) \cap EmittedIds' = {},
         emitted' \in Seq(Sealings), EmittedOnce',
         UNCHANGED <<open, net, created, during>>
  PROVE  IndInv'
<1>1. /\ queue' = refused /\ flushing' = FALSE /\ todo' = <<>> /\ failed' = <<>>
      /\ UNCHANGED <<open, connected, online, created, during>>
  BY DEF Finish, net
<1>2. TypeOK'
  <2>1. <<>> \in Seq(Items)
    BY EmptySeq
  <2> QED
    BY <1>1, <2>1 DEF IndInv, TypeOK
<1>3. LoopAgrees'
  BY <1>1 DEF LoopAgrees
<1>4. IdsOf(<<>>) = {} /\ Distinct(<<>>)
  BY DEF IdsOf, Distinct
<1>5. WaitsOnce'
  BY <1>1, <1>4 DEF WaitsOnce
<1>6. WaitingIds' = IdsOf(refused) /\ IdsOf(queue') = IdsOf(refused)
  BY <1>1 DEF WaitingIds
<1>7. WaitsUnsent' /\ FlushHolds'
  BY <1>1, <1>6 DEF IndInv, WaitsUnsent, FlushHolds
<1>8. AllKept'
  BY <1>1, <1>6 DEF IndInv, AllKept, FlushHolds
<1> QED
  BY <1>2, <1>3, <1>5, <1>7, <1>8 DEF IndInv

\* Without a connection everything is refused.
LEMMA GiveUpKeeps ==
  ASSUME IndInv, GiveUp
  PROVE  IndInv'
<1> DEFINE refused == failed \o todo
<1>1. /\ flushing /\ sealing = None /\ Finish(refused)
      /\ UNCHANGED <<open, net, created, sealing, emitted, during>>
  BY DEF GiveUp
<1>2. /\ refused \in Seq(Items) /\ IdsOf(refused) = IdsOf(failed) \cup IdsOf(todo)
      /\ Distinct(refused)
  BY ConcatItems DEF IndInv, TypeOK, WaitsOnce
<1> HIDE DEF refused
<1>3. IdsOf(refused) = WaitingIds /\ EmittedIds' = EmittedIds
  BY <1>1, <1>2 DEF WaitingIds, EmittedIds
<1>4. emitted' \in Seq(Sealings) /\ EmittedOnce'
  BY <1>1 DEF IndInv, TypeOK, EmittedOnce
<1>5. WaitingIds \cap EmittedIds = {}
  BY DEF IndInv, WaitsUnsent
<1> QED
  BY <1>1, <1>2, <1>3, <1>4, <1>5, FinishKeeps

\* The next message goes to onFlush.
LEMMA SealKeeps ==
  ASSUME IndInv, Seal
  PROVE  IndInv'
<1> DEFINE x == [item |-> Head(todo), with |-> open]
<1>1. /\ flushing /\ sealing = None /\ sealing' = x
      /\ UNCHANGED <<open, connected, online, created, queue, flushing, todo, failed,
                     emitted, during>>
  BY DEF Seal, net
<1>2. todo # <<>> /\ Head(todo) \in Items
  BY <1>1, TailItem DEF IndInv, TypeOK, LoopAgrees, WaitsOnce
<1>3. x \in Sealings /\ x.item = Head(todo)
  BY <1>2 DEF IndInv, TypeOK, Sealings
<1> HIDE DEF x
<1>4. TypeOK'
  BY <1>1, <1>3 DEF IndInv, TypeOK
<1>5. LoopAgrees'
  BY <1>1, <1>2, <1>3 DEF LoopAgrees
<1>6. WaitingIds' = WaitingIds /\ EmittedIds' = EmittedIds /\ IdsOf(queue') = IdsOf(queue)
  BY <1>1 DEF WaitingIds, EmittedIds
<1>7. WaitsOnce' /\ WaitsUnsent' /\ FlushHolds' /\ AllKept' /\ EmittedOnce'
  BY <1>1, <1>6 DEF IndInv, WaitsOnce, WaitsUnsent, FlushHolds, AllKept, EmittedOnce
<1> QED
  BY <1>4, <1>5, <1>7 DEF IndInv

\* The loop goes on: the message it was about is refused or emitted, the others
\* stay where they are.
LEMMA GoOnKeeps ==
  ASSUME IndInv, sealing # None, sealing' = None,
         NEW refused \in Seq(Items), GoOn(refused), Distinct(refused),
         IdsOf(refused) \in {IdsOf(failed), IdsOf(failed) \cup {sealing.item.id}},
         IdsOf(refused) = IdsOf(failed) => EmittedIds' = EmittedIds \cup {sealing.item.id},
         IdsOf(refused) # IdsOf(failed) => EmittedIds' = EmittedIds,
         emitted' \in Seq(Sealings), EmittedOnce',
         UNCHANGED <<open, net, created, during>>
  PROVE  IndInv'
<1> DEFINE d == sealing.item.id
           rest == Tail(todo)
<1>1. flushing /\ todo # <<>> /\ sealing.item = Head(todo)
  BY DEF IndInv, LoopAgrees
<1>2. /\ rest \in Seq(Items) /\ d \in IdsOf(todo) /\ IdsOf(rest) = IdsOf(todo) \ {d}
      /\ Distinct(rest) /\ (Len(todo) = 1 => rest = <<>>) /\ (Len(todo) # 1 => rest # <<>>)
  BY <1>1, TailItem DEF IndInv, TypeOK, WaitsOnce
<1> HIDE DEF d, rest
<1>3. WaitingIds = IdsOf(todo) \cup IdsOf(failed) /\ WaitingIds \cap EmittedIds = {}
  BY <1>1 DEF IndInv, WaitsUnsent, WaitingIds
<1>4. IdsOf(todo) \cap IdsOf(failed) = {}
  BY DEF IndInv, WaitsOnce
<1>5. \/ IdsOf(refused) = IdsOf(failed) /\ EmittedIds' = EmittedIds \cup {d}
      \/ IdsOf(refused) = IdsOf(failed) \cup {d} /\ EmittedIds' = EmittedIds
  BY DEF d
<1>6. IdsOf(refused) \cap IdsOf(rest) = {} /\ IdsOf(refused) \cap EmittedIds' = {}
      /\ IdsOf(rest) \cap EmittedIds' = {}
  BY <1>2, <1>3, <1>4, <1>5
<1>7. IdsOf(todo) \cup IdsOf(failed) \cup EmittedIds
        = IdsOf(rest) \cup IdsOf(refused) \cup EmittedIds'
  BY <1>2, <1>5
<1>8. CASE Len(todo) = 1
  <2>1. Finish(refused) /\ IdsOf(rest) = {}
    BY <1>2, <1>8 DEF GoOn, IdsOf
  <2> QED
    BY <1>1, <1>2, <1>3, <1>5, <1>6, <1>7, <2>1, FinishKeeps
<1>9. CASE Len(todo) # 1
  <2>1. todo' = rest /\ failed' = refused /\ UNCHANGED <<queue, flushing>>
    BY <1>9 DEF GoOn, rest
  <2>2. UNCHANGED <<open, connected, online, created, during>>
    BY DEF net
  <2>3. TypeOK'
    BY <1>2, <2>1, <2>2 DEF IndInv, TypeOK
  <2>4. LoopAgrees'
    BY <1>1, <1>2, <1>9, <2>1 DEF LoopAgrees
  <2>5. WaitsOnce'
    BY <1>1, <1>2, <1>6, <2>1 DEF WaitsOnce
  <2>6. WaitingIds' = IdsOf(rest) \cup IdsOf(refused)
    BY <1>1, <2>1 DEF WaitingIds
  <2>7. IdsOf(queue') = IdsOf(queue)
    BY <2>1
  <2>8. WaitsUnsent'
    BY <1>3, <1>6, <1>7, <2>2, <2>6 DEF IndInv, WaitsUnsent
  <2>9. FlushHolds' /\ AllKept'
    BY <1>3, <1>5, <1>7, <2>2, <2>6, <2>7 DEF IndInv, FlushHolds, AllKept
  <2> QED
    BY <2>3, <2>4, <2>5, <2>8, <2>9 DEF IndInv
<1> QED
  BY <1>8, <1>9

\* The message was waiting, so it had not been emitted.
LEMMA EmitKeeps ==
  ASSUME IndInv, Emit
  PROVE  IndInv'
<1>1. /\ sealing # None /\ emitted' = Append(emitted, sealing) /\ sealing' = None
      /\ GoOn(failed) /\ UNCHANGED <<open, net, created, during>>
  BY DEF Emit
<1>2. /\ sealing \in Sealings /\ emitted \in Seq(Sealings) /\ failed \in Seq(Items)
      /\ Distinct(failed)
  BY <1>1 DEF IndInv, TypeOK, WaitsOnce
<1>3. /\ emitted' \in Seq(Sealings) /\ Len(emitted) \in Nat
      /\ DOMAIN emitted' = DOMAIN emitted \cup {Len(emitted) + 1}
      /\ \A i \in DOMAIN emitted : i # Len(emitted) + 1 /\ emitted'[i] = emitted[i]
      /\ emitted'[Len(emitted) + 1] = sealing
  BY <1>1, <1>2
<1>4. EmittedIds' = EmittedIds \cup {sealing.item.id}
  BY <1>3 DEF EmittedIds
<1>5. sealing.item.id \notin EmittedIds
  <2>1. flushing /\ sealing.item.id \in IdsOf(todo)
    BY <1>1, TailItem DEF IndInv, TypeOK, LoopAgrees, WaitsOnce
  <2> QED
    BY <2>1 DEF IndInv, WaitsUnsent, WaitingIds
<1>6. EmittedOnce'
  BY <1>3, <1>5 DEF IndInv, EmittedOnce, EmittedIds
<1> QED
  BY <1>1, <1>2, <1>3, <1>4, <1>6, GoOnKeeps

\* The message joins those that were refused.
LEMMA SealFailsKeeps ==
  ASSUME IndInv, SealFails
  PROVE  IndInv'
<1> DEFINE refused == Append(failed, sealing.item)
<1>1. /\ sealing # None /\ sealing' = None /\ GoOn(refused)
      /\ UNCHANGED <<open, net, created, emitted, during>>
  BY DEF SealFails
<1>2. sealing.item \in Items /\ failed \in Seq(Items) /\ Distinct(failed)
  BY <1>1 DEF IndInv, TypeOK, Sealings, WaitsOnce
<1>3. sealing.item.id \in IdsOf(todo)
  BY <1>1, TailItem DEF IndInv, TypeOK, LoopAgrees, WaitsOnce
<1>4. sealing.item.id \notin IdsOf(failed)
  BY <1>3 DEF IndInv, WaitsOnce
<1>5. /\ refused \in Seq(Items) /\ IdsOf(refused) = IdsOf(failed) \cup {sealing.item.id}
      /\ Distinct(refused)
  BY <1>2, <1>4, AppendItem
<1> HIDE DEF refused
<1>6. emitted' \in Seq(Sealings) /\ EmittedOnce' /\ EmittedIds' = EmittedIds
  BY <1>1 DEF IndInv, TypeOK, EmittedOnce, EmittedIds
<1> QED
  BY <1>1, <1>4, <1>5, <1>6, GoOnKeeps

LEMMA StepIndInv == IndInv /\ [Next]_vars => IndInv'
<1> SUFFICES ASSUME IndInv, [Next]_vars PROVE IndInv'
  OBVIOUS
<1>1. ASSUME NEW c \in Conversations \cup {None}, Open(c) PROVE IndInv'
  BY <1>1, OutsideKeeps DEF Open, net, IndInv, TypeOK
<1>2. ASSUME Disconnect \/ GoOffline PROVE IndInv'
  BY <1>2, OutsideKeeps DEF Disconnect, GoOffline, IndInv, TypeOK
<1>3. ASSUME Connect \/ GoOnline PROVE IndInv'
  BY <1>3, StartFlushKeeps DEF Connect, GoOnline, IndInv, TypeOK
<1>4. ASSUME UNCHANGED vars PROVE IndInv'
  BY <1>4, OutsideKeeps DEF vars, loop, IndInv, TypeOK
<1> QED
  BY <1>1, <1>2, <1>3, <1>4, EnqueueKeeps, GiveUpKeeps, SealKeeps, EmitKeeps, SealFailsKeeps
     DEF Next

LEMMA IndInvImpliesQueueInv == IndInv => QueueInv
<1> SUFFICES ASSUME IndInv PROVE KeptUnlessQueuedDuringFlush
  BY DEF IndInv, QueueInv
<1>1. \A i : i \in IdsOf(queue) => InQueue(i)
  BY DEF IdsOf, InQueue, ToSet
<1>2. \A i : i \in EmittedIds => IsEmitted(i)
  BY DEF EmittedIds, IsEmitted, ToSet
<1> QED
  BY <1>1, <1>2 DEF IndInv, AllKept, KeptUnlessQueuedDuringFlush

-----------------------------------------------------------------------------
\* However connect and online events, failing encryptions and the user's messages
\* interleave with the awaits of flush (useOfflineQueue.ts), no message is emitted
\* twice, and none is lost but what is queued while a flush runs.
THEOREM QueueSafe == Spec => []QueueInv
BY InitIndInv, StepIndInv, IndInvImpliesQueueInv, PTL DEF Spec

-----------------------------------------------------------------------------
(* Proofs about CryptoWorker, for every finite set of calls: each answer   *)
(* goes to the call it was computed for, and no request is dropped.        *)
(*                                                                         *)
(* The inductive invariant ties the four places where the number of a call *)
(* is kept - the call, `pending' and the messages both ways - to each      *)
(* other, and says of the worker's start that no request is on its way     *)
(* before the page has heard that the module is there.                     *)

Down == [op : {"init"}] \cup [op : {"call"}, id : Numbers, of : WorkerCalls]
Up == [op : {"ready", "error"}]
      \cup [op : {"answer"}, id : Numbers, of : WorkerCalls, ends : Returned]

MessagesOK == down \in Seq(Down) /\ up \in Seq(Up)

\* Each number was given to one call, in order.
Numbered == {c \in WorkerCalls : rpc[c].id # 0}
NumbersAreGiven ==
  /\ seq = Cardinality(Numbered)
  /\ \A c \in WorkerCalls : rpc[c].id <= seq
  /\ \A c, d \in WorkerCalls : rpc[c].id = rpc[d].id /\ rpc[c].id # 0 => c = d
  /\ \A c \in WorkerCalls : rpc[c].at \in {"none", "waiting"} => rpc[c].id = 0
  /\ \A c \in WorkerCalls : rpc[c].at = "posted" => rpc[c].id # 0

\* `pending' holds the calls that wait for an answer, under their numbers.
PendingIsPosted ==
  /\ \A i \in DOMAIN pending :
       /\ pending[i] \in WorkerCalls
       /\ rpc[pending[i]].at = "posted" /\ rpc[pending[i]].id = i
  /\ \A c \in WorkerCalls :
       rpc[c].at = "posted" => rpc[c].id \in DOMAIN pending /\ pending[rpc[c].id] = c

\* A request and an answer carry the number of the call they are about.
CarriesItsNumber(m) == m.op \in {"call", "answer"} => rpc[m.of].id = m.id /\ m.id # 0
MessagesCarryNumbers == \A m \in ToSet(down) \cup ToSet(up) : CarriesItsNumber(m)

\* __init__ is the first message of the worker, and requests follow only when
\* the module is there.
StartsFirst ==
  /\ worker = "none" => down = <<>>
  /\ worker = "starting" => down = <<[op |-> "init"]>>
  /\ worker \in {"loading", "up", "broken"} => \A m \in ToSet(down) : m.op = "call"
  /\ \A m \in ToSet(down) : m.op = "call" => worker = "up"
  /\ \A m \in ToSet(up) : m.op = "ready" => worker = "up"
  /\ ready = "resolved" => worker = "up"

GotOwn == \A c \in WorkerCalls : rpc[c].got \in {c, "none"}

WorkerIndInv ==
  /\ WorkerTypeOK
  /\ MessagesOK
  /\ NumbersAreGiven
  /\ PendingIsPosted
  /\ MessagesCarryNumbers
  /\ StartsFirst
  /\ GotOwn
  /\ NothingDropped

-----------------------------------------------------------------------------
(* Sequences of messages as sets.                                          *)

\* postMessage.
LEMMA AppendMessage ==
  ASSUME NEW S, NEW s \in Seq(S), NEW x \in S
  PROVE  Append(s, x) \in Seq(S) /\ ToSet(Append(s, x)) = ToSet(s) \cup {x}
<1>1. /\ Append(s, x) \in Seq(S) /\ Len(s) \in Nat
      /\ DOMAIN Append(s, x) = DOMAIN s \cup {Len(s) + 1}
      /\ \A i \in DOMAIN s : i # Len(s) + 1 /\ Append(s, x)[i] = s[i]
      /\ Append(s, x)[Len(s) + 1] = x
  OBVIOUS
<1> DEFINE new == Append(s, x)
<1> HIDE DEF new
<1>2. ToSet(new) = ToSet(s) \cup {x}
  BY <1>1 DEF ToSet, new
<1> QED
  BY <1>1, <1>2 DEF new

\* onmessage.
LEMMA TakeMessage ==
  ASSUME NEW S, NEW s \in Seq(S), s # <<>>
  PROVE  /\ Tail(s) \in Seq(S) /\ Head(s) \in S /\ Head(s) \in ToSet(s)
         /\ ToSet(s) = ToSet(Tail(s)) \cup {Head(s)}
<1> DEFINE new == Tail(s)
<1>1. /\ new \in Seq(S) /\ Head(s) = s[1] /\ Len(s) \in Nat /\ Len(s) > 0
      /\ DOMAIN s = 1 .. Len(s) /\ DOMAIN new = 1 .. (Len(s) - 1)
      /\ \A i \in DOMAIN new : new[i] = s[i + 1]
  OBVIOUS
<1>2. Head(s) \in S
  OBVIOUS
<1> HIDE DEF new
<1>3. Head(s) \in ToSet(s)
  BY <1>1 DEF ToSet
<1>4. ToSet(new) \subseteq ToSet(s)
  BY <1>1 DEF ToSet
<1>5. ASSUME NEW m \in ToSet(s) PROVE m = Head(s) \/ m \in ToSet(new)
  <2>1. PICK i \in DOMAIN s : s[i] = m
    BY DEF ToSet
  <2>2. i = 1 \/ (i - 1 \in DOMAIN new /\ new[i - 1] = s[i])
    BY <1>1, <2>1
  <2> QED
    BY <1>1, <2>1, <2>2 DEF ToSet
<1> QED
  BY <1>1, <1>2, <1>3, <1>4, <1>5 DEF new

LEMMA EmptyMessages == ToSet(<<>>) = {} /\ \A x : ToSet(<<x>>) = {x}
<1>1. ToSet(<<>>) = {}
  BY DEF ToSet
<1>2. ASSUME NEW x PROVE ToSet(<<x>>) = {x}
  <2>1. DOMAIN <<x>> = {1} /\ <<x>>[1] = x
    OBVIOUS
  <2> QED
    BY <2>1 DEF ToSet
<1> QED
  BY <1>1, <1>2

\* There is a number for every call.
LEMMA CallsAreFinite ==
  /\ Cardinality(WorkerCalls) \in Nat
  /\ \A S \in SUBSET WorkerCalls :
       /\ IsFiniteSet(S) /\ Cardinality(S) \in Nat
       /\ Cardinality(S) <= Cardinality(WorkerCalls)
<1>1. IsFiniteSet(WorkerCalls)
  BY WorkerConstants
<1> QED
  BY <1>1, FS_Subset, FS_CardinalityType

-----------------------------------------------------------------------------
LEMMA WorkerInitIndInv == WorkerInit => WorkerIndInv
<1> SUFFICES ASSUME WorkerInit PROVE WorkerIndInv
  OBVIOUS
<1>1. /\ worker = "none" /\ ready = "none" /\ seq = 0 /\ pending = <<>>
      /\ down = <<>> /\ up = <<>>
      /\ \A c \in WorkerCalls : rpc[c] = NoCallYet
      /\ rpc = [c \in WorkerCalls |-> NoCallYet]
  BY DEF WorkerInit
<1>2. 0 \in Numbers
  BY CallsAreFinite DEF Numbers
<1>3. ToSet(down) = {} /\ ToSet(up) = {} /\ DOMAIN pending = {}
  BY <1>1, EmptyMessages
<1>4. WorkerTypeOK
  BY <1>1, <1>2, <1>3 DEF WorkerTypeOK, NoCallYet, Returned
<1>5. MessagesOK
  <2>1. <<>> \in Seq(Down) /\ <<>> \in Seq(Up)
    BY EmptySeq
  <2> QED
    BY <1>1, <2>1 DEF MessagesOK
<1>6. NumbersAreGiven
  <2>1. Numbered = {}
    BY <1>1 DEF Numbered, NoCallYet
  <2> QED
    BY <1>1, <2>1, FS_EmptySet DEF NumbersAreGiven, NoCallYet
<1>7. PendingIsPosted /\ MessagesCarryNumbers /\ StartsFirst /\ GotOwn /\ NothingDropped
  BY <1>1, <1>3 DEF PendingIsPosted, MessagesCarryNumbers, StartsFirst, GotOwn,
                    NothingDropped, NoCallYet
<1> QED
  BY <1>4, <1>5, <1>6, <1>7 DEF WorkerIndInv

\* A call starts the worker or waits for it.
LEMMA CallKeeps ==
  ASSUME WorkerIndInv, NEW c \in WorkerCalls, Call(c)
  PROVE  WorkerIndInv'
<1>1. /\ rpc[c].at = "none" /\ EnsureWorker
      /\ rpc' = [rpc EXCEPT ![c].at = "waiting"]
      /\ UNCHANGED <<seq, pending, up>>
  BY DEF Call
<1>2. /\ rpc'[c].at = "waiting" /\ rpc'[c].id = rpc[c].id /\ rpc'[c].got = rpc[c].got
      /\ \A d \in WorkerCalls : d # c => rpc'[d] = rpc[d]
      /\ \A d \in WorkerCalls : rpc'[d].id = rpc[d].id /\ rpc'[d].got = rpc[d].got
  BY <1>1 DEF WorkerIndInv, WorkerTypeOK
<1>3. \/ worker = "none" /\ worker' = "starting" /\ ready' = "pending" /\ down' = <<[op |-> "init"]>>
      \/ UNCHANGED <<worker, ready, down>>
  BY <1>1 DEF EnsureWorker
<1>4. WorkerTypeOK'
  BY <1>1, <1>3 DEF WorkerIndInv, WorkerTypeOK
<1>5. /\ ToSet(down) \subseteq ToSet(down')
      /\ \A m \in ToSet(down') : m \in ToSet(down) \/ m = [op |-> "init"]
      /\ ToSet(up') = ToSet(up)
  BY <1>1, <1>3, EmptyMessages DEF WorkerIndInv, StartsFirst
<1>6. MessagesOK'
  <2>1. <<[op |-> "init"]>> \in Seq(Down)
    BY DEF Down
  <2> QED
    BY <1>1, <1>3, <2>1 DEF WorkerIndInv, MessagesOK
<1>7. NumbersAreGiven'
  <2>1. Numbered' = Numbered
    BY <1>2 DEF Numbered
  <2> QED
    BY <1>1, <1>2, <2>1 DEF WorkerIndInv, NumbersAreGiven
<1>8. PendingIsPosted'
  BY <1>1, <1>2 DEF WorkerIndInv, PendingIsPosted
<1>9. MessagesCarryNumbers'
  <2>1. \A m \in ToSet(down) \cup ToSet(up) : m.op \in {"call", "answer"} => m.of \in WorkerCalls
    BY DEF WorkerIndInv, MessagesOK, ToSet, Down, Up
  <2> QED
    BY <1>2, <1>5, <2>1 DEF WorkerIndInv, MessagesCarryNumbers, CarriesItsNumber
<1>10. StartsFirst'
  BY <1>1, <1>3, <1>5 DEF WorkerIndInv, StartsFirst
<1>11. GotOwn'
  BY <1>2 DEF WorkerIndInv, GotOwn
<1>12. NothingDropped'
  BY <1>1, <1>2, <1>5 DEF WorkerIndInv, NothingDropped
<1> QED
  BY <1>4, <1>6, <1>7, <1>8, <1>9, <1>10, <1>11, <1>12 DEF WorkerIndInv
\* A message names a call of the page.
LEMMA MessagesName ==
  ASSUME WorkerIndInv
  PROVE  /\ \A m \in ToSet(down) : m.op \in {"init", "call"} /\ (m.op = "call" => m.of \in WorkerCalls /\ m.id \in Numbers)
         /\ \A m \in ToSet(up) :
              /\ m.op \in {"ready", "error", "answer"}
              /\ m.op = "answer" => m.of \in WorkerCalls /\ m.id \in Numbers /\ m.ends \in Returned
BY DEF WorkerIndInv, MessagesOK, ToSet, Down, Up

\* A request gets a number that none had, and the worker is there.
LEMMA PostKeeps ==
  ASSUME WorkerIndInv, NEW c \in WorkerCalls, Post(c)
  PROVE  WorkerIndInv'
<1> DEFINE n == seq + 1
           x == [op |-> "call", id |-> n, of |-> c]
<1>1. /\ rpc[c].at = "waiting" /\ ready = "resolved" /\ seq' = n
      /\ pending' = [i \in DOMAIN pending \cup {n} |-> IF i = n THEN c ELSE pending[i]]
      /\ rpc' = [rpc EXCEPT ![c].at = "posted", ![c].id = n]
      /\ down' = Append(down, x)
      /\ UNCHANGED <<worker, ready, up>>
  BY DEF Post
<1>2. n \in Numbers /\ n \in Nat \ {0} /\ seq \in Nat
  <2>1. c \notin Numbered /\ Numbered \subseteq WorkerCalls
    BY <1>1 DEF WorkerIndInv, NumbersAreGiven, Numbered
  <2>2. Numbered \cup {c} \in SUBSET WorkerCalls
    BY <2>1
  <2>3. Cardinality(Numbered \cup {c}) = Cardinality(Numbered) + 1
    BY <2>1, CallsAreFinite, FS_AddElement
  <2>4. Cardinality(Numbered) + 1 <= Cardinality(WorkerCalls) /\ Cardinality(Numbered) \in Nat
    BY <2>1, <2>2, <2>3, CallsAreFinite
  <2> QED
    BY <2>4, CallsAreFinite DEF WorkerIndInv, NumbersAreGiven, Numbers
<1>3. /\ rpc'[c].at = "posted" /\ rpc'[c].id = n /\ rpc'[c].got = rpc[c].got
      /\ \A d \in WorkerCalls : d # c => rpc'[d] = rpc[d]
      /\ \A d \in WorkerCalls : rpc'[d].got = rpc[d].got
  BY <1>1 DEF WorkerIndInv, WorkerTypeOK
<1>4. rpc[c].id = 0
  BY <1>1 DEF WorkerIndInv, NumbersAreGiven
<1>5. x \in Down /\ x.op = "call" /\ x.id = n /\ x.of = c
  BY <1>2 DEF Down
<1>6. \A d \in WorkerCalls : rpc[d].id \in Nat /\ rpc[d].id <= seq
  BY CallsAreFinite DEF WorkerIndInv, NumbersAreGiven, WorkerTypeOK, Numbers
<1>7. n \notin DOMAIN pending
  BY <1>2, <1>6 DEF WorkerIndInv, PendingIsPosted
<1>8. down' \in Seq(Down) /\ ToSet(down') = ToSet(down) \cup {x} /\ ToSet(up') = ToSet(up)
  <2>1. down \in Seq(Down)
    BY DEF WorkerIndInv, MessagesOK
  <2> HIDE DEF x
  <2> QED
    BY <1>1, <1>5, <2>1, AppendMessage
<1>9. WorkerTypeOK'
  BY <1>1, <1>2 DEF WorkerIndInv, WorkerTypeOK
<1>10. MessagesOK'
  BY <1>1, <1>8 DEF WorkerIndInv, MessagesOK
<1> HIDE DEF x, n
<1>11. NumbersAreGiven'
  <2>1. Numbered' = Numbered \cup {c} /\ c \notin Numbered /\ Numbered \in SUBSET WorkerCalls
    BY <1>2, <1>3, <1>4 DEF Numbered
  <2>2. Cardinality(Numbered') = Cardinality(Numbered) + 1
    BY <2>1, CallsAreFinite, FS_AddElement
  <2>3. seq' = Cardinality(Numbered')
    BY <1>1, <2>2 DEF WorkerIndInv, NumbersAreGiven, n
  <2>4. \A d \in WorkerCalls : rpc'[d].id <= seq'
    <3>1. seq' = n /\ n = seq + 1
      BY <1>1 DEF n
    <3>2. \A d \in WorkerCalls : rpc'[d].id = n \/ (rpc[d].id \in Nat /\ rpc'[d].id = rpc[d].id)
      BY <1>3, <1>6
    <3> QED
      BY <1>2, <1>6, <3>1, <3>2
  <2>5. \A d, e \in WorkerCalls : rpc'[d].id = rpc'[e].id /\ rpc'[d].id # 0 => d = e
    BY <1>2, <1>3, <1>6 DEF WorkerIndInv, NumbersAreGiven, n
  <2> QED
    BY <1>2, <1>3, <2>3, <2>4, <2>5 DEF WorkerIndInv, NumbersAreGiven
<1>12. PendingIsPosted'
  <2>1. /\ DOMAIN pending' = DOMAIN pending \cup {n} /\ pending'[n] = c
        /\ \A i \in DOMAIN pending : pending'[i] = pending[i]
    BY <1>1, <1>7
  <2>2. \A i \in DOMAIN pending : pending[i] # c
    BY <1>1 DEF WorkerIndInv, PendingIsPosted
  <2> QED
    BY <1>3, <2>1, <2>2 DEF WorkerIndInv, PendingIsPosted
<1>13. MessagesCarryNumbers'
  <2>1. \A m \in ToSet(down) \cup ToSet(up) :
          m.op \in {"call", "answer"} => m.of \in WorkerCalls /\ m.of # c
    BY <1>4, MessagesName DEF WorkerIndInv, MessagesCarryNumbers, CarriesItsNumber
  <2> QED
    BY <1>2, <1>3, <1>5, <1>8, <2>1 DEF WorkerIndInv, MessagesCarryNumbers, CarriesItsNumber
<1>14. StartsFirst'
  BY <1>1, <1>5, <1>8 DEF WorkerIndInv, StartsFirst
<1>15. GotOwn'
  BY <1>3 DEF WorkerIndInv, GotOwn
<1>16. NothingDropped'
  BY <1>3, <1>5, <1>8 DEF WorkerIndInv, NothingDropped
<1> QED
  BY <1>9, <1>10, <1>11, <1>12, <1>13, <1>14, <1>15, <1>16 DEF WorkerIndInv

\* A call that is refused had no number.
LEMMA RefusedKeeps ==
  ASSUME WorkerIndInv, NEW c \in WorkerCalls, Refused(c)
  PROVE  WorkerIndInv'
<1>1. /\ rpc[c].at = "waiting" /\ rpc' = [rpc EXCEPT ![c].at = "rejected"]
      /\ UNCHANGED <<worker, ready, seq, pending, down, up>>
  BY DEF Refused
<1>2. /\ rpc'[c].at = "rejected"
      /\ \A d \in WorkerCalls : d # c => rpc'[d] = rpc[d]
      /\ \A d \in WorkerCalls : rpc'[d].id = rpc[d].id /\ rpc'[d].got = rpc[d].got
  BY <1>1 DEF WorkerIndInv, WorkerTypeOK
<1>3. ToSet(up') = ToSet(up) /\ ToSet(down') = ToSet(down)
  BY <1>1
<1>4. WorkerTypeOK' /\ MessagesOK'
  BY <1>1 DEF WorkerIndInv, WorkerTypeOK, MessagesOK, Returned
<1>5. NumbersAreGiven'
  <2>1. Numbered' = Numbered
    BY <1>2 DEF Numbered
  <2> QED
    BY <1>1, <1>2, <2>1 DEF WorkerIndInv, NumbersAreGiven
<1>6. PendingIsPosted'
  BY <1>1, <1>2 DEF WorkerIndInv, PendingIsPosted
<1>7. MessagesCarryNumbers'
  BY <1>2, <1>3, MessagesName DEF WorkerIndInv, MessagesCarryNumbers, CarriesItsNumber
<1>8. StartsFirst' /\ GotOwn' /\ NothingDropped'
  BY <1>1, <1>2, <1>3 DEF WorkerIndInv, StartsFirst, GotOwn, NothingDropped
<1> QED
  BY <1>4, <1>5, <1>6, <1>7, <1>8 DEF WorkerIndInv

\* An answer ends the call it was computed for, which waits under its number.
LEMMA OnMessageKeeps ==
  ASSUME WorkerIndInv, OnMessage
  PROVE  WorkerIndInv'
<1> DEFINE m == Head(up)
<1>1. up # <<>> /\ up' = Tail(up) /\ UNCHANGED <<worker, seq, down>>
  BY DEF OnMessage
<1>2. /\ up' \in Seq(Up) /\ m \in ToSet(up) /\ ToSet(up) = ToSet(up') \cup {m}
  BY <1>1, TakeMessage DEF WorkerIndInv, MessagesOK
<1>3. MessagesOK'
  BY <1>1, <1>2 DEF WorkerIndInv, MessagesOK
<1>4. ToSet(down') = ToSet(down) /\ ToSet(up') \subseteq ToSet(up)
  BY <1>1, <1>2
<1>5. CASE m.op \in {"ready", "error"}
  <2>1. /\ Settle(IF m.op = "ready" THEN "resolved" ELSE "rejected")
        /\ UNCHANGED <<rpc, pending>>
    BY <1>5 DEF OnMessage
  <2>2. ready' = ready \/ ready' = "rejected" \/ (ready' = "resolved" /\ m.op = "ready")
    BY <2>1 DEF Settle
  <2>3. WorkerTypeOK'
    BY <1>1, <2>1, <2>2 DEF WorkerIndInv, WorkerTypeOK
  <2>4. NumbersAreGiven' /\ PendingIsPosted' /\ GotOwn'
    BY <1>1, <2>1 DEF WorkerIndInv, NumbersAreGiven, Numbered, PendingIsPosted, GotOwn
  <2>5. MessagesCarryNumbers'
    BY <1>4, <2>1 DEF WorkerIndInv, MessagesCarryNumbers, CarriesItsNumber
  <2>6. StartsFirst'
    BY <1>1, <1>2, <1>4, <2>2 DEF WorkerIndInv, StartsFirst
  <2>7. NothingDropped'
    BY <1>2, <1>4, <1>5, <2>1 DEF WorkerIndInv, NothingDropped
  <2> QED
    BY <1>3, <2>3, <2>4, <2>5, <2>6, <2>7 DEF WorkerIndInv
<1>6. CASE m.op \notin {"ready", "error"}
  <2>1. /\ m.op = "answer" /\ m.of \in WorkerCalls /\ m.id \in Numbers /\ m.ends \in Returned
        /\ rpc[m.of].id = m.id /\ m.id # 0
    BY <1>2, <1>6, MessagesName DEF WorkerIndInv, MessagesCarryNumbers, CarriesItsNumber
  <2>2. /\ pending' = [i \in DOMAIN pending \ {m.id} |-> pending[i]]
        /\ rpc' = IF m.id \in DOMAIN pending
                  THEN [rpc EXCEPT ![pending[m.id]].at = m.ends, ![pending[m.id]].got = m.of]
                  ELSE rpc
        /\ UNCHANGED ready
    BY <1>6 DEF OnMessage
  <2>3. /\ m.id \in DOMAIN pending => pending[m.id] = m.of
        /\ \A i \in DOMAIN pending \ {m.id} : pending[i] \in WorkerCalls \ {m.of}
    BY <2>1 DEF WorkerIndInv, PendingIsPosted, NumbersAreGiven
  <2>4. /\ \A d \in WorkerCalls : d # m.of => rpc'[d] = rpc[d]
        /\ \A d \in WorkerCalls : rpc'[d].id = rpc[d].id
        /\ rpc'[m.of].got \in {rpc[m.of].got, m.of}
        /\ rpc'[m.of].at \in {rpc[m.of].at, m.ends}
        /\ m.id \in DOMAIN pending => rpc'[m.of].at = m.ends
    BY <2>1, <2>2, <2>3 DEF WorkerIndInv, WorkerTypeOK
  <2>5. rpc'[m.of].at # "posted"
    BY <2>1, <2>2, <2>4 DEF WorkerIndInv, PendingIsPosted, Returned
  <2>6. rpc' = [rpc EXCEPT ![m.of].at = m.ends, ![m.of].got = m.of] \/ rpc' = rpc
    BY <2>1, <2>2, <2>3
  <2>7. WorkerTypeOK'
    <3>1. DOMAIN pending' \subseteq Numbers
      BY <2>2 DEF WorkerIndInv, WorkerTypeOK
    <3>2. rpc' \in [WorkerCalls -> [at : {"none", "waiting", "posted"} \cup Returned,
                                   id : Numbers, got : WorkerCalls \cup {"none"}]]
      BY <2>1, <2>6 DEF WorkerIndInv, WorkerTypeOK
    <3> QED
      BY <1>1, <2>2, <3>1, <3>2 DEF WorkerIndInv, WorkerTypeOK
  <2>8. NumbersAreGiven'
    <3>1. Numbered' = Numbered
      BY <2>4 DEF Numbered
    <3>2. \A d \in WorkerCalls : rpc'[d].at \in {"none", "waiting"} => rpc'[d].id = 0
      BY <2>1, <2>4 DEF WorkerIndInv, NumbersAreGiven, Returned
    <3> QED
      BY <1>1, <2>4, <2>5, <3>1, <3>2 DEF WorkerIndInv, NumbersAreGiven
  <2>9. PendingIsPosted'
    <3>1. /\ DOMAIN pending' = DOMAIN pending \ {m.id}
          /\ \A i \in DOMAIN pending' : pending'[i] = pending[i]
      BY <2>2
    <3>2. \A d \in WorkerCalls : d # m.of /\ rpc[d].at = "posted" => rpc[d].id # m.id
      BY <2>1 DEF WorkerIndInv, NumbersAreGiven
    <3> QED
      BY <2>3, <2>4, <2>5, <3>1, <3>2 DEF WorkerIndInv, PendingIsPosted
  <2>10. MessagesCarryNumbers'
    BY <1>4, <2>4, MessagesName DEF WorkerIndInv, MessagesCarryNumbers, CarriesItsNumber
  <2>11. StartsFirst'
    BY <1>1, <1>4, <2>2 DEF WorkerIndInv, StartsFirst
  <2>12. GotOwn'
    BY <2>4 DEF WorkerIndInv, GotOwn
  <2>13. NothingDropped'
    <3>1. SUFFICES ASSUME NEW d \in WorkerCalls, rpc'[d].at = "posted"
                   PROVE  \E x \in ToSet(down') \cup ToSet(up') :
                            x.op \in {"call", "answer"} /\ x.id = rpc'[d].id
      BY DEF NothingDropped
    <3>2. d # m.of /\ rpc[d].at = "posted" /\ rpc'[d].id = rpc[d].id
      BY <2>4, <2>5, <3>1
    <3>3. rpc[d].id # m.id
      BY <2>1, <3>2 DEF WorkerIndInv, NumbersAreGiven
    <3> QED
      BY <1>2, <1>4, <3>2, <3>3 DEF WorkerIndInv, NothingDropped
  <2> QED
    BY <1>3, <2>7, <2>8, <2>9, <2>10, <2>11, <2>12, <2>13 DEF WorkerIndInv
<1> QED
  BY <1>5, <1>6

\* The script cannot be loaded: nobody has heard that the module is there.
LEMMA OnErrorKeeps ==
  ASSUME WorkerIndInv, OnError
  PROVE  WorkerIndInv'
<1>1. /\ worker = "starting" /\ worker' = "absent"
      /\ ready' = IF ready = "pending" THEN "rejected" ELSE ready
      /\ UNCHANGED <<rpc, seq, pending, down, up>>
  BY DEF OnError, Settle
<1>2. ToSet(up') = ToSet(up) /\ ToSet(down') = ToSet(down)
  BY <1>1
<1>3. WorkerTypeOK' /\ MessagesOK' /\ NumbersAreGiven' /\ PendingIsPosted' /\ GotOwn'
  BY <1>1 DEF WorkerIndInv, WorkerTypeOK, MessagesOK, NumbersAreGiven, Numbered, PendingIsPosted, GotOwn
<1>4. MessagesCarryNumbers' /\ NothingDropped'
  BY <1>1, <1>2 DEF WorkerIndInv, MessagesCarryNumbers, CarriesItsNumber, NothingDropped
<1>5. StartsFirst'
  BY <1>1, <1>2 DEF WorkerIndInv, StartsFirst
<1> QED
  BY <1>3, <1>4, <1>5 DEF WorkerIndInv

\* The worker takes __init__, the only message it can have been sent.
LEMMA TakeInitKeeps ==
  ASSUME WorkerIndInv, TakeInit
  PROVE  WorkerIndInv'
<1>1. /\ worker = "starting" /\ worker' = "loading" /\ down' = Tail(down)
      /\ UNCHANGED <<ready, rpc, seq, pending, up>>
  BY DEF TakeInit
<1>2. down = <<[op |-> "init"]>>
  BY <1>1 DEF WorkerIndInv, StartsFirst
<1>3. down' = <<>>
  BY <1>1, <1>2
<1>4. ToSet(down') = {} /\ ToSet(up') = ToSet(up)
  BY <1>1, <1>3, EmptyMessages
<1>5. ToSet(down) = {[op |-> "init"]}
  BY <1>2, EmptyMessages
<1>6. MessagesOK'
  BY <1>1, <1>3, EmptySeq DEF WorkerIndInv, MessagesOK
<1>7. WorkerTypeOK' /\ NumbersAreGiven' /\ PendingIsPosted' /\ GotOwn'
  BY <1>1 DEF WorkerIndInv, WorkerTypeOK, NumbersAreGiven, Numbered, PendingIsPosted, GotOwn
<1>8. MessagesCarryNumbers'
  BY <1>1, <1>4 DEF WorkerIndInv, MessagesCarryNumbers, CarriesItsNumber
<1>9. NothingDropped'
  BY <1>1, <1>4, <1>5 DEF WorkerIndInv, NothingDropped
<1>10. StartsFirst'
  BY <1>1, <1>4 DEF WorkerIndInv, StartsFirst
<1> QED
  BY <1>6, <1>7, <1>8, <1>9, <1>10 DEF WorkerIndInv

\* The module is there or not, and the page is told.
LEMMA LoadedKeeps ==
  ASSUME WorkerIndInv, Loaded
  PROVE  WorkerIndInv'
<1>1. PICK ok \in BOOLEAN :
        /\ worker' = IF ok THEN "up" ELSE "broken"
        /\ up' = Append(up, [op |-> IF ok THEN "ready" ELSE "error"])
  BY DEF Loaded
<1>2. worker = "loading" /\ UNCHANGED <<ready, rpc, seq, pending, down>>
  BY DEF Loaded
<1> DEFINE x == [op |-> IF ok THEN "ready" ELSE "error"]
<1>3. x \in Up /\ x.op \in {"ready", "error"} /\ (x.op = "ready" <=> ok)
  BY DEF Up
<1> HIDE DEF x
<1>4. up' \in Seq(Up) /\ ToSet(up') = ToSet(up) \cup {x} /\ ToSet(down') = ToSet(down)
  BY <1>1, <1>2, <1>3, AppendMessage DEF WorkerIndInv, MessagesOK, x
<1>5. MessagesOK'
  BY <1>2, <1>4 DEF WorkerIndInv, MessagesOK
<1>6. WorkerTypeOK' /\ NumbersAreGiven' /\ PendingIsPosted' /\ GotOwn'
  BY <1>1, <1>2 DEF WorkerIndInv, WorkerTypeOK, NumbersAreGiven, Numbered, PendingIsPosted, GotOwn
<1>7. MessagesCarryNumbers'
  BY <1>2, <1>3, <1>4 DEF WorkerIndInv, MessagesCarryNumbers, CarriesItsNumber
<1>8. NothingDropped'
  BY <1>2, <1>4 DEF WorkerIndInv, NothingDropped
<1>9. StartsFirst'
  BY <1>1, <1>2, <1>3, <1>4 DEF WorkerIndInv, StartsFirst
<1> QED
  BY <1>5, <1>6, <1>7, <1>8, <1>9 DEF WorkerIndInv

\* A request is taken by a worker that has its module, and answered.
LEMMA ServeKeeps ==
  ASSUME WorkerIndInv, Serve
  PROVE  WorkerIndInv'
<1> DEFINE r == Head(down)
<1>1. /\ worker \in {"loading", "up", "broken"} /\ down # <<>> /\ down' = Tail(down)
      /\ UNCHANGED <<worker, ready, rpc, seq, pending>>
  BY DEF Serve
<1>2. /\ down' \in Seq(Down) /\ r \in ToSet(down) /\ ToSet(down) = ToSet(down') \cup {r}
  BY <1>1, TakeMessage DEF WorkerIndInv, MessagesOK
<1>3. r.op = "call" /\ worker = "up"
  BY <1>1, <1>2 DEF WorkerIndInv, StartsFirst
<1>4. r.of \in WorkerCalls /\ r.id \in Numbers /\ rpc[r.of].id = r.id /\ r.id # 0
  BY <1>2, <1>3, MessagesName DEF WorkerIndInv, MessagesCarryNumbers, CarriesItsNumber
<1>5. PICK ends \in Outcomes(r.of) :
        up' = Append(up, [op |-> "answer", id |-> r.id, of |-> r.of, ends |-> ends])
  BY <1>3 DEF Serve, Dispatch
<1> DEFINE x == [op |-> "answer", id |-> r.id, of |-> r.of, ends |-> ends]
<1>6. x \in Up /\ x.op = "answer" /\ x.id = r.id /\ x.of = r.of
  BY <1>4 DEF Up, Outcomes, Returned
<1> HIDE DEF x, r
<1>7. up' \in Seq(Up) /\ ToSet(up') = ToSet(up) \cup {x}
  BY <1>5, <1>6, AppendMessage DEF WorkerIndInv, MessagesOK, x
<1>8. MessagesOK'
  BY <1>2, <1>7 DEF MessagesOK
<1>9. WorkerTypeOK' /\ NumbersAreGiven' /\ PendingIsPosted' /\ GotOwn'
  BY <1>1 DEF WorkerIndInv, WorkerTypeOK, NumbersAreGiven, Numbered, PendingIsPosted, GotOwn
<1>10. MessagesCarryNumbers'
  BY <1>1, <1>2, <1>4, <1>6, <1>7 DEF WorkerIndInv, MessagesCarryNumbers, CarriesItsNumber
<1>11. NothingDropped'
  BY <1>1, <1>2, <1>6, <1>7 DEF WorkerIndInv, NothingDropped
<1>12. StartsFirst'
  BY <1>1, <1>2, <1>3, <1>6, <1>7 DEF WorkerIndInv, StartsFirst
<1> QED
  BY <1>8, <1>9, <1>10, <1>11, <1>12 DEF WorkerIndInv

LEMMA WorkerNextKeeps == WorkerIndInv /\ [WorkerNext]_workerVars => WorkerIndInv'
<1> SUFFICES ASSUME WorkerIndInv, [WorkerNext]_workerVars PROVE WorkerIndInv'
  OBVIOUS
<1>1. ASSUME NEW c \in WorkerCalls, Call(c) PROVE WorkerIndInv'
  BY <1>1, CallKeeps
<1>2. ASSUME NEW c \in WorkerCalls, Post(c) PROVE WorkerIndInv'
  BY <1>2, PostKeeps
<1>3. ASSUME NEW c \in WorkerCalls, Refused(c) PROVE WorkerIndInv'
  BY <1>3, RefusedKeeps
<1>4. CASE OnMessage
  BY <1>4, OnMessageKeeps
<1>5. CASE OnError
  BY <1>5, OnErrorKeeps
<1>6. CASE TakeInit
  BY <1>6, TakeInitKeeps
<1>7. CASE Loaded
  BY <1>7, LoadedKeeps
<1>8. CASE Serve
  BY <1>8, ServeKeeps
<1>9. CASE UNCHANGED workerVars
  <2>1. UNCHANGED <<worker, ready, rpc, seq, pending, down, up>>
    BY <1>9 DEF workerVars
  <2> QED
    BY <2>1 DEF WorkerIndInv, WorkerTypeOK, MessagesOK, NumbersAreGiven, Numbered, PendingIsPosted,
                GotOwn, MessagesCarryNumbers, CarriesItsNumber, NothingDropped, StartsFirst
<1> QED
  BY <1>1, <1>2, <1>3, <1>4, <1>5, <1>6, <1>7, <1>8, <1>9 DEF WorkerNext

\* Every answer goes to the call it was computed for, and only calls that wait
\* for one are in the map: a number under which a returned call were still
\* pending would be that of a call that has been posted and has not returned.
LEMMA WorkerIndInvGivesWorkerInv == WorkerIndInv => WorkerInv
BY DEF WorkerIndInv, WorkerInv, AnswersItsCall, GotOwn, PendingIsPosted, Returned

\* The calls of `wasm' over the worker, for any finite set of calls, however
\* they overlap with each other and with the worker's start: each returns what
\* was computed for it, leaves nothing in `pending', and has its request or its
\* answer under way until then (call and onmessage of cryptoWorkerClient.ts).
THEOREM WorkerSafe == WorkerSpec => []WorkerInv
<1>1. WorkerInit => WorkerIndInv
  BY WorkerInitIndInv
<1>2. WorkerIndInv /\ [WorkerNext]_workerVars => WorkerIndInv'
  BY WorkerNextKeeps
<1>3. WorkerIndInv => WorkerInv
  BY WorkerIndInvGivesWorkerInv
<1> QED
  BY <1>1, <1>2, <1>3, PTL DEF WorkerSpec

\* A request never reaches a worker that has no module: what Serve would drop
\* (crypto.worker.ts, `if (!mod)' of its onmessage) is never sent.
THEOREM RequestsFindTheModule ==
  WorkerSpec => [](\A m \in ToSet(down) : m.op = "call" => worker = "up")
<1>1. WorkerInit => WorkerIndInv
  BY WorkerInitIndInv
<1>2. WorkerIndInv /\ [WorkerNext]_workerVars => WorkerIndInv'
  BY WorkerNextKeeps
<1>3. WorkerIndInv => \A m \in ToSet(down) : m.op = "call" => worker = "up"
  BY DEF WorkerIndInv, StartsFirst
<1> QED
  BY <1>1, <1>2, <1>3, PTL DEF WorkerSpec

-----------------------------------------------------------------------------
(* Push subscriptions.                                                     *)

\* A call whose answer somebody waits for is of the user whose page is open.
OwnJobs ==
  \A j \in Jobs :
    /\ jobs[j].own => tab.user # Nobody /\ jobs[j].user = tab.user
    /\ jobs[j].at \in {"get", "answer"} => jobs[j].own
    /\ jobs[j].at = "none" => ~jobs[j].own
    /\ jobs[j].at \in {"post", "answer"} => jobs[j].endpoint \in Endpoints

\* What is about to be answered has been written.
AnswersWritten ==
  \A j \in Jobs : jobs[j].at = "answer" /\ jobs[j].endpoint \notin spoilt =>
                    rows[jobs[j].endpoint] = jobs[j].user

SubscribedIsOpen ==
  /\ tab.listens \/ tab.subscribed => tab.user # Nobody
  /\ tab.subscribed => tab.endpoint \in Endpoints

PushIndInv == PushTypeOK /\ OwnJobs /\ AnswersWritten /\ SubscribedIsOpen /\ SubscribedHasRow

JobType == [at : {"none", "get", "post", "answer"}, user : Users \cup {Nobody},
            endpoint : 0 .. MaxEndpoints, own : BOOLEAN]
TabType == [user : Users \cup {Nobody}, permission : {"idle", "granted", "denied"},
            registered : BOOLEAN, listens : BOOLEAN, subscribed : BOOLEAN,
            endpoint : 0 .. MaxEndpoints]
BrowserType == [permission : {"default", "granted", "denied"}, sub : 0 .. MaxEndpoints,
                made : 0 .. MaxEndpoints]

LEMMA PushTypes ==
  /\ NoJob \in JobType
  /\ ClosedTab \in TabType
  /\ PushTypeOK <=> /\ browser \in BrowserType /\ tab \in TabType /\ jobs \in [Jobs -> JobType]
                    /\ rows \in [Endpoints -> Users \cup {Nobody}] /\ spoilt \subseteq Endpoints
  /\ PushTypeOK' <=> /\ browser' \in BrowserType /\ tab' \in TabType /\ jobs' \in [Jobs -> JobType]
                     /\ rows' \in [Endpoints -> Users \cup {Nobody}] /\ spoilt' \subseteq Endpoints
<1>1. NoJob \in JobType /\ ClosedTab \in TabType
  BY PushConstants DEF NoJob, JobType, ClosedTab, TabType
<1> QED
  BY <1>1 DEF PushTypeOK, BrowserType, TabType, JobType

LEMMA PushInitially == PushInit => PushIndInv
BY PushConstants DEF PushInit, PushIndInv, PushTypeOK, OwnJobs, AnswersWritten, SubscribedIsOpen,
                     SubscribedHasRow, ClosedTab, NoJob, Endpoints

LEMMA EnsureKeeps ==
  ASSUME PushIndInv, tab.user # Nobody, EnsureSubscription(tab.user),
         UNCHANGED <<rows, spoilt>>, tab'.user = tab.user
  PROVE  jobs' \in [Jobs -> JobType] /\ OwnJobs' /\ AnswersWritten'
<1> USE DEF PushIndInv
<1> DEFINE New == [NoJob EXCEPT !.at = "get", !.user = tab.user, !.own = TRUE]
<1>1. PICK j \in Jobs : jobs' = [jobs EXCEPT ![j] = New]
  BY DEF EnsureSubscription
<1>2. New \in JobType /\ jobs \in [Jobs -> JobType]
  BY PushTypes, PushConstants DEF NoJob, JobType, TabType
<1>3. New.at = "get" /\ New.user = tab.user /\ New.own
  BY DEF NoJob
<1> HIDE DEF New
<1>4. jobs' \in [Jobs -> JobType]
  BY <1>1, <1>2
<1>5. OwnJobs'
  BY <1>1, <1>2, <1>3 DEF OwnJobs, Endpoints
<1>6. AnswersWritten'
  BY <1>1, <1>2, <1>3 DEF AnswersWritten
<1> QED
  BY <1>4, <1>5, <1>6

LEMMA PushStep == PushIndInv /\ [PushNext]_pushVars => PushIndInv'
<1> SUFFICES ASSUME PushIndInv, [PushNext]_pushVars PROVE PushIndInv'
  OBVIOUS
<1> USE DEF PushIndInv
<1> USE PushTypes
<1>0. /\ MaxEndpoints \in Nat /\ 0 \in 0 .. MaxEndpoints
      /\ browser \in BrowserType /\ jobs \in [Jobs -> JobType]
  BY PushConstants DEF PushConstants
<1>1. ASSUME NEW u \in Users, OpenChat(u) PROVE PushIndInv'
  <2>1. PushTypeOK'
    BY <1>1, PushConstants DEF PushConstants, OpenChat, ClosedTab, TabType
  <2>2. OwnJobs'
    BY <1>1 DEF OwnJobs, OpenChat, ClosedTab
  <2>3. AnswersWritten'
    BY <1>1 DEF OwnJobs, AnswersWritten, OpenChat, ClosedTab
  <2>4. SubscribedIsOpen'
    BY <1>1, PushConstants DEF PushConstants, OwnJobs, SubscribedIsOpen, OpenChat, ClosedTab
  <2>5. SubscribedHasRow'
    BY <1>1 DEF OwnJobs, AnswersWritten, SubscribedIsOpen, SubscribedHasRow, OpenChat, ClosedTab
  <2> QED
    BY <2>1, <2>2, <2>3, <2>4, <2>5
<1>2. CASE LeaveChat
  <2>1. PushTypeOK'
    BY <1>2, PushConstants DEF PushConstants, LeaveChat, ClosedTab, NoJob, JobType
  <2>2. OwnJobs'
    BY <1>2 DEF OwnJobs, LeaveChat, ClosedTab, NoJob
  <2>3. AnswersWritten'
    BY <1>2 DEF OwnJobs, AnswersWritten, LeaveChat, ClosedTab, NoJob
  <2>4. SubscribedIsOpen'
    BY <1>2 DEF OwnJobs, SubscribedIsOpen, LeaveChat, ClosedTab, NoJob
  <2>5. SubscribedHasRow'
    BY <1>2 DEF OwnJobs, AnswersWritten, SubscribedIsOpen, SubscribedHasRow, LeaveChat, ClosedTab, NoJob
  <2> QED
    BY <2>1, <2>2, <2>3, <2>4, <2>5
<1>3. CASE Registered
  <2>1. PushTypeOK'
    BY <1>3, PushConstants DEF PushConstants, Registered, TabType, BrowserType
  <2>2. OwnJobs'
    BY <1>3 DEF OwnJobs, Registered
  <2>3. AnswersWritten'
    BY <1>3 DEF OwnJobs, AnswersWritten, Registered
  <2>4. SubscribedIsOpen'
    BY <1>3 DEF OwnJobs, SubscribedIsOpen, Registered
  <2>5. SubscribedHasRow'
    BY <1>3 DEF OwnJobs, AnswersWritten, SubscribedIsOpen, SubscribedHasRow, Registered
  <2> QED
    BY <2>1, <2>2, <2>3, <2>4, <2>5
<1>4. CASE TokenChanges
  <2>1. /\ tab.user # Nobody /\ EnsureSubscription(tab.user)
        /\ UNCHANGED <<browser, tab, rows, spoilt>>
    BY <1>4 DEF TokenChanges, SubscribedIsOpen
  <2>2. jobs' \in [Jobs -> JobType] /\ OwnJobs' /\ AnswersWritten'
    BY <2>1, EnsureKeeps
  <2>3. PushTypeOK'
    BY <2>1, <2>2 DEF Endpoints
  <2> QED
    BY <2>1, <2>2, <2>3 DEF SubscribedIsOpen, SubscribedHasRow, Endpoints
<1>5. ASSUME NEW p \in {"default", "granted", "denied"}, RequestPermission(p) PROVE PushIndInv'
  <2>1. /\ tab.user # Nobody /\ browser' = [browser EXCEPT !.permission = p]
        /\ UNCHANGED <<rows, spoilt>>
        /\ \/ tab' = [tab EXCEPT !.permission = "granted", !.subscribed = FALSE]
           \/ tab' = [tab EXCEPT !.permission = "denied"]
        /\ \/ EnsureSubscription(tab.user)
           \/ UNCHANGED jobs
    BY <1>5 DEF RequestPermission
  <2>2. tab' \in TabType /\ browser' \in BrowserType
    BY <2>1 DEF TabType, BrowserType
  <2>3. /\ tab'.user = tab.user /\ tab'.listens = tab.listens /\ tab'.endpoint = tab.endpoint
        /\ tab'.subscribed => tab.subscribed
    BY <2>1 DEF TabType
  <2>4. jobs' \in [Jobs -> JobType] /\ OwnJobs' /\ AnswersWritten'
    <3>1. CASE EnsureSubscription(tab.user)
      BY <2>1, <2>3, <3>1, EnsureKeeps
    <3>2. CASE UNCHANGED jobs
      BY <2>1, <2>3, <3>2 DEF OwnJobs, AnswersWritten, Endpoints
    <3> QED
      BY <2>1, <3>1, <3>2
  <2>5. PushTypeOK'
    BY <2>1, <2>2, <2>4 DEF Endpoints
  <2>6. SubscribedIsOpen' /\ SubscribedHasRow'
    BY <2>1, <2>3 DEF SubscribedIsOpen, SubscribedHasRow, Endpoints
  <2> QED
    BY <2>4, <2>5, <2>6
<1>6. ASSUME NEW p \in {"default", "granted", "denied"}, Dropped(p) PROVE PushIndInv'
  <2>1. browser' = [browser EXCEPT !.sub = 0, !.permission = p] /\ UNCHANGED <<tab, jobs, rows, spoilt>>
    BY <1>6 DEF Dropped
  <2>2. browser' \in BrowserType
    BY <1>0, <2>1 DEF BrowserType
  <2>3. PushTypeOK'
    BY <2>1, <2>2 DEF Endpoints
  <2> QED
    BY <2>1, <2>3 DEF OwnJobs, AnswersWritten, SubscribedIsOpen, SubscribedHasRow, Endpoints
<1>7. ASSUME NEW j \in Jobs, GetSubscription(j) PROVE PushIndInv'
  <2> DEFINE e == IF browser.sub = 0 THEN browser.made + 1 ELSE browser.sub
             posted == [jobs[j] EXCEPT !.at = "post", !.endpoint = e]
  <2>1. jobs[j].at = "get" /\ UNCHANGED <<tab, rows, spoilt>>
    BY <1>7 DEF GetSubscription
  <2>2. CASE jobs' = [jobs EXCEPT ![j] = NoJob] /\ UNCHANGED browser
    <3>1. PushTypeOK'
      BY <2>1, <2>2 DEF Endpoints
    <3> QED
      BY <2>1, <2>2, <3>1 DEF OwnJobs, AnswersWritten, SubscribedIsOpen, SubscribedHasRow, Endpoints, NoJob
  <2>3. CASE /\ e <= MaxEndpoints /\ browser' = [browser EXCEPT !.sub = e, !.made = IF browser.sub = 0 THEN e ELSE @]
             /\ \/ jobs' = [jobs EXCEPT ![j] = NoJob]
                \/ jobs' = [jobs EXCEPT ![j] = posted]
    <3>1. e \in Endpoints /\ browser' \in BrowserType
      <4>1. browser.sub \in 0 .. MaxEndpoints /\ browser.made \in 0 .. MaxEndpoints
        BY <1>0 DEF BrowserType
      <4>2. e \in 1 .. MaxEndpoints /\ e \in 0 .. MaxEndpoints
        BY <1>0, <2>3, <4>1
      <4> HIDE DEF e
      <4> QED
        BY <1>0, <2>3, <4>2 DEF BrowserType, Endpoints
    <3>2. posted \in JobType /\ posted.at = "post" /\ posted.endpoint \in Endpoints
          /\ posted.own = jobs[j].own /\ posted.user = jobs[j].user
      <4>1. jobs[j] \in JobType /\ e \in 0 .. MaxEndpoints
        BY <1>0, <3>1 DEF Endpoints
      <4> HIDE DEF e
      <4> QED
        BY <3>1, <4>1 DEF JobType
    <3> HIDE DEF posted, e
    <3>3. jobs' \in [Jobs -> JobType]
      BY <2>3, <3>2
    <3>4. PushTypeOK'
      BY <2>1, <3>1, <3>3 DEF Endpoints
    <3>5. OwnJobs' /\ AnswersWritten'
      BY <2>1, <2>3, <3>2 DEF OwnJobs, AnswersWritten, NoJob, Endpoints
    <3> QED
      BY <2>1, <3>4, <3>5 DEF SubscribedIsOpen, SubscribedHasRow, Endpoints
  <2> QED
    BY <1>7, <2>2, <2>3 DEF GetSubscription, Ends
<1>8. ASSUME NEW j \in Jobs, Subscribe(j) PROVE PushIndInv'
  <2> DEFINE e == jobs[j].endpoint
             written == [jobs[j] EXCEPT !.at = "answer"]
  <2>1. /\ jobs[j].at = "post" /\ e \in Endpoints /\ UNCHANGED <<browser, tab>>
        /\ rows' = [rows EXCEPT ![e] = jobs[j].user]
    BY <1>8 DEF Subscribe, OwnJobs
  <2>2. rows' \in [Endpoints -> Users \cup {Nobody}]
    BY <2>1 DEF JobType
  <2>3. CASE /\ jobs[j].own /\ jobs' = [jobs EXCEPT ![j] = written] /\ spoilt' = spoilt \ {e}
    <3>1. written \in JobType /\ written.at = "answer" /\ written.own /\ written.user = jobs[j].user
          /\ written.endpoint = e
      BY <2>3 DEF JobType
    <3> HIDE DEF written
    <3>2. jobs' \in [Jobs -> JobType]
      BY <2>3, <3>1
    <3>3. PushTypeOK'
      BY <2>1, <2>2, <2>3, <3>2 DEF Endpoints
    <3>4. OwnJobs'
      BY <2>1, <2>3, <3>1 DEF OwnJobs, Endpoints
    <3>5. AnswersWritten'
      BY <2>1, <2>3, <3>1 DEF OwnJobs, AnswersWritten, Endpoints
    <3> QED
      BY <2>1, <2>3, <3>3, <3>4, <3>5 DEF OwnJobs, SubscribedIsOpen, SubscribedHasRow, Endpoints
  <2>4. CASE /\ ~jobs[j].own /\ jobs' = [jobs EXCEPT ![j] = NoJob] /\ spoilt' = spoilt \cup {e}
    <3>1. PushTypeOK'
      BY <2>1, <2>2, <2>4 DEF Endpoints
    <3>2. OwnJobs'
      BY <2>1, <2>4 DEF OwnJobs, NoJob, Endpoints
    <3>3. AnswersWritten'
      BY <2>1, <2>4 DEF OwnJobs, AnswersWritten, NoJob, Endpoints
    <3> QED
      BY <2>1, <2>4, <3>1, <3>2, <3>3 DEF SubscribedIsOpen, SubscribedHasRow, Endpoints
  <2> QED
    BY <1>8, <2>3, <2>4 DEF Subscribe, Ends
<1>9. ASSUME NEW j \in Jobs, PostAnswered(j) PROVE PushIndInv'
  <2>1. PushTypeOK'
    BY <1>9, PushConstants DEF PushConstants, PostAnswered, Ends, NoJob, JobType, TabType
  <2>2. OwnJobs'
    BY <1>9 DEF OwnJobs, PostAnswered, Ends, NoJob
  <2>3. AnswersWritten'
    BY <1>9 DEF OwnJobs, AnswersWritten, PostAnswered, Ends, NoJob
  <2>4. SubscribedIsOpen'
    BY <1>9 DEF OwnJobs, SubscribedIsOpen, PostAnswered, Ends, NoJob
  <2>5. SubscribedHasRow'
    BY <1>9 DEF OwnJobs, AnswersWritten, SubscribedIsOpen, SubscribedHasRow, PostAnswered, Ends, NoJob
  <2> QED
    BY <2>1, <2>2, <2>3, <2>4, <2>5
<1>10. ASSUME NEW j \in Jobs, PostLost(j) PROVE PushIndInv'
  <2>1. PushTypeOK'
    BY <1>10, PushConstants DEF PushConstants, PostLost, Ends, NoJob, JobType
  <2>2. OwnJobs'
    BY <1>10 DEF OwnJobs, PostLost, Ends, NoJob
  <2>3. AnswersWritten'
    BY <1>10 DEF OwnJobs, AnswersWritten, PostLost, Ends, NoJob
  <2>4. SubscribedIsOpen'
    BY <1>10 DEF OwnJobs, SubscribedIsOpen, PostLost, Ends, NoJob
  <2>5. SubscribedHasRow'
    BY <1>10 DEF OwnJobs, AnswersWritten, SubscribedIsOpen, SubscribedHasRow, PostLost, Ends, NoJob
  <2> QED
    BY <2>1, <2>2, <2>3, <2>4, <2>5
<1>11. ASSUME NEW e \in Endpoints, SendToGone(e) PROVE PushIndInv'
  <2>1. PushTypeOK'
    BY <1>11, PushConstants DEF PushConstants, SendToGone, Endpoints
  <2>2. OwnJobs'
    BY <1>11 DEF OwnJobs, SendToGone
  <2>3. AnswersWritten'
    BY <1>11 DEF OwnJobs, AnswersWritten, SendToGone
  <2>4. SubscribedIsOpen'
    BY <1>11 DEF OwnJobs, SubscribedIsOpen, SendToGone
  <2>5. SubscribedHasRow'
    BY <1>11 DEF OwnJobs, AnswersWritten, SubscribedIsOpen, SubscribedHasRow, SendToGone
  <2> QED
    BY <2>1, <2>2, <2>3, <2>4, <2>5
<1>12. CASE UNCHANGED pushVars
  <2>1. PushTypeOK'
    BY <1>12, PushConstants DEF PushConstants, pushVars, Endpoints
  <2>2. OwnJobs'
    BY <1>12 DEF OwnJobs, pushVars
  <2>3. AnswersWritten'
    BY <1>12 DEF OwnJobs, AnswersWritten, pushVars
  <2>4. SubscribedIsOpen'
    BY <1>12 DEF OwnJobs, SubscribedIsOpen, pushVars
  <2>5. SubscribedHasRow'
    BY <1>12 DEF OwnJobs, AnswersWritten, SubscribedIsOpen, SubscribedHasRow, pushVars
  <2> QED
    BY <2>1, <2>2, <2>3, <2>4, <2>5
<1> QED
  BY <1>1, <1>2, <1>3, <1>4, <1>5, <1>6, <1>7, <1>8, <1>9, <1>10, <1>11, <1>12 DEF PushNext

\* For any users and any number of calls: a page that believes it is subscribed
\* has the row of its endpoint, unless a request of an earlier page came late or
\* the endpoint is gone (usePushNotifications.ts, push.service.ts).
THEOREM PushSafe == PushSpec => []PushInv
<1>1. PushIndInv => PushInv
  BY DEF PushIndInv, PushInv
<1> QED
  BY <1>1, PushInitially, PushStep, PTL DEF PushSpec

-----------------------------------------------------------------------------
(* Signed URLs.                                                            *)

AskType == [no : 1 .. MaxAsks, by : Takers, of : Files, alive : BOOLEAN,
            at : {"sent", "signing", "answered", "failed"}, since : Nat, url : Urls \cup {NoUrl}]
TakenType == [url : Urls \cup {NoUrl}, at : Nat]
ImageType == [of : Files \cup {NoUrl}, shows : TakenType]
Cached == [Files -> Urls \cup {NoUrl}]

UrlTypes ==
  /\ clock \in 0 .. MaxClock /\ bucket \subseteq Files /\ removing \subseteq Files
  /\ signedCache \in Cached /\ urlCache \in Cached
  /\ asks \subseteq AskType /\ asked \in 0 .. MaxAsks /\ resigned \subseteq Files
  /\ image \in [Images -> ImageType] /\ followed \in TakenType

\* A kept URL is of its file, and is said to expire at most Delay too late.
Lasts(url, f) == url \in Urls /\ url.of = f /\ url.says <= url.ends + Delay
CachesLast ==
  \A f \in Files : /\ signedCache[f] = NoUrl \/ Lasts(signedCache[f], f)
                   /\ urlCache[f] = NoUrl \/ Lasts(urlCache[f], f)

\* Nothing is under way for longer than Delay, so that an answer is not too late.
AsksInTime ==
  \A a \in asks :
    /\ a.since <= clock /\ clock <= a.since + Delay
    /\ a.at = "signing" => a.url \in Urls /\ a.url.of = a.of /\ a.url.ends = a.since + Lifetime
    /\ a.at = "answered" => Lasts(a.url, a.of) /\ a.url.says > a.since + Buffer
    /\ a.at = "failed" => a.url = NoUrl

\* What a component waits for is the file it shows now.
AsksOwnFile == \A a \in asks : a.by \in Images /\ a.alive => a.of = image[a.by].of

\* Nothing is being signed for a file that is gone, unless that is known.
NoneSigned ==
  \A a \in asks : a.at = "signing" => a.of \in bucket \cup removing \cup resigned

UrlIndInv ==
  /\ UrlTypes /\ CachesLast /\ AsksInTime /\ AsksOwnFile /\ NoneSigned
  /\ WorksWhenTaken /\ ShowsOwnFile /\ NoneOfDeleted

LEMMA Bounds ==
  /\ Lifetime \in Nat /\ Buffer \in Nat /\ Delay \in Nat /\ MaxClock \in Nat /\ MaxAsks \in Nat
  /\ 2 * Delay <= Buffer /\ Buffer < Lifetime /\ "click" \notin Images
BY UrlConstants DEF UrlConstants

LEMMA UrlTypesSuffice == UrlTypes => UrlTypeOK
BY DEF UrlTypes, UrlTypeOK, Cached, AskType, ImageType, TakenType

LEMMA UrlInitially == UrlInit => UrlIndInv
<1> SUFFICES ASSUME UrlInit PROVE UrlIndInv
  OBVIOUS
<1> USE Bounds DEF UrlInit
<1>1. UrlTypes
  BY DEF UrlTypes, Cached, ImageType, TakenType, NothingTaken
<1>2. CachesLast /\ AsksInTime /\ AsksOwnFile /\ NoneSigned
  BY DEF CachesLast, AsksInTime, AsksOwnFile, NoneSigned
<1>3. WorksWhenTaken /\ ShowsOwnFile /\ NoneOfDeleted
  BY DEF WorksWhenTaken, ShowsOwnFile, NoneOfDeleted, NothingTaken
<1> QED
  BY <1>1, <1>2, <1>3 DEF UrlIndInv

\* A URL taken from the page's cache, or from an answer, still works.
LEMMA CachedWorks ==
  ASSUME UrlIndInv, NEW f \in Files, FreshUrl(urlCache[f])
  PROVE  /\ Taken(urlCache[f]) \in TakenType
         /\ Lasts(urlCache[f], f) /\ clock < urlCache[f].ends
<1>1. Lasts(urlCache[f], f) /\ clock \in Nat
  BY Bounds DEF UrlIndInv, CachesLast, FreshUrl, UrlTypes
<1>2. urlCache[f].says \in Nat /\ urlCache[f].ends \in Nat
  BY <1>1 DEF Lasts, Urls
<1>3. clock < urlCache[f].ends
  BY <1>1, <1>2, Bounds DEF Lasts, FreshUrl
<1> QED
  BY <1>1, <1>3 DEF Taken, TakenType, Lasts

LEMMA AnswerWorks ==
  ASSUME UrlIndInv, NEW a \in asks, a.at \in {"answered", "failed"}
  PROVE  /\ Taken(a.url) \in TakenType
         /\ a.at = "answered" => clock < a.url.ends
         /\ a.at = "failed" => a.url = NoUrl
<1>1. a \in AskType /\ clock \in Nat
  BY Bounds DEF UrlIndInv, UrlTypes
<1>2. ASSUME a.at = "answered" PROVE clock < a.url.ends
  <2>1. /\ clock <= a.since + Delay /\ a.url.says > a.since + Buffer
        /\ a.url.says <= a.url.ends + Delay /\ a.url \in Urls /\ a.since \in Nat
    BY <1>1, <1>2 DEF UrlIndInv, AsksInTime, Lasts, AskType
  <2>2. a.url.says \in Nat /\ a.url.ends \in Nat
    BY <2>1 DEF Urls
  <2> QED
    BY <1>1, <2>1, <2>2, Bounds
<1> QED
  BY <1>1, <1>2 DEF Taken, TakenType, AskType, UrlIndInv, AsksInTime

\* What a new or a changed request leaves as it was.
LEMMA AskedKeeps ==
  ASSUME UrlIndInv, NEW i \in Images, NEW f \in Files, image' = [image EXCEPT ![i].of = f],
         Ask(i, f, Orphaned(i)), UNCHANGED <<clock, bucket, signedCache, removing, urlCache, followed, resigned>>
  PROVE  UrlIndInv'
<1> DEFINE new == [no |-> asked + 1, by |-> i, of |-> f, alive |-> TRUE, at |-> "sent",
                   since |-> clock, url |-> NoUrl]
<1> USE DEF UrlIndInv
<1>1. asked < MaxAsks /\ asked' = asked + 1 /\ asks' = Orphaned(i) \cup {new} /\ new \in AskType
  BY Bounds DEF Ask, UrlTypes, AskType, Takers
<1>2. \A b \in Orphaned(i) : \E a \in asks :
        /\ b \in AskType /\ b.by = a.by /\ b.of = a.of /\ b.at = a.at /\ b.since = a.since /\ b.url = a.url
        /\ b.alive => a.alive /\ a.by # i
  BY DEF Orphaned, UrlTypes, AskType
<1>3. new.by = i /\ new.of = f /\ new.alive /\ new.at = "sent" /\ new.since = clock
  OBVIOUS
<1> HIDE DEF new
<1>4. image[i].of \in Files \cup {NoUrl} /\ image[i].shows \in TakenType /\ image' \in [Images -> ImageType]
  BY DEF UrlTypes, ImageType
<1>5. UrlTypes'
  BY <1>1, <1>2, <1>4, Bounds DEF UrlTypes
<1>6. CachesLast' /\ NoneOfDeleted'
  BY DEF CachesLast, Lasts, NoneOfDeleted
<1>7. AsksInTime'
  BY <1>1, <1>2, <1>3, Bounds DEF AsksInTime, Lasts, UrlTypes
<1>8. AsksOwnFile'
  BY <1>1, <1>2, <1>3 DEF AsksOwnFile, UrlTypes, ImageType
<1>9. NoneSigned'
  BY <1>1, <1>2, <1>3 DEF NoneSigned
<1>10. WorksWhenTaken'
  BY <1>4 DEF WorksWhenTaken, UrlTypes, ImageType
<1>11. ShowsOwnFile'
  <2> SUFFICES ASSUME NEW k \in Images, \A b \in asks' : b.by = k => ~b.alive
               PROVE  image'[k].shows.url = NoUrl \/ image'[k].shows.url.of = image'[k].of
    BY DEF ShowsOwnFile
  <2>1. k # i
    BY <1>1, <1>3
  <2>2. \A a \in asks : a.by = k => ~a.alive
    <3> SUFFICES ASSUME NEW a \in asks, a.by = k PROVE ~a.alive
      OBVIOUS
    <3>1. a \in Orphaned(i)
      BY <2>1 DEF Orphaned
    <3> QED
      BY <1>1, <3>1
  <2> QED
    BY <2>1, <2>2 DEF ShowsOwnFile, UrlTypes, ImageType
<1> QED
  BY <1>5, <1>6, <1>7, <1>8, <1>9, <1>10, <1>11

\* A component that needs to ask nobody.
LEMMA ShownKeeps ==
  ASSUME UrlIndInv, NEW i \in Images, NEW of \in Files \cup {NoUrl}, NEW taken \in TakenType,
         image' = [image EXCEPT ![i] = [of |-> of, shows |-> taken]],
         taken.url # NoUrl => taken.at < taken.url.ends /\ taken.url.of = of,
         asks' = Orphaned(i),
         UNCHANGED <<clock, bucket, signedCache, removing, asked, urlCache, followed, resigned>>
  PROVE  UrlIndInv'
<1> USE DEF UrlIndInv
<1>2. \A b \in Orphaned(i) : \E a \in asks :
        /\ b \in AskType /\ b.by = a.by /\ b.of = a.of /\ b.at = a.at /\ b.since = a.since /\ b.url = a.url
        /\ b.alive => a.alive /\ a.by # i
  BY DEF Orphaned, UrlTypes, AskType
<1>4. image' \in [Images -> ImageType]
  BY DEF UrlTypes, ImageType
<1>5. UrlTypes'
  BY <1>2, <1>4 DEF UrlTypes
<1>6. CachesLast' /\ NoneOfDeleted'
  BY DEF CachesLast, Lasts, NoneOfDeleted
<1>7. AsksInTime'
  BY <1>2 DEF AsksInTime, Lasts
<1>8. AsksOwnFile'
  BY <1>2 DEF AsksOwnFile, UrlTypes
<1>9. NoneSigned'
  BY <1>2 DEF NoneSigned
<1>10. WorksWhenTaken'
  BY DEF WorksWhenTaken, UrlTypes
<1>11. ShowsOwnFile'
  <2> SUFFICES ASSUME NEW k \in Images, \A b \in asks' : b.by = k => ~b.alive
               PROVE  image'[k].shows.url = NoUrl \/ image'[k].shows.url.of = image'[k].of
    BY DEF ShowsOwnFile
  <2>1. CASE k = i
    BY <2>1 DEF UrlTypes
  <2>2. CASE k # i
    <3>1. \A a \in asks : a.by = k => a \in Orphaned(i)
      BY <2>2 DEF Orphaned
    <3> QED
      BY <2>2, <3>1 DEF ShowsOwnFile, UrlTypes
  <2> QED
    BY <2>1, <2>2
<1> QED
  BY <1>5, <1>6, <1>7, <1>8, <1>9, <1>10, <1>11

\* The server takes a request one step further.
LEMMA ServedKeeps ==
  ASSUME UrlIndInv, NEW a \in asks, NEW at \in {"signing", "answered", "failed"}, NEW url \in Urls \cup {NoUrl},
         AskIs(a, at, url), UNCHANGED <<clock, asked, image>>,
         at = "signing" => url \in Urls /\ url.of = a.of /\ url.ends = clock + Lifetime,
         at = "answered" => Lasts(url, a.of) /\ url.says > clock + Buffer,
         at = "failed" => url = NoUrl
  PROVE  /\ asks' \subseteq AskType /\ AsksInTime' /\ AsksOwnFile' /\ (ShowsOwnFile => ShowsOwnFile')
         /\ \A b \in asks' : b.at = "signing" => b \in asks \/ (b.of = a.of /\ at = "signing")
<1> DEFINE new == [a EXCEPT !.at = at, !.url = url, !.since = clock]
<1> USE DEF UrlIndInv
<1>1. asks' = (asks \ {a}) \cup {new} /\ a \in AskType /\ clock \in Nat
  BY Bounds DEF AskIs, UrlTypes
<1>2. /\ new \in AskType /\ new.by = a.by /\ new.of = a.of /\ new.alive = a.alive
      /\ new.at = at /\ new.since = clock /\ new.url = url
  BY <1>1 DEF AskType
<1> HIDE DEF new
<1>3. asks' \subseteq AskType
  BY <1>1, <1>2 DEF UrlTypes
<1>4. AsksInTime'
  BY <1>1, <1>2, Bounds DEF AsksInTime, Lasts
<1>5. AsksOwnFile'
  BY <1>1, <1>2 DEF AsksOwnFile
<1>6. ShowsOwnFile => ShowsOwnFile'
  BY <1>1, <1>2 DEF ShowsOwnFile
<1> QED
  BY <1>1, <1>2, <1>3, <1>4, <1>5, <1>6

LEMMA UrlStep == UrlIndInv /\ [UrlNext]_urlVars => UrlIndInv'
<1> SUFFICES ASSUME UrlIndInv, [UrlNext]_urlVars PROVE UrlIndInv'
  OBVIOUS
<1> USE DEF UrlIndInv
<1>1. ASSUME NEW i \in Images, Hide(i) PROVE UrlIndInv'
  <2>1. NothingTaken \in TakenType /\ NothingTaken.url = NoUrl
    BY DEF NothingTaken, TakenType
  <2> QED
    BY <1>1, <2>1, ShownKeeps DEF Hide
<1>2. ASSUME NEW i \in Images, NEW f \in Files, Show(i, f) PROVE UrlIndInv'
  <2>1. CASE FreshUrl(urlCache[f])
    <3>1. /\ Taken(urlCache[f]) \in TakenType /\ Taken(urlCache[f]).url = urlCache[f]
          /\ Taken(urlCache[f]).at = clock /\ clock < urlCache[f].ends /\ urlCache[f].of = f
      BY <2>1, CachedWorks DEF Taken, Lasts
    <3>2. /\ image' = [image EXCEPT ![i] = [of |-> f, shows |-> Taken(urlCache[f])]]
          /\ asks' = Orphaned(i)
          /\ UNCHANGED <<clock, bucket, signedCache, removing, asked, urlCache, followed, resigned>>
      BY <1>2, <2>1 DEF Show
    <3> QED
      BY <3>1, <3>2, ShownKeeps
  <2>2. CASE ~FreshUrl(urlCache[f])
    BY <1>2, <2>2, AskedKeeps DEF Show
  <2> QED
    BY <2>1, <2>2
<1>3. ASSUME NEW f \in Files, ResolveSignedUrl(f) PROVE UrlIndInv'
  <2>1. CASE FreshUrl(urlCache[f])
    <3>1. followed' = Taken(urlCache[f]) /\ UNCHANGED <<clock, bucket, signedCache, removing, urlCache, image, resigned, asks, asked>>
      BY <1>3, <2>1 DEF ResolveSignedUrl
    <3>2. followed' \in TakenType /\ followed'.at < followed'.url.ends
      BY <2>1, <3>1, CachedWorks DEF Taken
    <3> QED
      BY <3>1, <3>2 DEF UrlTypes, CachesLast, AsksInTime, AsksOwnFile, NoneSigned, WorksWhenTaken,
                        ShowsOwnFile, NoneOfDeleted, Lasts
  <2>2. CASE ~FreshUrl(urlCache[f])
    <3> DEFINE new == [no |-> asked + 1, by |-> "click", of |-> f, alive |-> TRUE, at |-> "sent",
                       since |-> clock, url |-> NoUrl]
    <3>1. /\ asked < MaxAsks /\ asked' = asked + 1 /\ asks' = asks \cup {new}
          /\ UNCHANGED <<clock, bucket, signedCache, removing, urlCache, image, followed, resigned>>
      BY <1>3, <2>2 DEF ResolveSignedUrl, Ask
    <3>2. /\ new \in AskType /\ new.by = "click" /\ new.at = "sent" /\ new.since = clock
          /\ asked' \in 0 .. MaxAsks /\ clock \in Nat
      BY <3>1, Bounds DEF UrlTypes, AskType, Takers
    <3> HIDE DEF new
    <3>3. UrlTypes' /\ CachesLast' /\ NoneOfDeleted' /\ WorksWhenTaken'
      BY <3>1, <3>2 DEF UrlTypes, CachesLast, Lasts, NoneOfDeleted, WorksWhenTaken
    <3>4. AsksInTime' /\ AsksOwnFile' /\ NoneSigned' /\ ShowsOwnFile'
      BY <3>1, <3>2, Bounds DEF AsksInTime, Lasts, AsksOwnFile, NoneSigned, ShowsOwnFile
    <3> QED
      BY <3>3, <3>4
  <2> QED
    BY <2>1, <2>2
<1>4. ASSUME NEW f \in Files, DeleteFile(f) PROVE UrlIndInv'
  BY <1>4 DEF DeleteFile, page, UrlTypes, CachesLast, AsksInTime, AsksOwnFile, NoneSigned, WorksWhenTaken,
              ShowsOwnFile, NoneOfDeleted, Lasts
<1>5. ASSUME NEW f \in Files, ForgetFile(f) PROVE UrlIndInv'
  <2>1. /\ removing' = removing \ {f} /\ signedCache' = [signedCache EXCEPT ![f] = NoUrl]
        /\ resigned' = resigned \/ resigned' = resigned \cup {f}
        /\ (\E a \in asks : a.of = f /\ a.at = "signing") => resigned' = resigned \cup {f}
        /\ UNCHANGED <<clock, bucket, asks, asked, urlCache, image, followed>>
    BY <1>5 DEF ForgetFile, page
  <2>2. UrlTypes' /\ CachesLast'
    BY <2>1 DEF UrlTypes, Cached, CachesLast, Lasts
  <2>3. NoneOfDeleted'
    BY <2>1 DEF NoneOfDeleted, UrlTypes, Cached
  <2>4. NoneSigned'
    BY <2>1 DEF NoneSigned
  <2> QED
    BY <2>1, <2>2, <2>3, <2>4 DEF AsksInTime, AsksOwnFile, WorksWhenTaken, ShowsOwnFile, Lasts
<1>6. ASSUME NEW a \in asks, Receive(a) PROVE UrlIndInv'
  <2>1. /\ a.at \in {"answered", "failed"} /\ asks' = asks \ {a} /\ a \in AskType
        /\ UNCHANGED <<clock, bucket, signedCache, removing, asked, resigned>>
    BY <1>6 DEF Receive, UrlTypes
  <2>2. NoneSigned' /\ NoneOfDeleted'
    BY <2>1 DEF NoneSigned, NoneOfDeleted
  <2>3. CASE ~a.alive
    BY <1>6, <2>1, <2>2, <2>3 DEF Receive, page, UrlTypes, CachesLast, AsksInTime, AsksOwnFile, WorksWhenTaken,
                                  ShowsOwnFile, Lasts
  <2>4. CASE a.alive
    <3>1. /\ urlCache' = IF a.at = "answered" THEN [urlCache EXCEPT ![a.of] = a.url] ELSE urlCache
          /\ \/ /\ a.by \in Images /\ image' = [image EXCEPT ![a.by].shows = Taken(a.url)]
                /\ UNCHANGED followed
             \/ a.by \notin Images /\ a.at = "answered" /\ followed' = Taken(a.url) /\ UNCHANGED image
             \/ a.by \notin Images /\ UNCHANGED <<image, followed>>
      BY <1>6, <2>4 DEF Receive
    <3>2. /\ Taken(a.url) \in TakenType /\ Taken(a.url).url = a.url /\ Taken(a.url).at = clock
          /\ a.at = "answered" => clock < a.url.ends /\ Lasts(a.url, a.of)
          /\ a.at = "failed" => a.url = NoUrl
      BY <2>1, AnswerWorks DEF Taken, AsksInTime
    <3>3. image' \in [Images -> ImageType] /\ followed' \in TakenType /\ urlCache' \in Cached
      BY <2>1, <3>1, <3>2 DEF UrlTypes, ImageType, Cached, Lasts
    <3>4. UrlTypes'
      BY <2>1, <3>3 DEF UrlTypes
    <3>5. CachesLast'
      BY <2>1, <3>1, <3>2 DEF CachesLast, Lasts, UrlTypes, Cached
    <3>6. \A k \in Images : image'[k].of = image[k].of
      BY <3>1 DEF UrlTypes, ImageType
    <3>7. AsksInTime' /\ AsksOwnFile'
      BY <2>1, <3>6 DEF AsksInTime, AsksOwnFile, Lasts
    <3>8. WorksWhenTaken'
      BY <2>1, <3>1, <3>2 DEF WorksWhenTaken, UrlTypes, ImageType
    <3>9. ShowsOwnFile'
      <4> SUFFICES ASSUME NEW k \in Images, \A b \in asks' : b.by = k => ~b.alive
                   PROVE  image'[k].shows.url = NoUrl \/ image'[k].shows.url.of = image'[k].of
        BY DEF ShowsOwnFile
      <4>1. CASE k = a.by
        BY <2>1, <2>4, <3>1, <3>2, <4>1 DEF AsksOwnFile, UrlTypes, ImageType, Lasts
      <4>2. CASE k # a.by
        <5>1. \A b \in asks : b.by = k => ~b.alive
          BY <2>1, <4>2
        <5> QED
          BY <3>1, <4>2, <5>1 DEF ShowsOwnFile, UrlTypes, ImageType
      <4> QED
        BY <4>1, <4>2
    <3> QED
      BY <2>2, <3>4, <3>5, <3>7, <3>8, <3>9
  <2> QED
    BY <2>3, <2>4
<1>7. ASSUME NEW a \in asks, GetSignedUrl(a) PROVE UrlIndInv'
  <2> DEFINE kept == signedCache[a.of]
             fresh == [of |-> a.of, ends |-> clock + Lifetime, says |-> 0]
  <2>1. a \in AskType /\ a.of \in Files /\ clock \in Nat
    BY Bounds DEF UrlTypes, AskType
  <2>2. UNCHANGED <<clock, bucket, signedCache, removing, asked, urlCache, image, followed, resigned>>
    BY <1>7 DEF GetSignedUrl, page
  <2>3. \/ FreshUrl(kept) /\ AskIs(a, "answered", kept)
        \/ a.of \in bucket /\ AskIs(a, "signing", fresh)
        \/ AskIs(a, "failed", NoUrl)
    BY <1>7 DEF GetSignedUrl
  <2>4. FreshUrl(kept) => Lasts(kept, a.of) /\ kept.says > clock + Buffer
    BY <2>1 DEF FreshUrl, CachesLast
  <2>5. fresh \in Urls /\ fresh.of = a.of /\ fresh.ends = clock + Lifetime
    BY <2>1, Bounds DEF Urls
  <2> HIDE DEF kept, fresh
  <2>6. /\ asks' \subseteq AskType /\ AsksInTime' /\ AsksOwnFile' /\ ShowsOwnFile'
        /\ \A b \in asks' : b.at = "signing" => b \in asks \/ (b.of = a.of /\ a.of \in bucket)
    <3>1. CASE FreshUrl(kept) /\ AskIs(a, "answered", kept)
      BY <2>2, <2>4, <3>1, ServedKeeps DEF Lasts
    <3>2. CASE a.of \in bucket /\ AskIs(a, "signing", fresh)
      BY <2>2, <2>5, <3>2, ServedKeeps
    <3>3. CASE AskIs(a, "failed", NoUrl)
      BY <2>2, <3>3, ServedKeeps
    <3> QED
      BY <2>3, <3>1, <3>2, <3>3
  <2> QED
    BY <2>2, <2>6 DEF UrlTypes, CachesLast, Lasts, NoneSigned, NoneOfDeleted, WorksWhenTaken
<1>8. ASSUME NEW a \in asks, KeepSigned(a) PROVE UrlIndInv'
  <2> DEFINE signed == [a.url EXCEPT !.says = clock + Lifetime]
  <2>1. /\ a.at = "signing" /\ a \in AskType /\ clock \in Nat /\ a.since \in Nat
        /\ a.url \in Urls /\ a.url.of = a.of /\ a.url.ends = a.since + Lifetime /\ clock <= a.since + Delay
    BY <1>8, Bounds DEF KeepSigned, UrlTypes, AskType, AsksInTime
  <2>2. signed \in Urls /\ Lasts(signed, a.of) /\ signed.says > clock + Buffer
    BY <2>1, Bounds DEF Lasts, Urls
  <2>3. /\ AskIs(a, "answered", signed)
        /\ UNCHANGED <<clock, bucket, removing, asked, urlCache, image, followed, resigned>>
        /\ signedCache' \in [Files -> {signedCache[f] : f \in Files} \cup {NoUrl, signed}]
        /\ signedCache'[a.of] = signed
        /\ \A f \in Files \ {a.of} : signedCache'[f] \in {signedCache[f], NoUrl}
    BY <1>8, <2>1 DEF KeepSigned, page, AskType
  <2> HIDE DEF signed
  <2>4. /\ asks' \subseteq AskType /\ AsksInTime' /\ AsksOwnFile' /\ ShowsOwnFile'
        /\ \A b \in asks' : b.at = "signing" => b \in asks
    BY <2>2, <2>3, ServedKeeps
  <2>5. UrlTypes'
    BY <2>2, <2>3, <2>4 DEF UrlTypes, Cached
  <2>6. CachesLast'
    BY <2>1, <2>2, <2>3 DEF CachesLast, Lasts, AskType
  <2>7. NoneOfDeleted'
    BY <2>1, <2>3 DEF NoneOfDeleted, NoneSigned
  <2> QED
    BY <2>3, <2>4, <2>5, <2>6, <2>7 DEF NoneSigned, WorksWhenTaken
<1>9. ASSUME NEW a \in asks, AskFails(a) PROVE UrlIndInv'
  <2>1. AskIs(a, "failed", NoUrl) /\ UNCHANGED <<clock, bucket, signedCache, removing, asked, urlCache, image, followed, resigned>>
    BY <1>9 DEF AskFails, page
  <2>2. /\ asks' \subseteq AskType /\ AsksInTime' /\ AsksOwnFile' /\ ShowsOwnFile'
        /\ \A b \in asks' : b.at = "signing" => b \in asks
    BY <2>1, ServedKeeps
  <2> QED
    BY <2>1, <2>2 DEF UrlTypes, CachesLast, Lasts, NoneSigned, NoneOfDeleted, WorksWhenTaken
<1>10. CASE ClockTick
  <2>1. /\ clock < MaxClock /\ clock' = clock + 1 /\ \A a \in asks : clock < a.since + Delay
        /\ UNCHANGED <<bucket, signedCache, removing, asks, asked, urlCache, image, followed, resigned>>
    BY <1>10 DEF ClockTick, page
  <2>2. AsksInTime'
    BY <2>1, Bounds DEF AsksInTime, Lasts, UrlTypes, AskType
  <2> QED
    BY <2>1, <2>2, Bounds DEF UrlTypes, CachesLast, Lasts, AsksOwnFile, NoneSigned, WorksWhenTaken,
                              ShowsOwnFile, NoneOfDeleted
<1>11. CASE UNCHANGED urlVars
  BY <1>11 DEF urlVars, page, UrlTypes, CachesLast, AsksInTime, AsksOwnFile, NoneSigned, WorksWhenTaken,
               ShowsOwnFile, NoneOfDeleted, Lasts
<1> QED
  BY <1>1, <1>2, <1>3, <1>4, <1>5, <1>6, <1>7, <1>8, <1>9, <1>10, <1>11 DEF UrlNext

\* For any files, components, lifetimes and any delay within the buffer: a URL
\* works when it is taken from either cache, a component that waits for nothing
\* shows its own file, and no URL of a deleted file is kept by the server unless
\* it was being signed meanwhile (useSignedUrl.ts, upload.service.ts).
THEOREM UrlsSafe == UrlSpec => []UrlInv
<1>1. UrlIndInv => UrlInv
  BY UrlTypesSuffice DEF UrlIndInv, UrlInv
<1> QED
  BY <1>1, UrlInitially, UrlStep, PTL DEF UrlSpec

-----------------------------------------------------------------------------
(* The search within a conversation.                                       *)

TextType == [thread : Threads, word : Words, looks : Looks, gone : BOOLEAN]
BarType == [thread : Threads, open : BOOLEAN, query : Words \cup {Short}, timer : BOOLEAN,
            searching : BOOLEAN, results : SUBSET TextIds, base : SUBSET TextIds, loads : 0 .. MaxLoads]
KeptType == [thread : Threads, got : SUBSET Copies, base : SUBSET TextIds]

SearchTypes ==
  /\ texts \in Seq(TextType) /\ Len(texts) <= MaxTexts
  /\ bar \in BarType
  /\ load = Nothing \/ load \in Loads
  /\ cache \in [Threads -> KeptType \cup {Nothing}]

\* What was read is of the conversation, and of that what it should find is
\* readable or is being opened.
Covers(c, l, opening) ==
  /\ \A g \in l.got : g.id \in Of(c) /\ (g.id \in l.base => g.id \in Clear(l) \cup opening)
  /\ l.base \subseteq Of(c)

\* Each of those was read as it can be found, is gone, or is older than what was read.
Finds(l, older, opening) ==
  \A i \in l.base \ older :
    ~texts[i].gone => i \in Clear(l) \cup opening /\ \E g \in l.got : g.id = i /\ ~g.gone

\* What is kept is all that there was to read.
KeptComplete ==
  \A c \in Threads :
    cache[c] # Nothing =>
      cache[c].thread = c /\ Covers(c, cache[c], {}) /\ Finds(cache[c], {}, {})

\* The load under way answers what stands in the bar, and has read from its cursor on.
LoadsForBar ==
  load # Nothing =>
    /\ load.thread = bar.thread /\ load.query = bar.query
    /\ bar.open /\ bar.query # Short /\ ~bar.timer /\ bar.results = {} /\ bar.base = {}
    /\ Covers(load.thread, load, load.opening)
    /\ ~load.done /\ load.cursor = 0 => load.got = {} /\ load.base = {}
    /\ Finds(load, IF load.done THEN {} ELSE 1 .. (load.cursor - 1), load.opening)

\* What the load opens was read as ciphertext, and can be opened as long as it
\* should be found.
OpeningRight ==
  load # Nothing =>
    /\ \A g \in load.got : load.cursor # 0 /\ load.cursor <= g.id
    /\ \A i \in load.opening :
         /\ i \notin Clear(load) /\ \E g \in load.got : g.id = i
         /\ texts[i].looks \in {"once", "locked"}
    /\ \A i \in load.base \ Clear(load) : texts[i].looks # "locked"

\* What is shown, searching or not, unless it waits for the timer.
Shown ==
  /\ bar.timer => bar.open /\ bar.query # Short
  /\ bar.results \cup bar.base \subseteq DOMAIN texts
  /\ ~bar.timer => Complete /\ Sound

SearchIndInv == SearchTypes /\ KeptComplete /\ LoadsForBar /\ OpeningRight /\ Shown /\ Progress

LEMMA SearchBounds ==
  /\ PageSize \in Nat /\ PageSize > 0 /\ MaxTexts \in Nat /\ MaxLoads \in Nat
  /\ Short \notin Words /\ NoLoad \notin Threads
BY SearchConstants DEF SearchConstants

\* A set of numbers has a least one, and below a bound a greatest one.
LEMMA LeastOf ==
  ASSUME NEW S \in SUBSET Nat, S # {}
  PROVE  \E m \in S : \A j \in S : m <= j
<1>1. PICK m \in S : \A j \in S : ~ (<<j, m>> \in OpToRel(<, Nat))
  BY NatLessThanWellFounded, WFMin
<1>2. \A j \in S : ~ (j < m)
  BY <1>1 DEF OpToRel
<1> QED
  BY <1>2

LEMMA GreatestOf ==
  ASSUME NEW n \in Nat, NEW S \in SUBSET (1 .. n), S # {}
  PROVE  \E m \in S : \A j \in S : j <= m
<1> DEFINE T == {n - i : i \in S}
<1>0. \A i \in S : i \in Nat /\ i <= n /\ n - i \in Nat
  OBVIOUS
<1>1. T \in SUBSET Nat /\ T # {}
  BY <1>0
<1>2. PICK t \in T : \A j \in T : t <= j
  BY <1>1, LeastOf
<1>3. PICK m \in S : t = n - m
  BY <1>2
<1>4. ASSUME NEW j \in S PROVE j <= m
  <2>1. n - j \in T /\ t <= n - j
    BY <1>2
  <2> QED
    BY <2>1, <1>0, <1>3
<1> QED
  BY <1>4

\* A page of getMessages holds the newest: with a message every newer one.  One
\* that is not full holds all there are, and one that is not empty has an oldest.
LEMMA PageIsNewest ==
  ASSUME SearchTypes, NEW c \in Threads, NEW cursor \in Nat
  PROVE  LET among == {i \in Of(c) : cursor = 0 \/ i < cursor}
             newest == OlderThan(c, cursor)
         IN /\ newest \subseteq among /\ among \subseteq TextIds
            /\ \A i \in newest, j \in among : j > i => j \in newest
            /\ Cardinality(newest) < PageSize => newest = among
            /\ Cardinality(newest) >= PageSize => newest # {}
            /\ newest # {} => \E m \in newest : \A j \in newest : m <= j
<1> DEFINE among == {i \in Of(c) : cursor = 0 \/ i < cursor}
           newest == OlderThan(c, cursor)
           Newer(i) == {j \in among : j > i}
<1>1. among \subseteq 1 .. MaxTexts
  BY SearchBounds DEF SearchTypes, Of
<1>2. newest = {i \in among : Cardinality(Newer(i)) < PageSize}
  BY DEF OlderThan
<1> HIDE DEF among, newest
<1>0. \A i \in among : i \in Nat
  BY <1>1, SearchBounds
<1>3. IsFiniteSet(among)
  <2>1. IsFiniteSet(1 .. MaxTexts)
    BY FS_Interval, SearchBounds
  <2> QED
    BY <1>1, <2>1, FS_Subset
<1>4. \A S \in SUBSET among : IsFiniteSet(S) /\ Cardinality(S) \in Nat
  BY <1>3, FS_Subset, FS_CardinalityType
<1>5. ASSUME NEW i \in newest, NEW j \in among, j > i PROVE j \in newest
  <2>0. i \in Nat /\ j \in Nat
    BY <1>0, <1>2
  <2>1. Newer(i) \subseteq among /\ Newer(j) \subseteq Newer(i)
    <3>1. ASSUME NEW k \in among, k > j PROVE k > i
      BY <1>0, <1>5, <2>0, <3>1
    <3> QED
      BY <3>1
  <2>2. Cardinality(Newer(j)) <= Cardinality(Newer(i))
    BY <1>4, <2>1, FS_Subset
  <2>3. Cardinality(Newer(j)) \in Nat /\ Cardinality(Newer(i)) \in Nat
    BY <1>4, <2>1
  <2>4. Cardinality(Newer(i)) < PageSize
    BY <1>2, <1>5
  <2> HIDE DEF Newer
  <2>5. Cardinality(Newer(j)) < PageSize
    BY <2>2, <2>3, <2>4, SearchBounds
  <2> QED
    BY <1>2, <1>5, <2>5
<1>6. ASSUME Cardinality(newest) < PageSize PROVE newest = among
  <2> SUFFICES ASSUME among \ newest # {} PROVE FALSE
    BY <1>2
  <2>1. PICK m \in among \ newest : \A j \in among \ newest : j <= m
    BY <1>1, GreatestOf, SearchBounds
  <2>2. Newer(m) \subseteq newest /\ newest \subseteq among
    <3>1. ASSUME NEW j \in among, j > m PROVE j \in newest
      <4>1. m \in Nat /\ j \in Nat
        BY <1>0
      <4> QED
        BY <2>1, <3>1, <4>1
    <3> QED
      BY <1>2, <3>1
  <2>3. Cardinality(Newer(m)) <= Cardinality(newest)
    BY <1>4, <2>2, FS_Subset
  <2>4. Cardinality(Newer(m)) \in Nat /\ Cardinality(newest) \in Nat
    BY <1>4, <2>2
  <2> HIDE DEF Newer
  <2>5. Cardinality(Newer(m)) < PageSize
    BY <1>6, <2>3, <2>4, SearchBounds
  <2> QED
    BY <1>2, <2>1, <2>5
<1>7. Cardinality(newest) >= PageSize => newest # {}
  BY FS_EmptySet, SearchBounds
<1>8. newest # {} => \E m \in newest : \A j \in newest : m <= j
  <2>1. newest \subseteq Nat
    BY <1>0, <1>2
  <2> QED
    BY <2>1, LeastOf
<1>9. newest \subseteq among /\ among \subseteq TextIds
  BY <1>1, <1>2 DEF TextIds
<1> QED
  BY <1>5, <1>6, <1>7, <1>8, <1>9 DEF among, newest

LEMMA SearchInitially == SearchInit => SearchIndInv
<1> SUFFICES ASSUME SearchInit PROVE SearchIndInv
  OBVIOUS
<1>1. SearchTypes
  BY SearchBounds DEF SearchInit, SearchTypes, BarType
<1>2. KeptComplete /\ LoadsForBar /\ OpeningRight
  BY DEF SearchInit, KeptComplete, LoadsForBar, OpeningRight
<1>3. Shown /\ Progress
  BY DEF SearchInit, Shown, Progress, Complete, Sound
<1> QED
  BY <1>1, <1>2, <1>3 DEF SearchIndInv

\* What the messages may do meanwhile: more of them, more of them gone.
Grows ==
  /\ DOMAIN texts \subseteq DOMAIN texts'
  /\ \A i \in DOMAIN texts :
       /\ texts'[i].thread = texts[i].thread /\ texts'[i].word = texts[i].word
       /\ texts[i].gone => texts'[i].gone

\* ... while none that was still to be opened is used up.
Opener ==
  \A i \in DOMAIN texts :
    /\ texts[i].looks # "locked" => texts'[i].looks # "locked"
    /\ texts[i].looks \in {"once", "locked"} => texts'[i].looks \in {"once", "locked"}

\* None of which takes anything from what was read.
LEMMA GrowthCovers ==
  ASSUME Grows, NEW c \in Threads, NEW l, NEW older, NEW opening
  PROVE  /\ Covers(c, l, opening) => Covers(c, l, opening)'
         /\ Covers(c, l, opening) /\ Finds(l, older, opening) => Finds(l, older, opening)'
         /\ KeptComplete /\ UNCHANGED cache => KeptComplete'
         /\ Shown /\ UNCHANGED bar => Shown'
<1>1. \A d \in Threads : Of(d) \subseteq Of(d)' /\ Of(d) \subseteq DOMAIN texts
  BY DEF Grows, Of
<1>2. \A d \in Threads : \A k, o : Covers(d, k, o) => Covers(d, k, o)'
  BY <1>1 DEF Covers, Clear
<1>3. ASSUME NEW d \in Threads, NEW k, NEW old, NEW o, Covers(d, k, o), Finds(k, old, o)
      PROVE  Finds(k, old, o)'
  BY <1>1, <1>3 DEF Covers, Finds, Grows, Clear
<1>4. KeptComplete /\ UNCHANGED cache => KeptComplete'
  BY <1>2, <1>3 DEF KeptComplete
<1>5. Shown /\ UNCHANGED bar => Shown'
  BY DEF Shown, Complete, Sound, Grows
<1> QED
  BY <1>2, <1>3, <1>4, <1>5

LEMMA GrowthKeeps ==
  ASSUME SearchIndInv, Grows, Opener, texts' \in Seq(TextType), Len(texts') <= MaxTexts,
         UNCHANGED <<bar, load, cache>>
  PROVE  SearchIndInv'
<1> USE DEF SearchIndInv
<1>1. SearchTypes'
  BY DEF SearchTypes
<1>2. KeptComplete' /\ Shown' /\ Progress'
  <2>1. PICK c \in Threads : TRUE
    BY DEF SearchTypes, BarType
  <2> QED
    BY <2>1, GrowthCovers DEF Progress
<1>3. LoadsForBar' /\ OpeningRight'
  <2> SUFFICES ASSUME load # Nothing PROVE LoadsForBar' /\ OpeningRight'
    BY DEF LoadsForBar, OpeningRight
  <2>1. load.thread \in Threads
    BY DEF SearchTypes, Loads
  <2>2. LoadsForBar'
    BY <2>1, GrowthCovers DEF LoadsForBar
  <2>3. /\ Of(load.thread) \subseteq DOMAIN texts /\ load.base \subseteq Of(load.thread)
        /\ \A g \in load.got : g.id \in Of(load.thread)
    BY DEF Of, LoadsForBar, Covers
  <2>4. OpeningRight'
    BY <2>3 DEF OpeningRight, Opener, Clear
  <2> QED
    BY <2>2, <2>4
<1> QED
  BY <1>1, <1>2, <1>3

LEMMA WrittenKeeps ==
  ASSUME SearchIndInv, NEW c \in Threads, NEW w \in Words, NEW l \in Looks, Written(c, w, l)
  PROVE  SearchIndInv'
<1> DEFINE new == [thread |-> c, word |-> w, looks |-> l, gone |-> FALSE]
<1>1. /\ texts \in Seq(TextType) /\ Len(texts) < MaxTexts /\ texts' = Append(texts, new)
      /\ UNCHANGED <<bar, load, cache>>
  BY DEF Written, SearchIndInv, SearchTypes
<1>2. new \in TextType
  BY DEF TextType
<1> HIDE DEF new
<1>3. texts' \in Seq(TextType) /\ Len(texts') = Len(texts) + 1
  BY <1>1, <1>2
<1>4. \A i \in DOMAIN texts : i \in DOMAIN texts' /\ texts'[i] = texts[i]
  BY <1>1
<1>5. Grows /\ Opener /\ Len(texts') <= MaxTexts
  BY <1>1, <1>3, <1>4, SearchBounds DEF Grows, Opener
<1> QED
  BY <1>1, <1>3, <1>5, GrowthKeeps

\* A message is replaced by one that differs in what may change.
LEMMA TextReplaced ==
  ASSUME SearchTypes, NEW i \in DOMAIN texts, NEW new, texts' = [texts EXCEPT ![i] = new],
         \/ new = [texts[i] EXCEPT !.gone = TRUE]
         \/ \E look \in Looks : new = [texts[i] EXCEPT !.looks = look]
  PROVE  /\ texts' \in Seq(TextType) /\ Len(texts') <= MaxTexts /\ Grows
         /\ texts'[i].looks = new.looks /\ \A j \in DOMAIN texts : j # i => texts'[j] = texts[j]
         /\ new = [texts[i] EXCEPT !.gone = TRUE] => new.looks = texts[i].looks
<1>1. texts \in Seq(TextType) /\ Len(texts) <= MaxTexts /\ texts[i] \in TextType
  BY DEF SearchTypes
<1>2. /\ new \in TextType /\ new.thread = texts[i].thread /\ new.word = texts[i].word
      /\ texts[i].gone => new.gone
      /\ new = [texts[i] EXCEPT !.gone = TRUE] => new.looks = texts[i].looks
  BY <1>1 DEF TextType
<1>3. texts' \in Seq(TextType) /\ Len(texts') = Len(texts) /\ DOMAIN texts' = DOMAIN texts
  BY <1>1, <1>2
<1>4. texts'[i] = new /\ \A j \in DOMAIN texts : j # i => texts'[j] = texts[j]
  BY <1>1
<1>5. Grows
  BY <1>2, <1>3, <1>4 DEF Grows
<1> QED
  BY <1>1, <1>2, <1>3, <1>4, <1>5

LEMMA TextChangeKeeps ==
  ASSUME SearchIndInv, NEW i \in DOMAIN texts, Removed(i) \/ Readable(i)
  PROVE  SearchIndInv'
<1> DEFINE gone == [texts[i] EXCEPT !.gone = TRUE]
           openable == [texts[i] EXCEPT !.looks = "once"]
<1>1. SearchTypes /\ texts[i] \in TextType /\ UNCHANGED <<bar, load, cache>>
  BY DEF SearchIndInv, SearchTypes, Removed, Readable
<1>2. CASE Removed(i)
  <2>1. texts' = [texts EXCEPT ![i] = gone]
    BY <1>2 DEF Removed
  <2>2. /\ texts' \in Seq(TextType) /\ Len(texts') <= MaxTexts /\ Grows
        /\ \A j \in DOMAIN texts : texts'[j].looks = texts[j].looks
    <3> HIDE DEF gone
    <3>1. gone = [texts[i] EXCEPT !.gone = TRUE]
      BY DEF gone
    <3> QED
      BY <1>1, <2>1, <3>1, TextReplaced
  <2> QED
    BY <1>1, <2>2, GrowthKeeps DEF Opener
<1>3. CASE Readable(i)
  <2>1. texts' = [texts EXCEPT ![i] = openable] /\ texts[i].looks = "locked" /\ openable.looks = "once"
    BY <1>1, <1>3 DEF Readable, TextType
  <2>2. /\ texts' \in Seq(TextType) /\ Len(texts') <= MaxTexts /\ Grows
        /\ texts'[i].looks = "once" /\ \A j \in DOMAIN texts : j # i => texts'[j] = texts[j]
    <3>1. "once" \in Looks
      BY DEF Looks
    <3> HIDE DEF openable
    <3>2. openable = [texts[i] EXCEPT !.looks = "once"]
      BY DEF openable
    <3> QED
      BY <1>1, <2>1, <3>1, <3>2, TextReplaced
  <2> QED
    BY <1>1, <2>1, <2>2, GrowthKeeps DEF Opener
<1> QED
  BY <1>2, <1>3

\* A message's one opening.
LEMMA Spent ==
  ASSUME SearchTypes, NEW i \in DOMAIN texts, Spend(i)
  PROVE  /\ texts' \in Seq(TextType) /\ Len(texts') <= MaxTexts /\ Grows
         /\ texts[i].looks = "once" /\ texts'[i].looks = "locked"
         /\ \A j \in DOMAIN texts : j # i => texts'[j] = texts[j]
<1> DEFINE used == [texts[i] EXCEPT !.looks = "locked"]
<1>1. texts[i] \in TextType
  BY DEF SearchTypes
<1>2. texts' = [texts EXCEPT ![i] = used] /\ texts[i].looks = "once" /\ used.looks = "locked"
  BY <1>1 DEF Spend, TextType
<1>3. "locked" \in Looks
  BY DEF Looks
<1> HIDE DEF used
<1>4. used = [texts[i] EXCEPT !.looks = "locked"]
  BY DEF used
<1> QED
  BY <1>2, <1>3, <1>4, TextReplaced

LEMMA ElsewhereKeeps ==
  ASSUME SearchIndInv, NEW i \in DOMAIN texts, OpenedElsewhere(i)
  PROVE  SearchIndInv'
<1> USE DEF SearchIndInv
<1>1. /\ texts' \in Seq(TextType) /\ Len(texts') <= MaxTexts /\ Grows
      /\ texts[i].looks = "once" /\ texts'[i].looks = "locked"
      /\ \A j \in DOMAIN texts : j # i => texts'[j] = texts[j]
  BY Spent DEF OpenedElsewhere
<1>2. UNCHANGED <<bar, cache>>
  BY DEF OpenedElsewhere
<1>3. KeptComplete' /\ Shown'
  <2>1. PICK c \in Threads : TRUE
    BY DEF SearchTypes, BarType
  <2> QED
    BY <1>1, <1>2, <2>1, GrowthCovers
<1>4. CASE load = Nothing
  <2>1. load' = Nothing
    BY <1>4 DEF OpenedElsewhere, Without
  <2> QED
    BY <1>1, <1>2, <1>3, <1>4, <2>1 DEF SearchTypes, LoadsForBar, OpeningRight, Progress
<1>5. CASE load # Nothing
  <2>1. load \in Loads /\ load' = [load EXCEPT !.base = @ \ ({i} \ Clear(load))]
    BY <1>5 DEF OpenedElsewhere, Without, SearchTypes
  <2>2. /\ load' \in Loads /\ load'.thread = load.thread /\ load'.query = load.query
        /\ load'.cursor = load.cursor /\ load'.got = load.got /\ load'.opening = load.opening
        /\ load'.done = load.done /\ load'.base = load.base \ ({i} \ Clear(load))
        /\ load.thread \in Threads /\ load' # Nothing
    BY <2>1, SearchBounds DEF Loads, Nothing
  <2>3. Clear(load') = Clear(load)
    BY <2>2 DEF Clear
  <2>4. Covers(load.thread, load, load.opening)'
    <3>1. Covers(load.thread, load, load.opening) /\ Of(load.thread) \subseteq Of(load.thread)'
      BY <1>1, <1>5, <2>2 DEF LoadsForBar, Of, Grows
    <3> QED
      BY <2>2, <2>3, <3>1 DEF Covers, Clear
  <2>5. Finds(load, IF load.done THEN {} ELSE 1 .. (load.cursor - 1), load.opening)'
    <3>1. /\ Finds(load, IF load.done THEN {} ELSE 1 .. (load.cursor - 1), load.opening)
          /\ load.base \subseteq DOMAIN texts
      BY <1>5 DEF LoadsForBar, Covers, Of
    <3>2. \A j \in DOMAIN texts : ~texts'[j].gone => ~texts[j].gone
      BY <1>1 DEF Grows
    <3> QED
      BY <2>2, <2>3, <3>1, <3>2 DEF Finds, Clear
  <2>6. LoadsForBar'
    BY <1>2, <1>5, <2>2, <2>4, <2>5 DEF LoadsForBar
  <2>7. OpeningRight'
    <3>1. /\ load.base \subseteq DOMAIN texts /\ \A g \in load.got : g.id \in DOMAIN texts
      BY <1>5 DEF LoadsForBar, Covers, Of
    <3>2. \A j \in load.opening : texts'[j].looks \in {"once", "locked"}
      <4>1. \A j \in load.opening : j \in DOMAIN texts /\ texts[j].looks \in {"once", "locked"}
        BY <1>5, <3>1 DEF OpeningRight
      <4> QED
        BY <1>1, <4>1
    <3>3. \A j \in load'.base \ Clear(load) : texts'[j].looks # "locked"
      BY <1>1, <1>5, <2>2, <3>1 DEF OpeningRight
    <3> QED
      BY <1>5, <2>2, <2>3, <3>2, <3>3 DEF OpeningRight
  <2> QED
    BY <1>1, <1>2, <1>3, <2>2, <2>6, <2>7 DEF SearchTypes, Progress
<1> QED
  BY <1>4, <1>5

\* Whatever made the page begin anew, nothing is under way and nothing is shown
\* but what stood there, which waits for the timer.
LEMMA RestartKeeps ==
  ASSUME SearchIndInv, NEW b \in BarType, Restart(b), b.results = bar.results, b.base = bar.base
  PROVE  SearchIndInv'
<1> USE DEF SearchIndInv
<1>1. load' = Nothing /\ UNCHANGED <<texts, cache>>
  BY DEF Restart
<1>11. KeptComplete' /\ OpeningRight'
  BY <1>1 DEF KeptComplete, Covers, Finds, Clear, Of, OpeningRight
<1>2. CASE b.open /\ b.query # Short
  <2>1. bar' = [b EXCEPT !.timer = TRUE]
    BY <1>2 DEF Restart
  <2>2. /\ bar' \in BarType /\ bar'.timer /\ bar'.open /\ bar'.query # Short
        /\ bar'.results = bar.results /\ bar'.base = bar.base
    BY <1>2, <2>1 DEF BarType
  <2>3. SearchTypes'
    BY <1>1, <2>2 DEF SearchTypes
  <2>4. LoadsForBar' /\ Shown' /\ Progress'
    BY <1>1, <2>2 DEF LoadsForBar, Shown, Progress, Nothing
  <2> QED
    BY <1>11, <2>3, <2>4
<1>3. CASE ~(b.open /\ b.query # Short)
  <2>1. bar' = [b EXCEPT !.timer = FALSE, !.results = {}, !.base = {}, !.searching = FALSE]
    BY <1>3 DEF Restart
  <2>2. /\ bar' \in BarType /\ ~bar'.timer /\ ~bar'.searching
        /\ bar'.results = {} /\ bar'.base = {}
    BY <2>1 DEF BarType
  <2>3. SearchTypes'
    BY <1>1, <2>2 DEF SearchTypes
  <2>4. LoadsForBar' /\ Shown' /\ Progress'
    BY <1>1, <2>2 DEF LoadsForBar, Shown, Progress, Nothing, Complete, Sound
  <2> QED
    BY <1>11, <2>3, <2>4
<1> QED
  BY <1>2, <1>3

\* What is filtered from all that there was to read answers the query.
LEMMA FoundAnswers ==
  ASSUME SearchTypes, NEW l, NEW q, l.thread \in Threads, l.base \subseteq TextIds, l.got \subseteq Copies,
         Covers(l.thread, l, {}), Finds(l, {}, {}), bar.open, q # Short,
         q = bar.query, l.thread = bar.thread, ShowFound(l, q), UNCHANGED texts
  PROVE  /\ bar' \in BarType /\ ~bar'.timer /\ ~bar'.searching
         /\ bar'.thread = bar.thread /\ bar'.query = bar.query /\ bar'.open = bar.open
         /\ bar'.results \cup bar'.base \subseteq DOMAIN texts
         /\ Complete' /\ Sound'
<1>1. PICK chance \in SUBSET ({g.id : g \in l.got} \ Clear(l)) :
        bar' = [bar EXCEPT !.timer = FALSE, !.searching = FALSE,
                           !.results = Found(l, q, chance), !.base = l.base]
  BY DEF ShowFound
<1>2. Found(l, q, chance) \subseteq TextIds /\ bar \in BarType
  BY DEF Found, Copies, SearchTypes
<1>3. /\ bar' \in BarType /\ ~bar'.timer /\ ~bar'.searching
      /\ bar'.thread = bar.thread /\ bar'.query = bar.query /\ bar'.open = bar.open
      /\ bar'.results = Found(l, q, chance) /\ bar'.base = l.base
  <2> HIDE DEF Found
  <2> QED
    BY <1>1, <1>2 DEF BarType
<1>4. Found(l, q, chance) \cup l.base \subseteq DOMAIN texts
  BY DEF Covers, Found, Of
<1>5. ASSUME NEW i \in l.base, texts[i].word = q, ~texts[i].gone PROVE i \in Found(l, q, chance)
  <2>1. i \in Clear(l) /\ \E g \in l.got : g.id = i /\ ~g.gone
    BY <1>5 DEF Finds
  <2> QED
    BY <1>5, <2>1 DEF Found
<1>6. ASSUME NEW i \in Found(l, q, chance)
      PROVE  texts[i].thread = l.thread /\ (i \in l.base => texts[i].word = q)
  <2>1. PICK g \in l.got : g.id = i /\ (i \in Clear(l) => texts[i].word = q)
    BY DEF Found
  <2> QED
    BY <2>1 DEF Covers, Of
<1>7. Complete'
  BY <1>3, <1>5 DEF Complete
<1>8. Sound'
  BY <1>3, <1>6 DEF Sound
<1> QED
  BY <1>3, <1>4, <1>7, <1>8

LEMMA TimerKeeps == SearchIndInv /\ TimerFires => SearchIndInv'
<1> SUFFICES ASSUME SearchIndInv, TimerFires PROVE SearchIndInv'
  OBVIOUS
<1> USE DEF SearchIndInv
<1>0. /\ bar.timer /\ bar.open /\ bar.query # Short /\ bar.loads < MaxLoads /\ bar \in BarType
      /\ load = Nothing /\ UNCHANGED <<texts, cache>>
  BY DEF TimerFires, Shown, LoadsForBar, SearchTypes
<1>1. bar.thread \in Threads /\ bar.query \in Words /\ bar.loads \in 0 .. MaxLoads
  BY <1>0 DEF BarType
<1>2. CASE cache[bar.thread] # Nothing
  <2> DEFINE kept == cache[bar.thread]
  <2>1. kept \in KeptType /\ kept.thread = bar.thread
        /\ Covers(kept.thread, kept, {}) /\ Finds(kept, {}, {})
    BY <1>1, <1>2 DEF KeptComplete, SearchTypes
  <2>2. ShowFound(kept, bar.query) /\ UNCHANGED load
    BY <1>2 DEF TimerFires
  <2> HIDE DEF kept
  <2>3. kept.thread \in Threads /\ kept.base \subseteq TextIds /\ kept.got \subseteq Copies
    BY <2>1 DEF KeptType
  <2>4. /\ bar' \in BarType /\ ~bar'.timer /\ ~bar'.searching /\ bar'.open /\ bar'.query # Short
        /\ bar'.results \cup bar'.base \subseteq DOMAIN texts /\ Complete' /\ Sound'
    BY <1>0, <2>1, <2>2, <2>3, FoundAnswers
  <2>5. SearchTypes'
    BY <1>0, <2>2, <2>4 DEF SearchTypes
  <2>6. KeptComplete' /\ LoadsForBar' /\ OpeningRight'
    BY <1>0, <2>2 DEF KeptComplete, Covers, Finds, Clear, Of, LoadsForBar, OpeningRight, Nothing
  <2>7. Shown' /\ Progress'
    BY <1>0, <2>4 DEF Shown, Progress
  <2> QED
    BY <2>5, <2>6, <2>7
<1>3. CASE cache[bar.thread] = Nothing
  <2>1. /\ bar' = [bar EXCEPT !.timer = FALSE, !.searching = TRUE, !.results = {}, !.base = {},
                              !.loads = @ + 1]
        /\ load' = [thread |-> bar.thread, query |-> bar.query, cursor |-> 0, got |-> {},
                    opening |-> {}, done |-> FALSE, base |-> {}]
    BY <1>3 DEF TimerFires
  <2>2. bar.loads + 1 \in 0 .. MaxLoads /\ 0 \in 0 .. MaxTexts
    BY <1>0, <1>1, SearchBounds
  <2>3. /\ bar' \in BarType /\ ~bar'.timer /\ bar'.open /\ bar'.query = bar.query
        /\ bar'.thread = bar.thread /\ bar'.results = {} /\ bar'.base = {}
    BY <1>0, <2>1, <2>2 DEF BarType
  <2>4. /\ load' \in Loads /\ load'.thread = bar.thread /\ load'.query = bar.query
        /\ load'.got = {} /\ load'.base = {} /\ load'.opening = {} /\ ~load'.done /\ load' # Nothing
    BY <1>1, <2>1, <2>2, SearchBounds DEF Loads, Nothing
  <2>5. SearchTypes'
    BY <1>0, <2>3, <2>4 DEF SearchTypes
  <2>6. KeptComplete'
    BY <1>0 DEF KeptComplete, Covers, Finds, Clear, Of
  <2>7. LoadsForBar' /\ OpeningRight'
    BY <1>0, <2>3, <2>4 DEF LoadsForBar, OpeningRight, Covers, Finds
  <2>8. Shown' /\ Progress'
    BY <1>0, <2>3, <2>4 DEF Shown, Complete, Sound, Progress
  <2> QED
    BY <2>5, <2>6, <2>7, <2>8
<1> QED
  BY <1>2, <1>3

\* A page more: what the load should find is in it, was in an earlier one, or is
\* older than its oldest message.
LEMMA PageKeeps == SearchIndInv /\ ReadPage => SearchIndInv'
<1> SUFFICES ASSUME SearchIndInv, ReadPage PROVE SearchIndInv'
  OBVIOUS
<1> USE DEF SearchIndInv
<1> DEFINE p == OlderThan(load.thread, load.cursor)
           among == {i \in Of(load.thread) : load.cursor = 0 \/ i < load.cursor}
           sealed == {i \in p : texts[i].looks \in {"once", "locked"}}
           Copy(i) == [id |-> i, gone |-> texts[i].gone,
                       looks |-> IF i \in sealed THEN "locked" ELSE texts[i].looks]
           read == {Copy(i) : i \in p}
           base == IF load.cursor = 0 THEN Base(load.thread) ELSE load.base
           oldest == IF p = {} THEN load.cursor ELSE CHOOSE i \in p : \A j \in p : i <= j
           full == Cardinality(p) < PageSize
<1>1. /\ load \in Loads /\ load # Nothing /\ ~load.done /\ load.opening = {}
      /\ UNCHANGED <<texts, bar, cache>>
      /\ load' = [load EXCEPT !.got = @ \cup read, !.opening = sealed, !.base = base,
                              !.cursor = oldest, !.done = full]
  BY DEF ReadPage, SearchTypes
<1>2. load.thread \in Threads /\ load.cursor \in 0 .. MaxTexts /\ load.cursor \in Nat
      /\ load.got \subseteq Copies /\ load.base \subseteq TextIds
  BY <1>1, SearchBounds DEF Loads
<1>3. /\ p \subseteq among /\ among \subseteq TextIds
      /\ \A i \in p, j \in among : j > i => j \in p
      /\ full => p = among
      /\ p # {} => \E m \in p : \A j \in p : m <= j
  BY <1>2, PageIsNewest
<1>4. ~full => p # {}
  <2>1. TextIds = 1 .. MaxTexts /\ IsFiniteSet(TextIds)
    BY FS_Interval, SearchBounds DEF TextIds
  <2>2. p \subseteq TextIds
    BY <1>3
  <2> HIDE DEF p
  <2>3. Cardinality(p) \in Nat
    BY <2>1, <2>2, FS_Subset, FS_CardinalityType
  <2> QED
    BY <2>3, FS_EmptySet, SearchBounds
<1>5. p # {} => oldest \in p /\ \A j \in p : oldest <= j
  <2> HIDE DEF p
  <2> QED
    BY <1>3
<1>6. among \subseteq Of(load.thread) /\ Of(load.thread) \subseteq DOMAIN texts
      /\ \A i \in DOMAIN texts : texts[i] \in TextType
  BY DEF Of, SearchTypes
<1>7. p = {} => oldest = load.cursor
  OBVIOUS
<1>8. /\ \A i \in p : \E g \in read :
           /\ g.id = i /\ g.gone = texts[i].gone
           /\ i \in sealed \/ g.looks \in {"text", "link"}
      /\ \A g \in read :
           g.id \in p /\ g.gone = texts[g.id].gone /\ (g.id \in sealed => g.looks = "locked")
      /\ read \subseteq Copies
  <2>1. \A i \in p :
          /\ Copy(i).id = i /\ Copy(i).gone = texts[i].gone /\ Copy(i) \in Copies
          /\ i \in sealed \/ Copy(i).looks \in {"text", "link"}
          /\ i \in sealed => Copy(i).looks = "locked"
    <3> HIDE DEF p
    <3> QED
      BY <1>3, <1>6 DEF Copies, TextType, Looks, Shapes
  <2> HIDE DEF p, sealed, Copy
  <2> QED
    BY <2>1
<1>10. /\ \A i \in base : /\ i \in Of(load.thread)
                          /\ i \in Clear(load) \/ texts[i].looks # "locked"
       /\ base \subseteq TextIds
       /\ load.cursor # 0 => base = load.base
       /\ load.cursor = 0 => load.got = {}
  <2>1. load.cursor = 0 => base \subseteq among
    BY DEF Base
  <2>2. \A i \in Base(load.thread) : i \in Of(load.thread) /\ texts[i].looks # "locked"
    BY DEF Base
  <2> QED
    BY <1>1, <1>2, <1>3, <2>1, <2>2 DEF LoadsForBar, OpeningRight, Covers
<1>101. /\ sealed \subseteq p /\ sealed \subseteq TextIds
        /\ \A i \in sealed : texts[i].looks \in {"once", "locked"}
  BY <1>3
<1> HIDE DEF p, among, read, base, oldest, full, sealed
<1>11. oldest \in 0 .. MaxTexts /\ full \in BOOLEAN
  <2>1. p # {} => oldest \in TextIds
    BY <1>3, <1>5
  <2> QED
    BY <1>2, <1>7, <2>1, SearchBounds DEF TextIds, full
<1>12. /\ load' \in Loads /\ load' # Nothing /\ load'.thread = load.thread /\ load'.query = load.query
       /\ load'.got = load.got \cup read /\ load'.base = base /\ load'.cursor = oldest
       /\ load'.done = full /\ load'.opening = sealed
  <2>1. /\ load' \in Loads /\ load'.thread = load.thread /\ load'.query = load.query
        /\ load'.got = load.got \cup read /\ load'.base = base /\ load'.cursor = oldest
        /\ load'.done = full /\ load'.opening = sealed
    BY <1>1, <1>2, <1>8, <1>10, <1>101, <1>11 DEF Loads
  <2> QED
    BY <1>2, <2>1, SearchBounds DEF Nothing
<1>121. Clear(load) \subseteq Clear(load') /\ p \ sealed \subseteq Clear(load')
  <2>1. Clear(load) \subseteq Clear(load')
    BY <1>12 DEF Clear
  <2>2. ASSUME NEW i \in p \ sealed PROVE i \in Clear(load')
    <3>1. PICK g \in read : g.id = i /\ g.looks \in {"text", "link"}
      BY <1>8, <2>2
    <3> QED
      BY <1>12, <3>1 DEF Clear
  <2> QED
    BY <2>1, <2>2
<1>122. \A i \in sealed : i \notin Clear(load')
  <2> SUFFICES ASSUME NEW i \in sealed, i \in Clear(load') PROVE FALSE
    OBVIOUS
  <2>1. PICK g \in load.got \cup read : g.id = i /\ g.looks \in {"text", "link"}
    BY <1>12 DEF Clear
  <2>2. g \in load.got
    BY <1>8, <2>1
  <2>3. load.cursor # 0 /\ load.cursor <= i
    BY <1>1, <2>1, <2>2 DEF OpeningRight
  <2>4. i < load.cursor /\ i \in TextIds
    BY <1>3, <1>101, <2>3 DEF among
  <2> QED
    BY <1>2, <2>3, <2>4, SearchBounds DEF TextIds
<1>13. Covers(load.thread, load', sealed)
  <2>1. \A g \in load.got : g.id \in Of(load.thread) /\ (g.id \in base => g.id \in Clear(load))
    BY <1>1, <1>10 DEF LoadsForBar, Covers
  <2>2. \A g \in read : g.id \in Of(load.thread) /\ g.id \in Clear(load') \cup sealed
    BY <1>3, <1>6, <1>8, <1>121
  <2> QED
    BY <1>10, <1>12, <1>121, <2>1, <2>2 DEF Covers
<1>14. ASSUME NEW i \in base, ~texts[i].gone, full \/ i \notin 1 .. (oldest - 1)
       PROVE  i \in Clear(load') \cup sealed /\ \E g \in load'.got : g.id = i /\ ~g.gone
  <2>1. CASE i \in p
    <3>1. \E g \in load'.got : g.id = i /\ ~g.gone
      BY <1>8, <1>12, <1>14, <2>1
    <3> QED
      BY <1>121, <2>1, <3>1
  <2>2. CASE i \notin p /\ i \in among
    <3>1. ~full /\ p # {}
      BY <1>3, <1>4, <2>2
    <3>2. oldest \in p /\ ~(i > oldest) /\ oldest \in TextIds /\ i \in TextIds
      BY <1>3, <1>5, <2>2, <3>1
    <3>3. i \in 1 .. (oldest - 1)
      <4>1. oldest \in Nat /\ i \in Nat /\ i >= 1 /\ i # oldest
        BY <2>2, <3>2, SearchBounds DEF TextIds
      <4> QED
        BY <3>2, <4>1
    <3> QED
      BY <1>14, <3>1, <3>3
  <2>3. CASE i \notin among
    <3>1. load.cursor # 0 /\ ~(i < load.cursor) /\ i \in load.base
      BY <1>10, <2>3 DEF among
    <3>2. i \notin 1 .. (load.cursor - 1)
      BY <1>2, <3>1
    <3>3. i \in Clear(load) /\ \E g \in load.got : g.id = i /\ ~g.gone
      BY <1>1, <1>14, <3>1, <3>2 DEF LoadsForBar, Finds
    <3> QED
      BY <1>12, <1>121, <3>3
  <2> QED
    BY <2>1, <2>2, <2>3
<1>15. ~full => oldest # 0
  BY <1>3, <1>4, <1>5, SearchBounds DEF TextIds
<1>16. Finds(load', IF load'.done THEN {} ELSE 1 .. (load'.cursor - 1), sealed)
  BY <1>12, <1>14 DEF Finds
<1>17. SearchTypes'
  BY <1>1, <1>12 DEF SearchTypes
<1>18. KeptComplete' /\ Shown' /\ Progress'
  BY <1>1, <1>12 DEF KeptComplete, Covers, Finds, Clear, Of, Shown, Complete, Sound, Progress
<1>19. LoadsForBar'
  BY <1>1, <1>12, <1>13, <1>15, <1>16 DEF LoadsForBar, Covers, Finds, Clear, Of
<1>20. OpeningRight'
  <2>1. ASSUME NEW g \in load'.got PROVE oldest # 0 /\ oldest <= g.id
    <3>1. CASE g \in read
      BY <1>3, <1>5, <1>8, <3>1, SearchBounds DEF TextIds
    <3>2. CASE g \in load.got
      <4>1. load.cursor # 0 /\ load.cursor <= g.id /\ g.id \in TextIds
        BY <1>1, <1>2, <3>2 DEF OpeningRight, Copies
      <4>2. p # {} => oldest \in TextIds /\ oldest < load.cursor
        BY <1>3, <1>5, <4>1 DEF among
      <4> QED
        BY <1>2, <1>7, <4>1, <4>2, SearchBounds DEF TextIds
    <3> QED
      BY <1>12, <3>1, <3>2
  <2>2. \A i \in sealed : \E g \in load'.got : g.id = i
    BY <1>8, <1>101, <1>12
  <2>3. \A i \in base : i \in Clear(load') \/ texts[i].looks # "locked"
    BY <1>10, <1>121
  <2> QED
    BY <1>1, <1>101, <1>12, <1>122, <2>1, <2>2, <2>3 DEF OpeningRight, Clear
<1> QED
  BY <1>17, <1>18, <1>19, <1>20

\* Opening what a page brought.
LEMMA OpenKeeps ==
  ASSUME SearchIndInv, NEW i \in DOMAIN texts, OpenText(i)
  PROVE  SearchIndInv'
<1> USE DEF SearchIndInv
<1>1. PICK look \in Shapes :
        /\ load # Nothing /\ i \in load.opening /\ load' = Opens(i, load, look)
        /\ UNCHANGED <<bar, cache>>
        /\ \/ Spend(i) /\ look \in {"text", "link"}
           \/ texts[i].looks # "once" /\ UNCHANGED texts /\ look \in {"locked", "notice"}
  BY DEF OpenText, Shapes
<1>2. /\ load \in Loads /\ load.thread \in Threads /\ load.got \subseteq Copies
      /\ i \notin Clear(load) /\ (\E g \in load.got : g.id = i) /\ i \in TextIds
      /\ texts[i].looks \in {"once", "locked"}
      /\ i \in load.base => texts[i].looks # "locked"
  BY <1>1 DEF SearchTypes, Loads, OpeningRight
<1> DEFINE New(g) == IF g.id = i THEN [g EXCEPT !.looks = look] ELSE g
           got == {New(g) : g \in load.got}
<1>3. \A g \in load.got :
        /\ New(g) \in Copies /\ New(g).id = g.id /\ New(g).gone = g.gone
        /\ New(g).looks = IF g.id = i THEN look ELSE g.looks
  BY <1>1, <1>2 DEF Copies
<1>4. got \subseteq Copies
  <2> HIDE DEF New
  <2> QED
    BY <1>3
<1>5. /\ load' \in Loads /\ load'.thread = load.thread /\ load'.query = load.query
      /\ load'.cursor = load.cursor /\ load'.got = got /\ load'.opening = load.opening \ {i}
      /\ load'.done = load.done /\ load'.base = load.base /\ load' # Nothing
  <2> HIDE DEF got
  <2>1. load' = [load EXCEPT !.opening = @ \ {i}, !.got = got]
    BY <1>1 DEF Opens, got
  <2> QED
    BY <1>2, <1>4, <2>1, SearchBounds DEF Loads, Nothing
<1>6. /\ \A g \in load'.got : \E h \in load.got : g.id = h.id /\ g.gone = h.gone
      /\ \A h \in load.got : \E g \in load'.got : g.id = h.id /\ g.gone = h.gone
  <2> HIDE DEF New
  <2> QED
    BY <1>3, <1>5
<1>7. Clear(load') = Clear(load) \cup {j \in {i} : look \in {"text", "link"}}
  <2>1. ASSUME NEW j \in Clear(load')
        PROVE  j \in Clear(load) \/ (j = i /\ look \in {"text", "link"})
    <3>1. PICK g \in load.got : New(g).id = j /\ New(g).looks \in {"text", "link"}
      BY <1>5 DEF Clear
    <3> QED
      BY <1>3, <3>1 DEF Clear
  <2>2. ASSUME NEW j \in Clear(load) PROVE j \in Clear(load')
    <3>1. PICK g \in load.got : g.id = j /\ g.looks \in {"text", "link"}
      BY DEF Clear
    <3>2. j # i /\ New(g) \in load'.got
      BY <1>2, <1>5, <2>2
    <3> HIDE DEF New
    <3> QED
      BY <1>3, <3>1, <3>2 DEF Clear
  <2>3. look \in {"text", "link"} => i \in Clear(load')
    <3>1. PICK g \in load.got : g.id = i
      BY <1>2
    <3>2. New(g) \in load'.got
      BY <1>5
    <3> HIDE DEF New
    <3> QED
      BY <1>3, <3>1, <3>2 DEF Clear
  <2> HIDE DEF New, got
  <2> QED
    BY <2>1, <2>2, <2>3
<1> HIDE DEF New, got
<1>8. /\ texts' \in Seq(TextType) /\ Len(texts') <= MaxTexts /\ Grows
      /\ \A j \in DOMAIN texts : j # i => texts'[j] = texts[j]
      /\ texts'[i].looks \in {"once", "locked"}
  <2>1. CASE Spend(i)
    BY <2>1, Spent
  <2>2. CASE UNCHANGED texts
    BY <1>2, <2>2 DEF SearchTypes, Grows
  <2> QED
    BY <1>1, <2>1, <2>2
<1>9. i \in load.base => i \in Clear(load')
  BY <1>1, <1>2, <1>7
<1>10. /\ Covers(load.thread, load, load.opening)
       /\ Finds(load, IF load.done THEN {} ELSE 1 .. (load.cursor - 1), load.opening)
       /\ load.base \subseteq DOMAIN texts /\ \A g \in load.got : g.id \in DOMAIN texts
       /\ Of(load.thread) \subseteq Of(load.thread)'
  BY <1>1, <1>5, <1>8 DEF LoadsForBar, Covers, Of, Grows
<1>11. Covers(load.thread, load, load.opening)'
  BY <1>5, <1>6, <1>7, <1>9, <1>10 DEF Covers, Clear
<1>12. Finds(load, IF load.done THEN {} ELSE 1 .. (load.cursor - 1), load.opening)'
  <2>1. \A j \in DOMAIN texts : ~texts'[j].gone => ~texts[j].gone
    BY <1>8 DEF Grows
  <2>2. ASSUME NEW j \in load.base, j \notin (IF load.done THEN {} ELSE 1 .. (load.cursor - 1)),
               ~texts'[j].gone
        PROVE  /\ j \in Clear(load') \cup (load.opening \ {i})
               /\ \E g \in load'.got : g.id = j /\ ~g.gone
    <3>1. j \in Clear(load) \cup load.opening /\ \E g \in load.got : g.id = j /\ ~g.gone
      BY <1>10, <2>1, <2>2 DEF Finds
    <3> QED
      BY <1>6, <1>7, <1>9, <2>2, <3>1
  <2> QED
    BY <1>5, <2>2 DEF Finds, Clear
<1>13. KeptComplete' /\ Shown'
  BY <1>1, <1>2, <1>8, GrowthCovers
<1>14. LoadsForBar'
  <2>1. ~load.done /\ load.cursor = 0 => load.got = {}
    BY <1>1 DEF LoadsForBar
  <2> QED
    BY <1>1, <1>2, <1>5, <1>11, <1>12, <2>1 DEF LoadsForBar
<1>15. OpeningRight'
  <2>1. \A g \in load'.got : load.cursor # 0 /\ load.cursor <= g.id
    BY <1>1, <1>6 DEF OpeningRight
  <2>2. \A j \in load.opening : j \notin Clear(load) /\ texts[j].looks \in {"once", "locked"}
                                /\ j \in DOMAIN texts /\ \E g \in load.got : g.id = j
    BY <1>1, <1>10 DEF OpeningRight
  <2>3. \A j \in load'.opening : /\ j \notin Clear(load') /\ \E g \in load'.got : g.id = j
                                 /\ texts'[j].looks \in {"once", "locked"}
    BY <1>5, <1>6, <1>7, <1>8, <2>2
  <2>4. \A j \in load.base \ Clear(load') : texts'[j].looks # "locked"
    BY <1>1, <1>7, <1>8, <1>9, <1>10 DEF OpeningRight
  <2> QED
    BY <1>5, <2>1, <2>3, <2>4 DEF OpeningRight, Clear
<1> QED
  BY <1>1, <1>5, <1>8, <1>13, <1>14, <1>15 DEF SearchTypes, Progress

\* The end of a load shows, and may keep, all that there was to read.
LEMMA LoadEndsKeeps == SearchIndInv /\ LoadEnds => SearchIndInv'
<1> SUFFICES ASSUME SearchIndInv, LoadEnds PROVE SearchIndInv'
  OBVIOUS
<1> USE DEF SearchIndInv
<1>1. /\ load \in Loads /\ load # Nothing /\ load.done /\ load.opening = {} /\ load' = Nothing /\ UNCHANGED texts
      /\ ShowFound(load, load.query) /\ bar.open /\ bar.query # Short
      /\ load.query = bar.query /\ load.thread = bar.thread
      /\ Covers(load.thread, load, {}) /\ Finds(load, {}, {})
  BY DEF LoadEnds, SearchTypes, LoadsForBar
<1>2. load.thread \in Threads /\ load.base \subseteq TextIds /\ load.got \subseteq Copies
  BY <1>1 DEF Loads
<1>3. /\ bar' \in BarType /\ ~bar'.timer /\ ~bar'.searching /\ bar'.open /\ bar'.query # Short
      /\ bar'.results \cup bar'.base \subseteq DOMAIN texts /\ Complete' /\ Sound'
  BY <1>1, <1>2, FoundAnswers
<1>4. /\ Kept(load) \in KeptType /\ Kept(load).thread = load.thread
      /\ Kept(load).got = load.got /\ Kept(load).base = load.base
  BY <1>2 DEF Kept, KeptType
<1>5. cache' = cache \/ cache' = [cache EXCEPT ![load.thread] = Kept(load)]
  BY DEF LoadEnds
<1>6. SearchTypes'
  BY <1>1, <1>2, <1>3, <1>4, <1>5 DEF SearchTypes
<1>7. KeptComplete'
  <2> SUFFICES ASSUME NEW c \in Threads, cache'[c] # Nothing
               PROVE  /\ cache'[c].thread = c
                      /\ Covers(c, cache'[c], {}) /\ Finds(cache'[c], {}, {})
    BY <1>1 DEF KeptComplete, Covers, Finds, Clear, Of
  <2>1. cache'[c] = cache[c] \/ (c = load.thread /\ cache'[c] = Kept(load))
    BY <1>2, <1>5 DEF SearchTypes
  <2> QED
    BY <1>1, <1>4, <2>1 DEF KeptComplete, Covers, Finds, Clear
<1>8. LoadsForBar' /\ OpeningRight' /\ Shown' /\ Progress'
  BY <1>1, <1>3 DEF LoadsForBar, OpeningRight, Shown, Progress, Nothing
<1> QED
  BY <1>6, <1>7, <1>8

LEMMA SearchStep == SearchIndInv /\ [SearchNext]_searchVars => SearchIndInv'
<1> SUFFICES ASSUME SearchIndInv, [SearchNext]_searchVars PROVE SearchIndInv'
  OBVIOUS
<1> USE DEF SearchIndInv
<1>0. bar \in BarType
  BY DEF SearchTypes
<1>1. ASSUME NEW c \in Threads, SwitchTo(c) PROVE SearchIndInv'
  <2> DEFINE b == [bar EXCEPT !.thread = c, !.open = FALSE, !.query = Short]
  <2>1. b \in BarType /\ b.results = bar.results /\ b.base = bar.base
    BY <1>0 DEF BarType
  <2>2. Restart(b)
    BY <1>1 DEF SwitchTo
  <2> HIDE DEF b
  <2> QED
    BY <2>1, <2>2, RestartKeeps
<1>2. ASSUME NEW q \in Words \cup {Short}, TypeQuery(q) PROVE SearchIndInv'
  <2> DEFINE b == [bar EXCEPT !.query = q]
  <2>1. b \in BarType /\ b.results = bar.results /\ b.base = bar.base
    BY <1>0 DEF BarType
  <2>2. Restart(b)
    BY <1>2 DEF TypeQuery
  <2> HIDE DEF b
  <2> QED
    BY <2>1, <2>2, RestartKeeps
<1>3. CASE Toggle
  <2> DEFINE b == [bar EXCEPT !.open = ~bar.open]
  <2>1. b \in BarType /\ b.results = bar.results /\ b.base = bar.base
    BY <1>0 DEF BarType
  <2>2. Restart(b)
    BY <1>3 DEF Toggle
  <2> HIDE DEF b
  <2> QED
    BY <2>1, <2>2, RestartKeeps
<1>4. CASE Close
  <2> DEFINE b == [bar EXCEPT !.open = FALSE, !.query = Short]
  <2>1. b \in BarType /\ b.results = bar.results /\ b.base = bar.base
    BY <1>0 DEF BarType
  <2>2. Restart(b)
    BY <1>4 DEF Close
  <2> HIDE DEF b
  <2> QED
    BY <2>1, <2>2, RestartKeeps
<1>5. CASE LoadFails
  <2>1. /\ load # Nothing /\ load' = Nothing /\ bar' = [bar EXCEPT !.searching = FALSE]
        /\ UNCHANGED <<texts, cache>>
    BY <1>5 DEF LoadFails
  <2>2. /\ bar' \in BarType /\ ~bar'.searching /\ bar'.timer = bar.timer /\ bar'.open = bar.open
        /\ bar'.query = bar.query /\ bar'.thread = bar.thread
        /\ bar'.results = bar.results /\ bar'.base = bar.base
    BY <1>0, <2>1 DEF BarType
  <2>3. SearchTypes'
    BY <2>1, <2>2 DEF SearchTypes
  <2>4. KeptComplete' /\ LoadsForBar' /\ OpeningRight'
    BY <2>1 DEF KeptComplete, Covers, Finds, Clear, Of, LoadsForBar, OpeningRight, Nothing
  <2>5. Shown' /\ Progress'
    BY <2>1, <2>2 DEF Shown, Complete, Sound, Progress
  <2> QED
    BY <2>3, <2>4, <2>5
<1>8. CASE UNCHANGED searchVars
  BY <1>8 DEF searchVars, SearchTypes, KeptComplete, Covers, Finds, Clear, Of, LoadsForBar,
              OpeningRight, Shown, Complete, Sound, Progress
<1> QED
  BY <1>1, <1>2, <1>3, <1>4, <1>5, <1>8, WrittenKeeps, TextChangeKeeps, ElsewhereKeeps, TimerKeeps,
     PageKeeps, OpenKeeps, LoadEndsKeeps DEF SearchNext

\* For any number of messages, conversations and loads, and pages of any size:
\* what is shown answers the query that stands in the bar, about the conversation
\* that is open, whatever was typed, closed, opened, sent and deleted meanwhile
\* (useSearch.ts, fetchAllDecrypted over getMessages).
THEOREM SearchSafe == SearchSpec => []SearchInv
<1>1. SearchIndInv => SearchInv
  <2> SUFFICES ASSUME SearchIndInv PROVE SearchInv
    OBVIOUS
  <2>1. SearchTypeOK
    <3>1. DOMAIN texts \subseteq TextIds /\ \A i \in DOMAIN texts : texts[i] \in TextType
      BY SearchBounds DEF SearchIndInv, SearchTypes, TextIds
    <3>2. \A c \in Threads : cache[c] = Nothing \/ cache[c].got \subseteq Copies
      BY DEF SearchIndInv, SearchTypes, KeptType
    <3> QED
      BY <3>1, <3>2 DEF SearchIndInv, SearchTypes, SearchTypeOK, TextType, BarType
  <2> QED
    BY <2>1 DEF SearchIndInv, SearchInv, ResultsAnswer, Answered, Shown
<1> QED
  BY <1>1, SearchInitially, SearchStep, PTL DEF SearchSpec

-----------------------------------------------------------------------------
(* Typing indicators and their rate limit.                                 *)

\* Shown typing, the reader's timer and the time since the event add up.
TimerInStep == seen.typing => seen.timer > 0 /\ since + seen.timer = ClearAfter

TypingIndInv == TypingTypeOK /\ TimerInStep /\ WithinLimit

WriterType == [last : 0 .. Throttle, stop : 0 .. StopAfter, room : Rooms]
SeenType == [room : Rooms, typing : BOOLEAN, timer : 0 .. ClearAfter]
EventType == [room : Rooms, on : BOOLEAN]
AgeType == 0 .. Ttl
OldestFirst(h) == \A j, k \in DOMAIN h : j <= k => h[j] >= h[k]

LEMMA TypingTypes ==
  /\ TypingTypeOK <=> /\ writer \in [Tabs -> WriterType] /\ seen \in SeenType
                      /\ hits \in Seq(AgeType) /\ Len(hits) <= Limit
                      /\ wire \in Seq(EventType) /\ Len(wire) <= MaxWire
                      /\ since \in 0 .. ClearAfter
  /\ TypingTypeOK' <=> /\ writer' \in [Tabs -> WriterType] /\ seen' \in SeenType
                       /\ hits' \in Seq(AgeType) /\ Len(hits') <= Limit
                       /\ wire' \in Seq(EventType) /\ Len(wire') <= MaxWire
                       /\ since' \in 0 .. ClearAfter
BY DEF TypingTypeOK, WriterType, SeenType, EventType, AgeType

LEMMA Places ==
  ASSUME NEW S, NEW h \in Seq(S)
  PROVE  Len(h) \in Nat /\ DOMAIN h = 1 .. Len(h) /\ \A i \in 1 .. Len(h) : h[i] \in S
BY LenProperties, ElementOfSeq

\* FS_Interval for the places of a list.
LEMMA UpTo ==
  ASSUME NEW n \in Nat
  PROVE  IsFiniteSet(1 .. n) /\ Cardinality(1 .. n) = n
<1>1. /\ IsFiniteSet(1 .. n)
      /\ Cardinality(1 .. n) = IF 1 > n THEN 0 ELSE n - 1 + 1
  BY FS_Interval
<1> QED
  BY <1>1

LEMMA Ages ==
  ASSUME NEW m \in Nat, NEW n \in 0 .. m
  PROVE  /\ Older(n, m) \in 0 .. m /\ Sooner(n) \in 0 .. m
         /\ \A k \in 0 .. m : k >= n => Older(k, m) >= Older(n, m)
BY DEF Older, Sooner

\* Places in the window are no more than the window is long.
LEMMA PlacesCount ==
  ASSUME NEW h \in Seq(AgeType), NEW P \in SUBSET DOMAIN h
  PROVE  /\ Cardinality(P) \in Nat /\ Cardinality(P) <= Len(h)
         /\ Cardinality(P) = Len(h) => P = DOMAIN h
         /\ P = DOMAIN h => Cardinality(P) = Len(h)
<1>1. Len(h) \in Nat /\ DOMAIN h = 1 .. Len(h)
  BY Places
<1>2. IsFiniteSet(1 .. Len(h)) /\ Cardinality(1 .. Len(h)) = Len(h)
  BY <1>1, UpTo
<1>3. /\ IsFiniteSet(P) /\ Cardinality(P) <= Cardinality(1 .. Len(h))
      /\ Cardinality(1 .. Len(h)) = Cardinality(P) => 1 .. Len(h) = P
  BY <1>1, <1>2, FS_Subset
<1>4. Cardinality(P) \in Nat
  BY <1>3, FS_CardinalityType
<1> QED
  BY <1>1, <1>2, <1>3, <1>4

\* What isAllowed drops is the beginning of the list.
LEMMA ExpiredFirst ==
  ASSUME hits \in Seq(AgeType), OldestFirst(hits)
  PROVE  \A k \in DOMAIN hits : k \in Expired <=> k <= Cardinality(Expired)
<1> DEFINE e == Cardinality(Expired)
<1>1. Expired \subseteq DOMAIN hits /\ DOMAIN hits = 1 .. Len(hits) /\ Len(hits) \in Nat
  BY Places DEF Expired
<1>2. IsFiniteSet(Expired) /\ e \in Nat
  <2>1. IsFiniteSet(1 .. Len(hits))
    BY <1>1, UpTo
  <2>2. IsFiniteSet(Expired)
    BY <1>1, <2>1, FS_Subset
  <2> QED
    BY <2>2, FS_CardinalityType
<1> HIDE DEF e
<1>3. ASSUME NEW k \in Expired PROVE 1 .. k \subseteq Expired
  <2> SUFFICES ASSUME NEW j \in 1 .. k PROVE j \in Expired
    OBVIOUS
  <2>1. j \in DOMAIN hits /\ k \in DOMAIN hits /\ j <= k
    BY <1>1
  <2>2. hits[j] >= hits[k] /\ hits[k] >= Ttl
    BY <2>1 DEF OldestFirst, Expired
  <2>3. hits[j] \in 0 .. Ttl /\ hits[k] \in 0 .. Ttl /\ Ttl \in Nat
    BY <1>1, <2>1, Places, TypingConstants DEF AgeType
  <2> QED
    BY <2>1, <2>2, <2>3 DEF Expired
<1>4. ASSUME NEW k \in Expired PROVE k <= e
  <2>1. k \in Nat /\ Cardinality(1 .. k) = k
    BY <1>1, UpTo
  <2> QED
    BY <1>2, <1>3, <2>1, FS_Subset DEF e
<1>5. ASSUME NEW k \in DOMAIN hits, k \notin Expired PROVE k > e
  <2>1. Expired \subseteq 1 .. (k - 1)
    BY <1>1, <1>3, <1>5
  <2>2. IsFiniteSet(1 .. (k - 1)) /\ Cardinality(1 .. (k - 1)) = k - 1
    <3>1. k - 1 \in Nat
      BY <1>1
    <3> QED
      BY <3>1, UpTo
  <2>3. e <= k - 1
    BY <2>1, <2>2, FS_Subset DEF e
  <2> QED
    BY <1>1, <1>2, <2>3
<1> QED
  BY <1>1, <1>2, <1>4, <1>5 DEF e

LEMMA FreshHitsOf ==
  ASSUME hits \in Seq(AgeType), OldestFirst(hits)
  PROVE  /\ FreshHits \in Seq(AgeType) /\ Len(FreshHits) \in Nat
         /\ Len(FreshHits) <= Len(hits)
         /\ \A k \in DOMAIN FreshHits : ~(FreshHits[k] >= Ttl)
         /\ OldestFirst(FreshHits)
         /\ Expired = DOMAIN hits => FreshHits = <<>>
<1> DEFINE e == Cardinality(Expired)
           n == Len(hits)
           f == FreshHits
<1>1. DOMAIN hits = 1 .. n /\ n \in Nat /\ \A i \in 1 .. n : hits[i] \in AgeType
  BY Places
<1>2. e \in Nat /\ e <= n /\ (Expired = DOMAIN hits => e = n)
  BY PlacesCount DEF Expired
<1>3. \A k \in 1 .. n : k \in Expired <=> k <= e
  BY <1>1, ExpiredFirst
<1>4. f = SubSeq(hits, e + 1, n)
  BY DEF FreshHits
<1>5. \A j, k \in 1 .. n : j <= k => hits[j] >= hits[k]
  BY <1>1 DEF OldestFirst
<1> HIDE DEF e, n, f
<1>6. /\ f \in Seq(AgeType)
      /\ Len(f) = IF e + 1 <= n THEN n - (e + 1) + 1 ELSE 0
      /\ \A i \in 1 .. (n - (e + 1) + 1) : f[i] = hits[(e + 1) + i - 1]
  <2>1. e + 1 \in Int /\ n \in Int /\ \A i \in (e + 1) .. n : hits[i] \in AgeType
    BY <1>1, <1>2
  <2> QED
    BY <1>4, <2>1, SubSeqProperties
<1>7. Len(f) = n - e
  BY <1>1, <1>2, <1>6
<1>8. DOMAIN f = 1 .. (n - e)
  BY <1>6, <1>7, Places
<1>9. \A i \in 1 .. (n - e) : i + e \in 1 .. n /\ i + e > e /\ f[i] = hits[i + e]
  <2> SUFFICES ASSUME NEW i \in 1 .. (n - e)
               PROVE  i + e \in 1 .. n /\ i + e > e /\ f[i] = hits[i + e]
    OBVIOUS
  <2>1. i + e \in 1 .. n /\ i + e > e /\ (e + 1) + i - 1 = i + e /\ n - (e + 1) + 1 = n - e
    BY <1>1, <1>2
  <2> QED
    BY <1>6, <2>1
<1>10. \A k \in 1 .. (n - e) : ~(f[k] >= Ttl)
  <2> SUFFICES ASSUME NEW k \in 1 .. (n - e) PROVE ~(f[k] >= Ttl)
    OBVIOUS
  <2>1. k + e \in 1 .. n /\ ~(k + e <= e) /\ f[k] = hits[k + e]
    BY <1>2, <1>9
  <2>2. k + e \notin Expired
    BY <1>3, <2>1
  <2> QED
    BY <1>1, <2>1, <2>2 DEF Expired
<1>11. ASSUME NEW j \in 1 .. (n - e), NEW k \in 1 .. (n - e), j <= k PROVE f[j] >= f[k]
  <2>1. j + e \in 1 .. n /\ k + e \in 1 .. n /\ j + e <= k + e
    BY <1>1, <1>2, <1>9, <1>11
  <2> QED
    BY <1>5, <1>9, <2>1
<1>12. ASSUME Expired = DOMAIN hits PROVE f = <<>>
  BY <1>1, <1>2, <1>4, <1>12, SubSeqEmpty
<1>13. f \in Seq(AgeType) /\ Len(f) \in Nat /\ Len(f) <= n
  BY <1>1, <1>2, <1>6, <1>7
<1>14. OldestFirst(f)
  BY <1>8, <1>11 DEF OldestFirst
<1>15. \A k \in DOMAIN f : ~(f[k] >= Ttl)
  BY <1>8, <1>10
<1> QED
  BY <1>12, <1>13, <1>14, <1>15 DEF f, n

LEMMA RateLimitKeeps ==
  ASSUME TypingIndInv, NEW allowed \in BOOLEAN, RateLimit(allowed)
  PROVE  /\ hits' \in Seq(AgeType) /\ Len(hits') <= Limit
         /\ OldestFirst(hits')
<1> USE TypingConstants
<1>1. hits \in Seq(AgeType) /\ Len(hits) <= Limit /\ OldestFirst(hits)
  BY TypingTypes DEF TypingIndInv, WithinLimit, OldestFirst
<1>2. /\ FreshHits \in Seq(AgeType) /\ Len(FreshHits) \in Nat
      /\ Len(FreshHits) <= Len(hits) /\ OldestFirst(FreshHits)
  BY <1>1, FreshHitsOf
<1>3. CASE allowed
  <2>1. hits' = Append(FreshHits, 0) /\ Len(FreshHits) < Limit
    BY <1>3 DEF RateLimit
  <2>2. 0 \in AgeType
    BY DEF AgeType
  <2>3. /\ hits' \in Seq(AgeType) /\ Len(hits') = Len(FreshHits) + 1
        /\ \A i \in 1 .. Len(FreshHits) : hits'[i] = FreshHits[i]
        /\ hits'[Len(FreshHits) + 1] = 0
    BY <1>2, <2>1, <2>2, AppendProperties
  <2>4. DOMAIN hits' = 1 .. (Len(FreshHits) + 1) /\ DOMAIN FreshHits = 1 .. Len(FreshHits)
    BY <1>2, <2>3
  <2>5. ASSUME NEW j \in DOMAIN hits', NEW k \in DOMAIN hits', j <= k PROVE hits'[j] >= hits'[k]
    <3>1. CASE k = Len(FreshHits) + 1
      <4>1. hits'[k] = 0 /\ hits'[j] \in AgeType
        BY <2>3, <2>4, <3>1, Places
      <4> QED
        BY <4>1 DEF AgeType
    <3>2. CASE k # Len(FreshHits) + 1
      <4>1. j \in DOMAIN FreshHits /\ k \in DOMAIN FreshHits
        BY <1>2, <2>4, <2>5, <3>2
      <4> QED
        BY <1>2, <2>3, <2>4, <2>5, <4>1 DEF OldestFirst
    <3> QED
      BY <3>1, <3>2
  <2> QED
    BY <1>2, <2>1, <2>3, <2>5 DEF OldestFirst
<1>4. CASE ~allowed
  BY <1>1, <1>2, <1>4 DEF RateLimit
<1> QED
  BY <1>3, <1>4

LEMMA WithinLimitFollows ==
  ASSUME NEW h \in Seq(AgeType), Len(h) <= Limit
  PROVE  Cardinality({k \in DOMAIN h : h[k] < Ttl}) <= Limit
<1>1. {k \in DOMAIN h : h[k] < Ttl} \in SUBSET DOMAIN h
  OBVIOUS
<1>2. /\ Cardinality({k \in DOMAIN h : h[k] < Ttl}) \in Nat
      /\ Cardinality({k \in DOMAIN h : h[k] < Ttl}) <= Len(h)
  BY <1>1, PlacesCount
<1> QED
  BY <1>2, TypingConstants

\* A well-typed window in the order of time is within the limit.
LEMMA WindowKeeps ==
  ASSUME hits' \in Seq(AgeType), Len(hits') <= Limit, OldestFirst(hits')
  PROVE  WithinLimit'
<1>1. Cardinality({k \in DOMAIN hits' : hits'[k] < Ttl}) <= Limit
  BY WithinLimitFollows
<1>2. Expired' = DOMAIN hits' => FreshHits' = <<>>
  <2>1. SUFFICES ASSUME Expired' = DOMAIN hits' PROVE FreshHits' = <<>>
    OBVIOUS
  <2>2. Cardinality(Expired') = Len(hits')
    BY <2>1, PlacesCount
  <2> QED
    BY <2>2, SubSeqEmpty DEF FreshHits
<1> QED
  BY <1>1, <1>2 DEF WithinLimit, OldestFirst

LEMMA HandleTypingKeeps ==
  ASSUME TypingIndInv, Len(wire) < MaxWire, NEW r \in Rooms, NEW on \in BOOLEAN, HandleTyping(r, on)
  PROVE  /\ hits' \in Seq(AgeType) /\ Len(hits') <= Limit /\ WithinLimit'
         /\ wire' \in Seq(EventType) /\ Len(wire') <= MaxWire
<1>1. hits' \in Seq(AgeType) /\ Len(hits') <= Limit /\ WithinLimit'
  BY RateLimitKeeps, WindowKeeps DEF HandleTyping
<1>2. wire \in Seq(EventType) /\ [room |-> r, on |-> on] \in EventType
  BY TypingTypes DEF TypingIndInv, EventType
<1>3. wire' = wire \/ wire' = Append(wire, [room |-> r, on |-> on])
  BY DEF HandleTyping
<1>4. wire' \in Seq(EventType) /\ Len(wire') <= MaxWire
  BY <1>2, <1>3, TypingConstants
<1> QED
  BY <1>1, <1>4

LEMMA TypingInitially == TypingInit => TypingIndInv
<1> SUFFICES ASSUME TypingInit PROVE TypingIndInv
  OBVIOUS
<1>1. TypingTypeOK
  <2>1. hits \in Seq(AgeType) /\ Len(hits) <= Limit /\ wire \in Seq(EventType) /\ Len(wire) <= MaxWire
    BY TypingConstants DEF TypingInit
  <2>2. writer \in [Tabs -> WriterType] /\ seen \in SeenType /\ since \in 0 .. ClearAfter
    BY TypingConstants DEF TypingInit, WriterType, SeenType
  <2> QED
    BY <2>1, <2>2, TypingTypes
<1>2. TimerInStep
  BY DEF TypingInit, TimerInStep
<1>3. WithinLimit
  <2>1. hits = <<>> /\ hits \in Seq(AgeType) /\ Len(hits) <= Limit /\ DOMAIN hits = {}
    BY TypingConstants DEF TypingInit
  <2>2. Cardinality({k \in DOMAIN hits : hits[k] < Ttl}) <= Limit
    BY <2>1, WithinLimitFollows
  <2>3. FreshHits = <<>>
    BY <2>1, FreshHitsOf DEF Expired, OldestFirst
  <2> QED
    BY <2>1, <2>2, <2>3 DEF WithinLimit
<1> QED
  BY <1>1, <1>2, <1>3 DEF TypingIndInv

LEMMA TimePassesKeeps == TypingIndInv /\ TimePasses => TypingIndInv'
<1> SUFFICES ASSUME TypingIndInv, TimePasses PROVE TypingIndInv'
  OBVIOUS
<1> USE TypingConstants
<1>1. /\ writer \in [Tabs -> WriterType] /\ seen \in SeenType
      /\ hits \in Seq(AgeType) /\ Len(hits) <= Limit /\ OldestFirst(hits)
      /\ wire \in Seq(EventType) /\ Len(wire) <= MaxWire /\ since \in 0 .. ClearAfter
  BY TypingTypes DEF TypingIndInv, WithinLimit, OldestFirst
<1>2. hits' \in Seq(AgeType) /\ Len(hits') <= Limit /\ OldestFirst(hits')
  <2>1. DOMAIN hits = 1 .. Len(hits) /\ Len(hits) \in Nat /\ \A k \in 1 .. Len(hits) : hits[k] \in AgeType
    BY <1>1, Places
  <2>2. hits' = [k \in 1 .. Len(hits) |-> Older(hits[k], Ttl)]
    BY <2>1 DEF TimePasses
  <2>3. /\ \A k \in AgeType : Older(k, Ttl) \in AgeType
        /\ \A j, k \in AgeType : j >= k => Older(j, Ttl) >= Older(k, Ttl)
    BY Ages DEF AgeType
  <2>4. hits' \in Seq(AgeType) /\ Len(hits') = Len(hits)
    BY <2>1, <2>2, <2>3, IsASeq
  <2>5. OldestFirst(hits')
    <3>1. DOMAIN hits' = 1 .. Len(hits)
      BY <2>2
    <3>2. \A k \in 1 .. Len(hits) : hits'[k] = Older(hits[k], Ttl)
      BY <2>2
    <3> QED
      BY <1>1, <2>1, <2>3, <3>1, <3>2 DEF OldestFirst
  <2> QED
    BY <1>1, <2>4, <2>5
<1>3. WithinLimit'
  BY <1>2, WindowKeeps
<1>4. writer' \in [Tabs -> WriterType]
  <2>1. ASSUME NEW t \in Tabs
        PROVE  [writer[t] EXCEPT !.last = Older(@, Throttle), !.stop = Sooner(@)] \in WriterType
    <3>1. writer[t] \in WriterType
      BY <1>1
    <3>2. writer[t].last \in 0 .. Throttle /\ writer[t].stop \in 0 .. StopAfter
      BY <3>1 DEF WriterType
    <3>3. Older(writer[t].last, Throttle) \in 0 .. Throttle /\ Sooner(writer[t].stop) \in 0 .. StopAfter
      BY <3>2, Ages
    <3> QED
      BY <3>1, <3>3 DEF WriterType
  <2> QED
    BY <2>1 DEF TimePasses
<1>5. seen' \in SeenType
  <2>1. seen.timer \in 0 .. ClearAfter /\ seen.typing \in BOOLEAN
    BY <1>1 DEF SeenType
  <2>2. Sooner(seen.timer) \in 0 .. ClearAfter /\ (seen.typing /\ seen.timer # 1) \in BOOLEAN
    BY <2>1, Ages
  <2> QED
    BY <1>1, <2>2 DEF TimePasses, SeenType
<1>6. since' \in 0 .. ClearAfter /\ wire' = wire
  BY <1>1, Ages DEF TimePasses
<1>7. TimerInStep'
  <2>1. /\ seen'.typing = (seen.typing /\ seen.timer # 1) /\ seen'.timer = Sooner(seen.timer)
        /\ since' = Older(since, ClearAfter)
    BY <1>1 DEF TimePasses, SeenType
  <2>2. seen.timer \in Nat /\ since \in Nat /\ ClearAfter \in Nat
    BY <1>1 DEF SeenType
  <2>3. SUFFICES ASSUME seen.typing, seen.timer # 1
                 PROVE  Sooner(seen.timer) > 0 /\ Older(since, ClearAfter) + Sooner(seen.timer) = ClearAfter
    BY <2>1 DEF TimerInStep
  <2>4. seen.timer > 0 /\ since + seen.timer = ClearAfter
    BY <2>3 DEF TimerInStep, TypingIndInv
  <2>5. Sooner(seen.timer) = seen.timer - 1 /\ Older(since, ClearAfter) = since + 1
    BY <2>2, <2>4 DEF Sooner, Older
  <2> QED
    BY <2>2, <2>3, <2>4, <2>5
<1> QED
  BY <1>1, <1>2, <1>3, <1>4, <1>5, <1>6, <1>7, TypingTypes DEF TypingIndInv

LEMMA TypingStep == TypingIndInv /\ [TypingNext]_typingVars => TypingIndInv'
<1> SUFFICES ASSUME TypingIndInv, [TypingNext]_typingVars PROVE TypingIndInv'
  OBVIOUS
<1> USE TypingConstants
<1>1. /\ writer \in [Tabs -> WriterType] /\ seen \in SeenType
      /\ hits \in Seq(AgeType) /\ Len(hits) <= Limit
      /\ wire \in Seq(EventType) /\ Len(wire) <= MaxWire /\ since \in 0 .. ClearAfter
  BY TypingTypes DEF TypingIndInv
<1>2. TimerInStep /\ WithinLimit
  BY DEF TypingIndInv
<1>3. ASSUME NEW t \in Tabs, StopTyping(t) PROVE TypingIndInv'
  <2>1. writer[t] \in WriterType
    BY <1>1
  <2>2. writer' \in [Tabs -> WriterType]
    <3>1. [writer[t] EXCEPT !.stop = 0, !.last = Throttle] \in WriterType
      <4>1. 0 \in 0 .. StopAfter /\ Throttle \in 0 .. Throttle
        OBVIOUS
      <4> QED
        BY <2>1, <4>1 DEF WriterType
    <3>2. writer' = [writer EXCEPT ![t] = [writer[t] EXCEPT !.stop = 0, !.last = Throttle]]
      BY <1>1, <1>3 DEF StopTyping, WriterType
    <3> QED
      BY <1>1, <3>1, <3>2
  <2>3. /\ hits' \in Seq(AgeType) /\ Len(hits') <= Limit /\ WithinLimit'
        /\ wire' \in Seq(EventType) /\ Len(wire') <= MaxWire
    BY <1>3, <2>1, HandleTypingKeeps DEF StopTyping, WriterType
  <2>4. seen' = seen /\ since' = since
    BY <1>3 DEF StopTyping
  <2> QED
    BY <1>1, <1>2, <2>2, <2>3, <2>4, TypingTypes DEF TypingIndInv, TimerInStep
<1>4. ASSUME NEW t \in Tabs, NEW r \in Rooms, NotifyTyping(t, r) PROVE TypingIndInv'
  <2>1. writer' \in [Tabs -> WriterType]
    BY <1>1, <1>4 DEF NotifyTyping, WriterType
  <2>2. /\ hits' \in Seq(AgeType) /\ Len(hits') <= Limit /\ WithinLimit'
        /\ wire' \in Seq(EventType) /\ Len(wire') <= MaxWire
    BY <1>4, HandleTypingKeeps DEF NotifyTyping
  <2>3. seen' = seen /\ since' = since
    BY <1>4 DEF NotifyTyping
  <2> QED
    BY <1>1, <1>2, <2>1, <2>2, <2>3, TypingTypes DEF TypingIndInv, TimerInStep
<1>5. CASE OnTyping
  <2>1. /\ Head(wire) \in EventType /\ Tail(wire) \in Seq(EventType)
        /\ Len(Tail(wire)) = Len(wire) - 1 /\ Len(wire) \in Nat
    BY <1>1, <1>5, HeadTailProperties DEF OnTyping
  <2>2. wire' \in Seq(EventType) /\ Len(wire') <= MaxWire
    BY <1>1, <1>5, <2>1 DEF OnTyping
  <2> DEFINE e == Head(wire)
  <2>3. e.on \in BOOLEAN /\ ClearAfter \in 0 .. ClearAfter /\ 0 \in 0 .. ClearAfter /\ ClearAfter > 0
    BY <2>1 DEF EventType
  <2>4. \/ seen' = seen /\ since' = since
        \/ /\ seen' = [seen EXCEPT !.typing = e.on, !.timer = IF e.on THEN ClearAfter ELSE 0]
           /\ since' = IF e.on THEN 0 ELSE since
    BY <1>5 DEF OnTyping
  <2> HIDE DEF e
  <2>7. seen' \in SeenType /\ since' \in 0 .. ClearAfter
    BY <1>1, <2>3, <2>4 DEF SeenType
  <2>8. TimerInStep'
    <3>1. CASE seen' = seen /\ since' = since
      BY <1>2, <3>1 DEF TimerInStep
    <3>2. CASE /\ seen' = [seen EXCEPT !.typing = e.on, !.timer = IF e.on THEN ClearAfter ELSE 0]
               /\ since' = IF e.on THEN 0 ELSE since
      <4>1. seen'.typing = e.on /\ seen'.timer = IF e.on THEN ClearAfter ELSE 0
        BY <1>1, <3>2 DEF SeenType
      <4> QED
        BY <2>3, <3>2, <4>1 DEF TimerInStep
    <3> QED
      BY <2>4, <3>1, <3>2
  <2>5. writer' = writer /\ hits' = hits
    BY <1>5 DEF OnTyping
  <2>6. WithinLimit'
    BY <1>2, <2>5 DEF WithinLimit, Expired, FreshHits
  <2> QED
    BY <1>1, <2>2, <2>7, <2>8, <2>5, <2>6, TypingTypes DEF TypingIndInv
<1>6. CASE OnText \/ \E r \in Rooms : OpenRoom(r)
  <2>1. seen' \in SeenType /\ ~seen'.typing
    BY <1>1, <1>6 DEF OnText, OpenRoom, SeenType
  <2>2. UNCHANGED <<writer, hits, wire, since>>
    BY <1>6 DEF OnText, OpenRoom
  <2>3. WithinLimit'
    BY <1>2, <2>2 DEF WithinLimit, Expired, FreshHits
  <2> QED
    BY <1>1, <2>1, <2>2, <2>3, TypingTypes DEF TypingIndInv, TimerInStep
<1>7. CASE UNCHANGED typingVars
  BY <1>1, <1>2, <1>7, TypingTypes
     DEF typingVars, TypingIndInv, TimerInStep, WithinLimit, Expired, FreshHits
<1> QED
  BY <1>3, <1>4, <1>5, <1>6, <1>7, TimePassesKeeps DEF TypingNext

\* Nobody is shown typing for longer than the time after an event, whatever
\* happens to the event that ends it (onTyping, notifyTyping); and the limiter
\* lets no more than its limit through within any window (WsRateLimiter).
THEOREM TypingSafe == TypingSpec => []TypingInv
<1>1. TypingIndInv => TypingInv
  <2> SUFFICES ASSUME TypingIndInv PROVE TypingInv
    OBVIOUS
  <2>1. TypingEnds
    BY TypingTypes, TypingConstants DEF TypingIndInv, TimerInStep, TypingEnds, SeenType
  <2> QED
    BY <2>1 DEF TypingIndInv, TypingInv
<1> QED
  BY <1>1, TypingInitially, TypingStep, PTL DEF TypingSpec

=============================================================================
