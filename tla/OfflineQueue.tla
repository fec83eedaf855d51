---------------------------- MODULE OfflineQueue ----------------------------
(***************************************************************************)
(* The in-memory queue of messages written while the client cannot send    *)
(* (client/src/hooks/useOfflineQueue.ts) with the flushMessage it is given *)
(* by useMessages.  One hook serves every conversation the user opens: the *)
(* chat component is not remounted when the conversation changes, and      *)
(* flushMessage seals with the encryption of the conversation open at the  *)
(* time.  Code between two awaits runs undisturbed; the connection, the    *)
(* user and other handlers interleave only while a message is being sealed.*)
(***************************************************************************)
EXTENDS Naturals, Sequences, SequencesExt

CONSTANTS Conversations, \* the conversations of the user
          None,          \* stands for no conversation and for no message
          MaxItems       \* bound: how many messages are queued

ASSUME QueueBounds == MaxItems \in Nat /\ None \notin Conversations

Ids == 1 .. MaxItems
Items == [id : Ids, to : Conversations]

VARIABLES
  open,      \* the conversation on the screen
  connected, \* socket.connected
  online,    \* isOnline, as the browser's online/offline events set it
  created,   \* how many messages were queued
  queue,     \* queueRef.current
  flushing,  \* flushingRef.current
  todo,      \* what the running flush has yet to hand to onFlush
  failed,    \* what onFlush refused in the running flush
  during,    \* history: the messages queued while a flush was running
  sealing,   \* the message being encrypted and for which conversation
  emitted    \* the messages emitted, each with the conversation it was sealed for

vars == <<open, connected, online, created, queue, flushing, todo, failed,
          sealing, emitted, during>>
net  == <<connected, online>>
loop == <<flushing, todo, failed, sealing>>

\* `with' is None for a message that is not encrypted: encryptContent returns
\* its argument when no conversation is open.
Sealings == [item : Items, with : Conversations \cup {None}]

ASSUME NoneIsNoSealing == None \notin Sealings

TypeOK ==
  /\ open \in Conversations \cup {None}
  /\ connected \in BOOLEAN /\ online \in BOOLEAN /\ flushing \in BOOLEAN
  /\ created \in 0 .. MaxItems
  /\ queue \in Seq(Items) /\ todo \in Seq(Items) /\ failed \in Seq(Items)
  /\ sealing \in Sealings \cup {None}
  /\ emitted \in Seq(Sealings)
  /\ during \in SUBSET Ids

-----------------------------------------------------------------------------
Init ==
  /\ open \in Conversations
  /\ connected = TRUE /\ online = TRUE
  /\ created = 0
  /\ queue = <<>> /\ todo = <<>> /\ failed = <<>>
  /\ flushing = FALSE
  /\ sealing = None
  /\ emitted = <<>>
  /\ during = {}

\* Other code runs only while flush is not running or awaits onFlush.
AtAwait == ~flushing \/ sealing # None

\* The user opens another conversation, or goes back to the list.
Open(c) ==
  /\ AtAwait
  /\ open' = c
  /\ UNCHANGED <<net, created, queue, loop, emitted, during>>

\* sendMessage when it cannot send: enqueue.
Enqueue ==
  /\ AtAwait
  /\ open # None
  /\ ~(connected /\ online)
  /\ created < MaxItems
  /\ created' = created + 1
  /\ queue' = Append(queue, [id |-> created + 1, to |-> open])
  /\ during' = IF flushing THEN during \cup {created + 1} ELSE during
  /\ UNCHANGED <<open, net, loop, emitted>>

\* Mutant of StartFlush: no flushingRef.
StartFlushAgain ==
  IF queue = <<>>
    THEN UNCHANGED <<flushing, todo, failed>>
    ELSE /\ flushing' = TRUE
         /\ todo' = queue
         /\ failed' = <<>>

\* flush, up to its first onFlush: it takes a snapshot of the queue.
StartFlush ==
  IF flushing \/ queue = <<>>
    THEN UNCHANGED <<flushing, todo, failed>>
    ELSE /\ flushing' = TRUE
         /\ todo' = queue
         /\ failed' = <<>>

\* Mutant of Connect: the connect event does not flush.
ConnectSilently ==
  /\ AtAwait
  /\ ~connected /\ connected' = TRUE
  /\ UNCHANGED <<open, online, created, queue, loop, emitted, during>>

\* The socket's connect event flushes; disconnect does nothing by itself.
Connect ==
  /\ AtAwait
  /\ ~connected /\ connected' = TRUE
  /\ StartFlush
  /\ UNCHANGED <<open, online, created, queue, sealing, emitted, during>>
Disconnect ==
  /\ AtAwait
  /\ connected /\ connected' = FALSE
  /\ UNCHANGED <<open, online, created, queue, loop, emitted, during>>

\* The window's online event flushes.
GoOnline ==
  /\ AtAwait
  /\ ~online /\ online' = TRUE
  /\ StartFlush
  /\ UNCHANGED <<open, connected, created, queue, sealing, emitted, during>>
GoOffline ==
  /\ AtAwait
  /\ online /\ online' = FALSE
  /\ UNCHANGED <<open, connected, created, queue, loop, emitted, during>>

\* Mutant of Finish: the refused messages are not put back.
FinishEmpty(refused) ==
  /\ queue' = <<>>
  /\ flushing' = FALSE /\ todo' = <<>> /\ failed' = <<>>

\* The end of flush: the queue becomes what onFlush refused.
Finish(refused) ==
  /\ queue' = refused
  /\ flushing' = FALSE /\ todo' = <<>> /\ failed' = <<>>

\* onFlush without a connection refuses at once, message after message.
GiveUp ==
  /\ flushing /\ sealing = None /\ ~connected
  /\ Finish(failed \o todo)
  /\ UNCHANGED <<open, net, created, sealing, emitted, during>>

\* onFlush with a connection starts to encrypt, for the open conversation.
Seal ==
  /\ flushing /\ sealing = None /\ connected
  /\ sealing' = [item |-> Head(todo), with |-> open]
  /\ UNCHANGED <<open, net, created, queue, flushing, todo, failed,
                 emitted, during>>

\* The loop goes on with the next message or ends.
GoOn(refused) ==
  IF Len(todo) = 1
    THEN Finish(refused)
    ELSE /\ todo' = Tail(todo) /\ failed' = refused
         /\ UNCHANGED <<queue, flushing>>

\* The message is encrypted and emitted (the socket keeps what is emitted
\* while it is disconnected): onFlush returns true.
Emit ==
  /\ sealing # None
  /\ emitted' = Append(emitted, sealing)
  /\ sealing' = None
  /\ GoOn(failed)
  /\ UNCHANGED <<open, net, created, during>>

\* Encryption fails: onFlush returns false.
SealFails ==
  /\ sealing # None
  /\ sealing' = None
  /\ GoOn(Append(failed, sealing.item))
  /\ UNCHANGED <<open, net, created, emitted, during>>

Next ==
  \/ \E c \in Conversations \cup {None} : Open(c)
  \/ Enqueue
  \/ Connect \/ Disconnect \/ GoOnline \/ GoOffline
  \/ GiveUp \/ Seal \/ Emit \/ SealFails

Spec == Init /\ [][Next]_vars

\* Promises settle: a started flush is not abandoned by the event loop.
QueueFairness == WF_vars(GiveUp \/ Seal) /\ WF_vars(Emit \/ SealFails)

-----------------------------------------------------------------------------
InQueue(i) == \E q \in ToSet(queue) : q.id = i
IsSealing(i) == sealing # None /\ sealing.item.id = i
IsEmitted(i) == \E e \in ToSet(emitted) : e.item.id = i

\* No message is sent twice, however the connect and online events, their
\* flushes and the user's messages interleave ("onFlush is called once per item
\* when the queue drains", and again only after it returned false).
EmittedOnce ==
  \A j, k \in DOMAIN emitted :
    emitted[j].item.id = emitted[k].item.id => j = k

\* "Return false -> item stays in queue (retry later)": however flushes fail
\* half-way, a message that was in the queue when a flush began, or was queued
\* between flushes, is emitted or still queued.
KeptUnlessQueuedDuringFlush ==
  \A i \in (1 .. created) \ during : InQueue(i) \/ IsEmitted(i)

\* What flush does with the queue: nothing is sent twice, and nothing is lost
\* but what is queued while a flush runs.
QueueInv == TypeOK /\ EmittedOnce /\ KeptUnlessQueuedDuringFlush

\* Every queued message is flushed or still queued ("onFlush is called once per
\* item when the queue drains", useOfflineQueue.ts:12-14).
NothingForgotten ==
  \A i \in 1 .. created : InQueue(i) \/ IsEmitted(i)

\* A message removed as sent can be read where it was sent ("item removed from
\* queue (sent successfully)", useOfflineQueue.ts:13): it was encrypted for the
\* conversation it was written in.
SealedForItsConversation ==
  \A j \in DOMAIN emitted : emitted[j].with = emitted[j].item.to

\* A message left over by earlier flushes is retried when the connection comes
\* back for good ("connect" in useMessages flushes, item "stays in queue (retry
\* later)"), even if the connection was lost in the middle of a flush or while
\* a message was being sealed.  While the connection holds, nothing retries it.
RetriedOnReconnect ==
  \A i \in Ids :
    []( (InQueue(i) /\ ~connected /\ ~flushing /\ <>[]connected)
          => <>(IsSealing(i) \/ ~InQueue(i)) )
=============================================================================
