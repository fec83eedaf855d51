---------------------------- MODULE GroupReceive ----------------------------
(***************************************************************************)
(* How one member's browser reads the messages of one sender chain         *)
(* (client/src/hooks: useE2E, useMessages, useConversations).  A decrypt   *)
(* loads the group_receiver record, lets the worker decrypt, and saves the *)
(* new record; decryptFromGroup takes no lock, so the calls of a message   *)
(* page (a Promise.all over 30 messages), of the live handlers and of the  *)
(* sidebar overlap freely.  The ratchet itself is GroupRatchet.            *)
(***************************************************************************)
EXTENDS GroupRatchet

CONSTANTS Calls,       \* bound: the async calls in flight at one time
          NoReceiver,  \* stands for "no group_receiver record"
          MaxMessages  \* bound: how many messages the sender sends

ASSUME NoReceiverNotAState == NoReceiver \notin ReceiverStates
ASSUME MessagesAssumption == MaxMessages \in Nat

Messages == 0 .. (MaxMessages - 1)
Idle == [op |-> "idle"]

\* Who reads a message: the open conversation, live or from the history, keeps
\* the plaintext; the sidebar (useConversations) shows it and keeps nothing.
Readers == {"live", "history", "sidebar"}

CallStates ==
  {Idle}
    \cup [op : {"install"}]
    \cup [op : {"decrypt"}, msg : Messages, by : Readers, result : ReceiverStates]
    \cup [op : {"keep"}, msg : Messages]

VARIABLES
  sent,     \* how many messages the server stores; message i is iteration i
  receiver, \* the group_receiver record in IndexedDB
  call,     \* the calls in flight
  cached,   \* msg_plaintext: the messages whose plaintext is stored
  opened    \* history: the messages whose decrypt was saved

vars == <<sent, receiver, call, cached, opened>>

TypeOK ==
  /\ sent \in 0 .. MaxMessages
  /\ receiver \in ReceiverStates \cup {NoReceiver}
  /\ call \in [Calls -> CallStates]
  /\ cached \in SUBSET Messages
  /\ opened \in SUBSET Messages

Becomes(c, s) == call' = [call EXCEPT ![c] = s]

-----------------------------------------------------------------------------
Init ==
  /\ sent = 0
  /\ receiver = NoReceiver
  /\ call = [c \in Calls |-> Idle]
  /\ cached = {}
  /\ opened = {}

\* The sender sends its next message; it is stored for every later reader.
Send ==
  /\ sent < MaxMessages
  /\ sent' = sent + 1
  /\ UNCHANGED <<receiver, call, cached, opened>>

\* prefetchGroupSenderKeys finds no record and opens the envelope; a client
\* distributes a key when it generates it, so the envelope is at iteration 0.
InstallLoad(c) ==
  /\ call[c] = Idle
  /\ receiver = NoReceiver
  /\ Becomes(c, [op |-> "install"])
  /\ UNCHANGED <<sent, receiver, cached, opened>>

\* It saves the fresh record, whatever was stored in the meantime.
InstallSave(c) ==
  /\ call[c].op = "install"
  /\ receiver' = NewReceiverState(0)
  /\ Becomes(c, Idle)
  /\ UNCHANGED <<sent, cached, opened>>

\* decryptFromGroup up to its save.  The history skips a message whose
\* plaintext is cached; the live handlers and the sidebar do not look.  With
\* no record, or when the worker refuses, the call ends with a placeholder and
\* nothing is changed.
DecryptLoad(c, by, i) ==
  /\ call[c] = Idle
  /\ i < sent
  /\ by = "history" => i \notin cached
  /\ receiver # NoReceiver
  /\ HasMessageKey(receiver, i)
  /\ Becomes(c, [op |-> "decrypt", msg |-> i, by |-> by,
                 result |-> AfterMessageKey(receiver, i)])
  /\ UNCHANGED <<sent, receiver, cached, opened>>

\* saveGroupReceiver, and the plaintext goes back to the reader.
DecryptSave(c) ==
  /\ call[c].op = "decrypt"
  /\ receiver' = call[c].result
  /\ opened' = opened \cup {call[c].msg}
  /\ Becomes(c, IF call[c].by = "sidebar" THEN Idle
                ELSE [op |-> "keep", msg |-> call[c].msg])
  /\ UNCHANGED <<sent, cached>>

\* savePlaintext, a write of its own after the record's.
Keep(c) ==
  /\ call[c].op = "keep"
  /\ cached' = cached \cup {call[c].msg}
  /\ Becomes(c, Idle)
  /\ UNCHANGED <<sent, receiver, opened>>

\* The page is closed or reloaded: the calls in flight are gone.
Reload ==
  /\ call' = [c \in Calls |-> Idle]
  /\ UNCHANGED <<sent, receiver, cached, opened>>

Next ==
  \/ Send
  \/ \E c \in Calls : \/ InstallLoad(c)
                      \/ InstallSave(c)
                      \/ \E by \in Readers, i \in Messages : DecryptLoad(c, by, i)
                      \/ DecryptSave(c)
                      \/ Keep(c)
  \/ Reload

Spec == Init /\ [][Next]_vars

-----------------------------------------------------------------------------
\* No interleaving of unlocked calls loses a message nobody has read: whatever
\* updates overwrite each other (decryptFromGroup loads and saves without the
\* lock, prefetchGroupSenderKeys overwrites), the stored record can still
\* derive the key of each message that was not opened.
UnreadStaysReadable ==
  \A i \in Messages \ opened :
    receiver # NoReceiver => Derivable(receiver, i)

\* A record about to be saved by decryptFromGroup is as good: it can derive the
\* key of every unopened message but the one it has just consumed.
InFlightStaysReadable ==
  \A c \in Calls : call[c].op = "decrypt" =>
    \A i \in Messages \ (opened \cup {call[c].msg}) : Derivable(call[c].result, i)

\* group/mod.rs:9: "old message keys are deleted after use".
KeysDeletedAfterUse ==
  receiver # NoReceiver => \A i \in opened : ~Derivable(receiver, i)

IndInv == TypeOK /\ UnreadStaysReadable /\ InFlightStaysReadable
=============================================================================
