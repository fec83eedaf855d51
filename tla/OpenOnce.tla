------------------------------ MODULE OpenOnce ------------------------------
(***************************************************************************)
(* What the sender-key protocol promises a group, without any ratchet: the *)
(* sender numbers its messages, a member is given the keys of all messages *)
(* from some position on, once, and opening a message, in any order, costs *)
(* the member exactly the key of that message.                             *)
(***************************************************************************)
EXTENDS Naturals

CONSTANTS Members,    \* the recipients of the chain
          MaxMessages \* bound: how many messages the sender sends

VARIABLES sent,       \* how many messages were sent
          keys,       \* for each member the messages whose key it has
          opened      \* for each member the messages it has opened

vars == <<sent, keys, opened>>

Positions == 0 .. (MaxMessages - 1)

Init == /\ sent = 0
        /\ keys = [m \in Members |-> {}]
        /\ opened = [m \in Members |-> {}]

Send == /\ sent < MaxMessages
        /\ sent' = sent + 1
        /\ UNCHANGED <<keys, opened>>

Join(m, at) == /\ at <= sent
               /\ keys[m] = {} /\ opened[m] = {}
               /\ keys' = [keys EXCEPT ![m] = at .. (MaxMessages - 1)]
               /\ UNCHANGED <<sent, opened>>

Open(m, i) == /\ i < sent
              /\ i \in keys[m]
              /\ keys' = [keys EXCEPT ![m] = @ \ {i}]
              /\ opened' = [opened EXCEPT ![m] = @ \cup {i}]
              /\ UNCHANGED sent

Next == \/ Send
        \/ \E m \in Members : \E at \in 0 .. MaxMessages : Join(m, at)
        \/ \E m \in Members : \E i \in Positions : Open(m, i)

Spec == Init /\ [][Next]_vars
=============================================================================
