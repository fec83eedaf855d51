--------------------------- MODULE MCConversations ---------------------------
(* Conversations and Media side by side.  They share no variable, so their  *)
(* steps interleaved reach nothing that each does not reach by itself: a    *)
(* behaviour takes the steps of one, `part', from the initial states of it; *)
(* Media's begin in a group.                                                *)
EXTENDS Conversations, Media
CONSTANTS a1, a2, b1, alice, bob

VARIABLE part

OwnerOf == [t \in Tabs |-> IF t = b1 THEN bob ELSE alice]

AllInit == Init /\ MediaInit /\ chat \in Groups /\ part \in {"directory", "media"}

AllNext ==
  /\ \/ part = "directory" /\ Next /\ UNCHANGED mediaVars
     \/ part = "media" /\ MediaNext /\ UNCHANGED vars
  /\ UNCHANGED part

AllSpec == AllInit /\ [][AllNext]_<<part, vars, mediaVars>>
=============================================================================
