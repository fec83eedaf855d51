---------------------------- MODULE MCDmSession ----------------------------
(* DmSession and Fanout side by side.  They share no variable, so their     *)
(* steps interleaved reach nothing that each does not reach by itself: a    *)
(* behaviour takes the steps of one, `part', from the initial states of it. *)
EXTENDS DmSession, Fanout

VARIABLE part

AllInit ==
  /\ Init /\ FanInit
  /\ \/ part = "fanout" /\ registered = Mine  \* the recipient's devices may come later
     \/ part = "pair" /\ registered = {}

AllNext ==
  /\ \/ part = "pair" /\ Next /\ UNCHANGED fanVars
     \/ part = "fanout" /\ FanNext /\ UNCHANGED vars
  /\ UNCHANGED part

AllSpec == AllInit /\ [][AllNext]_<<part, vars, fanVars>>
=============================================================================
