---------------------------- MODULE MCDeviceSync ----------------------------
(* DeviceSync and the smaller components Push and Typing side by side.     *)
(* They share no variable: a behaviour takes the steps of one of them,      *)
(* `part', while the others stay as they began.                             *)
EXTENDS DeviceSync, Push, Typing, TLC

VARIABLE part

AllVars == <<part, vars, pushVars, typingVars>>

\* The targets are interchangeable.
Symmetric == Permutations(Targets)

AllInit ==
  /\ part \in {"sync", "push", "typing"}
  /\ Init /\ PushInit /\ TypingInit

AllNext ==
  /\ \/ part = "sync" /\ Next /\ UNCHANGED <<pushVars, typingVars>>
     \/ part = "push" /\ PushNext /\ UNCHANGED <<vars, typingVars>>
     \/ part = "typing" /\ TypingNext /\ UNCHANGED <<vars, pushVars>>
  /\ UNCHANGED part

AllSpec == AllInit /\ [][AllNext]_AllVars
=============================================================================
