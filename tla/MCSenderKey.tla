---------------------------- MODULE MCSenderKey ----------------------------
(* SenderKey, Search and Calls side by side.  They share no variable: a     *)
(* behaviour takes the steps of one of them, `part', while the others stay  *)
(* as they began.  Members, conversations and words are interchangeable.    *)
(* Here one user has two tabs, which hear of the same call.                 *)
EXTENDS SenderKey, Search, Calls, TLC

CONSTANTS a1, b1, b2, alice, bob
ThreeTabs == (a1 :> alice) @@ (b1 :> bob) @@ (b2 :> bob)

VARIABLE part

AllVars == <<part, vars, searchVars, callVars>>

Symmetric == Permutations(Members) \cup Permutations(Threads) \cup Permutations(Words)

AllNext ==
  /\ \/ part = "keys" /\ Next /\ UNCHANGED <<searchVars, callVars>>
     \/ part = "search" /\ SearchNext /\ UNCHANGED <<vars, callVars>>
     \/ part = "calls" /\ CallsNext /\ UNCHANGED <<vars, searchVars>>
  /\ UNCHANGED part

AllInit == Init /\ SearchInit /\ CallsInit /\ part \in {"keys", "search", "calls"}

AllSpec == AllInit /\ [][AllNext]_AllVars
=============================================================================
