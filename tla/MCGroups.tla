------------------------------ MODULE MCGroups ------------------------------
(* GroupKeys (the sender's side), GroupReceive (a reader's side), SignedUrls *)
(* and Reports side by side.  They share no variable: a behaviour takes the  *)
(* steps of one.  Calls of one tab are interchangeable in the first two.     *)
EXTENDS GroupKeys, GroupReceive, SignedUrls, Reports, TLC

VARIABLE side

Symmetric == Permutations(Slots) \cup Permutations(Calls)

GroupsInit ==
  /\ KeysInit /\ Init /\ UrlInit /\ ReportInit
  /\ side \in {"sender", "reader", "urls", "reports"}

GroupsNext ==
  /\ \/ side = "sender" /\ KeysNext /\ UNCHANGED <<vars, urlVars, reportVars>>
     \/ side = "reader" /\ Next /\ UNCHANGED <<keysVars, urlVars, reportVars>>
     \/ side = "urls" /\ UrlNext /\ UNCHANGED <<vars, keysVars, reportVars>>
     \/ side = "reports" /\ ReportNext /\ UNCHANGED <<vars, keysVars, urlVars>>
  /\ UNCHANGED side

GroupsSpec == GroupsInit /\ [][GroupsNext]_<<side, vars, keysVars, urlVars, reportVars>>
=============================================================================
