------------------------------ MODULE MCAccount ------------------------------
(* Account, Sidebar and Contacts side by side.  They share no variable, so   *)
(* their steps interleaved reach nothing that each does not reach by itself: *)
(* a behaviour takes the steps of one, `part', from its initial states.      *)
EXTENDS Account, Sidebar, Contacts, TLC

VARIABLE part

Symmetric == Permutations(Devices)

NoContacts == \A p \in Peers : rows[p] = "none"

AllInit ==
  /\ AccountInit /\ SideInit /\ ContactsInit
  /\ \/ part = "list" /\ NoContacts
     \/ part = "account" /\ memberOf = {} /\ NoContacts
     \/ part = "contacts" /\ memberOf = {}

AllNext ==
  /\ \/ part = "account" /\ AccountNext /\ UNCHANGED <<sideVars, contactVars>>
     \/ part = "list" /\ SideNext /\ UNCHANGED <<accountVars, contactVars>>
     \/ part = "contacts" /\ ContactsNext /\ UNCHANGED <<accountVars, sideVars>>
  /\ UNCHANGED part

AllSpec == AllInit /\ [][AllNext]_<<part, accountVars, sideVars, contactVars>>
=============================================================================
