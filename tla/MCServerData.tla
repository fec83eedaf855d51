---------------------------- MODULE MCServerData ----------------------------
(* MessageStore and Vault side by side.  They share no variable, so their   *)
(* steps interleaved reach nothing that each does not reach by itself: a    *)
(* behaviour takes the steps of one, `part', from the initial states of it. *)
EXTENDS MessageStore, Vault, TLC

VARIABLE part

Symmetric == Permutations(Pages) \cup Permutations(Browsers)

AllInit ==
  /\ StoreInit /\ VaultInit
  /\ \/ part = "vault"
     \/ part = "store" /\ bundle = NoKey /\ \A p, q \in Pages : home[p] = home[q]

AllNext ==
  /\ \/ part = "store" /\ StoreNext /\ UNCHANGED vaultVars
     \/ part = "vault" /\ VaultNext /\ UNCHANGED storeVars
  /\ UNCHANGED part

AllSpec == AllInit /\ [][AllNext]_<<part, storeVars, vaultVars>>
=============================================================================
