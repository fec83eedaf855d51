--------------------------- MODULE MCOfflineQueue ---------------------------
(* OfflineQueue and CryptoWorker side by side.  They share no variable, so  *)
(* a behaviour takes the steps of one of them, `part', while the other      *)
(* stays in its initial state, where nothing of it that is fair can happen. *)
EXTENDS OfflineQueue, CryptoWorker

VARIABLE part

AllVars == <<part, vars, workerVars>>
AllNext ==
  /\ \/ part = "queue" /\ Next /\ UNCHANGED workerVars
     \/ part = "worker" /\ WorkerNext /\ UNCHANGED vars
  /\ UNCHANGED part

AllInit == Init /\ WorkerInit /\ part \in {"queue", "worker"}

AllSpec == AllInit /\ [][AllNext]_AllVars /\ QueueFairness /\ WorkerFairness
=============================================================================
