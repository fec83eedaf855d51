---------------------------- MODULE CryptoWorker ----------------------------
(***************************************************************************)
(* The crypto worker of a page and its RPC client (client/src/lib/         *)
(* cryptoWorkerClient.ts, client/src/workers/crypto.worker.ts).  The first *)
(* call starts the worker, which loads the WASM module; calls wait for     *)
(* that, are numbered, posted, and answered one by one.  Messages to and   *)
(* from a worker are delivered in order, but the worker's handler of       *)
(* __init__ awaits, so a request could reach it before the module is set.  *)
(***************************************************************************)
EXTENDS Naturals, Sequences, SequencesExt, FiniteSets

CONSTANTS WorkerCalls,  \* the calls of `wasm' a page makes
          Generators    \* those that generate keys from nothing

ASSUME WorkerConstants == Generators \subseteq WorkerCalls /\ IsFiniteSet(WorkerCalls)

VARIABLES
  worker,   \* "none", "starting", "loading", "up", "broken" (init) or "absent" (script)
  ready,    \* readyPromise: "none", "pending", "resolved" or "rejected"
  rpc,      \* per call: at what step it is, its number and what it returned
  seq,      \* the last number given
  pending,  \* the map from numbers to calls
  down, up  \* messages to and from the worker

workerVars == <<worker, ready, rpc, seq, pending, down, up>>

NoCallYet == [at |-> "none", id |-> 0, got |-> "none"]
Returned == {"resolved", "rejected"}
Numbers == 0 .. Cardinality(WorkerCalls)

WorkerTypeOK ==
  /\ worker \in {"none", "starting", "loading", "up", "broken", "absent"}
  /\ ready \in {"none", "pending", "resolved", "rejected"}
  /\ rpc \in [WorkerCalls -> [at : {"none", "waiting", "posted"} \cup Returned,
                              id : Numbers, got : WorkerCalls \cup {"none"}]]
  /\ seq \in Numbers
  /\ DOMAIN pending \subseteq Numbers

WorkerInit ==
  /\ worker = "none" /\ ready = "none" /\ seq = 0
  /\ rpc = [c \in WorkerCalls |-> NoCallYet]
  /\ pending = <<>> /\ down = <<>> /\ up = <<>>

-----------------------------------------------------------------------------
(* The page.                                                               *)

\* ensureWorker: the worker is started once, whatever becomes of it.
EnsureWorker ==
  IF worker = "none"
  THEN worker' = "starting" /\ ready' = "pending" /\ down' = <<[op |-> "init"]>>
  ELSE UNCHANGED <<worker, ready, down>>

\* call, and the table of operations over it: up to `await readyPromise'.
Call(c) ==
  /\ rpc[c].at = "none" /\ EnsureWorker
  /\ rpc' = [rpc EXCEPT ![c].at = "waiting"]
  /\ UNCHANGED <<seq, pending, up>>

\* Mutant of Post: the number is taken but not counted.
PostSameNumber(c) ==
  /\ rpc[c].at = "waiting" /\ ready = "resolved"
  /\ seq' = 1
  /\ pending' = [i \in DOMAIN pending \cup {1} |-> IF i = 1 THEN c ELSE pending[i]]
  /\ rpc' = [rpc EXCEPT ![c].at = "posted", ![c].id = 1]
  /\ down' = Append(down, [op |-> "call", id |-> 1, of |-> c])
  /\ UNCHANGED <<worker, ready, up>>

\* Mutant of Post: it does not wait for the worker to be ready.
PostAtOnce(c) ==
  /\ rpc[c].at = "waiting" /\ ready # "rejected"
  /\ seq' = seq + 1
  /\ pending' = [i \in DOMAIN pending \cup {seq'} |-> IF i = seq' THEN c ELSE pending[i]]
  /\ rpc' = [rpc EXCEPT ![c].at = "posted", ![c].id = seq']
  /\ down' = Append(down, [op |-> "call", id |-> seq', of |-> c])
  /\ UNCHANGED <<worker, ready, up>>

\* call after the await: a number, an entry in `pending', a message.
Post(c) ==
  /\ rpc[c].at = "waiting" /\ ready = "resolved"
  /\ seq' = seq + 1
  /\ pending' = [i \in DOMAIN pending \cup {seq'} |-> IF i = seq' THEN c ELSE pending[i]]
  /\ rpc' = [rpc EXCEPT ![c].at = "posted", ![c].id = seq']
  /\ down' = Append(down, [op |-> "call", id |-> seq', of |-> c])
  /\ UNCHANGED <<worker, ready, up>>

\* readyPromise was rejected: the call throws.
Refused(c) ==
  /\ rpc[c].at = "waiting" /\ ready = "rejected"
  /\ rpc' = [rpc EXCEPT ![c].at = "rejected"]
  /\ UNCHANGED <<worker, ready, seq, pending, down, up>>

\* A promise is settled once: what comes later changes nothing.
Settle(to) == ready' = IF ready = "pending" THEN to ELSE ready

\* onmessage of the page: the state of the worker, or the answer to a call.
OnMessage ==
  /\ up # <<>> /\ up' = Tail(up)
  /\ LET m == Head(up) IN
     IF m.op \in {"ready", "error"}
     THEN /\ Settle(IF m.op = "ready" THEN "resolved" ELSE "rejected")
          /\ UNCHANGED <<rpc, pending>>
     ELSE /\ pending' = [i \in DOMAIN pending \ {m.id} |-> pending[i]]
          /\ rpc' = IF m.id \in DOMAIN pending
                    THEN [rpc EXCEPT ![pending[m.id]].at = m.ends, ![pending[m.id]].got = m.of]
                    ELSE rpc
          /\ UNCHANGED ready
  /\ UNCHANGED <<worker, seq, down>>

\* onerror: the script could not be loaded.
OnError ==
  /\ worker = "starting" /\ worker' = "absent" /\ Settle("rejected")
  /\ UNCHANGED <<rpc, seq, pending, down, up>>

-----------------------------------------------------------------------------
(* The worker.                                                             *)

\* onmessage of the worker, __init__: up to `await init'.
TakeInit ==
  /\ worker = "starting" /\ worker' = "loading" /\ down' = Tail(down)
  /\ UNCHANGED <<ready, rpc, seq, pending, up>>

\* __init__ after the await: the module is there, or could not be loaded.
Loaded ==
  /\ worker = "loading"
  /\ \E ok \in BOOLEAN :
       /\ worker' = IF ok THEN "up" ELSE "broken"
       /\ up' = Append(up, [op |-> IF ok THEN "ready" ELSE "error"])
  /\ UNCHANGED <<ready, rpc, seq, pending, down>>

\* The bindings keep nothing between calls.  Those that are given bytes check
\* and parse them and may return an error, which makes the worker throw.
Outcomes(c) == IF c \in Generators THEN {"resolved"} ELSE Returned

\* dispatch: the binding of the operation returns or throws.
Dispatch(m) ==
  \E ends \in Outcomes(m.of) :
    up' = Append(up, [op |-> "answer", id |-> m.id, of |-> m.of, ends |-> ends])

\* onmessage of the worker for a request; without the module it is dropped.
Serve ==
  /\ worker \in {"loading", "up", "broken"} /\ down # <<>> /\ down' = Tail(down)
  /\ IF worker = "up" THEN Dispatch(Head(down)) ELSE UNCHANGED up
  /\ UNCHANGED <<worker, ready, rpc, seq, pending>>

WorkerNext ==
  \/ \E c \in WorkerCalls : Call(c) \/ Post(c) \/ Refused(c)
  \/ OnMessage \/ OnError \/ TakeInit \/ Loaded \/ Serve

WorkerSpec == WorkerInit /\ [][WorkerNext]_workerVars

\* Promises continue and messages arrive; the request for the module ends.
WorkerFairness ==
  /\ \A c \in WorkerCalls : WF_workerVars(Post(c) \/ Refused(c))
  /\ WF_workerVars(OnMessage) /\ WF_workerVars(TakeInit \/ OnError)
  /\ WF_workerVars(Loaded) /\ WF_workerVars(Serve)

-----------------------------------------------------------------------------
\* A call returns what was computed for it, however many are under way, and no
\* number stays in the map after its answer (`pending').
AnswersItsCall ==
  \A c \in WorkerCalls :
    /\ rpc[c].got \in {c, "none"}
    /\ rpc[c].at \in Returned => \A i \in DOMAIN pending : pending[i] # c

\* No request is dropped by a worker without its module: a call that waits for
\* its answer has its request, or the answer, under way.
NothingDropped ==
  \A c \in WorkerCalls : rpc[c].at = "posted" =>
    \E m \in ToSet(down) \cup ToSet(up) : m.op \in {"call", "answer"} /\ m.id = rpc[c].id

WorkerInv == WorkerTypeOK /\ AnswersItsCall /\ NothingDropped

\* Every call returns, also one made while the module is loading or after it
\* failed to load: no request is posted to a worker that would drop it.
CallsReturn ==
  \A c \in WorkerCalls : rpc[c].at = "waiting" ~> rpc[c].at \in Returned
=============================================================================
