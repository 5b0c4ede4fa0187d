-------------------------- MODULE WorkerProperties --------------------------
(***************************************************************************)
(* What an UpstreamWorker is expected to do: invariants, action properties *)
(* and liveness of Worker.                                                 *)
(***************************************************************************)
EXTENDS Worker

(* A serial worker forwards one call at a time to its process: the next    *)
(* request waits for the reply of the one before (upstream.py:260-268).    *)
OneAtATime == Concurrency = "serial" => \A c, d \in active : c = d

(* No call is lost sight of: while its future is open, a call is on the    *)
(* queue or in execution, and after a failure of the task nothing is left  *)
(* in execution with an open future (upstream.py:269-285).                 *)
OpenCallsAccounted ==
    \A c \in Calls : result[c] = "pending" =>
        c \in QueuedCalls \/ (c \in active /\ task # "done")

(* The session is never left by a normal return while a call is being      *)
(* executed through it: the sentinel waits for parallel calls, and the     *)
(* idle timer is ignored while one runs (upstream.py:249-259).             *)
NoCallCutOff == task = "exiting" => active = {}

(* The strengthening that makes the safety properties inductive: a serial  *)
(* worker has a call in execution only while it waits for its reply.       *)
SerialShape ==
    /\ task = "serving" => Concurrency = "serial"
    /\ Concurrency = "serial" /\ task # "serving" => active = {}

(* ... and a call that was not made yet has no future.                     *)
FreshCalls == \A c \in Calls : caller[c] = "new" => result[c] = "none"

WorkerInv ==
    /\ TypeOK /\ SerialShape /\ FreshCalls
    /\ OneAtATime /\ NoCallCutOff /\ OpenCallsAccounted

(* A reply that has been fixed stays: neither a late answer to a call that *)
(* timed out, nor the failure of the task, overwrites it.                  *)
ReplyIsFinal == [][\A c \in Calls : Settled(result[c]) => result'[c] = result[c]]_vars

(* close() returns, whatever the process does with the call it is          *)
(* executing: after the grace period the task is cancelled.                *)
CloseCompletes == owner = "stopping" ~> owner = "closed"

(* A worker without calls goes away by itself: a task that waits for work  *)
(* ends, unless a call comes in and hangs in the process.                  *)
IdleWorkerEnds == task = "waiting" ~> (task = "done" \/ active # {})

(* README.md:236, "A worker shuts down only when its TTL expires with no   *)
(* queued or active calls": when the idle timer ends the task, no call is  *)
(* queued (upstream.py:248-253).                                           *)
IdleExitOnlyWhenQuiet ==
    [][task = "idleDue" /\ task' = "exiting" => QueuedCalls = {}]_vars
=============================================================================
