----------------------------- MODULE WorkerPort -----------------------------
(***************************************************************************)
(* UpstreamWorker keeps the promise stated by CallPort.  The refinement    *)
(* mapping forgets the task, its sentinel and the coroutines that start    *)
(* and close it, and counts a call as running while it is in               *)
(* _active_results.                                                        *)
(***************************************************************************)
EXTENDS WorkerProperties

(* The queue without the sentinel, of which there is never more than one.  *)
StopAt(q) == {i \in DOMAIN q : q[i] = Stop}
WithoutStop(q) ==
    IF StopAt(q) = {} THEN q
    ELSE LET k == CHOOSE k \in StopAt(q) : TRUE IN
         [i \in 1 .. Len(q) - 1 |-> IF i < k THEN q[i] ELSE q[i + 1]]

Port == INSTANCE CallPort WITH
    Serial <- Concurrency = "serial",
    line <- WithoutStop(queue),
    running <- active,
    reply <- result

(* A worker implements its call port: calls are forwarded at most once and *)
(* in submission order, one at a time if it is serial, each reply is fixed *)
(* once, and every caller comes back.                                      *)
ImplementsPort == Port!PortSpec

(* close() is called once, so that there is one sentinel; and a call on    *)
(* the queue or in execution has a future.  What the refinement needs.     *)
OneSentinel ==
    /\ \A i, j \in StopAt(queue) : i = j
    /\ StopAt(queue) # {} => owner \in {"stopping", "killing", "closed"}
    /\ task = "unstarted" => owner = "none"
Opened == \A c \in active \union QueuedCalls : result[c] # "none"
PortInv == WorkerInv /\ OneSentinel /\ Opened
=============================================================================
