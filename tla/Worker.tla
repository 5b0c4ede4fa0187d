------------------------------- MODULE Worker -------------------------------
(***************************************************************************)
(* One UpstreamWorker of src/irigate/upstream.py: the task that owns a     *)
(* stdio MCP process (_run), the futures and the queue through which       *)
(* start(), call_tool() and close() talk to it, and those coroutines.      *)
(*                                                                         *)
(* An action is the code a coroutine runs between two suspension points.   *)
(* The process and its MCP session are external: a launch may succeed,     *)
(* fail or hang, a forwarded call may be answered, refused or hang, and    *)
(* the session may break at any time.                                      *)
(***************************************************************************)
EXTENDS Naturals, Sequences

CONSTANTS Calls,        \* calls that may be made, each one once
          Stop,         \* the None that close() puts on the queue
          Concurrency   \* UpstreamConfig.concurrency

ASSUME StopAssumption == Stop \notin Calls
ASSUME ConcurrencyAssumption == Concurrency \in {"serial", "parallel"}

VARIABLES
    task,     \* where _run is; "done" is Task.done()
    ready,    \* the future _ready
    queue,    \* the asyncio.Queue _queue
    active,   \* _active_results, by call (and _parallel_tasks when parallel)
    result,   \* the future _Call.result of each call
    caller,   \* the call_tool() coroutine of each call
    owner     \* the start() or close() coroutine of the broker

vars == <<task, ready, queue, active, result, caller, owner>>

TaskStates == {"unstarted", "launching", "waiting", "idleDue", "serving",
               "gathering", "exiting", "unwinding", "done"}
Outcomes == {"ok", "toolError", "failed"}
Settled(r) == r \in Outcomes \union {"cancelled"}
QueuedCalls == {queue[i] : i \in DOMAIN queue} \ {Stop}

(* Every variable holds a value of its type.                               *)
TypeOK ==
    /\ task \in TaskStates
    /\ ready \in {"none", "pending", "tools", "error", "cancelled"}
    /\ queue \in Seq(Calls \union {Stop})
    /\ active \subseteq Calls
    /\ result \in [Calls -> {"none", "pending", "cancelled"} \union Outcomes]
    /\ caller \in [Calls -> {"new", "refused", "waiting", "answered", "timedOut", "abandoned"}]
    /\ owner \in {"none", "starting", "started", "stopping", "killing", "closed"}

Init ==
    /\ task = "unstarted"
    /\ ready = "none"
    /\ queue = <<>>
    /\ active = {}
    /\ result = [c \in Calls |-> "none"]
    /\ caller = [c \in Calls |-> "new"]
    /\ owner = "none"

(* "if not result.done()" guards every write to a result future.           *)
SettleAnyway(S, r) == [c \in Calls |-> IF c \in S THEN r ELSE result[c]]
Settle(S, r) == [c \in Calls |-> IF c \in S /\ result[c] = "pending" THEN r ELSE result[c]]

-----------------------------------------------------------------------------
(* start() and close() *)

Start ==
    /\ task = "unstarted" /\ task' = "launching"
    /\ ready' = "pending"
    /\ owner' = "starting"
    /\ UNCHANGED <<queue, active, result, caller>>

StartReturns ==
    /\ owner = "starting" /\ ready = "tools"
    /\ owner' = "started"
    /\ UNCHANGED <<task, ready, queue, active, result, caller>>

(* close() up to its first await: the sentinel goes behind the calls that  *)
(* are already queued; a finished task is only reaped.                     *)
CloseTask ==
    /\ IF task = "done"
       THEN owner' = "closed" /\ UNCHANGED queue
       ELSE owner' = "stopping" /\ queue' = Append(queue, Stop)
    /\ UNCHANGED <<task, active, result, caller>>

(* _ready carries an exception: start() closes the worker and re-raises.   *)
StartFails == owner = "starting" /\ ready = "error" /\ CloseTask /\ UNCHANGED ready

(* So it does when it is cancelled, which also cancels the awaited future. *)
StartCancelled ==
    /\ owner = "starting"
    /\ CloseTask
    /\ ready' = IF ready = "pending" THEN "cancelled" ELSE ready

Close == owner = "started" /\ CloseTask /\ UNCHANGED ready

-----------------------------------------------------------------------------
(* _run() *)

Move(from, to) ==
    /\ task = from /\ task' = to
    /\ UNCHANGED <<ready, queue, active, result, caller, owner>>

Launched ==
    /\ task = "launching" /\ task' = "waiting"
    /\ ready' = IF ready = "pending" THEN "tools" ELSE ready
    /\ UNCHANGED <<queue, active, result, caller, owner>>

LaunchFails == Move("launching", "unwinding")

(* wait_for(queue.get()) returns a call.  A parallel call gets a task of   *)
(* its own, whose first step cannot be told from this one.                 *)
Take(to) ==
    /\ task = "waiting" /\ task' = to
    /\ queue # <<>>
    /\ queue' = Tail(queue)
    /\ active' = active \union {Head(queue)}
    /\ UNCHANGED <<ready, result, caller, owner>>

DequeueUnchecked == Take(IF Concurrency = "serial" THEN "serving" ELSE "waiting")
DequeueAlwaysSpawns == Take("waiting") /\ Head(queue) # Stop
Dequeue ==
    /\ Take(IF Concurrency = "serial" THEN "serving" ELSE "waiting")
    /\ Head(queue) # Stop

(* ... or the sentinel: running parallel calls are gathered first.         *)
TakeStop(to) ==
    /\ task = "waiting" /\ task' = to
    /\ queue # <<>> /\ Head(queue) = Stop
    /\ queue' = Tail(queue)
    /\ UNCHANGED <<ready, active, result, caller, owner>>

DequeueStopAtOnce == TakeStop("exiting")
DequeueStop == TakeStop(IF active = {} THEN "exiting" ELSE "gathering")

Gathered == active = {} /\ Move("gathering", "exiting")

(* The idle timer fires while the queue is empty.  wait_for() hands the    *)
(* TimeoutError to _run only in a later step of the event loop, after      *)
(* cancelling queue.get(): an item put in between stays on the queue.      *)
IdleTimer == queue = <<>> /\ Move("waiting", "idleDue")

IdleTimeoutKeepsWaiting == Move("idleDue", "waiting")
IdleTimeout == Move("idleDue", IF active = {} THEN "exiting" ELSE "waiting")

(* A normal return leaves the session and the process, and whatever is     *)
(* still on the queue.                                                     *)
Exited == Move("exiting", "done")

(* An exception is raised where _run is suspended.  The serial call, or    *)
(* the calls being gathered, get it too; other parallel calls do not.      *)
Interrupt ==
    /\ task \notin {"unstarted", "unwinding", "done"}
    /\ task' = "unwinding"
    /\ IF task \in {"serving", "gathering"}
       THEN active' = {} /\ result' = Settle(active, "failed")
       ELSE UNCHANGED <<active, result>>
    /\ UNCHANGED <<ready, queue, caller>>

(* The task group of the session or of the transport collapses.            *)
SessionBreaks == task # "launching" /\ Interrupt /\ UNCHANGED owner

(* The handler of every exception, once the process is gone.               *)
FailAll(S) ==
    /\ task = "unwinding" /\ task' = "done"
    /\ ready' = IF ready = "pending" THEN "error" ELSE ready
    /\ result' = Settle(S, "failed")
    /\ queue' = <<>>
    /\ UNCHANGED <<active, caller, owner>>

HandlerFailsActiveOnly == FailAll(active)
Handler == FailAll(active \union QueuedCalls)

(* _execute_call() returns.  Once the session is gone it can only fail.    *)
CallReturns(c) ==
    /\ c \in active
    /\ active' = active \ {c}
    /\ \E r \in IF task \in {"unwinding", "done"} THEN {"failed"} ELSE Outcomes :
          result' = Settle({c}, r)
    /\ task' = IF task = "serving" THEN "waiting" ELSE task
    /\ UNCHANGED <<ready, queue, caller, owner>>

-----------------------------------------------------------------------------
(* close() while the task runs: after five seconds wait_for() cancels it.  *)

GraceExpiresQuietly ==
    /\ owner = "stopping" /\ task # "done"
    /\ owner' = "killing"
    /\ UNCHANGED <<task, ready, queue, active, result, caller>>

GraceExpires ==
    /\ owner = "stopping" /\ task # "done"
    /\ owner' = "killing"
    /\ \/ Interrupt
       \/ task = "unwinding" /\ UNCHANGED <<task, ready, queue, active, result, caller>>

CloseReturns ==
    /\ owner \in {"stopping", "killing"} /\ task = "done"
    /\ owner' = "closed"
    /\ UNCHANGED <<task, ready, queue, active, result, caller>>

-----------------------------------------------------------------------------
(* call_tool() *)

Submit(c, newQueue) ==
    /\ caller[c] = "new" /\ task \notin {"unstarted", "done"}
    /\ queue' = newQueue
    /\ result' = [result EXCEPT ![c] = "pending"]
    /\ caller' = [caller EXCEPT ![c] = "waiting"]
    /\ UNCHANGED <<task, ready, active, owner>>

EnqueueFirst(c) == Submit(c, <<c>> \o queue)
Enqueue(c) == Submit(c, Append(queue, c))

Resolve(c, outcome) ==
    /\ caller' = [caller EXCEPT ![c] = outcome]
    /\ UNCHANGED <<task, ready, queue, active, owner>>

Refuse(c) ==
    caller[c] = "new" /\ task \in {"unstarted", "done"} /\ Resolve(c, "refused") /\ UNCHANGED result

Answered(c) ==
    caller[c] = "waiting" /\ Settled(result[c]) /\ Resolve(c, "answered") /\ UNCHANGED result

(* The time limit passes: only the future is cancelled, the call itself    *)
(* stays on the queue or with the upstream process.  From Python 3.12 on   *)
(* wait_for() may raise although the reply has just been fixed.            *)
TimeOut(c) ==
    /\ caller[c] = "waiting"
    /\ result' = Settle({c}, "cancelled")
    /\ Resolve(c, "timedOut")

CallTimeoutOnceStarted(c) == c \in active /\ TimeOut(c)
CallTimeout(c) == TimeOut(c)

(* The request behind the call is cancelled; shield() protects the future. *)
CallAbandoned(c) ==
    caller[c] = "waiting" /\ Resolve(c, "abandoned") /\ UNCHANGED result

-----------------------------------------------------------------------------
TaskStep ==
    \/ Launched \/ LaunchFails \/ Dequeue \/ DequeueStop \/ Gathered
    \/ IdleTimer \/ IdleTimeout \/ Exited \/ SessionBreaks \/ Handler
OwnerStep ==
    \/ Start \/ StartReturns \/ StartFails \/ StartCancelled
    \/ Close \/ GraceExpires \/ CloseReturns
CallerStep(c) == Enqueue(c) \/ Refuse(c) \/ Answered(c) \/ CallTimeout(c) \/ CallAbandoned(c)

Next == TaskStep \/ OwnerStep \/ \E c \in Calls : CallerStep(c) \/ CallReturns(c)

(* Fairness is the event loop's: a coroutine whose await has completed     *)
(* runs, and a timer that stays armed fires.  Leaving the transport is     *)
(* bounded by the MCP SDK.  Nothing is assumed of the upstream process: a  *)
(* launch or a call may hang for ever.                                     *)
Fairness ==
    /\ WF_vars(Dequeue) /\ WF_vars(DequeueStop) /\ WF_vars(Gathered)
    /\ WF_vars(IdleTimer) /\ WF_vars(IdleTimeout)
    /\ WF_vars(Exited) /\ WF_vars(Handler)
    /\ WF_vars(StartReturns) /\ WF_vars(StartFails)
    /\ WF_vars(GraceExpires) /\ WF_vars(CloseReturns)
    /\ \A c \in Calls : WF_vars(Answered(c)) /\ WF_vars(CallTimeout(c))

Spec == Init /\ [][Next]_vars
FairSpec == Spec /\ Fairness
=============================================================================
