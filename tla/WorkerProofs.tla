---------------------------- MODULE WorkerProofs ----------------------------
(***************************************************************************)
(* For any set of calls and either concurrency mode: the type invariant,   *)
(* the safety invariants and the finality of replies of Worker, and that   *)
(* it implements its call port, step by step.                              *)
(*                                                                         *)
(* WorkerInv is inductive.  Its one addition to what is to be proved is    *)
(* SerialShape: that a serial task is somewhere else than at the call it   *)
(* executes only when it executes none.  The refinement needs PortInv.     *)
(***************************************************************************)
EXTENDS WorkerPort, TLAPS

(* What is on a queue after put() and get().                               *)
Elems(q) == {q[i] : i \in DOMAIN q}

LEMMA AppendElems ==
    ASSUME NEW S, NEW q \in Seq(S), NEW e \in S
    PROVE  Elems(Append(q, e)) = Elems(q) \union {e}
<1>1. DOMAIN q = 1 .. Len(q) /\ Len(q) \in Nat
  OBVIOUS
<1>2. DOMAIN Append(q, e) = 1 .. (Len(q) + 1)
  OBVIOUS
<1>3. \A i \in 1 .. Len(q) : Append(q, e)[i] = q[i]
  OBVIOUS
<1>4. Append(q, e)[Len(q) + 1] = e
  OBVIOUS
<1>5. 1 .. (Len(q) + 1) = (1 .. Len(q)) \union {Len(q) + 1}
  BY <1>1
<1> QED
  BY <1>1, <1>2, <1>3, <1>4, <1>5 DEF Elems

LEMMA TailElems ==
    ASSUME NEW S, NEW q \in Seq(S), q # <<>>
    PROVE  Head(q) \in S /\ Tail(q) \in Seq(S) /\ Elems(q) = {Head(q)} \union Elems(Tail(q))
<1>1. Len(q) \in Nat \ {0} /\ DOMAIN q = 1 .. Len(q) /\ Head(q) = q[1] /\ Tail(q) \in Seq(S)
  OBVIOUS
<1>2. DOMAIN Tail(q) = 1 .. (Len(q) - 1)
  BY <1>1
<1>3. \A i \in 1 .. (Len(q) - 1) : Tail(q)[i] = q[i + 1]
  BY <1>1
<1>4. Elems(Tail(q)) = {q[i + 1] : i \in 1 .. (Len(q) - 1)}
  BY <1>2, <1>3 DEF Elems
<1>5. \A j \in 1 .. Len(q) : j = 1 \/ \E i \in 1 .. (Len(q) - 1) : j = i + 1
  <2> SUFFICES ASSUME NEW j \in 1 .. Len(q), j # 1
               PROVE  \E i \in 1 .. (Len(q) - 1) : j = i + 1
    OBVIOUS
  <2> WITNESS j - 1 \in 1 .. (Len(q) - 1)
  <2> QED
    BY <1>1
<1>6. \A i \in 1 .. (Len(q) - 1) : i + 1 \in 1 .. Len(q)
  BY <1>1
<1>7. Head(q) \in S
  BY <1>1
<1>8. Elems(q) = {q[j] : j \in 1 .. Len(q)}
  BY <1>1 DEF Elems
<1>9. Elems(q) \subseteq {q[1]} \union Elems(Tail(q))
  BY <1>4, <1>5, <1>8
<1>10. {q[1]} \union Elems(Tail(q)) \subseteq Elems(q)
  BY <1>1, <1>4, <1>6, <1>8
<1> QED
  BY <1>1, <1>7, <1>9, <1>10

(* What Settle leaves of the open futures.                                 *)
LEMMA SettleFacts ==
    ASSUME TypeOK, NEW S, NEW r \in Outcomes
    PROVE  /\ Settle(S, r) \in [Calls -> {"none", "pending", "cancelled"} \union Outcomes]
           /\ \A c \in Calls : /\ Settle(S, r)[c] = "pending" <=> result[c] = "pending" /\ c \notin S
                               /\ result[c] = "none" => Settle(S, r)[c] = "none"
                               /\ Settled(result[c]) => Settle(S, r)[c] = result[c]
  BY DEF TypeOK, Settle, Settled, Outcomes

(* The queue after close() and call_tool(), and after a get().             *)
LEMMA QueueAppend ==
    ASSUME TypeOK, NEW e \in Calls \union {Stop}, queue' = Append(queue, e)
    PROVE  /\ queue' \in Seq(Calls \union {Stop})
           /\ QueuedCalls' = (QueuedCalls \union {e}) \ {Stop}
<1>1. queue \in Seq(Calls \union {Stop})
  BY DEF TypeOK
<1>2. Elems(queue') = Elems(queue) \union {e}
  BY <1>1, AppendElems
<1> QED
  BY <1>1, <1>2 DEF QueuedCalls, Elems

LEMMA QueueGet ==
    ASSUME TypeOK, queue # <<>>, queue' = Tail(queue)
    PROVE  /\ Head(queue) \in Calls \union {Stop}
           /\ queue' \in Seq(Calls \union {Stop})
           /\ QueuedCalls = ({Head(queue)} \union QueuedCalls') \ {Stop}
<1>1. queue \in Seq(Calls \union {Stop})
  BY DEF TypeOK
<1>2. /\ Head(queue) \in Calls \union {Stop}
      /\ Tail(queue) \in Seq(Calls \union {Stop})
      /\ Elems(queue) = {Head(queue)} \union Elems(Tail(queue))
  BY <1>1, TailElems
<1> QED
  BY <1>2 DEF QueuedCalls, Elems

-----------------------------------------------------------------------------
(* Steps that several actions share.                                       *)

(* An exception in _run keeps the invariant.                               *)
LEMMA InterruptInv ==
    ASSUME WorkerInv, Interrupt,
           owner' \in {"none", "starting", "started", "stopping", "killing", "closed"}
    PROVE  WorkerInv'
<1>1. QueuedCalls' = QueuedCalls
  BY DEF Interrupt, QueuedCalls
<1>2. CASE task \in {"serving", "gathering"}
  <2>1. active' = {} /\ result' = Settle(active, "failed") /\ task' = "unwinding"
    BY <1>2 DEF Interrupt
  <2>2. "failed" \in Outcomes /\ TypeOK
    BY DEF Outcomes, WorkerInv
  <2>3. /\ result' \in [Calls -> {"none", "pending", "cancelled"} \union Outcomes]
        /\ \A c \in Calls : /\ result'[c] = "pending" <=> result[c] = "pending" /\ c \notin active
                            /\ result[c] = "none" => result'[c] = "none"
    BY <2>1, <2>2, SettleFacts
  <2>4. TypeOK'
    BY <2>1, <2>2, <2>3 DEF TypeOK, TaskStates, Interrupt
  <2>5. SerialShape' /\ OneAtATime' /\ NoCallCutOff'
    BY <2>1 DEF SerialShape, OneAtATime, NoCallCutOff
  <2>6. FreshCalls' /\ OpenCallsAccounted'
    BY <1>1, <2>1, <2>3 DEF WorkerInv, FreshCalls, OpenCallsAccounted, Interrupt
  <2> QED
    BY <2>4, <2>5, <2>6 DEF WorkerInv
<1>3. CASE task \notin {"serving", "gathering"}
  <2>1. active' = active /\ result' = result /\ task' = "unwinding"
    BY <1>3 DEF Interrupt
  <2>2. TypeOK'
    BY <2>1 DEF WorkerInv, TypeOK, TaskStates, Interrupt
  <2>3. SerialShape' /\ OneAtATime' /\ NoCallCutOff'
    BY <1>3, <2>1 DEF WorkerInv, SerialShape, OneAtATime, NoCallCutOff
  <2>4. FreshCalls' /\ OpenCallsAccounted'
    BY <1>1, <2>1 DEF WorkerInv, FreshCalls, OpenCallsAccounted, Interrupt
  <2> QED
    BY <2>2, <2>3, <2>4 DEF WorkerInv
<1> QED
  BY <1>2, <1>3

(* close() up to its first await keeps the invariant.                      *)
LEMMA CloseTaskInv ==
    ASSUME WorkerInv, CloseTask,
           ready' \in {"none", "pending", "tools", "error", "cancelled"}
    PROVE  WorkerInv'
<1>1. QueuedCalls' = QueuedCalls /\ queue' \in Seq(Calls \union {Stop})
  <2>1. CASE task = "done"
    BY <2>1 DEF CloseTask, WorkerInv, TypeOK, QueuedCalls
  <2>2. CASE task # "done"
    <3>1. queue' = Append(queue, Stop)
      BY <2>2 DEF CloseTask
    <3> QED
      BY <3>1, QueueAppend DEF WorkerInv, QueuedCalls
  <2> QED
    BY <2>1, <2>2
<1>2. UNCHANGED <<task, active, result, caller>>
  BY DEF CloseTask
<1>3. TypeOK'
  BY <1>1, <1>2 DEF WorkerInv, TypeOK, CloseTask
<1>4. SerialShape' /\ OneAtATime' /\ NoCallCutOff' /\ FreshCalls' /\ OpenCallsAccounted'
  BY <1>1, <1>2 DEF WorkerInv, SerialShape, OneAtATime, NoCallCutOff, FreshCalls, OpenCallsAccounted
<1> QED
  BY <1>3, <1>4 DEF WorkerInv

(* A step that moves _run, ready or owner but no call keeps the invariant, *)
(* if it goes neither into nor out of a state that speaks of calls.        *)
LEMMA ControlInv ==
    ASSUME WorkerInv,
           UNCHANGED <<queue, active, result, caller>>,
           task' \in TaskStates,
           task' # task => /\ task \notin {"serving", "done"} /\ task' # "serving"
                           /\ task' \in {"exiting", "done"} => active = {},
           ready' \in {"none", "pending", "tools", "error", "cancelled"},
           owner' \in {"none", "starting", "started", "stopping", "killing", "closed"}
    PROVE  WorkerInv'
<1>1. TypeOK'
  BY DEF WorkerInv, TypeOK
<1>2. SerialShape' /\ OneAtATime' /\ NoCallCutOff' /\ FreshCalls'
  BY DEF WorkerInv, SerialShape, OneAtATime, NoCallCutOff, FreshCalls
<1>3. QueuedCalls' = QueuedCalls
  BY DEF QueuedCalls
<1>4. OpenCallsAccounted'
  BY <1>3 DEF WorkerInv, OpenCallsAccounted
<1> QED
  BY <1>1, <1>2, <1>4 DEF WorkerInv

-----------------------------------------------------------------------------
(* The invariant holds initially ...                                       *)
LEMMA InitInv == Init => WorkerInv
<1> SUFFICES ASSUME Init PROVE WorkerInv
  OBVIOUS
<1>1. TypeOK
  BY DEF Init, TypeOK, TaskStates
<1>2. SerialShape /\ FreshCalls /\ OneAtATime /\ NoCallCutOff /\ OpenCallsAccounted
  BY DEF Init, SerialShape, FreshCalls, OneAtATime, NoCallCutOff, OpenCallsAccounted
<1> QED
  BY <1>1, <1>2 DEF WorkerInv

(* ... every step of the task keeps it ...                                 *)
LEMMA TaskStepInv == ASSUME WorkerInv, TaskStep PROVE WorkerInv'
<1> USE DEF WorkerInv
<1>0. TypeOK
  OBVIOUS
<1>1. CASE Launched
  BY <1>1, ControlInv DEF Launched, TypeOK, TaskStates
<1>2. CASE LaunchFails \/ Gathered \/ IdleTimer \/ IdleTimeout
  BY <1>2, ControlInv DEF LaunchFails, Gathered, IdleTimer, IdleTimeout, Move, TypeOK, TaskStates
<1>3. CASE Exited
  <2>1. active = {} /\ task' = "done" /\ UNCHANGED <<ready, queue, active, result, caller, owner>>
    BY <1>3 DEF Exited, Move, NoCallCutOff
  <2> QED
    BY <1>3, <2>1, ControlInv DEF Exited, Move, TypeOK, TaskStates
<1>4. CASE Dequeue
  <2>1. /\ task = "waiting" /\ task' = (IF Concurrency = "serial" THEN "serving" ELSE "waiting")
        /\ queue # <<>> /\ queue' = Tail(queue) /\ Head(queue) # Stop
        /\ active' = active \union {Head(queue)}
        /\ UNCHANGED <<ready, result, caller, owner>>
    BY <1>4 DEF Dequeue, Take
  <2>2. /\ Head(queue) \in Calls /\ queue' \in Seq(Calls \union {Stop})
        /\ QueuedCalls \subseteq {Head(queue)} \union QueuedCalls'
    BY <1>0, <2>1, QueueGet
  <2>3. TypeOK'
    BY <2>1, <2>2 DEF TypeOK, TaskStates
  <2>4. SerialShape' /\ OneAtATime' /\ NoCallCutOff' /\ FreshCalls'
    BY <2>1 DEF SerialShape, OneAtATime, NoCallCutOff, FreshCalls
  <2>5. OpenCallsAccounted'
    BY <2>1, <2>2 DEF OpenCallsAccounted
  <2> QED
    BY <2>3, <2>4, <2>5
<1>5. CASE DequeueStop
  <2>1. /\ task = "waiting" /\ task' = (IF active = {} THEN "exiting" ELSE "gathering")
        /\ queue # <<>> /\ queue' = Tail(queue) /\ Head(queue) = Stop
        /\ UNCHANGED <<ready, active, result, caller, owner>>
    BY <1>5 DEF DequeueStop, TakeStop
  <2>2. /\ queue' \in Seq(Calls \union {Stop})
        /\ QueuedCalls \subseteq QueuedCalls'
    BY <1>0, <2>1, QueueGet
  <2>3. TypeOK'
    BY <2>1, <2>2 DEF TypeOK, TaskStates
  <2>4. SerialShape' /\ OneAtATime' /\ NoCallCutOff' /\ FreshCalls'
    BY <2>1 DEF SerialShape, OneAtATime, NoCallCutOff, FreshCalls
  <2>5. OpenCallsAccounted'
    BY <2>1, <2>2 DEF OpenCallsAccounted
  <2> QED
    BY <2>3, <2>4, <2>5
<1>6. CASE SessionBreaks
  BY <1>6, InterruptInv DEF SessionBreaks, TypeOK
<1>7. CASE Handler
  <2> DEFINE S == active \union QueuedCalls
  <2>1. /\ task = "unwinding" /\ task' = "done" /\ queue' = <<>>
        /\ ready' = IF ready = "pending" THEN "error" ELSE ready
        /\ result' = Settle(S, "failed")
        /\ UNCHANGED <<active, caller, owner>>
    BY <1>7 DEF Handler, FailAll
  <2>2. /\ result' \in [Calls -> {"none", "pending", "cancelled"} \union Outcomes]
        /\ \A c \in Calls : /\ result'[c] = "pending" <=> result[c] = "pending" /\ c \notin S
                            /\ result[c] = "none" => result'[c] = "none"
    BY <1>0, <2>1, SettleFacts DEF Outcomes
  <2> HIDE DEF S
  <2>3. TypeOK'
    <3>1. queue' \in Seq(Calls \union {Stop})
      BY <2>1
    <3> QED
      BY <1>0, <2>1, <2>2, <3>1 DEF TypeOK, TaskStates
  <2>4. SerialShape' /\ OneAtATime' /\ NoCallCutOff'
    BY <2>1 DEF SerialShape, OneAtATime, NoCallCutOff
  <2>5. FreshCalls' /\ OpenCallsAccounted'
    BY <2>1, <2>2 DEF S, FreshCalls, OpenCallsAccounted
  <2> QED
    BY <2>3, <2>4, <2>5
<1> QED
  BY <1>1, <1>2, <1>3, <1>4, <1>5, <1>6, <1>7 DEF TaskStep

(* ... and so does every step of start() and close() ...                   *)
LEMMA OwnerStepInv == ASSUME WorkerInv, OwnerStep PROVE WorkerInv'
<1>1. TypeOK
  BY DEF WorkerInv
<1>2. CASE Start
  BY <1>1, <1>2, ControlInv DEF Start, TypeOK, TaskStates
<1>3. CASE StartReturns \/ CloseReturns
  BY <1>1, <1>3, ControlInv DEF StartReturns, CloseReturns, TypeOK, TaskStates
<1>4. CASE StartFails \/ StartCancelled \/ Close
  BY <1>1, <1>4, CloseTaskInv DEF StartFails, StartCancelled, Close, TypeOK
<1>5. CASE GraceExpires
  <2>1. CASE Interrupt
    BY <1>5, <2>1, InterruptInv DEF GraceExpires
  <2>2. CASE UNCHANGED <<task, ready, queue, active, result, caller>>
    BY <1>1, <1>5, <2>2, ControlInv DEF GraceExpires, TypeOK, TaskStates
  <2> QED
    BY <1>5, <2>1, <2>2 DEF GraceExpires
<1> QED
  BY <1>2, <1>3, <1>4, <1>5 DEF OwnerStep

(* A call that times out leaves a reply that was fixed.                    *)
LEMMA TimeOutReply ==
    ASSUME TypeOK, NEW c \in Calls, CallTimeout(c)
    PROVE  \/ result[c] # "pending" /\ result' = result
           \/ result[c] = "pending" /\ result' = [result EXCEPT ![c] = "cancelled"]
  BY DEF TypeOK, CallTimeout, TimeOut, Settle

(* ... of call_tool() ...                                                  *)
LEMMA CallerStepInv == ASSUME WorkerInv, NEW c \in Calls, CallerStep(c) PROVE WorkerInv'
<1> USE DEF WorkerInv
<1>0. TypeOK
  OBVIOUS
<1>1. CASE Enqueue(c)
  <2>1. /\ caller[c] = "new" /\ queue' = Append(queue, c)
        /\ result' = [result EXCEPT ![c] = "pending"]
        /\ caller' = [caller EXCEPT ![c] = "waiting"]
        /\ UNCHANGED <<task, ready, active, owner>>
    BY <1>1 DEF Enqueue, Submit
  <2>2. /\ queue' \in Seq(Calls \union {Stop})
        /\ QueuedCalls' = (QueuedCalls \union {c}) \ {Stop}
    BY <1>0, <2>1, QueueAppend
  <2>3. TypeOK'
    BY <2>1, <2>2 DEF TypeOK
  <2>4. SerialShape' /\ OneAtATime' /\ NoCallCutOff'
    BY <2>1 DEF SerialShape, OneAtATime, NoCallCutOff
  <2>5. FreshCalls'
    BY <2>1 DEF TypeOK, FreshCalls
  <2>6. OpenCallsAccounted'
    BY <2>1, <2>2, StopAssumption DEF TypeOK, OpenCallsAccounted, QueuedCalls
  <2> QED
    BY <2>3, <2>4, <2>5, <2>6
<1>2. CASE Refuse(c) \/ Answered(c) \/ CallAbandoned(c) \/ CallTimeout(c)
  <2>1. PICK o \in {"refused", "answered", "timedOut", "abandoned"} : Resolve(c, o)
    BY <1>2 DEF Refuse, Answered, CallAbandoned, CallTimeout, TimeOut
  <2>2. /\ caller' = [caller EXCEPT ![c] = o]
        /\ UNCHANGED <<task, ready, queue, active, owner>>
        /\ QueuedCalls' = QueuedCalls
    BY <2>1 DEF Resolve, QueuedCalls
  <2>3. \/ result' = result
        \/ result[c] = "pending" /\ result' = [result EXCEPT ![c] = "cancelled"]
    BY <1>2, TimeOutReply DEF Refuse, Answered, CallAbandoned
  <2>4. TypeOK'
    BY <2>2, <2>3 DEF TypeOK
  <2>5. SerialShape' /\ OneAtATime' /\ NoCallCutOff'
    BY <2>2 DEF SerialShape, OneAtATime, NoCallCutOff
  <2>6. FreshCalls' /\ OpenCallsAccounted'
    BY <2>2, <2>3 DEF TypeOK, FreshCalls, OpenCallsAccounted
  <2> QED
    BY <2>4, <2>5, <2>6
<1> QED
  BY <1>1, <1>2 DEF CallerStep

(* ... and of _execute_call().                                             *)
LEMMA CallReturnsInv == ASSUME WorkerInv, NEW c \in Calls, CallReturns(c) PROVE WorkerInv'
<1> USE DEF WorkerInv
<1>0. TypeOK /\ QueuedCalls' = QueuedCalls
  BY DEF CallReturns, QueuedCalls
<1>1. PICK r \in Outcomes : result' = Settle({c}, r)
  BY DEF CallReturns, Outcomes
<1>2. /\ c \in active /\ active' = active \ {c}
      /\ task' = IF task = "serving" THEN "waiting" ELSE task
      /\ UNCHANGED <<ready, queue, caller, owner>>
  BY DEF CallReturns
<1>3. /\ result' \in [Calls -> {"none", "pending", "cancelled"} \union Outcomes]
      /\ \A d \in Calls : /\ result'[d] = "pending" <=> result[d] = "pending" /\ d \notin {c}
                          /\ result[d] = "none" => result'[d] = "none"
  BY <1>0, <1>1, SettleFacts
<1>4. TypeOK'
  BY <1>2, <1>3 DEF TypeOK, TaskStates
<1>5. SerialShape' /\ OneAtATime' /\ NoCallCutOff'
  BY <1>2 DEF TypeOK, SerialShape, OneAtATime, NoCallCutOff
<1>6. FreshCalls' /\ OpenCallsAccounted'
  BY <1>0, <1>2, <1>3 DEF FreshCalls, OpenCallsAccounted
<1> QED
  BY <1>4, <1>5, <1>6

LEMMA StepInv == ASSUME WorkerInv, [Next]_vars PROVE WorkerInv'
<1>1. CASE UNCHANGED vars
  BY <1>1 DEF vars, WorkerInv, TypeOK, SerialShape, FreshCalls, OneAtATime, NoCallCutOff,
              OpenCallsAccounted, QueuedCalls
<1> QED
  BY <1>1, TaskStepInv, OwnerStepInv, CallerStepInv, CallReturnsInv DEF Next

-----------------------------------------------------------------------------
(* The inductive invariant holds in every reachable state of a worker.     *)
THEOREM WorkerInvariant == Spec => []WorkerInv
  BY InitInv, StepInv, PTL DEF Spec

(* Every variable of a worker keeps its type.                              *)
THEOREM TypeCorrect == Spec => []TypeOK
<1>1. WorkerInv => TypeOK
  BY DEF WorkerInv
<1> QED
  BY <1>1, WorkerInvariant, PTL

(* A serial worker never has two calls at its process.                     *)
THEOREM SerialWorker == Spec => []OneAtATime
<1>1. WorkerInv => OneAtATime
  BY DEF WorkerInv
<1> QED
  BY <1>1, WorkerInvariant, PTL

(* The session is not left normally under a running call.                  *)
THEOREM NoCutOff == Spec => []NoCallCutOff
<1>1. WorkerInv => NoCallCutOff
  BY DEF WorkerInv
<1> QED
  BY <1>1, WorkerInvariant, PTL

(* Every open call is on the queue or being executed.                      *)
THEOREM CallsAccounted == Spec => []OpenCallsAccounted
<1>1. WorkerInv => OpenCallsAccounted
  BY DEF WorkerInv
<1> QED
  BY <1>1, WorkerInvariant, PTL

(* A reply, once fixed, is never replaced.                                 *)
THEOREM RepliesFinal == Spec => ReplyIsFinal
<1>1. ASSUME WorkerInv, [Next]_vars, NEW c \in Calls, Settled(result[c])
      PROVE  result'[c] = result[c]
  <2>0. TypeOK /\ FreshCalls
    BY <1>1 DEF WorkerInv
  <2>1. \A S, r : Settle(S, r)[c] = result[c]
    BY <1>1 DEF Settle, Settled, Outcomes
  <2>2. CASE UNCHANGED result
    BY <2>2
  <2>3. CASE \E S, r : result' = Settle(S, r)
    BY <2>1, <2>3
  <2>4. CASE \E d \in Calls : Enqueue(d) \/ CallTimeout(d)
    BY <1>1, <2>0, <2>1, <2>4 DEF Enqueue, Submit, CallTimeout, TimeOut, FreshCalls, TypeOK,
                                  Settled, Outcomes
  <2>5. CASE SessionBreaks \/ GraceExpires
    BY <2>2, <2>3, <2>5 DEF SessionBreaks, GraceExpires, Interrupt
  <2>6. CASE Handler \/ \E d \in Calls : CallReturns(d)
    BY <2>3, <2>6 DEF Handler, FailAll, CallReturns
  <2>7. TaskStep => UNCHANGED result \/ SessionBreaks \/ Handler
    BY DEF TaskStep, Launched, LaunchFails, Dequeue, Take, DequeueStop, TakeStop, Gathered,
           IdleTimer, IdleTimeout, Exited, Move
  <2>8. OwnerStep => UNCHANGED result \/ GraceExpires
    BY DEF OwnerStep, Start, StartReturns, StartFails, StartCancelled, Close, CloseTask,
           CloseReturns
  <2>9. \A d \in Calls : CallerStep(d) => UNCHANGED result \/ Enqueue(d) \/ CallTimeout(d)
    BY DEF CallerStep, Refuse, Answered, CallAbandoned
  <2>10. UNCHANGED vars => UNCHANGED result
    BY DEF vars
  <2> QED
    BY <1>1, <2>2, <2>4, <2>5, <2>6, <2>7, <2>8, <2>9, <2>10 DEF Next
<1>2. WorkerInv /\ [Next]_vars => [\A c \in Calls : Settled(result[c]) => result'[c] = result[c]]_vars
  BY <1>1
<1> QED
  BY <1>2, WorkerInvariant, PTL DEF Spec, ReplyIsFinal

-----------------------------------------------------------------------------
(* The line of a worker: its queue without the sentinel *)

OneStop(q) == q \in Seq(Calls \union {Stop}) /\ \A i, j \in StopAt(q) : i = j

LEMMA SameSequence ==
    ASSUME NEW S, NEW s \in Seq(S), NEW t \in Seq(S), Len(s) = Len(t),
           \A i \in 1 .. Len(s) : s[i] = t[i]
    PROVE  s = t
  OBVIOUS

(* The elements of the line, by their places.                              *)
LEMMA LinePlaces ==
    ASSUME NEW q, OneStop(q), NEW k \in StopAt(q)
    PROVE  /\ WithoutStop(q) \in Seq(Calls) /\ Len(WithoutStop(q)) = Len(q) - 1
           /\ \A i \in 1 .. Len(q) - 1 :
                 WithoutStop(q)[i] = IF i < k THEN q[i] ELSE q[i + 1]
<1>1. /\ q \in Seq(Calls \union {Stop}) /\ Len(q) \in Nat /\ DOMAIN q = 1 .. Len(q)
      /\ k \in 1 .. Len(q) /\ \A i \in 1 .. Len(q) : q[i] = Stop => i = k
  BY DEF OneStop, StopAt
<1>2. (CHOOSE i \in StopAt(q) : TRUE) = k
  BY DEF OneStop
<1>3. WithoutStop(q) = [i \in 1 .. Len(q) - 1 |-> IF i < k THEN q[i] ELSE q[i + 1]]
  BY <1>2 DEF WithoutStop
<1>4. \A i \in 1 .. Len(q) - 1 : (IF i < k THEN q[i] ELSE q[i + 1]) \in Calls
  <2> SUFFICES ASSUME NEW i \in 1 .. Len(q) - 1 PROVE (IF i < k THEN q[i] ELSE q[i + 1]) \in Calls
    OBVIOUS
  <2>1. i \in 1 .. Len(q) /\ i + 1 \in 1 .. Len(q)
    BY <1>1
  <2>2. i < k => q[i] # Stop
    BY <1>1, <2>1
  <2>3. ~ (i < k) => q[i + 1] # Stop
    BY <1>1, <2>1
  <2> QED
    BY <1>1, <2>1, <2>2, <2>3
<1>5. Len(q) - 1 \in Nat
  BY <1>1
<1> HIDE DEF WithoutStop
<1>6. WithoutStop(q) \in Seq(Calls) /\ Len(WithoutStop(q)) = Len(q) - 1
  BY <1>3, <1>4, <1>5
<1> QED
  BY <1>3, <1>6

LEMMA LineWhole ==
    ASSUME NEW q, OneStop(q), StopAt(q) = {}
    PROVE  WithoutStop(q) = q /\ q \in Seq(Calls)
<1>1. q \in Seq(Calls \union {Stop}) /\ \A i \in DOMAIN q : q[i] # Stop
  BY DEF OneStop, StopAt
<1>2. q \in Seq(Calls)
  BY <1>1
<1> QED
  BY <1>2 DEF WithoutStop

LEMMA LineType == ASSUME NEW q, OneStop(q) PROVE WithoutStop(q) \in Seq(Calls)
  BY LinePlaces, LineWhole

(* The line has what the queue has, but for the sentinel.                  *)
LEMMA LineElems ==
    ASSUME NEW q, OneStop(q)
    PROVE  Elems(WithoutStop(q)) = Elems(q) \ {Stop}
<1>1. CASE StopAt(q) = {}
  BY <1>1, LineWhole DEF Elems, StopAt
<1>2. CASE StopAt(q) # {}
  <2>1. PICK k \in StopAt(q) : TRUE
    BY <1>2
  <2> DEFINE w == WithoutStop(q)
  <2>2. /\ w \in Seq(Calls) /\ Len(w) = Len(q) - 1
        /\ \A i \in 1 .. Len(q) - 1 : w[i] = IF i < k THEN q[i] ELSE q[i + 1]
    BY LinePlaces
  <2>3. /\ q \in Seq(Calls \union {Stop}) /\ Len(q) \in Nat /\ DOMAIN q = 1 .. Len(q)
        /\ k \in 1 .. Len(q) /\ q[k] = Stop
    BY DEF OneStop, StopAt
  <2> HIDE DEF w
  <2>4. DOMAIN w = 1 .. Len(q) - 1
    BY <2>2
  <2>5. Elems(w) \subseteq Elems(q) \ {Stop}
    <3> SUFFICES ASSUME NEW i \in 1 .. Len(q) - 1 PROVE w[i] \in Elems(q) \ {Stop}
      BY <2>4 DEF Elems
    <3>1. i \in DOMAIN q /\ i + 1 \in DOMAIN q
      BY <2>3
    <3>2. w[i] \in Calls
      BY <2>2, <2>4
    <3> QED
      BY <2>2, <3>1, <3>2, StopAssumption DEF Elems
  <2>6. Elems(q) \ {Stop} \subseteq Elems(w)
    <3> SUFFICES ASSUME NEW i \in 1 .. Len(q), q[i] # Stop PROVE q[i] \in Elems(w)
      BY <2>3 DEF Elems
    <3>1. CASE i < k
      <4>1. i \in 1 .. Len(q) - 1
        BY <2>3, <3>1
      <4> QED
        BY <2>2, <2>4, <3>1, <4>1 DEF Elems
    <3>2. CASE i > k
      <4>1. i - 1 \in 1 .. Len(q) - 1 /\ ~ (i - 1 < k) /\ (i - 1) + 1 = i
        BY <2>3, <3>2
      <4>2. w[i - 1] = q[i]
        BY <2>2, <4>1
      <4> QED
        BY <2>4, <4>1, <4>2 DEF Elems
    <3> QED
      BY <2>3, <3>1, <3>2
  <2> QED
    BY <2>5, <2>6 DEF w
<1> QED
  BY <1>1, <1>2

(* close() puts the sentinel on the queue and nothing on the line ...      *)
LEMMA LineStop ==
    ASSUME NEW q, OneStop(q), StopAt(q) = {}
    PROVE  OneStop(Append(q, Stop)) /\ WithoutStop(Append(q, Stop)) = WithoutStop(q)
<1> DEFINE r == Append(q, Stop)
<1>1. q \in Seq(Calls) /\ Len(q) \in Nat /\ WithoutStop(q) = q
  BY LineWhole
<1>2. /\ r \in Seq(Calls \union {Stop}) /\ Len(r) = Len(q) + 1 /\ r[Len(q) + 1] = Stop
      /\ \A i \in 1 .. Len(q) : r[i] = q[i]
  BY <1>1
<1> HIDE DEF r
<1>3. \A i \in 1 .. Len(r) : r[i] = Stop <=> i = Len(q) + 1
  <2>1. \A i \in 1 .. Len(q) : q[i] # Stop
    BY <1>1, StopAssumption
  <2> QED
    BY <1>1, <1>2, <2>1
<1>4. OneStop(r) /\ Len(q) + 1 \in StopAt(r)
  BY <1>1, <1>2, <1>3 DEF OneStop, StopAt
<1>5. /\ WithoutStop(r) \in Seq(Calls) /\ Len(WithoutStop(r)) = Len(r) - 1
      /\ \A i \in 1 .. Len(r) - 1 : WithoutStop(r)[i] = IF i < Len(q) + 1 THEN r[i] ELSE r[i + 1]
  BY <1>4, LinePlaces
<1>6. WithoutStop(r) = q
  <2>1. Len(WithoutStop(r)) = Len(q) /\ \A i \in 1 .. Len(q) : WithoutStop(r)[i] = q[i]
    BY <1>1, <1>2, <1>5
  <2> QED
    BY <1>1, <1>5, <2>1, SameSequence
<1> QED
  BY <1>1, <1>4, <1>6 DEF r

(* ... and call_tool() puts its call at the end of both.                   *)
LEMMA LinePut ==
    ASSUME NEW q, OneStop(q), NEW c \in Calls
    PROVE  /\ OneStop(Append(q, c)) /\ StopAt(Append(q, c)) = StopAt(q)
           /\ WithoutStop(Append(q, c)) = Append(WithoutStop(q), c)
<1> DEFINE r == Append(q, c)
<1>1. q \in Seq(Calls \union {Stop}) /\ Len(q) \in Nat /\ DOMAIN q = 1 .. Len(q)
  BY DEF OneStop
<1>2. /\ r \in Seq(Calls \union {Stop}) /\ Len(r) = Len(q) + 1 /\ r[Len(q) + 1] = c
      /\ \A i \in 1 .. Len(q) : r[i] = q[i]
  BY <1>1
<1>3. StopAt(r) = StopAt(q)
  <2> HIDE DEF r
  <2>1. DOMAIN r = (1 .. Len(q)) \union {Len(q) + 1} /\ c # Stop
    BY <1>1, <1>2, StopAssumption
  <2> QED
    BY <1>1, <1>2, <2>1 DEF StopAt
<1>4. OneStop(r)
  BY <1>2, <1>3 DEF OneStop
<1>5. ASSUME StopAt(q) = {} PROVE WithoutStop(r) = Append(WithoutStop(q), c)
  <2>1. WithoutStop(r) = r /\ WithoutStop(q) = q
    BY <1>3, <1>4, <1>5, LineWhole
  <2> QED
    BY <2>1
<1>6. ASSUME StopAt(q) # {} PROVE WithoutStop(r) = Append(WithoutStop(q), c)
  <2>1. PICK k \in StopAt(q) : TRUE
    BY <1>6
  <2>2. k \in 1 .. Len(q) /\ k \in StopAt(r)
    BY <1>1, <1>3 DEF StopAt
  <2> DEFINE v == WithoutStop(q)
             w == WithoutStop(r)
  <2>3. /\ v \in Seq(Calls) /\ Len(v) = Len(q) - 1
        /\ \A i \in 1 .. Len(q) - 1 : v[i] = IF i < k THEN q[i] ELSE q[i + 1]
    BY LinePlaces
  <2>4. /\ w \in Seq(Calls) /\ Len(w) = Len(r) - 1
        /\ \A i \in 1 .. Len(r) - 1 : w[i] = IF i < k THEN r[i] ELSE r[i + 1]
    BY <1>4, <2>2, LinePlaces
  <2> HIDE DEF r, v, w
  <2>5. Len(w) = Len(q) /\ Len(v) + 1 = Len(q) /\ Len(v) \in Nat
    BY <1>1, <1>2, <2>2, <2>3, <2>4
  <2>6. \A i \in 1 .. Len(q) - 1 : w[i] = v[i]
    <3> SUFFICES ASSUME NEW i \in 1 .. Len(q) - 1 PROVE w[i] = v[i]
      OBVIOUS
    <3>1. i \in 1 .. Len(r) - 1 /\ i \in 1 .. Len(q) /\ i + 1 \in 1 .. Len(q)
      BY <1>1, <1>2
    <3> QED
      BY <1>2, <2>3, <2>4, <3>1
  <2>7. w[Len(q)] = c
    <3>1. Len(q) \in 1 .. Len(r) - 1 /\ ~ (Len(q) < k)
      BY <1>1, <1>2, <2>2
    <3> QED
      BY <1>2, <2>4, <3>1
  <2>8. /\ Append(v, c) \in Seq(Calls) /\ Len(Append(v, c)) = Len(q)
        /\ Append(v, c)[Len(q)] = c /\ \A i \in 1 .. Len(q) - 1 : Append(v, c)[i] = v[i]
    BY <2>3, <2>5
  <2>9. \A i \in 1 .. Len(w) : w[i] = Append(v, c)[i]
    BY <1>1, <2>5, <2>6, <2>7, <2>8
  <2>10. w = Append(v, c)
    BY <2>4, <2>5, <2>8, <2>9, SameSequence
  <2> QED
    BY <2>10 DEF r, v, w
<1>7. WithoutStop(r) = Append(WithoutStop(q), c)
  BY <1>5, <1>6
<1> QED
  BY <1>3, <1>4, <1>7 DEF r

(* get() takes the sentinel from the queue only ...                        *)
LEMMA LineGetStop ==
    ASSUME NEW q, OneStop(q), q # <<>>, Head(q) = Stop
    PROVE  /\ OneStop(Tail(q)) /\ StopAt(Tail(q)) = {}
           /\ WithoutStop(Tail(q)) = WithoutStop(q)
<1> DEFINE r == Tail(q)
<1>1. /\ q \in Seq(Calls \union {Stop}) /\ Len(q) \in Nat \ {0} /\ DOMAIN q = 1 .. Len(q)
      /\ q[1] = Stop /\ r \in Seq(Calls \union {Stop}) /\ Len(r) = Len(q) - 1
      /\ \A i \in 1 .. Len(q) - 1 : r[i] = q[i + 1]
  BY DEF OneStop
<1> HIDE DEF r
<1>2. 1 \in StopAt(q) /\ \A i \in 2 .. Len(q) : q[i] # Stop
  BY <1>1 DEF StopAt, OneStop
<1>3. DOMAIN r = 1 .. Len(q) - 1 /\ \A i \in 1 .. Len(q) - 1 : i + 1 \in 2 .. Len(q)
  BY <1>1
<1>4. StopAt(r) = {}
  BY <1>1, <1>2, <1>3 DEF StopAt
<1>5. OneStop(r)
  BY <1>1, <1>4 DEF OneStop
<1>6. WithoutStop(r) = r /\ r \in Seq(Calls)
  BY <1>4, <1>5, LineWhole
<1>7. /\ WithoutStop(q) \in Seq(Calls) /\ Len(WithoutStop(q)) = Len(q) - 1
      /\ \A i \in 1 .. Len(q) - 1 : WithoutStop(q)[i] = IF i < 1 THEN q[i] ELSE q[i + 1]
  BY <1>2, LinePlaces
<1>8. \A i \in 1 .. Len(r) : r[i] = WithoutStop(q)[i]
  BY <1>1, <1>7
<1>9. r = WithoutStop(q)
  BY <1>1, <1>6, <1>7, <1>8, SameSequence
<1> QED
  BY <1>4, <1>5, <1>6, <1>9 DEF r

(* ... and a call from the head of both.                                   *)
LEMMA LineGet ==
    ASSUME NEW q, OneStop(q), q # <<>>, Head(q) # Stop
    PROVE  /\ OneStop(Tail(q)) /\ (StopAt(Tail(q)) # {} => StopAt(q) # {})
           /\ WithoutStop(q) # <<>> /\ Head(WithoutStop(q)) = Head(q)
           /\ WithoutStop(Tail(q)) = Tail(WithoutStop(q))
<1> DEFINE r == Tail(q)
<1>1. /\ q \in Seq(Calls \union {Stop}) /\ Len(q) \in Nat \ {0} /\ DOMAIN q = 1 .. Len(q)
      /\ q[1] = Head(q) /\ r \in Seq(Calls \union {Stop}) /\ Len(r) = Len(q) - 1
      /\ DOMAIN r = 1 .. Len(q) - 1
      /\ \A i \in 1 .. Len(q) - 1 : r[i] = q[i + 1] /\ i + 1 \in DOMAIN q
  BY DEF OneStop
<1> HIDE DEF r
<1>2. \A i \in StopAt(r) : i \in Nat /\ i + 1 \in StopAt(q)
  BY <1>1 DEF StopAt
<1>3. \A i, j \in StopAt(r) : i = j
  <2> SUFFICES ASSUME NEW i \in StopAt(r), NEW j \in StopAt(r) PROVE i = j
    OBVIOUS
  <2>1. i + 1 = j + 1
    BY <1>2 DEF OneStop
  <2> QED
    BY <1>2, <2>1
<1>4. OneStop(r) /\ (StopAt(r) # {} => StopAt(q) # {})
  BY <1>1, <1>2, <1>3 DEF OneStop
<1>5. CASE StopAt(q) = {}
  <2>1. WithoutStop(q) = q /\ WithoutStop(r) = r
    BY <1>4, <1>5, LineWhole
  <2> QED
    BY <1>4, <2>1 DEF r
<1>6. CASE StopAt(q) # {}
  <2>1. PICK k \in StopAt(q) : TRUE
    BY <1>6
  <2>2. k \in 2 .. Len(q) /\ q[k] = Stop
    BY <1>1 DEF StopAt
  <2>3. k - 1 \in 1 .. Len(q) - 1 /\ (k - 1) + 1 = k
    BY <1>1, <2>2
  <2>4. k - 1 \in StopAt(r)
    BY <1>1, <2>2, <2>3 DEF StopAt
  <2> DEFINE v == WithoutStop(q)
             w == WithoutStop(r)
  <2>5. /\ v \in Seq(Calls) /\ Len(v) = Len(q) - 1
        /\ \A i \in 1 .. Len(q) - 1 : v[i] = IF i < k THEN q[i] ELSE q[i + 1]
    BY LinePlaces
  <2>6. /\ w \in Seq(Calls) /\ Len(w) = Len(r) - 1
        /\ \A i \in 1 .. Len(r) - 1 : w[i] = IF i < k - 1 THEN r[i] ELSE r[i + 1]
    BY <1>4, <2>4, LinePlaces
  <2> HIDE DEF v, w
  <2>7. Len(v) \in Nat \ {0} /\ Len(w) = Len(v) - 1
    <3>1. k \in Nat /\ 2 <= k /\ k <= Len(q) /\ Len(q) \in Nat
      BY <1>1, <2>2
    <3>2. Len(v) = Len(q) - 1 /\ Len(w) = Len(q) - 1 - 1
      BY <1>1, <2>5, <2>6
    <3> QED
      BY <3>1, <3>2
  <2>8. v # <<>> /\ v[1] = q[1] /\ Head(v) = v[1]
    BY <1>1, <2>2, <2>5, <2>7
  <2>9. /\ Tail(v) \in Seq(Calls) /\ Len(Tail(v)) = Len(v) - 1
        /\ \A i \in 1 .. Len(v) - 1 : Tail(v)[i] = v[i + 1]
    BY <2>5, <2>7, <2>8
  <2>10. \A i \in 1 .. Len(w) : w[i] = Tail(v)[i]
    <3> SUFFICES ASSUME NEW i \in 1 .. Len(w) PROVE w[i] = Tail(v)[i]
      OBVIOUS
    <3>1. /\ i \in 1 .. Len(q) - 1 /\ i \in 1 .. Len(r) - 1 /\ i + 1 \in 1 .. Len(q) - 1
          /\ i \in 1 .. Len(v) - 1 /\ (i < k - 1 <=> i + 1 < k)
      BY <1>1, <2>2, <2>5, <2>6, <2>7
    <3>2. r[i] = q[i + 1] /\ r[i + 1] = q[(i + 1) + 1]
      BY <1>1, <3>1
    <3>3. v[i + 1] = IF i + 1 < k THEN q[i + 1] ELSE q[(i + 1) + 1]
      BY <2>5, <3>1
    <3> QED
      BY <2>6, <2>9, <3>1, <3>2, <3>3
  <2>11. w = Tail(v)
    BY <2>6, <2>7, <2>9, <2>10, SameSequence
  <2> QED
    BY <1>1, <1>4, <2>8, <2>11 DEF r, v, w
<1> QED
  BY <1>5, <1>6

-----------------------------------------------------------------------------
(* What the refinement needs is invariant *)

LEMMA QueueOneStop == ASSUME TypeOK, OneSentinel PROVE OneStop(queue)
  BY DEF TypeOK, OneSentinel, OneStop

LEMMA QueueElems == QueuedCalls = Elems(queue) \ {Stop}
  BY DEF QueuedCalls, Elems

LEMMA SettleOpens ==
    ASSUME TypeOK, NEW S, NEW r \in Outcomes, NEW c \in Calls, result[c] # "none"
    PROVE  Settle(S, r)[c] # "none"
  BY DEF TypeOK, Settle, Outcomes

(* A step that leaves the queue alone keeps the sentinel's place.          *)
LEMMA SentinelKept ==
    ASSUME OneSentinel, queue' = queue,
           \/ owner' = owner /\ (task' = task \/ task' # "unstarted")
           \/ owner # "none" /\ task' = task /\ owner' \in {"stopping", "killing", "closed"}
           \/ owner \in {"none", "starting"} /\ task' # "unstarted"
    PROVE  OneSentinel'
  BY DEF OneSentinel, StopAt

(* A step that brings no call and takes back no future keeps futures open. *)
LEMMA OpenedKept ==
    ASSUME Opened, active' \subseteq active, QueuedCalls' \subseteq QueuedCalls,
           \A c \in active \union QueuedCalls : result[c] # "none" => result'[c] # "none"
    PROVE  Opened'
  BY DEF Opened

LEMMA QueuedSame == ASSUME queue' = queue PROVE QueuedCalls' = QueuedCalls
  BY DEF QueuedCalls

-----------------------------------------------------------------------------
(* Step by step: every step of a worker is a step of its port or none, and *)
(* keeps the sentinel's place and the futures open.                        *)

PortKept == OneSentinel' /\ Opened'
PortStep == Port!PortNext \/ UNCHANGED Port!portVars

(* Steps that the port does not see.                                       *)
LEMMA Unseen ==
    ASSUME WithoutStop(queue') = WithoutStop(queue), UNCHANGED <<active, result, caller>>
    PROVE  PortStep
  BY DEF PortStep, Port!portVars

LEMMA UnseenKept ==
    ASSUME OneSentinel, Opened, UNCHANGED <<queue, active, result, caller>>,
           \/ owner' = owner /\ (task' = task \/ task' # "unstarted")
           \/ owner # "none" /\ task' = task /\ owner' \in {"stopping", "killing", "closed"}
           \/ owner \in {"none", "starting"} /\ task' # "unstarted"
    PROVE  PortKept /\ PortStep
<1>1. OneSentinel'
  BY SentinelKept
<1>2. Opened'
  BY QueuedSame, OpenedKept
<1> QED
  BY <1>1, <1>2, Unseen DEF PortKept

(* The process is lost: Break.                                             *)
LEMMA Breaks ==
    ASSUME TypeOK, OneSentinel, NEW S,
           \A c \in Calls : result[c] = "pending" => c \in S \/ c \in Elems(WithoutStop(queue')) \/ c \in active',
           WithoutStop(queue') \in {WithoutStop(queue), <<>>},
           active' \subseteq active,
           result' = Settle(S, "failed"),
           UNCHANGED caller
    PROVE  PortStep
<1> DEFINE O == {c \in Calls : result[c] = "pending"}
           T == S \cap O
<1>1. T \in SUBSET O
  OBVIOUS
<1>2. O \ T \subseteq {WithoutStop(queue')[i] : i \in DOMAIN WithoutStop(queue')} \union active'
  BY DEF Elems
<1>3. result' = [c \in Calls |-> IF c \in T THEN "failed" ELSE result[c]]
  BY DEF Settle
<1> HIDE DEF T
<1>4. Port!Break
  BY <1>1, <1>2, <1>3 DEF Port!Break
<1> QED
  BY <1>4 DEF PortStep, Port!PortNext

(* An exception is raised in _run.                                         *)
LEMMA InterruptPort ==
    ASSUME WorkerInv, OneSentinel, Opened, Interrupt,
           \/ owner' = owner
           \/ owner # "none" /\ owner' \in {"stopping", "killing", "closed"}
    PROVE  PortKept /\ PortStep
<1>0. TypeOK /\ OpenCallsAccounted /\ UNCHANGED <<queue, caller>> /\ task' = "unwinding" /\ task # "unstarted"
  BY DEF WorkerInv, Interrupt
<1>1. OneSentinel'
  BY <1>0 DEF OneSentinel, StopAt
<1>2. QueuedCalls' = QueuedCalls /\ Elems(WithoutStop(queue')) = QueuedCalls
  BY <1>0, QueuedSame, QueueElems, QueueOneStop, LineElems
<1>3. CASE task \in {"serving", "gathering"}
  <2>1. active' = {} /\ result' = Settle(active, "failed") /\ "failed" \in Outcomes
    BY <1>3 DEF Interrupt, Outcomes
  <2>2. \A c \in Calls : result[c] # "none" => result'[c] # "none"
    BY <1>0, <2>1, SettleOpens
  <2>3. active \union QueuedCalls \subseteq Calls
    BY <1>0, StopAssumption DEF TypeOK, QueuedCalls
  <2>4. Opened'
    BY <1>2, <2>1, <2>2, <2>3, OpenedKept
  <2>5. \A c \in Calls : result[c] = "pending" => c \in active \/ c \in Elems(WithoutStop(queue'))
    BY <1>0, <1>2 DEF OpenCallsAccounted
  <2>6. PortStep
    BY <1>0, <2>1, <2>5, Breaks
  <2> QED
    BY <1>1, <2>4, <2>6 DEF PortKept
<1>4. CASE task \notin {"serving", "gathering"}
  <2>1. active' = active /\ result' = result
    BY <1>4 DEF Interrupt
  <2>2. Opened'
    BY <1>2, <2>1 DEF Opened
  <2> QED
    BY <1>0, <1>1, <2>1, <2>2, Unseen DEF PortKept
<1> QED
  BY <1>3, <1>4

(* close() up to its first await.                                          *)
LEMMA CloseTaskPort ==
    ASSUME WorkerInv, OneSentinel, Opened, CloseTask, owner \in {"starting", "started"}
    PROVE  PortKept /\ PortStep
<1>0. UNCHANGED <<task, active, result, caller>> /\ task # "unstarted" /\ StopAt(queue) = {}
  BY DEF CloseTask, OneSentinel
<1>1. CASE task = "done"
  BY <1>0, <1>1, UnseenKept DEF CloseTask
<1>2. CASE task # "done"
  <2>1. owner' = "stopping" /\ queue' = Append(queue, Stop)
    BY <1>2 DEF CloseTask
  <2>2. OneStop(queue') /\ WithoutStop(queue') = WithoutStop(queue)
    BY <1>0, <2>1, LineStop, QueueOneStop DEF WorkerInv
  <2>3. OneSentinel'
    BY <1>0, <2>1, <2>2 DEF OneSentinel, OneStop
  <2>4. QueuedCalls' = QueuedCalls
    BY <2>1, QueueAppend DEF WorkerInv, QueuedCalls
  <2> QED
    BY <1>0, <2>2, <2>3, <2>4, OpenedKept, Unseen DEF PortKept
<1> QED
  BY <1>1, <1>2

(* wait_for(queue.get()) returns a call: Begin.                            *)
LEMMA DequeuePort == ASSUME WorkerInv, OneSentinel, Opened, Dequeue PROVE PortKept /\ PortStep
<1>0. TypeOK /\ OneStop(queue)
  BY QueueOneStop DEF WorkerInv
<1>1. /\ task = "waiting" /\ task' # "unstarted" /\ queue # <<>> /\ queue' = Tail(queue)
      /\ Head(queue) # Stop /\ active' = active \union {Head(queue)}
      /\ UNCHANGED <<ready, result, caller, owner>>
  BY DEF Dequeue, Take
<1>2. /\ OneStop(queue') /\ (StopAt(queue') # {} => StopAt(queue) # {})
      /\ WithoutStop(queue) # <<>> /\ Head(WithoutStop(queue)) = Head(queue)
      /\ WithoutStop(queue') = Tail(WithoutStop(queue))
  BY <1>0, <1>1, LineGet
<1>3. OneSentinel'
  BY <1>1, <1>2 DEF OneSentinel, OneStop
<1>4. active' \union QueuedCalls' \subseteq active \union QueuedCalls
  <2>1. Stop \notin QueuedCalls'
    BY DEF QueuedCalls
  <2> QED
    BY <1>0, <1>1, <2>1, QueueGet
<1>5. Opened'
  BY <1>1, <1>4 DEF Opened
<1>6. Concurrency = "serial" => active = {}
  BY <1>1 DEF WorkerInv, SerialShape
<1>7. Port!Begin
  BY <1>1, <1>2, <1>6 DEF Port!Begin
<1> QED
  BY <1>3, <1>5, <1>7 DEF PortKept, PortStep, Port!PortNext

(* ... or the sentinel, which the port does not see.                       *)
LEMMA DequeueStopPort == ASSUME WorkerInv, OneSentinel, Opened, DequeueStop PROVE PortKept /\ PortStep
<1>0. TypeOK /\ OneStop(queue)
  BY QueueOneStop DEF WorkerInv
<1>1. /\ task' # "unstarted" /\ queue # <<>> /\ queue' = Tail(queue)
      /\ Head(queue) = Stop /\ UNCHANGED <<ready, active, result, caller, owner>>
  BY DEF DequeueStop, TakeStop
<1>2. StopAt(queue') = {} /\ WithoutStop(queue') = WithoutStop(queue)
  BY <1>0, <1>1, LineGetStop
<1>3. OneSentinel'
  BY <1>1, <1>2 DEF OneSentinel
<1>4. QueuedCalls' \subseteq QueuedCalls
  <2>1. Stop \notin QueuedCalls'
    BY DEF QueuedCalls
  <2> QED
    BY <1>0, <1>1, <2>1, QueueGet
<1> QED
  BY <1>1, <1>2, <1>3, <1>4, OpenedKept, Unseen DEF PortKept

(* The handler fails every open call and empties the queue: Break.         *)
LEMMA HandlerPort == ASSUME WorkerInv, OneSentinel, Opened, Handler PROVE PortKept /\ PortStep
<1> DEFINE S == active \union QueuedCalls
<1>0. TypeOK /\ OpenCallsAccounted /\ "failed" \in Outcomes
  BY DEF WorkerInv, Outcomes
<1>1. /\ task' = "done" /\ queue' = <<>> /\ result' = Settle(S, "failed")
      /\ UNCHANGED <<active, caller, owner>>
  BY DEF Handler, FailAll
<1>2. StopAt(queue') = {} /\ WithoutStop(queue') = <<>> /\ QueuedCalls' = {}
  BY <1>1 DEF StopAt, WithoutStop, QueuedCalls
<1>3. OneSentinel'
  BY <1>1, <1>2 DEF OneSentinel
<1>4. \A c \in Calls : result[c] # "none" => result'[c] # "none"
  BY <1>0, <1>1, SettleOpens
<1>5. Opened'
  BY <1>0, <1>1, <1>2, <1>4 DEF Opened, TypeOK
<1>6. \A c \in Calls : result[c] = "pending" => c \in S
  BY <1>0 DEF OpenCallsAccounted
<1> HIDE DEF S
<1>7. PortStep
  BY <1>0, <1>1, <1>2, <1>6, Breaks
<1> QED
  BY <1>3, <1>5, <1>7 DEF PortKept

LEMMA TaskPort == ASSUME WorkerInv, OneSentinel, Opened, TaskStep PROVE PortKept /\ PortStep
<1>1. CASE Launched
  BY <1>1, UnseenKept DEF Launched
<1>2. CASE LaunchFails \/ Gathered \/ IdleTimer \/ IdleTimeout \/ Exited
  BY <1>2, UnseenKept DEF LaunchFails, Gathered, IdleTimer, IdleTimeout, Exited, Move
<1>3. CASE SessionBreaks
  BY <1>3, InterruptPort DEF SessionBreaks
<1> QED
  BY <1>1, <1>2, <1>3, DequeuePort, DequeueStopPort, HandlerPort DEF TaskStep

LEMMA OwnerPort == ASSUME WorkerInv, OneSentinel, Opened, OwnerStep PROVE PortKept /\ PortStep
<1>1. CASE Start
  BY <1>1, UnseenKept DEF Start, OneSentinel
<1>2. CASE StartReturns
  BY <1>2, UnseenKept DEF StartReturns, OneSentinel
<1>3. CASE CloseReturns
  BY <1>3, UnseenKept DEF CloseReturns
<1>4. CASE StartFails \/ StartCancelled \/ Close
  BY <1>4, CloseTaskPort DEF StartFails, StartCancelled, Close
<1>5. CASE GraceExpires
  <2>1. CASE Interrupt
    BY <1>5, <2>1, InterruptPort DEF GraceExpires
  <2>2. CASE UNCHANGED <<task, ready, queue, active, result, caller>>
    BY <1>5, <2>2, UnseenKept DEF GraceExpires
  <2> QED
    BY <1>5, <2>1, <2>2 DEF GraceExpires
<1> QED
  BY <1>1, <1>2, <1>3, <1>4, <1>5 DEF OwnerStep

(* call_tool() puts a call at the end of the line: Submit.                 *)
LEMMA EnqueuePort ==
    ASSUME WorkerInv, OneSentinel, Opened, NEW c \in Calls, Enqueue(c)
    PROVE  PortKept /\ PortStep
<1>0. TypeOK /\ OneStop(queue)
  BY QueueOneStop DEF WorkerInv
<1>1. /\ caller[c] = "new" /\ queue' = Append(queue, c)
      /\ result' = [result EXCEPT ![c] = "pending"]
      /\ caller' = [caller EXCEPT ![c] = "waiting"]
      /\ UNCHANGED <<task, ready, active, owner>>
  BY DEF Enqueue, Submit
<1>2. /\ OneStop(queue') /\ StopAt(queue') = StopAt(queue)
      /\ WithoutStop(queue') = Append(WithoutStop(queue), c)
  BY <1>0, <1>1, LinePut
<1>3. OneSentinel'
  BY <1>1, <1>2 DEF OneSentinel, OneStop
<1>4. QueuedCalls' = (QueuedCalls \union {c}) \ {Stop}
  BY <1>0, <1>1, QueueAppend
<1>5. Opened'
  BY <1>0, <1>1, <1>4 DEF Opened, TypeOK
<1>6. Port!Submit(c)
  BY <1>1, <1>2 DEF Port!Submit
<1> QED
  BY <1>3, <1>5, <1>6 DEF PortKept, PortStep, Port!PortNext

(* The caller is refused, answered, timed out or gone.                     *)
LEMMA CallerPort ==
    ASSUME WorkerInv, OneSentinel, Opened, NEW c \in Calls, CallerStep(c)
    PROVE  PortKept /\ PortStep
<1>1. CASE Refuse(c) \/ Answered(c) \/ CallAbandoned(c) \/ CallTimeout(c)
  <2>1. UNCHANGED <<task, ready, queue, active, owner>>
    BY <1>1 DEF Refuse, Answered, CallAbandoned, CallTimeout, TimeOut, Resolve
  <2>2. \A d \in Calls : result[d] # "none" => result'[d] # "none"
    BY <1>1, TimeOutReply DEF WorkerInv, TypeOK, Refuse, Answered, CallAbandoned
  <2>3. OneSentinel'
    BY <2>1, SentinelKept
  <2>4. QueuedCalls' = QueuedCalls /\ active \union QueuedCalls \subseteq Calls
    BY <2>1, QueuedSame, StopAssumption DEF WorkerInv, TypeOK, QueuedCalls
  <2>5. Opened'
    BY <2>1, <2>2, <2>4, OpenedKept
  <2>6. Port!Decline(c) \/ Port!Answer(c) \/ Port!GiveUp(c)
    <3>1. CASE CallTimeout(c)
      <4>1. /\ caller[c] = "waiting" /\ caller' = [caller EXCEPT ![c] = "timedOut"]
            /\ WithoutStop(queue)' = WithoutStop(queue)
        BY <2>1, <3>1 DEF CallTimeout, TimeOut, Resolve, WithoutStop, StopAt
      <4>2. result' = [result EXCEPT ![c] = IF result[c] = "pending" THEN "cancelled" ELSE result[c]]
        BY <3>1, TimeOutReply DEF WorkerInv, TypeOK
      <4> QED
        BY <2>1, <4>1, <4>2 DEF Port!GiveUp
    <3>2. CASE Refuse(c) \/ Answered(c) \/ CallAbandoned(c)
      BY <2>1, <3>2 DEF Refuse, Answered, CallAbandoned, Resolve, WorkerInv, TypeOK,
          Settled, Outcomes, Port!Decline, Port!Answer, Port!GiveUp, Port!Fixed
    <3> QED
      BY <1>1, <3>1, <3>2
  <2> QED
    BY <2>3, <2>5, <2>6 DEF PortKept, PortStep, Port!PortNext
<1> QED
  BY <1>1, EnqueuePort DEF CallerStep

(* _execute_call() returns: Finish.                                        *)
LEMMA CallReturnsPort ==
    ASSUME WorkerInv, OneSentinel, Opened, NEW c \in Calls, CallReturns(c)
    PROVE  PortKept /\ PortStep
<1>0. TypeOK
  BY DEF WorkerInv
<1>1. PICK r \in Outcomes : result' = Settle({c}, r)
  BY DEF CallReturns, Outcomes
<1>2. /\ c \in active /\ active' = active \ {c} /\ (task' = task \/ task' # "unstarted")
      /\ UNCHANGED <<ready, queue, caller, owner>>
  BY DEF CallReturns
<1>3. OneSentinel'
  BY <1>2, SentinelKept
<1>4. QueuedCalls' = QueuedCalls /\ active \union QueuedCalls \subseteq Calls
  BY <1>0, <1>2, QueuedSame, StopAssumption DEF TypeOK, QueuedCalls
<1>5. Opened'
  BY <1>0, <1>1, <1>2, <1>4, SettleOpens, OpenedKept
<1>6. CASE result[c] = "pending"
  <2>1. result' = [result EXCEPT ![c] = r]
    BY <1>0, <1>1, <1>6 DEF Settle, TypeOK
  <2>2. Port!Finish(c)
    BY <1>1, <1>2, <1>6, <2>1 DEF Port!Finish, Outcomes
  <2> QED
    BY <1>3, <1>5, <2>2 DEF PortKept, PortStep, Port!PortNext
<1>7. CASE result[c] # "pending"
  <2>1. result' = result /\ Port!Fixed(result[c])
    BY <1>0, <1>1, <1>2, <1>7 DEF Settle, TypeOK, Opened, Port!Fixed
  <2>2. Port!Finish(c)
    BY <1>2, <2>1 DEF Port!Finish
  <2> QED
    BY <1>3, <1>5, <2>2 DEF PortKept, PortStep, Port!PortNext
<1> QED
  BY <1>6, <1>7

LEMMA PortInitially == Init => PortInv /\ Port!PortInit
<1> SUFFICES ASSUME Init PROVE PortInv /\ Port!PortInit
  OBVIOUS
<1>1. queue = <<>> /\ StopAt(queue) = {} /\ WithoutStop(queue) = <<>> /\ QueuedCalls = {}
  BY DEF Init, StopAt, WithoutStop, QueuedCalls
<1>2. OneSentinel /\ Opened
  BY <1>1 DEF Init, OneSentinel, Opened
<1>3. Port!PortInit
  BY <1>1 DEF Init, Port!PortInit
<1> QED
  BY <1>2, <1>3, InitInv DEF PortInv

LEMMA PortSteps == ASSUME PortInv, [Next]_vars PROVE PortInv' /\ [Port!PortNext]_(Port!portVars)
<1>1. CASE UNCHANGED vars
  <2>1. OneSentinel'
    BY <1>1, SentinelKept DEF PortInv, vars
  <2>2. Opened'
    BY <1>1, QueuedSame DEF PortInv, vars, Opened
  <2> QED
    BY <1>1, <2>1, <2>2, StepInv, Unseen DEF PortInv, PortStep, vars
<1>2. CASE Next
  <2>1. PortKept /\ PortStep
    BY <1>2, TaskPort, OwnerPort, CallerPort, CallReturnsPort DEF Next, PortInv
  <2> QED
    BY <2>1, StepInv DEF PortInv, PortKept, PortStep
<1> QED
  BY <1>1, <1>2

(* What the refinement rests on holds in every reachable state.            *)
THEOREM PortInvariant == Spec => []PortInv
  BY PortInitially, PortSteps, PTL DEF Spec

(* A worker refines its call port, but for fairness: every step it takes   *)
(* is one that the port allows, under the mapping of WorkerPort.           *)
THEOREM PortRefined == Spec => Port!PortInit /\ [][Port!PortNext]_(Port!portVars)
  BY PortInitially, PortSteps, PTL DEF Spec
=============================================================================
