---------------------------- MODULE BrokerProofs ----------------------------
(***************************************************************************)
(* What holds of the Broker because Inv is invariant: the safety           *)
(* invariants, and, from what a single step may do to the workers, the     *)
(* tables and the requests, what no step may ever do.                      *)
(***************************************************************************)
EXTENDS BrokerInduction

(* Every variable of the broker holds a value of its type.                 *)
THEOREM TypesHold == Spec => []TypeOK
<1>1. Inv => TypeOK
  BY DEF Inv
<1> QED
  BY <1>1, BrokerInvariant, PTL

(* Nobody loses a process: a worker that has not been asked to stop is in  *)
(* a table, in the hands of a coroutine, or prepared for a commit, but for *)
(* the double activation of an upstream that came back (broker.py:211).    *)
THEOREM NobodyStrays == Spec => []NoStrayWorker
<1>1. Inv => NoStrayWorker
  BY DEF Inv
<1> QED
  BY <1>1, BrokerInvariant, PTL

(* No two open sessions ever share an isolated worker, and none is used    *)
(* for a workspace it was not started for.                                 *)
THEOREM IsolationHolds == Spec => []IsolatedPrivate
<1>1. Inv => IsolatedPrivate
  BY DEF Inv
<1> QED
  BY <1>1, BrokerInvariant, PTL

(* The isolated workers in the table always run the configuration that is  *)
(* current: starts and commits exclude each other.                         *)
THEOREM IsolatedStayCurrent == Spec => []IsolatedCurrent
<1>1. Inv => IsolatedCurrent
  BY DEF Inv, Isolates, IsolatedOf, IsolatedCurrent
<1> QED
  BY <1>1, BrokerInvariant, PTL

(* Concurrent first use, restarts and reloads never give an upstream two   *)
(* shared workers that serve, as long as it has not been removed.          *)
THEOREM SharedOnce == Spec => []OneSharedWorker
<1>1. Inv => OneSharedWorker
  <2> DEFINE Starting(r, x) == proc[r].pc \in Awaiting /\ proc[r].hand = x /\ worker[x].key = proc[r].key
  <2>1. ASSUME Inv, NEW x \in Workers, Serving(x)
        PROVE  \/ \E k \in Keys : entry[k].shared = x /\ worker[x].key = k /\ entry[k].tools # 0
               \/ \E r \in Requests : Starting(r, x) /\ proc[r].key \in Keys
               \/ worker[x].key \in Keys /\ entry[worker[x].key].lock # 0
    <3>1. /\ worker[x].state \in {"starting", "running"} /\ worker[x].mode = "shared"
          /\ x # proc[Reloader].hand /\ \A y \in reload.prepared : y.hand # x
      BY <2>1 DEF Serving
    <3>2. \A k \in Keys : entry[k].shared = x => worker[x].key = k /\ entry[k].tools # 0
      BY <2>1, NoneAssumption DEF Inv, Entries, SharedOf
    <3>3. \A i \in Instances : isolated[i] # x
      BY <2>1, <3>1, NoneAssumption DEF Inv, Isolates, IsolatedOf
    <3>4. \A p \in Procs : proc[p].hand = x /\ proc[p].pc \in Awaiting =>
            p \in Requests /\ worker[x].key = proc[p].key /\ proc[p].key \in Keys
      BY <2>1, <3>1 DEF Inv, Hands, Holds, Places, Placed, Keyed, Awaiting, PreparePcs, Procs
    <3> QED
      BY <2>1, <3>1, <3>2, <3>3, <3>4 DEF Inv, NoStrayWorker, Awaiting
  <2>2. ASSUME Inv, NEW r \in Requests, NEW k \in Keys, NEW x \in Workers, Starting(r, x),
               worker[x].mode = "shared", k = proc[r].key, entry[k].lock = 0
        PROVE  \/ proc[r].pc = "starting" /\ entry[k].tools = 0 /\ proc[r].lock = 0
               \/ /\ proc[r].pc = "spawning" /\ entry[k].tools # 0
                  /\ entry[k].shared # None => worker[entry[k].shared].state \notin Up
    <3>1. CASE proc[r].pc = "starting"
      BY <2>2, <3>1, Facts DEF Inv, Activations, PreparePcs, Procs, Proc
    <3>2. CASE proc[r].pc = "spawning"
      BY <2>2, <3>2 DEF Inv, Spawns, Vacant
    <3> QED
      BY <2>2, <3>1, <3>2 DEF Awaiting
  <2>3. ASSUME Inv, NEW x \in Workers, NEW y \in Workers, Serving(x), Serving(y), NEW k \in Keys,
               worker[x].key = k, worker[y].key = k, entry[k].lock = 0
        PROVE  x = y
    <3>1. worker[x].state \in Up /\ worker[y].state \in Up /\ worker[x].mode = "shared" /\ worker[y].mode = "shared"
      BY <2>3 DEF Serving, Up
    <3>2. \A z \in {x, y} : \/ entry[k].shared = z /\ entry[k].tools # 0
                            \/ \E r \in Requests : Starting(r, z) /\ proc[r].key = k
      BY <2>1, <2>3
    <3>3. \A z \in {x, y} : \A r \in Requests : Starting(r, z) /\ proc[r].key = k =>
            \/ proc[r].pc = "starting" /\ entry[k].tools = 0 /\ proc[r].lock = 0
            \/ /\ proc[r].pc = "spawning" /\ entry[k].tools # 0
               /\ entry[k].shared # None => worker[entry[k].shared].state \notin Up
      BY <2>2, <2>3, <3>1
    <3>4. \A q, r \in Requests : proc[q].pc \in {"starting", "spawning"} /\ proc[q].pc = proc[r].pc
            /\ proc[q].key = k /\ proc[r].key = k /\ (proc[q].pc = "starting" => proc[q].lock = proc[r].lock)
            => q = r
      BY <2>3 DEF Inv, Activations, Spawns, PreparePcs
    <3>5. CASE entry[k].shared = x \/ entry[k].shared = y
      <4>1. /\ entry[k].tools # 0 /\ worker[entry[k].shared].state \in Up
            /\ entry[k].shared # None
        BY <2>3, <3>1, <3>5, NoneAssumption DEF Inv, Entries
      <4> QED
        BY <3>2, <3>3, <4>1
    <3>6. CASE entry[k].shared # x /\ entry[k].shared # y
      <4>1. PICK q \in Requests : Starting(q, x) /\ proc[q].key = k
        BY <3>2, <3>6
      <4>2. PICK r \in Requests : Starting(r, y) /\ proc[r].key = k
        BY <3>2, <3>6
      <4>3. proc[q].pc = proc[r].pc /\ proc[q].pc \in {"starting", "spawning"}
            /\ (proc[q].pc = "starting" => proc[q].lock = proc[r].lock)
        BY <3>3, <4>1, <4>2
      <4> QED
        BY <3>4, <4>1, <4>2, <4>3
    <3> QED
      BY <3>5, <3>6
  <2>4. ASSUME Inv, NEW x \in Workers, Serving(x) PROVE worker[x].key \in Keys
    BY <2>1, <2>4
  <2> QED
    BY <2>3, <2>4 DEF OneSharedWorker
<1> QED
  BY <1>1, BrokerInvariant, PTL

-----------------------------------------------------------------------------
(* What one step may do to the workers, the tables and the requests        *)

Lasts(w) ==
    worker[w].state # "unused" =>
        worker'[w].key = worker[w].key /\ worker'[w].ver = worker[w].ver /\ worker'[w].mode = worker[w].mode

LEMMA PutFacts ==
    ASSUME Inv, NEW p \in Procs, NEW P, Put(p, P)
    PROVE  proc'[p] = P /\ \A q \in Procs \ {p} : proc'[q] = proc[q]
BY DEF Put, Inv, TypeOK

LEMMA LaunchFacts ==
    ASSUME Inv, NEW p \in Procs, NEW P \in Proc, NEW mode, NEW inputs, Launch(p, P, mode, inputs)
    PROVE  /\ \A w \in Workers : Lasts(w)
           /\ \A q \in Procs \ {p} : proc'[q] = proc[q]
           /\ proc'[p].pc = P.pc /\ proc'[p].key = P.key
           /\ worker'[proc'[p].hand].mode = mode
<1> DEFINE new == CHOOSE w \in {w \in Workers : worker[w].state = "unused"} : TRUE
           W == [state |-> "starting", key |-> P.key, ver |-> P.ver, mode |-> mode,
                 inputs |-> IF TakesInputs(P.key, P.ver) THEN inputs ELSE None,
                 users |-> {}]
<1>1. /\ new \in Workers /\ worker[new].state = "unused"
      /\ worker' = [worker EXCEPT ![new] = W] /\ Put(p, [P EXCEPT !.hand = new])
  BY DEF Launch
<1> HIDE DEF new
<1>2. /\ worker'[new].mode = mode /\ \A w \in Workers : w # new => worker'[w] = worker[w]
  BY <1>1 DEF Inv, TypeOK
<1>3. proc'[p] = [P EXCEPT !.hand = new] /\ \A q \in Procs \ {p} : proc'[q] = proc[q]
  BY <1>1, PutFacts
<1>4. proc'[p].hand = new /\ proc'[p].pc = P.pc /\ proc'[p].key = P.key
  BY <1>3 DEF Proc
<1> QED
  BY <1>1, <1>2, <1>3, <1>4 DEF Lasts

LEMMA StoppingLasts ==
    ASSUME Inv, NEW S, worker' = Stopping(S)
    PROVE  \A w \in Workers : Lasts(w)
BY DEF Inv, TypeOK, Worker, Stopping, Lasts

(* A request comes to start a worker only from where it may.               *)
Begins(r) ==
    /\ proc'[r].key = proc[r].key
    /\ \/ proc[r].pc = "activate" /\ entry[proc[r].key].tools = 0 /\ proc'[r].pc # "spawning"
       \/ proc[r].pc = "qualifying" /\ proc'[r].pc # "spawning"
       \/ /\ proc[r].pc = "select" /\ proc'[r].pc = "spawning" /\ closer = "open"
          /\ worker'[proc'[r].hand].mode = "shared" => MayShare(proc[r].key)
Modest(p) ==
    /\ \A w \in Workers : Lasts(w)
    /\ \A q \in Procs \ {p} : proc'[q] = proc[q]
    /\ p \in Requests =>
          proc'[p] = proc[p] \/ proc'[p].pc \notin {"qualifying", "starting", "spawning"} \/ Begins(p)

LEMMA PuttingModest ==
    ASSUME Inv, NEW p \in Procs, NEW P, Put(p, P), P.pc \notin {"qualifying", "starting", "spawning"},
           \A w \in Workers : Lasts(w)
    PROVE  Modest(p)
BY PutFacts DEF Modest

LEMMA EditLasts ==
    ASSUME Inv, NEW w \in Workers, NEW W, worker' = [worker EXCEPT ![w] = W],
           W.key = worker[w].key, W.ver = worker[w].ver, W.mode = worker[w].mode
    PROVE  \A v \in Workers : Lasts(v)
BY DEF Inv, TypeOK, Lasts

LEMMA UnchangedLasts == UNCHANGED worker => \A w \in Workers : Lasts(w)
BY DEF Lasts

LEMMA PrepareModest ==
    ASSUME Inv, NEW p \in Procs, NEW k, NEW ver, Prepare(p, k, ver), k \in Keys, ver \in Nat,
           p \in Requests => proc[p].pc = "activate" /\ entry[k].tools = 0 /\ proc[p].key = k
    PROVE  Modest(p)
<1> DEFINE rec == [proc[p] EXCEPT !.key = k, !.ver = ver, !.qual = "none"]
           P == [rec EXCEPT !.pc = "qualifying"]
           Q == [rec EXCEPT !.pc = "starting"]
<1>1. P.pc = "qualifying" /\ P.key = k /\ Q \in Proc /\ Q.pc = "starting" /\ Q.key = k
  BY Facts DEF Proc, PreparePcs
<1>2. IF IsShareable(k, ver) THEN Put(p, P) /\ UNCHANGED worker ELSE Launch(p, Q, "probe", InputsOf(p, k))
  BY DEF Prepare
<1> HIDE DEF P, Q
<1>3. CASE IsShareable(k, ver)
  BY <1>1, <1>2, <1>3, PutFacts, UnchangedLasts DEF Modest, Begins
<1>4. CASE ~IsShareable(k, ver)
  BY <1>1, <1>2, <1>4, LaunchFacts DEF Modest, Begins
<1> QED
  BY <1>3, <1>4

LEMMA GiveUpModest ==
    ASSUME Inv, NEW p \in Procs, GiveUp(p)
    PROVE  Modest(p)
<1>1. CASE p = Reloader
  <2>1. Put(p, Fresh("retiring", None)) /\ \E S : worker' = Stopping(S)
    BY <1>1 DEF GiveUp
  <2> QED
    BY <2>1, PuttingModest, StoppingLasts DEF Fresh
<1>2. CASE p # Reloader
  BY <1>2, PuttingModest, UnchangedLasts DEF GiveUp, Finish, Fresh
<1> QED
  BY <1>1, <1>2

LEMMA ReturnModest ==
    ASSUME Inv, NEW p \in Procs, NEW w, Return(p, w), \A v \in Workers : Lasts(v)
    PROVE  Modest(p)
<1>1. \E P : Put(p, P) /\ P.pc \notin {"qualifying", "starting", "spawning"}
  <2>1. CASE p = Reloader
    BY <2>1 DEF Return, Fresh
  <2>2. CASE p # Reloader
    BY <2>2 DEF Return, Fresh
  <2> QED
    BY <2>1, <2>2
<1> QED
  BY <1>1, PuttingModest

LEMMA PrepareStepModest ==
    ASSUME Inv, NEW p \in Procs, PrepareStep(p)
    PROVE  Modest(p)
<1>0. proc[p] \in Proc
  BY Facts
<1>1. CASE Qualified(p)
  <2>1. CASE GiveUp(p)
    BY <2>1, GiveUpModest
  <2>2. CASE ~GiveUp(p)
    <3>1. PICK q \in {"admitted", "rejected"} :
             Launch(p, [proc[p] EXCEPT !.pc = "starting", !.qual = q],
                    IF q = "admitted" THEN "shared" ELSE "probe", InputsOf(p, proc[p].key))
      BY <1>1, <2>2 DEF Qualified, QualifyAs
    <3> DEFINE P == [proc[p] EXCEPT !.pc = "starting", !.qual = q]
    <3>2. P \in Proc /\ P.pc = "starting" /\ P.key = proc[p].key /\ proc[p].pc = "qualifying"
      BY <1>0, <1>1 DEF Proc, PreparePcs, Qualified, QualifyAs, At
    <3> HIDE DEF P
    <3> QED
      BY <3>1, <3>2, LaunchFacts DEF Modest, Begins, P
  <2> QED
    BY <2>1, <2>2
<1>2. CASE Started(p)
  <2>1. CASE proc[p].qual = "admitted"
    <3>1. Return(p, proc[p].hand) /\ worker' = [worker EXCEPT ![proc[p].hand].state = "running"]
      BY <1>2, <2>1 DEF Started
    <3>2. proc[p].hand \in Workers
      BY <1>2, Facts DEF Started, At, Handed, Awaiting
    <3>3. \A w \in Workers : Lasts(w)
      BY <3>1, <3>2 DEF Inv, TypeOK, Worker, Lasts
    <3> QED
      BY <3>1, <3>3, ReturnModest
  <2>2. CASE proc[p].qual # "admitted"
    <3>1. worker' = Stopping({proc[p].hand}) /\ Put(p, [proc[p] EXCEPT !.pc = "discarding"])
      BY <1>2, <2>2 DEF Started, Goto
    <3>2. [proc[p] EXCEPT !.pc = "discarding"].pc = "discarding"
      BY <1>0 DEF Proc
    <3> QED
      BY <3>1, <3>2, StoppingLasts, PuttingModest
  <2> QED
    BY <2>1, <2>2
<1>3. CASE StartFails(p)
  <2>1. worker' = Stopping({proc[p].hand}) /\ Put(p, [proc[p] EXCEPT !.pc = "aborting"])
    BY <1>3 DEF StartFails, StartFailsThen, Goto
  <2>2. [proc[p] EXCEPT !.pc = "aborting"].pc = "aborting"
    BY <1>0 DEF Proc
  <2> QED
    BY <2>1, <2>2, StoppingLasts, PuttingModest
<1>4. CASE Discarded(p)
  BY <1>4, UnchangedLasts, ReturnModest DEF Discarded
<1>5. CASE Aborted(p)
  BY <1>5, GiveUpModest DEF Aborted
<1> QED
  BY <1>1, <1>2, <1>3, <1>4, <1>5 DEF PrepareStep

LEMMA RequestStepModest ==
    ASSUME Inv, NEW r \in Requests, RequestStep(r)
    PROVE  Modest(r)
<1>0. /\ r \in Procs /\ proc[r] \in Proc
      /\ \A pc : [proc[r] EXCEPT !.pc = pc].pc = pc
      /\ \A pc, k : Fresh(pc, k).pc = pc
      /\ \A crash : Failing(r, crash).pc = "failing"
  BY Facts DEF Procs, Proc, Fresh, Failing
<1>1. ASSUME NEW P, Put(r, P), P.pc \notin {"qualifying", "starting", "spawning"}, UNCHANGED worker
      PROVE  Modest(r)
  BY <1>0, <1>1, PuttingModest, UnchangedLasts
<1>2. ASSUME NEW w \in Workers, Call(r, w) PROVE Modest(r)
  <2>1. worker' = [worker EXCEPT ![w] = [worker[w] EXCEPT !.users = @ \union {SessionOf[r]}]]
    BY <1>2 DEF Call, Inv, TypeOK
  <2>2. \A v \in Workers : Lasts(v)
    BY <2>1 DEF Inv, TypeOK, Worker, Lasts
  <2>3. [proc[r] EXCEPT !.pc = "calling", !.hand = w].pc = "calling"
    BY <1>0 DEF Proc
  <2> QED
    BY <1>0, <1>2, <2>2, <2>3, PuttingModest DEF Call
<1>3. ASSUME NEW k \in Keys, Arrive(r, k) PROVE Modest(r)
  <2>1. [proc[r] EXCEPT !.pc = "activate", !.key = k, !.lock = entry[k].lock].pc = "activate"
    BY <1>0 DEF Proc
  <2> DEFINE P == [proc[r] EXCEPT !.pc = "activate", !.key = k, !.lock = entry[k].lock]
  <2>2. UNCHANGED worker /\ (Put(r, Fresh("done", None)) \/ Put(r, P))
    BY <1>3 DEF Arrive, Finish
  <2>3. CASE Put(r, P)
    BY <1>1, <2>1, <2>2, <2>3
  <2>4. CASE Put(r, Fresh("done", None))
    BY <1>0, <1>1, <2>2, <2>4
  <2> QED
    BY <2>2, <2>3, <2>4
<1>4. CASE Activate(r)
  <2> DEFINE k == proc[r].key
  <2>1. proc[r].pc = "activate" /\ k \in Keys /\ cfg[k] \in Nat
    BY <1>0, <1>4, Facts DEF Activate, At, Keyed, Inv, TypeOK
  <2>2. CASE entry[k].tools = 0 /\ Prepare(r, k, cfg[k])
    BY <1>0, <2>1, <2>2, PrepareModest
  <2>3. CASE ~(entry[k].tools = 0 /\ Prepare(r, k, cfg[k]))
    <3>1. UNCHANGED worker /\ \E P \in {Fresh("route", k), [proc[r] EXCEPT !.pc = "queued"], Fresh("done", None)} :
            Put(r, P)
      BY <1>4, <2>3 DEF Activate, Finish, Goto
    <3>2. \A P \in {Fresh("route", k), [proc[r] EXCEPT !.pc = "queued"], Fresh("done", None)} :
            P.pc \notin {"qualifying", "starting", "spawning"}
      <4>1. /\ Fresh("route", k).pc = "route" /\ Fresh("done", None).pc = "done"
            /\ [proc[r] EXCEPT !.pc = "queued"].pc = "queued"
        BY <1>0
      <4> QED
        BY <4>1
    <3> QED
      BY <1>1, <3>1, <3>2
  <2> QED
    BY <2>2, <2>3
<1>5. CASE ActivationLockGranted(r) \/ WorkerLockGranted(r)
  BY <1>0, <1>1, <1>5 DEF ActivationLockGranted, WorkerLockGranted, Move
<1>6. CASE Route(r)
  <2>1. proc[r].key \in Keys /\ entry[proc[r].key] \in Entry /\ Instance(r) \in Instances
    BY <1>0, <1>6, Facts, InstanceType DEF Route, At, Keyed, Inv
  <2>2. /\ IsRunning(entry[proc[r].key].shared) => entry[proc[r].key].shared \in Workers
        /\ IsRunning(isolated[Instance(r)]) => isolated[Instance(r)] \in Workers
    BY <2>1 DEF IsRunning, Inv, TypeOK, Entry
  <2> QED
    BY <1>0, <1>1, <1>2, <1>6, <2>2 DEF Route, Finish, Goto
<1>7. CASE Select(r)
  <2> DEFINE k == proc[r].key
             rec == [proc[r] EXCEPT !.pc = "spawning", !.ver = cfg[k]]
  <2>1. k \in Keys /\ entry[k] \in Entry /\ Instance(r) \in Instances /\ proc[r].pc = "select" /\ cfg[k] \in Nat
    BY <1>0, <1>7, Facts, InstanceType DEF Select, At, Keyed, Inv, TypeOK
  <2>2. /\ IsRunning(entry[k].shared) => entry[k].shared \in Workers
        /\ IsRunning(isolated[Instance(r)]) => isolated[Instance(r)] \in Workers
    BY <2>1 DEF IsRunning, Inv, TypeOK, Entry
  <2>3. rec \in Proc /\ rec.pc = "spawning" /\ rec.key = k
    BY <1>0, <2>1 DEF Proc, OtherPcs
  <2> HIDE DEF rec
  <2>4. \/ Put(r, Failing(r, TRUE)) /\ UNCHANGED worker
        \/ IsRunning(entry[k].shared) /\ Call(r, entry[k].shared)
        \/ IsRunning(isolated[Instance(r)]) /\ Call(r, isolated[Instance(r)])
        \/ closer = "open" /\ MayShare(k) /\ Launch(r, rec, "shared", InputsOf(r, k))
        \/ closer = "open" /\ Launch(r, rec, "isolated", InputsOf(r, k))
    BY <1>7 DEF Select, Unavailable, rec
  <2>5. CASE closer = "open" /\ MayShare(k) /\ Launch(r, rec, "shared", InputsOf(r, k))
    BY <1>0, <2>1, <2>3, <2>5, LaunchFacts DEF Modest, Begins
  <2>6. CASE closer = "open" /\ Launch(r, rec, "isolated", InputsOf(r, k))
    BY <1>0, <2>1, <2>3, <2>6, LaunchFacts DEF Modest, Begins
  <2> QED
    BY <1>0, <1>1, <1>2, <2>2, <2>4, <2>5, <2>6
<1>8. CASE Spawned(r) \/ SpawnFails(r)
  <2> DEFINE w == proc[r].hand
  <2>1. w \in Workers
    BY <1>0, <1>8, Facts DEF Spawned, SpawnFails, At, Handed, Awaiting
  <2>2. \A v \in Workers : Lasts(v)
    <3>1. CASE Spawned(r)
      BY <2>1, <3>1 DEF Spawned, Inv, TypeOK, Worker, Lasts
    <3>2. CASE SpawnFails(r)
      BY <2>1, <3>2 DEF SpawnFails, Inv, TypeOK, Worker, Lasts
    <3> QED
      BY <1>8, <3>1, <3>2
  <2>3. [Fresh("calling", proc[r].key) EXCEPT !.hand = w].pc = "calling"
    BY DEF Fresh
  <2> QED
    BY <1>0, <1>8, <2>2, <2>3, PuttingModest DEF Spawned, SpawnFails
<1>9. CASE CallReturns(r) \/ CallFails(r) \/ Degraded(r)
  BY <1>0, <1>1, <1>9 DEF CallReturns, CallFails, Degraded, Move
<1>10. CASE Fail(r)
  <2>1. \A h : [proc[r] EXCEPT !.pc = "degrading", !.hand = h].pc = "degrading"
    BY <1>0 DEF Proc
  <2>2. \/ \E h : Put(r, [proc[r] EXCEPT !.pc = "degrading", !.hand = h]) /\ worker' = Stopping({h})
        \/ Put(r, Fresh("done", None)) /\ UNCHANGED worker
    BY <1>10 DEF Fail, Finish
  <2>3. CASE Put(r, Fresh("done", None)) /\ UNCHANGED worker
    BY <1>0, <1>1, <2>3
  <2>4. ASSUME NEW h, Put(r, [proc[r] EXCEPT !.pc = "degrading", !.hand = h]), worker' = Stopping({h})
        PROVE  Modest(r)
    BY <1>0, <2>1, <2>4, StoppingLasts, PuttingModest
  <2> QED
    BY <2>2, <2>3, <2>4
<1>11. CASE Cancel(r)
  <2>1. Put(r, Fresh("cancelled", None)) /\ (UNCHANGED worker \/ worker' = Stopping({proc[r].hand}))
    BY <1>11 DEF Cancel, CancelThen
  <2> QED
    BY <1>0, <1>1, <2>1, StoppingLasts, PuttingModest
<1> QED
  BY <1>3, <1>4, <1>5, <1>6, <1>7, <1>8, <1>9, <1>10, <1>11 DEF RequestStep

LEMMA StepModest ==
    ASSUME Inv, Next
    PROVE  \E p \in Procs : Modest(p)
<1>0. Reloader \in Procs /\ Requests \subseteq Procs /\ Reloader \notin Requests
  BY NoneAssumption DEF Procs
<1>1. ASSUME NEW p \in Procs, PrepareStep(p) PROVE Modest(p)
  BY <1>1, PrepareStepModest
<1>2. ASSUME NEW r \in Requests, RequestStep(r) PROVE Modest(r)
  BY <1>2, RequestStepModest
<1>3. ASSUME UNCHANGED proc, \A w \in Workers : Lasts(w) PROVE Modest(Reloader)
  BY <1>0, <1>3 DEF Modest
<1>4. ASSUME NEW w \in Workers, WorkerStep(w) PROVE Modest(Reloader)
  <2>1. UNCHANGED proc
    BY <1>4 DEF WorkerStep, WorkerIdles, WorkerBreaks, WorkerEnds, WorkerMoves
  <2>2. \A v \in Workers : Lasts(v)
    <3>1. worker[w] \in Worker
      BY DEF Inv, TypeOK
    <3>2. \E W : /\ worker' = [worker EXCEPT ![w] = W]
                 /\ W.key = worker[w].key /\ W.ver = worker[w].ver /\ W.mode = worker[w].mode
      <4>1. \A state, users : LET W == [worker[w] EXCEPT !.state = state]
                                  U == [worker[w] EXCEPT !.state = state, !.users = users] IN
              /\ W.key = worker[w].key /\ W.ver = worker[w].ver /\ W.mode = worker[w].mode
              /\ U.key = worker[w].key /\ U.ver = worker[w].ver /\ U.mode = worker[w].mode
        BY <3>1 DEF Worker
      <4>2. CASE WorkerIdles(w) \/ WorkerBreaks(w)
        <5> DEFINE W == [worker[w] EXCEPT !.state = "exiting"]
        <5>1. worker' = [worker EXCEPT ![w] = W]
          BY <4>2 DEF WorkerIdles, WorkerBreaks, WorkerMoves
        <5>2. W.key = worker[w].key /\ W.ver = worker[w].ver /\ W.mode = worker[w].mode
          BY <4>1
        <5> HIDE DEF W
        <5> QED
          BY <5>1, <5>2
      <4>3. CASE WorkerEnds(w)
        <5> DEFINE W == [worker[w] EXCEPT !.state = "stopped", !.users = {}]
        <5>1. worker' = [worker EXCEPT ![w] = W]
          BY <4>3 DEF WorkerEnds, WorkerMoves
        <5>2. W.key = worker[w].key /\ W.ver = worker[w].ver /\ W.mode = worker[w].mode
          BY <4>1
        <5> HIDE DEF W
        <5> QED
          BY <5>1, <5>2
      <4> QED
        BY <1>4, <4>2, <4>3 DEF WorkerStep
    <3> QED
      BY <3>2, EditLasts
  <2> QED
    BY <1>3, <2>1, <2>2
<1>5. ASSUME NEW s \in Sessions, SessionOpens(s) \/ SessionEnds(s) PROVE Modest(Reloader)
  BY <1>3, <1>5, UnchangedLasts DEF SessionOpens, SessionEnds
<1>6. CASE CloseBegins \/ CloseReturns
  <2>1. UNCHANGED proc /\ (UNCHANGED worker \/ worker' = Stopping(leaving'))
    BY <1>6 DEF CloseBegins, CloseReturns, CloseAll
  <2>2. \A S : worker' = Stopping(S) => \A w \in Workers : Lasts(w)
    BY StoppingLasts
  <2> QED
    BY <1>0, <1>3, <2>1, <2>2, UnchangedLasts
<1>7. CASE ReloadStep
  <2>1. ASSUME \A q \in Procs \ {Reloader} : proc'[q] = proc[q], UNCHANGED worker
        PROVE  Modest(Reloader)
    BY <1>0, <2>1, UnchangedLasts DEF Modest
  <2>2. ASSUME NEW next \in Configs, ReloadBegins(next) PROVE Modest(Reloader)
    <3> DEFINE P == [proc[Reloader] EXCEPT !.pc = "next"]
    <3>1. Put(Reloader, P) /\ UNCHANGED worker
      BY <2>2 DEF ReloadBegins, Goto
    <3> HIDE DEF P
    <3> QED
      BY <1>0, <2>1, <3>1, PutFacts
  <2>3. ASSUME NEW k \in Keys, ReloadPrepares(k) PROVE Modest(Reloader)
    <3>1. CASE entry[k].tools = 0
      BY <2>1, <2>3, <3>1 DEF ReloadPrepares
    <3>2. CASE entry[k].tools # 0
      BY <1>0, <2>3, <3>2, PrepareModest DEF ReloadPrepares, Inv, TypeOK
    <3> QED
      BY <3>1, <3>2
  <2>4. CASE ReloadWaits
    <3> DEFINE P == [proc[Reloader] EXCEPT !.pc = "commitWait"]
    <3>1. Put(Reloader, P) /\ UNCHANGED worker
      BY <2>4 DEF ReloadWaits, Move
    <3> HIDE DEF P
    <3> QED
      BY <1>0, <2>1, <3>1, PutFacts
  <2>5. CASE Commit
    <3>1. \A q \in Procs \ {Reloader} : proc'[q] = proc[q]
      BY <1>0, <2>5, CommitFacts, PutFacts
    <3>2. \A w \in Workers : Lasts(w)
      <4>1. PICK S \in SUBSET Workers : worker' = Stopping(S)
        BY <2>5, CommitFacts
      <4> QED
        BY <4>1, StoppingLasts
    <3> QED
      BY <1>0, <3>1, <3>2 DEF Modest
  <2>6. CASE ReloadReturns
    BY <1>0, <2>1, <2>6, PutFacts DEF ReloadReturns
  <2> QED
    BY <1>0, <1>7, <2>2, <2>3, <2>4, <2>5, <2>6 DEF ReloadStep
<1> QED
  BY <1>0, <1>1, <1>2, <1>4, <1>5, <1>6, <1>7 DEF Next

LEMMA TablesStep ==
    ASSUME Next
    PROVE  \/ UNCHANGED <<cfg, entry, isolated, closer>>
           \/ \E p \in Procs : Started(p) \/ Discarded(p)
           \/ \E r \in Requests : Spawned(r) \/ Fail(r)
           \/ \E w \in Workers : WorkerIdles(w)
           \/ Commit \/ CloseBegins \/ CloseReturns
<1>1. ASSUME NEW p \in Procs, Qualified(p) \/ StartFails(p) \/ Aborted(p)
      PROVE  UNCHANGED <<cfg, entry, isolated, closer>>
  BY <1>1 DEF Qualified, QualifyAs, StartFails, StartFailsThen, Aborted
<1>2. ASSUME NEW r \in Requests, RequestStep(r), ~Spawned(r), ~Fail(r)
      PROVE  UNCHANGED <<cfg, entry, isolated, closer>>
  BY <1>2 DEF RequestStep, Arrive, Activate, ActivationLockGranted, Move, Route, WorkerLockGranted, Select,
     SpawnFails, CallReturns, CallFails, Degraded, Cancel, CancelThen
<1>3. ASSUME NEW w \in Workers, WorkerBreaks(w) \/ WorkerEnds(w)
      PROVE  UNCHANGED <<cfg, entry, isolated, closer>>
  BY <1>3 DEF WorkerBreaks, WorkerEnds, WorkerMoves
<1>4. ASSUME NEW s \in Sessions, SessionOpens(s) \/ SessionEnds(s)
      PROVE  UNCHANGED <<cfg, entry, isolated, closer>>
  BY <1>4 DEF SessionOpens, SessionEnds
<1>5. ASSUME ReloadStep, ~Commit PROVE UNCHANGED <<cfg, entry, isolated, closer>>
  BY <1>5 DEF ReloadStep, ReloadBegins, ReloadPrepares, ReloadWaits, Move, ReloadReturns
<1> QED
  BY <1>1, <1>2, <1>3, <1>4, <1>5 DEF Next, PrepareStep, WorkerStep

(* What a step other than a commit may do to the row of an upstream.       *)
Keeps(k) ==
    entry'[k].tools = entry[k].tools /\ entry'[k].shared \in {entry[k].shared, None}
Enters(r, k) ==
    /\ proc[r].key = k
    /\ \/ proc[r].pc = "starting" /\ proc'[r].pc = "route" /\ worker[proc[r].hand].mode = "shared"
       \/ proc[r].pc = "discarding" /\ entry'[k].tools # 0 /\ entry'[k].shared = entry[k].shared
       \/ /\ proc[r].pc = "spawning" /\ worker[proc[r].hand].mode = "shared"
          /\ entry'[k].shared = proc[r].hand

LEMMA EntryStep ==
    ASSUME Inv, Next, ~Commit, NEW k \in Keys
    PROVE  cfg' = cfg /\ (Keeps(k) \/ \E r \in Requests : Enters(r, k))
<1>0. entry[k] \in Entry
  BY DEF Inv, TypeOK
<1>1. CASE UNCHANGED <<cfg, entry, isolated, closer>>
  BY <1>1 DEF Keeps
<1>2. ASSUME NEW p \in Procs, Started(p) \/ Discarded(p)
      PROVE  cfg' = cfg /\ (Keeps(k) \/ \E r \in Requests : Enters(r, k))
  <2>0. cfg' = cfg
    BY <1>2 DEF Started, Discarded
  <2>1. CASE p = Reloader
    <3>1. UNCHANGED entry
      BY <1>2, <2>1 DEF Started, Discarded, Return
    <3> QED
      BY <2>0, <3>1 DEF Keeps
  <2>2. CASE p # Reloader /\ proc[p].key # k
    <3>1. UNCHANGED entry \/ entry'[k] = entry[k]
      BY <1>2, <2>2 DEF Started, Discarded, Return, Inv, TypeOK
    <3> QED
      BY <2>0, <3>1 DEF Keeps
  <2>3. CASE p # Reloader /\ proc[p].key = k /\ Started(p)
    <3>1. p \in Requests /\ proc[p].pc = "starting" /\ proc[p].ver \in Nat
      BY <2>3 DEF Procs, Started, At, Inv, TypeOK, Proc
    <3>2. CASE proc[p].qual = "admitted"
      <4>1. Put(p, Fresh("route", k)) /\ worker[proc[p].hand].mode = "shared"
        BY <2>3, <3>1, <3>2 DEF Started, Return, Inv, Hands, Holds, Awaiting
      <4>2. proc'[p].pc = "route"
        BY <4>1, PutFacts DEF Fresh
      <4> QED
        BY <2>0, <2>3, <3>1, <4>1, <4>2 DEF Enters
    <3>3. CASE proc[p].qual # "admitted"
      BY <2>0, <2>3, <3>3 DEF Started, Keeps
    <3> QED
      BY <3>2, <3>3
  <2>4. CASE p # Reloader /\ proc[p].key = k /\ Discarded(p)
    <3>1. p \in Requests /\ proc[p].pc = "discarding" /\ proc[p].ver # 0
      BY <2>4 DEF Procs, Discarded, At, Inv, Places, Placed, PreparePcs
    <3>2. entry' = [entry EXCEPT ![k].tools = proc[p].ver,
                                 ![k].qualified = IF proc[p].qual = "none" THEN @ ELSE proc[p].qual,
                                 ![k].shared = IF None = None THEN @ ELSE None]
      BY <2>4 DEF Discarded, Return
    <3>3. entry'[k].tools = proc[p].ver /\ entry'[k].shared = entry[k].shared
      BY <1>0, <3>2 DEF Inv, TypeOK, Entry
    <3> QED
      BY <2>0, <2>4, <3>1, <3>3 DEF Enters
  <2> QED
    BY <1>2, <2>1, <2>2, <2>3, <2>4
<1>3. ASSUME NEW r \in Requests, Spawned(r)
      PROVE  cfg' = cfg /\ (Keeps(k) \/ \E q \in Requests : Enters(q, k))
  <2>0. cfg' = cfg /\ proc[r].pc = "spawning"
    BY <1>3 DEF Spawned, At
  <2>1. CASE worker[proc[r].hand].mode = "shared" /\ proc[r].key = k
    <3>1. entry'[k].shared = proc[r].hand
      BY <1>0, <1>3, <2>1 DEF Spawned, Inv, TypeOK, Entry
    <3> QED
      BY <2>0, <2>1, <3>1 DEF Enters
  <2>2. CASE ~(worker[proc[r].hand].mode = "shared" /\ proc[r].key = k)
    <3>1. entry'[k] = entry[k]
      BY <1>3, <2>2 DEF Spawned, Inv, TypeOK
    <3> QED
      BY <2>0, <3>1 DEF Keeps
  <2> QED
    BY <2>1, <2>2
<1>4. ASSUME NEW r \in Requests, Fail(r) PROVE cfg' = cfg /\ Keeps(k)
  <2> DEFINE f == AtMost(entry[k].failures + 1, FailureThreshold)
             c == AtMost(entry[k].crashes + (IF proc[r].crash THEN 1 ELSE 0), CrashThreshold)
             d == cfg[k] # 0 /\ (f = FailureThreshold \/ c = CrashThreshold) /\ ~entry[k].degraded
  <2>1. CASE proc[r].key = k
    <3>1. entry' = [entry EXCEPT ![k] = [entry[k] EXCEPT !.failures = f, !.crashes = c,
                       !.degraded = @ \/ d, !.shared = IF d THEN None ELSE @]]
      BY <1>4, <2>1 DEF Fail
    <3> HIDE DEF f, c, d
    <3>2. entry'[k].tools = entry[k].tools /\ entry'[k].shared \in {entry[k].shared, None}
      BY <1>0, <3>1 DEF Inv, TypeOK, Entry
    <3> QED
      BY <1>4, <3>2 DEF Fail, Keeps
  <2>2. CASE proc[r].key # k
    BY <1>4, <2>2 DEF Fail, Keeps, Inv, TypeOK
  <2> QED
    BY <2>1, <2>2
<1>5. ASSUME NEW w \in Workers, WorkerIdles(w) PROVE cfg' = cfg /\ Keeps(k)
  BY <1>0, <1>5 DEF WorkerIdles, Keeps, Entry
<1>6. ASSUME CloseBegins PROVE cfg' = cfg /\ Keeps(k)
  BY <1>0, <1>6 DEF CloseBegins, CloseAll, Keeps, Entry
<1>7. ASSUME CloseReturns PROVE cfg' = cfg /\ Keeps(k)
  BY <1>7 DEF CloseReturns, Keeps
<1> QED
  BY <1>1, <1>2, <1>3, <1>4, <1>5, <1>6, <1>7, TablesStep

-----------------------------------------------------------------------------
(* What a step may never do                                                *)

(* Starting a worker and closing down exclude each other (broker.py:276,   *)
(* 609): once close() has begun nothing is started for a call.             *)
THEOREM NothingStartsAfterClose == Spec => []NoStartAfterClose
<1>1. Init => NoStartAfterClose
  BY DEF Init, NoStartAfterClose
<1>2. Inv /\ NoStartAfterClose /\ [Next]_vars => NoStartAfterClose'
  <2>1. CASE UNCHANGED vars
    BY <2>1 DEF vars, NoStartAfterClose
  <2>2. ASSUME Inv, NoStartAfterClose, Next, closer' # "open" PROVE NoStartAfterClose'
    <3>1. CASE CloseBegins
      BY <3>1 DEF CloseBegins, CloseAll, WorkerLockFree, NoStartAfterClose
    <3>2. CASE ~CloseBegins
      <4>1. closer # "open"
        BY <2>2, <3>2, TablesStep
           DEF Started, Discarded, Spawned, Fail, WorkerIdles, Commit, CommitWith, CloseReturns
      <4>2. /\ \A r \in Requests : proc[r].pc # "spawning"
            /\ \A i \in Instances : isolated[i] = None
        BY <2>2, <4>1 DEF NoStartAfterClose
      <4>3. PICK p \in Procs : Modest(p)
        BY <2>2, StepModest
      <4>4. \A r \in Requests : proc'[r].pc # "spawning"
        BY <4>1, <4>2, <4>3 DEF Modest, Begins, Procs
      <4>5. \A i \in Instances : isolated'[i] = None
        BY <2>2, <3>2, <4>2, TablesStep
           DEF Started, Discarded, Spawned, At, Fail, WorkerIdles, Commit, CommitWith, CloseReturns
      <4> QED
        BY <4>4, <4>5 DEF NoStartAfterClose
    <3> QED
      BY <3>1, <3>2
  <2> QED
    BY <2>1, <2>2 DEF NoStartAfterClose
<1> QED
  BY <1>1, <1>2, BrokerInvariant, PTL DEF Spec

(* A commit replaces what has changed and nothing else (broker.py:364-391).*)
THEOREM UnchangedUntouched == Spec => UnchangedSurvive
<1> DEFINE Untouched ==
      \A k \in Keys : cfg' # cfg /\ cfg'[k] = cfg[k] =>
         /\ entry'[k] = entry[k]
         /\ \A i \in Instances : i[2] = k => isolated'[i] = isolated[i]
         /\ \A w \in Workers : worker[w].key = k => worker'[w] = worker[w]
<1>1. Inv /\ [Next]_vars => [Untouched]_vars
  <2> SUFFICES ASSUME Inv, Next, NEW k \in Keys, cfg' # cfg, cfg'[k] = cfg[k]
               PROVE  /\ entry'[k] = entry[k]
                      /\ \A i \in Instances : i[2] = k => isolated'[i] = isolated[i]
                      /\ \A w \in Workers : worker[w].key = k => worker'[w] = worker[w]
    OBVIOUS
  <2>1. Commit
    BY EntryStep
  <2>2. k \notin Touched
    BY <2>1, CommitFacts DEF Touched, Affected, Changed, Removed
  <2>3. entry'[k] = entry[k]
    BY <2>1, <2>2, CommitFacts DEF Renewed, Forgotten, Touched, Affected
  <2>4. \A i \in Instances : i[2] = k => isolated'[i] = isolated[i]
    <3>1. isolated' = [i \in Instances |-> IF i[2] \in Touched THEN None ELSE isolated[i]]
      BY <2>1, CommitFacts
    <3> QED
      BY <2>2, <3>1
  <2>5. \A w \in Workers : worker[w].key = k => worker'[w] = worker[w]
    <3>1. PICK S \in SUBSET Workers :
             /\ worker' = Stopping(S)
             /\ \A w \in Workers : w \in S <=> \/ \E j \in Touched : entry[j].shared = w
                                               \/ \E i \in Instances : i[2] \in Touched /\ isolated[i] = w
      BY <2>1, CommitFacts
    <3>2. Touched \subseteq Keys
      BY DEF Touched, Affected, Changed, Removed
    <3>3. \A w \in S : worker[w].key \in Touched
      BY <3>1, <3>2, NoneAssumption DEF Inv, Entries, Isolates, SharedOf, IsolatedOf
    <3> QED
      BY <2>2, <3>1, <3>3 DEF Stopping
  <2> QED
    BY <2>3, <2>4, <2>5
<1> QED
  BY <1>1, BrokerInvariant, PTL DEF Spec, UnchangedSurvive

(* The tables come to hold a shared worker of an old configuration only by *)
(* the end of a first activation that a reload has overtaken.              *)
THEOREM StaleOnlyOvertaken == Spec => StaleOnlyByActivation
<1> DEFINE Overtaken(k) ==
      \E r \in Requests : proc[r].pc = "starting" /\ proc[r].key = k /\ proc'[r].pc = "route"
<1>1. Inv /\ [Next]_vars => [\A k \in Keys : ~Stale(k) /\ Stale(k)' => Overtaken(k)]_vars
  <2> SUFFICES ASSUME Inv, Next, NEW k \in Keys, ~Stale(k), ~Overtaken(k), NEW w \in Workers,
                      entry'[k].shared = w
               PROVE  worker'[w].ver = cfg'[k]
    <3>1. Inv /\ [Next]_vars => \A k \in Keys : entry'[k].shared \in Workers \union {None}
      BY NextInv DEF Inv, TypeOK, Entry
    <3> QED
      BY <3>1 DEF Stale
  <2>0. w # None /\ Lasts(w)
    BY StepModest, NoneAssumption DEF Modest
  <2>1. ASSUME entry[k].shared = w
        PROVE  worker[w].ver = cfg[k] /\ cfg[k] # 0 /\ worker'[w].ver = worker[w].ver
    BY <2>0, <2>1 DEF Inv, Entries, SharedOf, Stale, Lasts
  <2>2. CASE Commit
    <3>1. CASE Renewed(k)
      <4>1. PICK x \in reload.prepared : x.key = k /\ x.hand = w
        BY <3>1 DEF Renewed
      <4>2. worker[w].ver = reload.config[k] /\ worker[w].state # "unused"
        BY <2>0, <4>1 DEF Inv, Reloading, Ready, SharedOf
      <4> QED
        BY <2>0, <2>2, <4>2, CommitFacts DEF Lasts
    <3>2. CASE Forgotten(k)
      BY <2>0, <3>2 DEF Forgotten
    <3>3. CASE k \notin Touched /\ entry'[k] = entry[k]
      <4>1. cfg[k] # 0 => cfg'[k] = cfg[k]
        BY <2>2, <3>3, CommitFacts DEF Touched, Affected, Changed, Removed
      <4> QED
        BY <2>1, <3>3, <4>1
    <3> QED
      BY <2>2, <3>1, <3>2, <3>3, CommitFacts
  <2>3. CASE ~Commit
    <3>1. cfg' = cfg /\ (Keeps(k) \/ \E r \in Requests : Enters(r, k))
      BY <2>3, EntryStep
    <3>2. CASE Keeps(k)
      BY <2>0, <2>1, <3>1, <3>2 DEF Keeps
    <3>3. ASSUME NEW r \in Requests, Enters(r, k) PROVE worker'[w].ver = cfg[k]
      <4>1. proc[r].key = k /\ r \in Procs
        BY <3>3 DEF Enters, Procs
      <4>2. CASE proc[r].pc = "discarding" /\ entry'[k].shared = entry[k].shared
        BY <2>1, <4>2
      <4>3. CASE proc[r].pc = "spawning" /\ entry'[k].shared = proc[r].hand
        <5>1. worker[w].ver = cfg[k] /\ worker[w].state = "starting"
          BY <4>1, <4>3 DEF Inv, Hands, Holds, Awaiting
        <5> QED
          BY <2>0, <5>1 DEF Lasts
      <4> QED
        BY <3>3, <4>1, <4>2, <4>3 DEF Enters
    <3> QED
      BY <3>1, <3>2, <3>3
  <2> QED
    BY <2>2, <2>3
<1> QED
  BY <1>1, BrokerInvariant, PTL DEF Spec, StaleOnlyByActivation

(* worker_for() starts a shared worker only for what is shareable as it is *)
(* configured now, unless an overtaken activation or a second one after a  *)
(* removal has left the admission of something else.                       *)
THEOREM SharingConfigured == Spec => SharedAsConfigured
<1>1. ASSUME Inv, [Next]_vars, NEW r \in Requests, proc[r].pc = "select", proc'[r].pc = "spawning",
             worker'[proc'[r].hand].mode = "shared", entry[proc[r].key].lock = 0
      PROVE  IsShareable(proc[r].key, entry[proc[r].key].tools)
  <2>1. PICK p \in Procs : Modest(p)
    BY <1>1, StepModest DEF vars
  <2>2. Begins(r)
    BY <1>1, <2>1 DEF Modest, Procs
  <2>3. MayShare(proc[r].key)
    BY <1>1, <2>2 DEF Begins
  <2>4. proc[r].key \in Keys
    BY <1>1 DEF Inv, Places, Placed, Keyed, Procs
  <2> QED
    BY <1>1, <2>3, <2>4 DEF MayShare, Inv, Entries
<1>2. Inv /\ [Next]_vars =>
        [\A r \in Requests :
           LET k == proc[r].key IN
           /\ proc[r].pc = "select" /\ proc'[r].pc = "spawning"
           /\ worker'[proc'[r].hand].mode = "shared"
           => \/ IsShareable(k, cfg[k])
              \/ entry[k].tools # cfg[k] \/ entry[k].lock # 0]_vars
  <2> SUFFICES ASSUME Inv, [Next]_vars, NEW r \in Requests, proc[r].pc = "select", proc'[r].pc = "spawning",
                      worker'[proc'[r].hand].mode = "shared", entry[proc[r].key].lock = 0,
                      entry[proc[r].key].tools = cfg[proc[r].key]
               PROVE  IsShareable(proc[r].key, cfg[proc[r].key])
    OBVIOUS
  <2> QED
    BY <1>1
<1> QED
  BY <1>2, BrokerInvariant, PTL DEF Spec, SharedAsConfigured

=============================================================================
