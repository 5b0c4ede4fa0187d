------------------------------- MODULE Broker -------------------------------
(***************************************************************************)
(* The Broker of src/irigate/broker.py: first activation of an upstream,   *)
(* the choice of a worker for a call, degradation, configuration reload    *)
(* and shutdown, over workers reduced to their life cycle (module Worker   *)
(* has the rest of UpstreamWorker).                                        *)
(*                                                                         *)
(* All coroutines share one event loop.  A process of this model runs from *)
(* one suspension point to the next: while it is at a location of LoopPcs  *)
(* it holds the loop and nothing else moves.                               *)
(***************************************************************************)
EXTENDS Naturals, FiniteSets

CONSTANTS
    Keys,                          \* upstreams
    Shareable, WithInputs,         \* <<upstream, version>>: shareable: true; dynamic inputs
    Requests, Sessions, SessionOf, \* call_tool requests and their MCP sessions
    Inputs, Binding,               \* workspaces, and those each session chose; None for none
    Addresses,                     \* what id() of a session object can be
    Workers,                       \* every UpstreamWorker that can be created
    Configs, InitialConfig,        \* profiles: a version per upstream, 0 = absent
    MaxReloads,                    \* bound on the reloads of a behaviour
    FailureThreshold, CrashThreshold,
    Strict,                        \* require_qualified_sharing
    Hanging,                       \* upstreams whose processes may never come up
    Reloader,                      \* the watch_config task, the only caller of reload()
    None

ASSUME KeyAssumption ==
    /\ Shareable \subseteq Keys \X Nat
    /\ WithInputs \subseteq (Keys \X Nat) \ Shareable    \* models.py:164
    /\ Hanging \subseteq Keys
ASSUME SessionAssumption ==
    /\ SessionOf \in [Requests -> Sessions]
    /\ Binding \in [Sessions -> [Keys -> Inputs \union {None}]]
ASSUME ConfigAssumption == InitialConfig \in [Keys -> Nat] /\ Configs \subseteq [Keys -> Nat]
ASSUME BoundAssumption ==
    /\ {FailureThreshold, CrashThreshold} \subseteq Nat \ {0}
    /\ MaxReloads \in Nat /\ Strict \in BOOLEAN
ASSUME NoneAssumption ==
    /\ None \notin Workers \union Inputs \union Addresses
    /\ Reloader \notin Requests

VARIABLES
    cfg,       \* self.config, with _environment: the version of each upstream
    entry,     \* what the broker keeps per upstream
    isolated,  \* _isolated: (session address, upstream, inputs) -> worker
    worker,    \* the workers and the life cycle of their tasks
    proc,      \* the requests and the reloader
    reload,    \* locals of reload()
    address,   \* id() of each open session; None before and after
    ended,     \* the sessions that are over
    closer,    \* close(); _closing holds once it is not "open"
    leaving    \* the workers close() waits for

vars == <<cfg, entry, isolated, worker, proc, reload, address, ended, closer, leaving>>

-----------------------------------------------------------------------------
Procs == Requests \union {Reloader}
Instances == Addresses \X Keys \X (Inputs \union {None})

LoopPcs == {"activate", "route", "select", "failing", "next"}
PreparePcs == {"qualifying", "starting", "discarding", "aborting"}
OtherPcs == {"idle", "queued", "lockWait", "spawning", "calling", "degrading",
             "commitWait", "retiring", "done", "cancelled"}

Entry == [tools : Nat,              \* version behind _tools_by_upstream[key], 0 = none
          qualified : {"none", "admitted", "rejected"},
          shared : Workers \union {None},
          degraded : BOOLEAN,
          lock : Nat,               \* which object _activation_locks[key] is
          failures : 0 .. FailureThreshold, crashes : 0 .. CrashThreshold]
Worker == [state : {"unused", "starting", "running", "exiting", "stopping", "stopped"},
           key : Keys \union {None}, ver : Nat,
           mode : {"none", "shared", "isolated", "probe"},
           inputs : Inputs \union {None},
           users : SUBSET Sessions]       \* the sessions it has served
Proc == [pc : LoopPcs \union PreparePcs \union OtherPcs,
         key : Keys \union {None}, ver : Nat,
         qual : {"none", "admitted", "rejected"},
         hand : Workers \union {None},    \* the worker the process is busy with
         lock : Nat, crash : BOOLEAN]
Prepared == [key : Keys, ver : Nat, qual : {"none", "admitted", "rejected"},
             hand : Workers \union {None}]

(* Every variable holds a value of its type.                               *)
TypeOK ==
    /\ cfg \in [Keys -> Nat]
    /\ entry \in [Keys -> Entry]
    /\ isolated \in [Instances -> Workers \union {None}]
    /\ worker \in [Workers -> Worker]
    /\ proc \in [Procs -> Proc]
    /\ reload \in [config : [Keys -> Nat], todo : SUBSET Keys,
                   prepared : SUBSET Prepared, retired : SUBSET Workers, count : Nat]
    /\ address \in [Sessions -> Addresses \union {None}]
    /\ ended \subseteq Sessions
    /\ closer \in {"open", "closing", "closed"}
    /\ leaving \subseteq Workers

(* The locals of a coroutine, before they are set and once it is over.     *)
Fresh(pc, key) == [pc |-> pc, key |-> key, ver |-> 0, qual |-> "none", hand |-> None,
                   lock |-> 0, crash |-> FALSE]

Init ==
    /\ cfg = InitialConfig
    /\ entry = [k \in Keys |-> [tools |-> 0, qualified |-> "none", shared |-> None,
                                degraded |-> FALSE, lock |-> 0, failures |-> 0, crashes |-> 0]]
    /\ isolated = [i \in Instances |-> None]
    /\ worker = [w \in Workers |-> [state |-> "unused", key |-> None, ver |-> 0,
                                    mode |-> "none", inputs |-> None, users |-> {}]]
    /\ proc = [p \in Procs |-> Fresh("idle", None)]
    /\ reload = [config |-> InitialConfig, todo |-> {}, prepared |-> {}, retired |-> {}, count |-> 0]
    /\ address = [s \in Sessions |-> None]
    /\ ended = {}
    /\ closer = "open"
    /\ leaving = {}

-----------------------------------------------------------------------------
(* The event loop, the locks and the workers *)

LoopFree == \A p \in Procs : proc[p].pc \notin LoopPcs
At(p, pc) == proc[p].pc = pc /\ \A q \in Procs \ {p} : proc[q].pc \notin LoopPcs
Put(p, rec) == proc' = [proc EXCEPT ![p] = rec]
Goto(p, pc) == Put(p, [proc[p] EXCEPT !.pc = pc])

Finish(p) == Put(p, Fresh("done", None))

(* A step that only moves the process itself.                              *)
Move(p, pc, rec) ==
    At(p, pc) /\ Put(p, rec)
    /\ UNCHANGED <<cfg, entry, isolated, worker, reload, address, ended, closer, leaving>>

Activating(k, lock) ==
    \E r \in Requests : proc[r].pc \in PreparePcs /\ proc[r].key = k /\ proc[r].lock = lock

(* _worker_lock is held across _start_worker(); reload() and close() take  *)
(* and release it within one step.                                         *)
WorkerLockIgnored == TRUE
WorkerLockFree == \A r \in Requests : proc[r].pc # "spawning"

IsRunning(w) == w # None /\ worker[w].state \in {"running", "exiting", "stopping"}
Stopped(S) == \A w \in S : worker[w].state = "stopped"

(* close() has been called on the workers of S.                            *)
Stopping(S) == [w \in Workers |->
    IF w \in S /\ worker[w].state \in {"starting", "running"}
    THEN [worker[w] EXCEPT !.state = "stopping"] ELSE worker[w]]

IsShareable(k, ver) == <<k, ver>> \in Shareable
TakesInputs(k, ver) == <<k, ver>> \in WithInputs

(* The inputs of the request a process is busy with; a reload has none.    *)
InputsOf(p, k) == IF p = Reloader THEN None ELSE Binding[SessionOf[p]][k]

(* UpstreamWorker(...) and start() up to its suspension.  Inputs that the  *)
(* upstream does not ask for do not reach its process.                     *)
Launch(p, rec, mode, inputs) ==
    LET unused == {w \in Workers : worker[w].state = "unused"}
        w == CHOOSE v \in unused : TRUE IN
    /\ unused # {}
    /\ worker' = [worker EXCEPT ![w] =
          [state |-> "starting", key |-> rec.key, ver |-> rec.ver, mode |-> mode,
           inputs |-> IF TakesInputs(rec.key, rec.ver) THEN inputs ELSE None,
           users |-> {}]]
    /\ Put(p, [rec EXCEPT !.hand = w])

(* _render_upstream_args(): a placeholder without its input is a KeyError, *)
(* and the worker never comes up.                                          *)
Renders(w) == TakesInputs(worker[w].key, worker[w].ver) => worker[w].inputs # None

InstanceOfAnySession(r) ==
    <<CHOOSE x \in Addresses : TRUE, proc[r].key, InputsOf(r, proc[r].key)>>
Instance(r) ==
    <<address[SessionOf[r]], proc[r].key, InputsOf(r, proc[r].key)>>

-----------------------------------------------------------------------------
(* A request reaches call_tool(), if parse_selection() lets it through:    *)
(* its upstream is configured, and takes a workspace if the session gives  *)
(* it one.  A session that gives none may lack an optional one.            *)
Admissible(r, k) == cfg[k] # 0 /\ (InputsOf(r, k) # None => TakesInputs(k, cfg[k]))

Arrive(r, k) ==
    /\ At(r, "idle") /\ address[SessionOf[r]] # None
    /\ IF ~Admissible(r, k)
       THEN Finish(r)
       ELSE Put(r, [proc[r] EXCEPT !.pc = "activate", !.key = k, !.lock = entry[k].lock])
    /\ UNCHANGED <<cfg, entry, isolated, worker, reload, address, ended, closer, leaving>>

(* _prepare_upstream(), up to its first suspension.                        *)
Prepare(p, k, ver) ==
    LET rec == [proc[p] EXCEPT !.key = k, !.ver = ver, !.qual = "none"] IN
    IF IsShareable(k, ver)
    THEN Put(p, [rec EXCEPT !.pc = "qualifying"]) /\ UNCHANGED worker
    ELSE Launch(p, [rec EXCEPT !.pc = "starting"], "probe", InputsOf(p, k))

(* _activate(): nothing to do, wait for the lock, or prepare the upstream  *)
(* with the configuration as it is now.                                    *)
ActivateUnlocked(r) ==
    LET k == proc[r].key IN
    /\ At(r, "activate")
    /\ IF entry[k].tools # 0 THEN Put(r, Fresh("route", k)) /\ UNCHANGED worker
       ELSE IF cfg[k] = 0 THEN Finish(r) /\ UNCHANGED worker
       ELSE Prepare(r, k, cfg[k])
    /\ UNCHANGED <<cfg, entry, isolated, reload, address, ended, closer, leaving>>

Activate(r) ==
    LET k == proc[r].key IN
    /\ At(r, "activate")
    /\ IF entry[k].tools # 0 THEN Put(r, Fresh("route", k)) /\ UNCHANGED worker
       ELSE IF Activating(k, proc[r].lock) THEN Goto(r, "queued") /\ UNCHANGED worker
       ELSE IF cfg[k] = 0 THEN Finish(r) /\ UNCHANGED worker   \* KeyError
       ELSE Prepare(r, k, cfg[k])
    /\ UNCHANGED <<cfg, entry, isolated, reload, address, ended, closer, leaving>>

ActivationLockGranted(r) ==
    /\ ~Activating(proc[r].key, proc[r].lock)
    /\ Move(r, "queued", [proc[r] EXCEPT !.pc = "activate"])

(* _prepare_upstream() raises: the request ends; a reload closes what it   *)
(* has prepared so far.                                                    *)
GiveUp(p) ==
    IF p = Reloader
    THEN LET spare == {x.hand : x \in reload.prepared} \ {None} IN
         /\ Put(p, Fresh("retiring", None))
         /\ worker' = Stopping(spare)
         /\ reload' = [reload EXCEPT !.prepared = {}, !.retired = spare]
    ELSE Finish(p) /\ UNCHANGED <<worker, reload>>

QualifyAs(p, verdicts) ==
    /\ At(p, "qualifying")
    /\ \/ GiveUp(p)
       \/ \E q \in verdicts :
             /\ Launch(p, [proc[p] EXCEPT !.pc = "starting", !.qual = q],
                       IF q = "admitted" THEN "shared" ELSE "probe",
                       InputsOf(p, proc[p].key))
             /\ UNCHANGED reload
    /\ UNCHANGED <<cfg, entry, isolated, address, ended, closer, leaving>>

QualifiedWithErrors(p) == QualifyAs(p, {"admitted", "rejected", "error"})
Qualified(p) == QualifyAs(p, {"admitted"} \union IF Strict THEN {} ELSE {"rejected"})

(* _prepare_upstream() returns: _activate() enters tools, qualification    *)
(* and worker in the tables; reload() keeps them for the commit.           *)
Return(p, w) ==
    LET k == proc[p].key IN
    IF p = Reloader
    THEN /\ reload' = [reload EXCEPT !.todo = @ \ {k}, !.prepared = @ \union
              {[key |-> k, ver |-> proc[p].ver, qual |-> proc[p].qual, hand |-> w]}]
         /\ Put(p, Fresh("next", None))
         /\ UNCHANGED entry
    ELSE /\ entry' = [entry EXCEPT
              ![k].tools = proc[p].ver,
              ![k].qualified = IF proc[p].qual = "none" THEN @ ELSE proc[p].qual,
              ![k].shared = IF w = None THEN @ ELSE w]
         /\ Put(p, Fresh("route", k))
         /\ UNCHANGED reload

(* start() returns.  A worker that may not be shared has only been needed  *)
(* for its tool list.                                                      *)
Started(p) ==
    LET w == proc[p].hand IN
    /\ At(p, "starting") /\ Renders(w)
    /\ IF proc[p].qual = "admitted"
       THEN worker' = [worker EXCEPT ![w].state = "running"] /\ Return(p, w)
       ELSE worker' = Stopping({w}) /\ Goto(p, "discarding") /\ UNCHANGED <<entry, reload>>
    /\ UNCHANGED <<cfg, isolated, address, ended, closer, leaving>>

StartFailsThen(p, closed) ==
    /\ At(p, "starting")
    /\ worker' = closed
    /\ Goto(p, "aborting")
    /\ UNCHANGED <<cfg, entry, isolated, reload, address, ended, closer, leaving>>

StartFailsNotClosed(p) == StartFailsThen(p, worker)
StartFails(p) == StartFailsThen(p, Stopping({proc[p].hand}))

Discarded(p) ==
    /\ At(p, "discarding") /\ Stopped({proc[p].hand})
    /\ Return(p, None)
    /\ UNCHANGED <<cfg, isolated, worker, address, ended, closer, leaving>>

Aborted(p) ==
    /\ At(p, "aborting") /\ Stopped({proc[p].hand})
    /\ GiveUp(p)
    /\ UNCHANGED <<cfg, entry, isolated, address, ended, closer, leaving>>

-----------------------------------------------------------------------------
(* call_tool() and worker_for() *)

(* The call is put on the queue of w in the step that selected w.          *)
Call(r, w) ==
    /\ Put(r, [proc[r] EXCEPT !.pc = "calling", !.hand = w])
    /\ worker' = [worker EXCEPT ![w].users = @ \union {SessionOf[r]}]

Failing(r, crash) == [Fresh("failing", proc[r].key) EXCEPT !.crash = crash]

(* Unknown tool, shutdown, or the first half of worker_for(): a running    *)
(* worker is taken without the lock.                                       *)
Route(r) ==
    LET sh == entry[proc[r].key].shared
        iso == isolated[Instance(r)] IN
    /\ At(r, "route")
    /\ \/ Finish(r) /\ UNCHANGED worker
       \/ /\ closer = "open"
          /\ IF IsRunning(sh) THEN Call(r, sh)
             ELSE IF IsRunning(iso) THEN Call(r, iso)
             ELSE UNCHANGED worker /\ Goto(r, IF WorkerLockFree THEN "select" ELSE "lockWait")
    /\ UNCHANGED <<cfg, entry, isolated, reload, address, ended, closer, leaving>>

WorkerLockGranted(r) ==
    WorkerLockFree /\ Move(r, "lockWait", [proc[r] EXCEPT !.pc = "select"])

(* What the second half of worker_for() asks, under _worker_lock.          *)
UnavailableIfRemoved(k) == cfg[k] = 0
Unavailable(k) == closer # "open" \/ cfg[k] = 0

MayShare(k) == entry[k].qualified = "admitted" /\ ~entry[k].degraded

Select(r) ==
    LET k == proc[r].key
        sh == entry[k].shared
        iso == isolated[Instance(r)]
        rec == [proc[r] EXCEPT !.pc = "spawning", !.ver = cfg[k]] IN
    /\ At(r, "select")
    /\ IF Unavailable(k)
       THEN Put(r, Failing(r, TRUE)) /\ UNCHANGED worker
       ELSE IF IsRunning(sh) THEN Call(r, sh)
       ELSE IF MayShare(k) THEN Launch(r, rec, "shared", InputsOf(r, k))
       ELSE IF IsRunning(iso) THEN Call(r, iso)
       ELSE Launch(r, rec, "isolated", InputsOf(r, k))
    /\ UNCHANGED <<cfg, entry, isolated, reload, address, ended, closer, leaving>>

(* _start_worker() returns: the worker goes into a table and gets the call.*)
Spawned(r) ==
    LET w == proc[r].hand IN
    /\ At(r, "spawning") /\ Renders(w)
    /\ IF worker[w].mode = "shared"
       THEN entry' = [entry EXCEPT ![proc[r].key].shared = w] /\ UNCHANGED isolated
       ELSE isolated' = [isolated EXCEPT ![Instance(r)] = w] /\ UNCHANGED entry
    /\ Put(r, [Fresh("calling", proc[r].key) EXCEPT !.hand = w])
    /\ worker' = [worker EXCEPT ![w].state = "running", ![w].users = {SessionOf[r]}]
    /\ UNCHANGED <<cfg, reload, address, ended, closer, leaving>>

SpawnFails(r) ==
    /\ At(r, "spawning")
    /\ worker' = [worker EXCEPT ![proc[r].hand].state = "stopped"]
    /\ Put(r, Failing(r, TRUE))
    /\ UNCHANGED <<cfg, entry, isolated, reload, address, ended, closer, leaving>>

(* The worker answers, with a result or a tool-level error.                *)
CallReturns(r) ==
    /\ proc[r].pc = "calling" /\ worker[proc[r].hand].state \in {"running", "stopping"}
    /\ Move(r, "calling", Fresh("done", None))

(* UpstreamTimeout, or a transport error, which counts as a crash.         *)
CallFails(r) == \E crash \in BOOLEAN : Move(r, "calling", Failing(r, crash))

AtMost(n, bound) == IF n < bound THEN n ELSE bound

(* _record_failure().  The counters stop at their thresholds, which is all *)
(* that is ever asked of them.  For an upstream that a reload has removed  *)
(* the snapshot has no row, and the request ends with a KeyError.          *)
Fail(r) ==
    LET k == proc[r].key
        f == AtMost(entry[k].failures + 1, FailureThreshold)
        c == AtMost(entry[k].crashes + (IF proc[r].crash THEN 1 ELSE 0), CrashThreshold)
        degrade == cfg[k] # 0 /\ (f = FailureThreshold \/ c = CrashThreshold) /\ ~entry[k].degraded
        sh == entry[k].shared IN
    /\ At(r, "failing")
    /\ entry' = [entry EXCEPT ![k] = [entry[k] EXCEPT !.failures = f, !.crashes = c,
                    !.degraded = @ \/ degrade, !.shared = IF degrade THEN None ELSE @]]
    /\ IF degrade /\ sh # None
       THEN Put(r, [proc[r] EXCEPT !.pc = "degrading", !.hand = sh]) /\ worker' = Stopping({sh})
       ELSE Finish(r) /\ UNCHANGED worker
    /\ UNCHANGED <<cfg, isolated, reload, address, ended, closer, leaving>>

Degraded(r) ==
    /\ proc[r].pc = "degrading" /\ Stopped({proc[r].hand})
    /\ Move(r, "degrading", Fresh("done", None))

(* The request is cancelled: a start in progress closes its worker, a call *)
(* that was forwarded stays with its worker.  The scope that cancels the   *)
(* request cancels each further await of it, so it does not wait for the   *)
(* worker to end and gives its locks back at once.                         *)
CancelThen(r, closed) ==
    /\ LoopFree
    /\ proc[r].pc \in PreparePcs \union {"queued", "lockWait", "spawning", "calling", "degrading"}
    /\ Put(r, Fresh("cancelled", None))
    /\ worker' = closed
    /\ UNCHANGED <<cfg, entry, isolated, reload, address, ended, closer, leaving>>

CancelOnly(r) == CancelThen(r, worker)
Cancel(r) ==
    CancelThen(r, IF proc[r].pc \in {"starting", "spawning"} THEN Stopping({proc[r].hand}) ELSE worker)

-----------------------------------------------------------------------------
(* reload() *)

Changed(next) == {k \in Keys : cfg[k] # 0 /\ next[k] # 0 /\ cfg[k] # next[k]}
Removed(next) == {k \in Keys : cfg[k] # 0 /\ next[k] = 0}

ReloadBegins(next) ==
    /\ LoopFree
    /\ closer = "open" /\ proc[Reloader].pc = "idle"
    /\ reload.count < MaxReloads /\ next # cfg
    /\ reload' = [config |-> next, todo |-> {k \in Changed(next) : ~TakesInputs(k, next[k])},
                  prepared |-> {}, retired |-> {}, count |-> reload.count + 1]
    /\ Goto(Reloader, "next")
    /\ UNCHANGED <<cfg, entry, isolated, worker, address, ended, closer, leaving>>

(* One upstream that has changed: a dormant one is left alone.             *)
ReloadPrepares(k) ==
    /\ At(Reloader, "next")
    /\ k \in reload.todo
    /\ IF entry[k].tools = 0
       THEN reload' = [reload EXCEPT !.todo = @ \ {k}] /\ UNCHANGED <<worker, proc>>
       ELSE Prepare(Reloader, k, reload.config[k]) /\ UNCHANGED reload
    /\ UNCHANGED <<cfg, entry, isolated, address, ended, closer, leaving>>

ReloadWaits ==
    /\ reload.todo = {} /\ ~WorkerLockFree
    /\ Move(Reloader, "next", [proc[Reloader] EXCEPT !.pc = "commitWait"])

(* The commit, under _worker_lock, and the start of closing what it        *)
(* retires.                                                                *)
CommitWith(affected, withdrawn, closing) ==
    LET next == reload.config
        ready == {x.key : x \in reload.prepared}
        retired == ({entry[k].shared : k \in affected}
                    \union {isolated[i] : i \in {j \in Instances : j[2] \in affected}}) \ {None} IN
    /\ At(Reloader, "next") \/ At(Reloader, "commitWait")
    /\ reload.todo = {} /\ WorkerLockFree
    /\ cfg' = next
    /\ entry' = [k \in Keys |->
          IF k \in ready
          THEN LET x == CHOOSE y \in reload.prepared : y.key = k IN
               [entry[k] EXCEPT !.tools = x.ver, !.qualified = x.qual,
                                !.shared = x.hand, !.degraded = FALSE]
          ELSE IF k \in affected
          THEN [entry[k] EXCEPT !.tools = 0, !.shared = None, !.degraded = FALSE,
                                !.qualified = IF k \in withdrawn THEN "none" ELSE @,
                                !.lock = IF k \in Removed(next) THEN @ + 1 ELSE @]
          ELSE entry[k]]
    /\ isolated' = [i \in Instances |-> IF i[2] \in affected THEN None ELSE isolated[i]]
    /\ worker' = IF closing THEN Stopping(retired) ELSE worker
    /\ reload' = [reload EXCEPT !.prepared = {}, !.retired = retired]
    /\ Put(Reloader, Fresh("retiring", None))
    /\ UNCHANGED <<address, ended, closer, leaving>>

Affected(next) == Changed(next) \union Removed(next)
CommitEverything == CommitWith(Keys, Keys, TRUE)
CommitKeepsAdmission == CommitWith(Affected(reload.config), Removed(reload.config), TRUE)
CommitWithoutClose == CommitWith(Affected(reload.config), Affected(reload.config), FALSE)
Commit == CommitWith(Affected(reload.config), Affected(reload.config), TRUE)

ReloadReturns ==
    /\ At(Reloader, "retiring") /\ Stopped(reload.retired)
    /\ reload' = [reload EXCEPT !.config = cfg, !.retired = {}]
    /\ Put(Reloader, Fresh("idle", None))
    /\ UNCHANGED <<cfg, entry, isolated, worker, address, ended, closer, leaving>>

-----------------------------------------------------------------------------
(* close(): lifespan() has waited for the watcher to end.                  *)

CloseAll(closing) ==
    /\ LoopFree /\ WorkerLockFree
    /\ closer = "open" /\ proc[Reloader].pc = "idle"
    /\ closer' = "closing"
    /\ leaving' = ({entry[k].shared : k \in Keys} \union {isolated[i] : i \in Instances}) \ {None}
    /\ worker' = IF closing THEN Stopping(leaving') ELSE worker
    /\ entry' = [k \in Keys |-> [entry[k] EXCEPT !.shared = None]]
    /\ isolated' = [i \in Instances |-> None]
    /\ UNCHANGED <<cfg, proc, reload, address, ended>>

CloseForgets == CloseAll(FALSE)
CloseBegins == CloseAll(TRUE)

CloseReturns ==
    /\ LoopFree
    /\ closer = "closing" /\ Stopped(leaving)
    /\ closer' = "closed"
    /\ UNCHANGED <<cfg, entry, isolated, worker, proc, reload, address, ended, leaving>>

-----------------------------------------------------------------------------
(* Workers by themselves, and MCP sessions *)

Idle(w) == worker[w].state = "running" /\ \A r \in Requests : ~(proc[r].pc = "calling" /\ proc[r].hand = w)

(* The idle timer ends the task; _idle_closed() forgets the worker.  The   *)
(* call that slips in after the timer has fired is left to module Worker.  *)
WorkerIdles(w) ==
    /\ LoopFree
    /\ Idle(w)
    /\ worker' = [worker EXCEPT ![w].state = "exiting"]
    /\ entry' = [k \in Keys |-> [entry[k] EXCEPT !.shared = IF @ = w THEN None ELSE @]]
    /\ isolated' = [i \in Instances |-> IF isolated[i] = w THEN None ELSE isolated[i]]
    /\ UNCHANGED <<cfg, proc, reload, address, ended, closer, leaving>>

(* The task fails; the broker is not told.                                 *)
WorkerMoves(w, from, to) ==
    /\ LoopFree
    /\ worker[w].state \in from
    /\ worker' = [worker EXCEPT ![w] = to]
    /\ UNCHANGED <<cfg, entry, isolated, proc, reload, address, ended, closer, leaving>>

WorkerBreaks(w) == WorkerMoves(w, {"running"}, [worker[w] EXCEPT !.state = "exiting"])
WorkerEnds(w) == WorkerMoves(w, {"exiting", "stopping"},
                             [worker[w] EXCEPT !.state = "stopped", !.users = {}])

(* A session object lives at an address no other live session has.         *)
SessionOpens(s) ==
    /\ LoopFree
    /\ address[s] = None /\ s \notin ended
    /\ \E a \in Addresses \ {address[t] : t \in Sessions} : address' = [address EXCEPT ![s] = a]
    /\ UNCHANGED <<cfg, entry, isolated, worker, proc, reload, ended, closer, leaving>>

SessionEnds(s) ==
    /\ LoopFree
    /\ address[s] # None
    /\ \A r \in Requests : SessionOf[r] = s => proc[r].pc \in {"idle", "done", "cancelled"}
    /\ address' = [address EXCEPT ![s] = None]
    /\ ended' = ended \union {s}
    /\ UNCHANGED <<cfg, entry, isolated, worker, proc, reload, closer, leaving>>

-----------------------------------------------------------------------------
PrepareStep(p) == Qualified(p) \/ Started(p) \/ StartFails(p) \/ Discarded(p) \/ Aborted(p)
RequestStep(r) ==
    \/ \E k \in Keys : Arrive(r, k)
    \/ Activate(r) \/ ActivationLockGranted(r)
    \/ Route(r) \/ WorkerLockGranted(r) \/ Select(r) \/ Spawned(r) \/ SpawnFails(r)
    \/ CallReturns(r) \/ CallFails(r) \/ Fail(r) \/ Degraded(r) \/ Cancel(r)
ReloadStep ==
    \/ \E next \in Configs : ReloadBegins(next)
    \/ \E k \in Keys : ReloadPrepares(k)
    \/ ReloadWaits \/ Commit \/ ReloadReturns
WorkerStep(w) == WorkerIdles(w) \/ WorkerBreaks(w) \/ WorkerEnds(w)

Next ==
    \/ \E p \in Procs : PrepareStep(p)
    \/ \E r \in Requests : RequestStep(r)
    \/ \E w \in Workers : WorkerStep(w)
    \/ \E s \in Sessions : SessionOpens(s) \/ SessionEnds(s)
    \/ ReloadStep \/ CloseBegins \/ CloseReturns

(* Fairness is the event loop's: a coroutine that can go on does.  Calls   *)
(* have a time limit and workers end within their grace period; the start  *)
(* of a process has no limit, and only those not in Hanging come up.       *)
Fairness ==
    /\ \A p \in Procs :
        /\ WF_vars(proc[p].key \notin Hanging /\ (Qualified(p) \/ Started(p) \/ StartFails(p)))
        /\ WF_vars(Discarded(p) \/ Aborted(p))
    /\ \A r \in Requests :
        /\ WF_vars(proc[r].key \notin Hanging /\ (Spawned(r) \/ SpawnFails(r)))
        /\ WF_vars(\/ Activate(r) \/ ActivationLockGranted(r) \/ Route(r) \/ WorkerLockGranted(r)
                   \/ Select(r) \/ CallReturns(r) \/ CallFails(r) \/ Fail(r) \/ Degraded(r))
    /\ WF_vars(ReloadWaits \/ Commit \/ ReloadReturns \/ \E k \in Keys : ReloadPrepares(k))
    /\ \A w \in Workers : WF_vars(WorkerEnds(w))
    /\ WF_vars(CloseReturns)

Spec == Init /\ [][Next]_vars
FairSpec == Spec /\ Fairness
=============================================================================
