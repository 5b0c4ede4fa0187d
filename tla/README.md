# Irigate: a TLA+ model

Irigate is a local MCP broker. Coding agents connect to one HTTP endpoint; behind it
the broker starts stdio MCP servers ("upstreams") on first use, shares a process
between sessions when that has been qualified, and otherwise keeps a process per
session. This directory models the parts that are hard to test: coroutines of one
asyncio loop that wait for processes, locks, queues and timers, while requests are
cancelled, processes die, the configuration is reloaded and the server shuts down;
several servers and commands that share a control document, process ids and log files;
and programs that rewrite the same configuration files, fail half way and roll back.

## The system

| Component | State | Operations | Talks to | What makes it correct |
|---|---|---|---|---|
| Upstream worker (`upstream.py`) | `_queue`, `_ready`, `_task`, `_active_results`, `_parallel_tasks` | `start`, `_run`, `_execute_call`, `call_tool`, `close` | a stdio process; the broker through futures and the idle callback | every call answered once or timed out, in order, within the concurrency mode; the process goes away when idle or closed |
| Broker (`broker.py`) | `config`, `_tools_by_upstream`, `_qualifications`, `_shared`, `_isolated`, `_degraded`, three kinds of locks, `_closing` | `call_tool`, `list_tools`, `worker_for`, `_activate`, `_record_failure`, `reload`, `close` | workers, qualification, metrics, audit | one shared process per upstream, isolated processes private, no process lost, unchanged upstreams untouched by a reload, nobody waits for ever |
| Qualification (`qualification.py`) | none | `qualify_upstream` | private probe workers | its verdict decides on sharing |
| HTTP application (`app.py`) | session inputs, configuration signature, reload event | request entry, `watch_config`, `lifespan` | broker, control document | inputs of a session never change; every change of the profile is seen; shutdown ends |
| Selection and inputs (`selection.py`) | none | `parse_selection`, `_bind_inputs` | workspace | exactly the selected tools and inputs of selected upstreams |
| Workspace matching (`workspace.py`) | none | `_matches_allowed_root`, `resolve_workspace` | file system | glob semantics |
| Process control (`restart.py`, `status` in `__main__.py`) | the control document on disk | `write_control`, `remove_control`, `reload_running`, `stop_running` | other server processes | commands reach the server they are meant for |
| Runtime metrics (`runtime_report.py`) | counters per upstream | `spawned`, `closed`, `call_started`, ... | broker, report file | counters agree with the workers; degradation threshold |
| Payload logs (`logs.py`) | files | `start`, `_rotate`, `emit` | other servers of the profile | no running server loses its log |
| Migration, doctor (`migration.py`, `doctor.py`) | client configurations, profile, backups | `migrate_configurations`, `repair_wsl_path_arguments` | file system | all files or none |
| Schema (`models.py`, `config.py`) | none | `BrokerConfig`, `load_config`, `resolve_environment` | the application at its start and at every reload | nothing that would share a workspace is accepted |
| Audit log (`audit.py`), systemd (`systemd.py`), CLI (`__main__.py`) | none of their own | | | |

The components of one server share one event loop, so code between two `await`s is
atomic, and everything interesting happens at the awaits. The hazards this leads to
are listed, each at its line, in `PROJECT.json`.

## Modules

```
CallPort  <-- implemented by --  Worker -- WorkerProperties -- WorkerPort
                                                                        \-- WorkerProofs
                                 Broker -- BrokerProperties -- MCBroker
                                                           \-- BrokerInduction -- BrokerProofs

Workspace -- Selection -- Schema -- Application -- ApplicationProperties -- MCApplication
        \                                                               \-- ApplicationProofs
         \-- WorkspaceProofs -----------------------------------------------------\-- EntryProofs
Control -- MCControl
       \-- ControlProofs

Migration -- Doctor -- Maintenance -- MCMaintenance
                                  \-- MaintenanceProofs
```

**Worker** is one `UpstreamWorker`. An action is the code one coroutine runs between
two suspension points. `task` is where `_run` is suspended, `ready`, `result[c]` are
the futures, `queue` the `asyncio.Queue` (with the `None` of `close()` as `Stop`),
`active` is `_active_results`, `caller[c]` the `call_tool()` coroutine of call `c`,
`owner` the coroutine of the broker that starts and closes the worker.

* A launch succeeds, fails or hangs; the session may break at every moment; a call is
  answered, refused by the tool, fails, or hangs. Those are the outcomes of code outside
  this repository (the MCP SDK and the process).
* `IdleTimer` and `IdleTimeout` are two steps because `asyncio.wait_for` hands the
  `TimeoutError` to `_run` in a later turn of the loop than the one in which the timer
  fires. Between the two a `put()` may come.
* `Interrupt` is an exception at the place where `_run` is suspended: the serial call or
  the gathered calls get it as well, other parallel calls do not. The process is then
  left (`unwinding`), and only after that the handler (`Handler`) settles what is open.
* A call is submitted once. Its arguments, its tool and WSL path conversion are left out.

**CallPort** is what a worker promises its callers: a call is forwarded at most once, in
submission order, one at a time if it is `Serial`; its reply is fixed once; its caller comes
back. `WorkerPort` states the refinement: the line is the queue without the sentinel, the
running calls are `_active_results`. `PortInv` is what the refinement rests on.

**Broker** is one `Broker` with workers reduced to a life cycle (`unused`, `starting`,
`running`, `exiting`, `stopping`, `stopped`; `exiting` and `stopping` still count as
`is_running`, as `Task.done()` does). A process is a `call_tool` request or the
configuration watcher, the only caller of `reload()`. At a location in `LoopPcs` it holds
the loop and goes on before anything else moves; all other locations are suspensions.

| TLA+ | Python |
|---|---|
| `entry[k].tools`, `.qualified`, `.shared`, `.degraded` | `_tools_by_upstream`, `_qualifications`, `_shared`, `_degraded` |
| `entry[k].lock` and `Activating` | which lock object `_activation_locks[k]` is, and whether it is held |
| `WorkerLockFree` | `_worker_lock`, held by a request only across `_start_worker()` |
| `isolated[<<address, k, inputs>>]` | `_isolated[(id(session), key, fingerprint)]` |
| `cfg[k]` | the configuration of `k` as a version number, 0 when absent |
| `proc[p].hand`, `.ver`, `.qual` | locals that live across an await |
| `reload.prepared`, `.retired` | the locals of `reload()` |
| `Return` | the end of `_prepare_upstream()`: `_activate()` fills the tables, `reload()` keeps the result for its commit |

A tool list is represented by the version of the configuration that produced it. The
values that qualification and a tool call produce are nondeterministic. The idle timer of
a worker fires only while no call is with it: the race of `WorkerIdle` is left to Worker. The failure
counters stop at their thresholds, which is all that is ever asked of them. Sessions are
external: a session object lives at an address no other live session has.

**Workspace**, **Selection** and **Schema** are functions: what a root pattern matches and
which directories the roots of an upstream allow; what a query selects and binds; which
profiles are accepted and which upstreams may be shared. A path is its sequence of
segments after symbolic links are resolved, a pattern a sequence of segments with `*` and
`**`. `Matches` is the recursion of `_matches_allowed_root`, written as a recursive
function; `Covers` is the definition it is compared with. `ParseSelection` follows the
order of the checks of `parse_selection`, and is `Rejected` where the code raises.

**Application** is a server from the loading of its profile to its end, with the watcher of
the profile and the entry of requests. It calls the three above and so is the composition
of the HTTP front with selection, workspaces, schema and qualification; of
`Broker.reload()` it keeps the places where the watcher can be suspended and cancelled, and
the spare shared workers a reload holds there. What a reload does to workers in use is in
Broker.

| TLA+ | Python |
|---|---|
| `disk.profile`, `disk.sig` | the profile file and its `(st_mtime_ns, st_size, st_ino)` |
| `cfg`, `watch.next` | `broker.config`, `replacement` |
| `created`, `watch.sig` | `initial_signature`, `signature` of `watch_config()` |
| `requested`, `watch.forced` | the event `reload_requested`, the local of the same purpose |
| `watch.pc` = `stat`, `read`, `next` | the watcher runs, nothing else of the server does (`LoopFree`) |
| `waiting`, `qualifying`, `sharing`, `probing`, `discarding`, `locking`, `retiring`, `aborting` | it is suspended: in its wait, in `qualify_upstream()`, in the `start()` of a worker to share or of a probe, in the close of a probe, at `_worker_lock`, in the close of the retired workers, in the close of the spare ones |
| `spawning` | `_worker_lock` is held by a request |
| `session[s].inputs`, `.served` | `_session_inputs[id]`, and the inputs of all requests that were let through |
| `server` | the position in `main()`, then in `lifespan()` |

`CancelWatcher` does what a cancellation does at each suspension point: `_prepare_upstream()`
catches `BaseException` (`broker.py:159`) and raises its own error instead, so that in a start
the cancellation is lost; elsewhere it ends the watcher, after its clean-up. At shutdown the
MCP session manager ends its sessions before the watcher is cancelled, so nobody holds
`_worker_lock` by then; `PreparedReleased` depends on this.

**Control** is any number of servers of one profile and of the commands `stop`, `reload` and
`status`, with what they share: the control document and its temporary (`restart.py`), the
port, process ids that are given again, and the directory of payload logs (`logs.py`). A step
is one system call, or several that no other process can tell apart. A server and its
`instance_id` are one thing. `Signal` is what a signal does to the process that has the id
when it arrives: SIGHUP ends one that has no handler. `written`, `mixed` and `strays` are
history.

**Migration** is `migrate_configurations()` as one step per operation on a file, each of which
may fail or be the last; the rollback empties a file before it fills it, as
`Path.write_text` does. **Doctor** is the repair of a profile (`doctor --apply`).
**Maintenance** runs both on the same files while the agents that own them write too. A
configuration keeps only its direct servers (upstream key and definition), the keys it
reaches through Irigate, and the number of the last change that another program made to it
(`ClientTexts`, `ProfileTexts`, over `Keys` and `Definitions`). `First` is the order of
`rendered`: the clients as they were given, then the profile.

The modules ending in **Properties** hold what is expected, Control and Maintenance state it at
their end; the **MC** modules hold the constants of the runs. A definition whose name says that something is left undone
(`CommitEverything`, `CancelOnly`, ...) stands before the one it is a faulty form of; no
action uses it, and putting it in the place of that definition breaks the property that
`PROJECT.json` names.

## What is checked

Workers, with three calls: one in execution, one queued behind it and one that arrives
late, so that every pair of a call with the sentinel, a timeout, a break or a close is
possible.

| Run | Shows |
|---|---|
| `WorkerSerial` | `OneAtATime`, `OpenCallsAccounted`, `ReplyIsFinal`, and `ImplementsPort`: the refinement of `CallPort`, fairness included, so that every caller gets an answer or a timeout |
| `WorkerParallel` | `NoCallCutOff`, `CloseCompletes`, `IdleWorkerEnds`; with parallel calls these are the hard ones (only a parallel worker can have its idle timer fire during a call), and what the other run checks of replies is proved for both modes |

Brokers, with two requests and one or two upstreams. Two requests are enough for every
race between two coroutines; the reload is a third actor, the shutdown a fourth.

| Run | Instance | Shows |
|---|---|---|
| `BrokerSharing` | a shareable and a private upstream, one reload that changes or removes the first | `OneSharedWorker`, `NoStrayWorker`, `NoStartAfterClose`, `StaleOnlyByActivation`, `UnchangedSurvive` |
| `BrokerIsolation` | two sessions, two workspaces, two addresses, three upstreams: a private one, one that takes a workspace, and one that is shareable and takes a workspace after the reload | `IsolatedPrivate`, `IsolatedCurrent`, `SharedAsConfigured` |
| `BrokerProgress` | one upstream that must be shareable (`Strict`), one reload, shutdown, fairness | `RequestsComplete`, `ReloadCompletes`, `CloseCompletes` |

The other parts:

| Run | Instance | Shows |
|---|---|---|
| `Application` | eight profiles, one for each way a reload can go (upstreams that change, take a workspace, fail, hang, are not reviewed; other startup fields; an unset variable; no YAML), two requests of a session, fairness | `SessionInputsFixed`, `PreparedReleased`, `SharedReviewed`, `AdoptsOnlyWhileServing`, `LastProfileAdopted`, `ReloadHonoured`, `ShutdownCompletesUnlessLaunching`; and of the functions `RootsPermit` and `SelectionFailsClosed` |
| `Control` | three servers, two process ids, a bystander, two commands, one crash, `Keep = 1` | `RecordOfNewest`, `StaleRecordOnlyIfCutShort`, `StopMeansClean`, `LogLostOnlyToNewer`, `ReloadHarmless` |
| `Maintenance` | two clients and a profile that exists or not, two migrations, one repair, one change by another program, failures and crashes everywhere | `EditsKept`, `ServersKept`, `MigratedServed`, `RolledBack`, `BackupPredatesIrigate` |

`RootsPermit` compares `Matches` with `Covers` for all patterns over `w`, `a`, `*`, `**` and all
paths over `w`, `a` of up to three segments, which is where every branch of the recursion and
every pair of its branches occurs, and checks the order of two roots for all pairs of
patterns. `SelectionFailsClosed` tries all queries of one or two selection parameters with
up to two tokens each and up to two inputs against every profile. Both are proved for patterns,
paths, queries and profiles of any size.

Bounds. The safety runs of Broker have three workers: enough for a first activation, the start by
a reload or by the other request, and one restart; a behaviour that would need another
worker stops at that start, which cannot hide an earlier bad state. `BrokerProgress` has five, which is all that two requests and one reload
can start when a rejected upstream is not admitted at all, so that no request waits for a
worker the model does not have. `MaxReloads` bounds the reloads of a behaviour to one;
`FailureThreshold = 2` and `CrashThreshold = 1` make degradation reachable by timeouts
alone and by one crash.

`Application` has two writes of the profile (one that a reload is busy with and one that comes
meanwhile; the first can also be one half of a write that is not atomic), and one in
behaviours with requests, which see two profiles that way; one SIGHUP, which can come before,
during and after a reload. `Control` needs two servers for each of its exceptions and a third
to publish between the two; two process ids make ids recur; servers, ids and commands are
symmetric, no property tells them apart and none of the run is about liveness. `Keep = 1` is
where rotation bites first. `Maintenance` has two migrations, because backups
and Irigate entries of the first are what the second meets; a second change by another program
would take the run beyond twelve million states. A signature stands for a write: the model
takes it that no two writes of a profile leave the same time, size and inode.

Deadlock is not checked: a worker that has ended, a broker or a server that is closed, and
programs that have run, are done.

### Where the code and its documentation disagree

Four runs state a sentence of the documentation and end in a counterexample.

| Run | Sentence | What happens |
|---|---|---|
| `WorkerIdle` | README.md:236, a worker shuts down only "with no queued or active calls" | The idle timer fires, a call is put, `_run` gets the `TimeoutError` and exits (`upstream.py:248`). The caller times out. Python 3.11 behaves this way outside the model too. |
| `BrokerSessions` | IMPLEMENTATION.md:103, isolated workers are never reused across sessions | The key is `id(session)` (`app.py:140`) and outlives the session. |
| `BrokerBlocked` | IMPLEMENTATION.md:106, locks are per upstream | `_worker_lock` is one for all and is held across `start()`. |
| `ApplicationStop` | IMPLEMENTATION.md, "Shutdown stops new work, bounds active-call draining" | The server is stopped while the watcher starts an upstream for a reload: `_prepare_upstream()` turns the cancellation into an error (`broker.py:159`), the watcher logs it and waits for the next change, and `gather()` in `lifespan()` waits for the watcher for ever. It goes on adopting profiles meanwhile. |

More became the exceptions that passing properties name, which say that nothing else
goes wrong there. In the broker:

* `StaleOnlyByActivation`: a first activation that began before a reload enters what it
  prepared with the old configuration after the commit (`broker.py:201`), although `reload()`
  is to adopt changes atomically (`broker.py:303`).
* `StaleOnlyByActivation` has a consequence for sessions. A first activation that began while its
  upstream was shareable may enter its admission after a reload has given that upstream a
  workspace. When its worker has idled out, the next request starts a worker with its own
  workspace and puts it into the shared table (`broker.py:285-293`), where all sessions find it.
  So may an upstream that was removed and came back, whose two activations mix their results
  (`broker.py:202-211`). `SharedAsConfigured` says that there is no third way. It speaks of
  versions: an upstream that always was what it is has no such exception.
* Degradation does not last until a restart, as IMPLEMENTATION.md:97 has it ("shared mode is not
  restored until restart"), and no property says that it does. Every reload that changes the
  upstream clears `_degraded` (`broker.py:386`, `:398`). A start of a shared worker that is in
  flight when its upstream is degraded brings a shared worker back (`broker.py:291`). So does a
  first activation, which never looks at `_degraded`: a request that fails after a commit has made
  its upstream dormant degrades it, and the next request activates it with a shared worker
  (`broker.py:192`). What then remains of the sentence is one test in `worker_for()`
  (`MayShare`).
* `OneSharedWorker`: the removal of an upstream drops its activation lock while the holder
  prepares (`broker.py:382`), so that a second activation may run when the upstream is back,
  against IMPLEMENTATION.md:132, "Concurrent first activation is single-flight per upstream".
* `NoStrayWorker`: the second of two such activations replaces the shared worker of the first
  without closing it (`broker.py:211`); the process runs on until its idle timer ends it. This,
  too, the proof attempt found: the runs, with one reload, do not get that far.
* `NoStartAfterClose`: an activation in flight enters its shared worker after `close()`
  (`broker.py:211`). The server cancels its requests first; a direct user of `Broker`, as in
  `tests/test_shutdown.py:47`, has no such protection.

In the application:

* `LastProfileAdopted`: a profile written between its loading and its signature
  (`app.py:121`) is not seen until the next change; nor is one whose upstream failed to start
  tried again before it changes, or a SIGHUP comes.
* `Hangs`, in `LastProfileAdopted` and `ReloadHonoured`: the watcher can be kept for ever. A start
  in a reload has no time limit (`broker.py:155`), so an upstream that never answers keeps it
  there; and at its commit it waits for `_worker_lock`, which a request holds across the start of
  its worker, without a limit as well (`broker.py:291`, `:296`). No later change of the profile is
  then seen, and no SIGHUP honoured.
* `RootsPermit`: a root whose fixed prefix does not exist refuses the workspace even if a later
  root of the upstream allows it (`workspace.py:26`).
* `SharedReviewed` speaks of three starts. The worker that is then shared is a fourth, and its
  tools are not compared with the reviewed ones (`broker.py:155`).

In process control (`RecordOfNewest`, `StaleRecordOnlyIfCutShort`, `StopMeansClean`, `ReloadHarmless`,
`LogLostOnlyToNewer`):

* `remove_control()` reads the record and unlinks the path later (`restart.py:142`): between the
  two another server may publish, whose record then goes (`strays`), against
  IMPLEMENTATION.md:111. A `stop` of that server may report success while it drains, against
  IMPLEMENTATION.md:268.
* The control document is written before the port is bound (`app.py:220`): a second server that
  finds the port taken replaces the record of the first and then removes it. The first serves on
  without one, which is why `RecordOfNewest` speaks of the newest.
* A SIGTERM during the startup of a server, after `irigate` has published the record, is noted by
  uvicorn (0.51, as locked); it returns once the startup is over, without the shutdown of the
  lifespan, and raises the signal again with the default handler. The record stays, and the
  upstreams are not closed by `Broker.close()`, against IMPLEMENTATION.md:111 and `:268`
  (`StopBeforeServing`). An `irigate stop` that comes so early polls that record until its
  time limit (`restart.py:239-251`) and fails, although the server is gone.
* Two servers that publish at once use the same temporary (`restart.py:107`); one moves the
  document of the other, the other fails, and the record of a server that never served stays
  (`mixed`).
* A reload that arrives after the handler was removed (`app.py:225`), or at a process that has
  got the id of a server that crashed (`restart.py:211`), ends that process, against
  IMPLEMENTATION.md:266.
* Rotation keeps the newest files whether their servers run or not (`logs.py:59`); a server whose
  file is gone only logs that it cannot write.

In migration and repair:

* `EditsKept`: what another program writes after its file was read for the backup or for the
  repair is lost (`doctor.py:252`); doctor makes one backup only, and when the copy fails midway
  what it left takes the place of the backup for good (`doctor.py:250`). A rollback writes files in place (`migration.py:333`), also
  those it never changed; when it is cut off, so is the file, and a repair may copy it.
* `MigratedServed`: the second migration of a client replaces its Irigate entry and with it the
  keys of the first (`migration.py:300`). A repair and a migration at once lose each other's
  changes of the profile.
* A copy that fails may leave a `.irigate.bak` (a part of the file, or all of it when only its times
  could not be copied) that the rollback does not know of (`migration.py:321`) and that stops the
  next migration.
* `ServersKept` counts the backups: after a crash between two files the clients already
  written point to a profile that does not have their servers until the user restores them. It
  counts nothing else: no run leaves a server only in the profile, because a migration refuses
  to go on where a backup exists (`migration.py:319`).

### Fairness

Weak fairness is assumed of what the event loop and the timers do: a coroutine whose await
has completed runs, a timer that stays armed fires, a lock that is free is handed on. It is
not assumed of the upstream process in Worker: a launch or a call may hang for ever. In
Broker a start ends unless its upstream is in `Hanging`, which is empty in the runs that
check progress and holds one upstream in `BrokerBlocked`; calls end by their time limit and
a worker that is stopping by its grace period, which Worker shows (`ImplementsPort`,
`CloseCompletes`). No fairness is assumed of cancellation, failures, sessions or reloads.

In Application the loop runs what can run, and the timer of the watcher fires (`Polls`). The
timer and the event may be ready together, and the code does not say which of them wins;
strong fairness of `Woken` says that the timer does not win for ever. No fairness is assumed
of writes of the profile, signals, requests, the request to stop, and of any start: neither one
of a reload that hangs nor one of a request under `_worker_lock` has to end.
Control and Maintenance state safety only: whether a command or a migration is finished is up
to the user.

## What is proved

Six components have theorems, each for every value of the constants that satisfies the
assumptions of its module. TLC evaluates those assumptions on every run.

### Workers

`WorkerProofs`, for every set of calls and both concurrency modes:

| Theorem | States |
|---|---|
| `WorkerInvariant` | `Spec => []WorkerInv` |
| `TypeCorrect` | `Spec => []TypeOK` |
| `SerialWorker` | `Spec => []OneAtATime` |
| `NoCutOff` | `Spec => []NoCallCutOff` |
| `CallsAccounted` | `Spec => []OpenCallsAccounted` |
| `RepliesFinal` | `Spec => ReplyIsFinal` |
| `PortInvariant` | `Spec => []PortInv` |
| `PortRefined` | `Spec => Port!PortInit /\ [][Port!PortNext]_(Port!portVars)` |

The sentinel is not a call, and the concurrency mode is one of the two. `WorkerInv` adds two
conjuncts to what is to be shown. `SerialShape` says that a serial worker executes a call only
at the place where it waits for its reply; without it a dequeue could find another call in
execution. `FreshCalls` says that a call that was not made has no future; without it `Enqueue`
could reopen a reply. Three lemmas (`InterruptInv`, `CloseTaskInv`, `ControlInv`) cover steps
that several actions share, and `AppendElems`, `TailElems` say what is on a queue after `put()`
and `get()`.

`PortRefined` is the refinement of `CallPort` but for its fairness. The line of the port is the
queue without its sentinel, so the lemmas `LinePut`, `LineGet`, `LineStop` and `LineGetStop` say
what `put()` and `get()` of a call and of the sentinel do to it; they need that there is one
sentinel (`OneSentinel`: `close()` is called once). `Opened` (what is queued or executed has a
future) is what lets a late reply be a `Finish`. The loss of the process and the handler are
both `Break`; that no open call is lost there is `OpenCallsAccounted`.

### Broker

`BrokerInduction` and `BrokerProofs`, for any number of upstreams, requests, sessions,
workspaces, workers and reloads (the runs have one reload):

| Theorem | States |
|---|---|
| `BrokerInvariant` | `Spec => []Inv` |
| `TypesHold` | `Spec => []TypeOK` |
| `SharedOnce` | `Spec => []OneSharedWorker` |
| `NobodyStrays` | `Spec => []NoStrayWorker` |
| `IsolationHolds` | `Spec => []IsolatedPrivate` |
| `IsolatedStayCurrent` | `Spec => []IsolatedCurrent` |
| `NothingStartsAfterClose` | `Spec => []NoStartAfterClose` |
| `StaleOnlyOvertaken` | `Spec => StaleOnlyByActivation` |
| `SharingConfigured` | `Spec => SharedAsConfigured` |
| `UnchangedUntouched` | `Spec => UnchangedSurvive` |

The properties are not inductive, because they say nothing of a coroutine that is suspended
with a worker in its hands and will put it into a table. `Inv` does:

| Part of `Inv` | Says |
|---|---|
| `Places` | what the locals of a coroutine hold at each place |
| `Hands` | a start under way has a worker of its own, of the upstream and version it was asked for |
| `Entries`, `Isolates` | what the tables hold: started workers of the right kind, upstream and version, none twice |
| `Reloading` | a reload prepares only what it changes and what is not dormant, once |
| `Activations` | one request holds an activation lock; while it is the one in the table, the upstream is dormant |
| `Spawns` | one request holds the worker lock, and the place its worker is meant for stays free |
| `Addressed` | a request belongs to an open session, and open sessions have different addresses |

`Activations` and `Spawns` are why the locks matter: together with `Reloading` they say that
whoever puts a shared worker into the table finds no other there that serves. Each action is
taken apart into what it does to the tables and what it does to its process. For the tables
there is one lemma for the actions that only stop workers and remove them (`Narrowing`), one for
those that start one (`Launching`) and one for those that give a worker a call (`Calling`); for
the process, `Becomes` and `Leaves`. `Return`, `Spawned` and `Commit` put workers into the tables
and have proofs of their own. The action properties follow from what any step may do to a worker
(`Lasts`), to a process (`Modest`) and to a row of the table (`TablesStep`, `EntryStep`).
`NothingStartsAfterClose` is an induction of its own on top of `Inv`.

The assumptions: no version of an upstream is both shareable and takes a workspace, as the
configuration requires (one may follow the other); each request belongs to a session, and each session has one binding of inputs; the
failure thresholds are positive, as `models.py` has it.

### Workspaces, selection and sessions

`WorkspaceProofs`, for patterns and paths of any length over any names:

| Theorem | States |
|---|---|
| `MatchesIsCovers` | `Matches(pattern, path) = Covers(pattern, path)` |

`Matches` is the recursion of `_matches_allowed_root()`. `Below` says in closed form what the
recursion has to find at each of its places. It satisfies the equation of the recursion
(`BelowSolves`), so that there is a function which does, and there is only one (`OneSolution`):
of the places at which two differed, one would have the least distance to the end, and there the
equation makes them equal. This replaces an induction, which the provers cannot do; that a set of
numbers has a least element is in the library as a fact about the relation `<` (`LeastNumber`).

`EntryProofs`, for any profiles, queries, sessions and requests:

| Theorem | States |
|---|---|
| `RootsPermitAlways` | `Spec => []RootsPermit` |
| `SelectionClosed` | `Spec => []SelectionFailsClosed` |
| `EntryInvariant` | `Spec => []EntryInv` |
| `SessionsKeepInputs` | `Spec => []SessionInputsFixed` |

`AllowedIsCovered` and `TwoRoots` go from `MatchesIsCovers` to the roots of an upstream, and
`Bound` to the inputs that a selection binds; `Selected` says what `ParseSelection` has tested of
a query that it accepts, and `OrderIrrelevant` that the order of arguments is not among it.
`EntryInv` says that a profile in force is valid (`Validated`, with `Inv` of `ApplicationProofs`),
that a session being opened has exactly the request that opens it (`SessionBound`), and that the
inputs of a request were covered by the roots of the profile it was entered under (`WasAllowed`).
The second of these is what keeps the inputs of a session apart from those of a request that is
refused.

The assumptions say what a query and a profile are made of: segments of paths and patterns are
in `Segments`, sources and roots are sequences (`CanonicalAssumption`, `ProfileAssumption`,
`QueryAssumption`, `AskedAssumption`, `PatternAssumption`).

### The watcher

`ApplicationProofs`, for any profiles, upstreams, sessions and requests, and any number of edits
and signals:

| Theorem | States |
|---|---|
| `WatcherInvariant` | `Spec => []Inv` |
| `TypeCorrect` | `Spec => []TypeOK` |
| `PreparedReleasedAlways` | `Spec => []PreparedReleased` |
| `SharedReviewedAlways` | `Spec => []SharedReviewed` |
| `AdoptsOnlyWhileServingAlways` | `Spec => AdoptsOnlyWhileServing` |

`Inv` says where the watcher can be in each phase of the server and that a cancelled one only
cleans up (`Phases`); that `watch.next` can replace `cfg` for as long as it is prepared
(`Comparable`), without which nothing would be known of it at the commit; that spare workers
exist only inside a reload (`SpareInReload`); and what has been tested of the upstream in hand
at each place of the preparation (`Tested`), without which `Launched` could keep a worker that
did not qualify. `AdmittedFit` is the lemma about `Verdicts`: an admitted upstream has its
own qualifier, came up and has the reviewed tools.

### Process control

`ControlProofs`, for any number of servers, process ids, commands and crashes and every `Keep`:

| Theorem | States |
|---|---|
| `ControlInvariant` | `Spec => []Inv` |
| `TypeCorrect` | `Spec => []TypeOK` |
| `NewestIsFound` | `Spec => []RecordOfNewest` |
| `StaleOnlyIfCutShort` | `Spec => []StaleRecordOnlyIfCutShort` |
| `StopIsClean` | `Spec => []StopMeansClean` |
| `ReloadsHarmless` | `Spec => ReloadHarmless` |
| `LogsLostOnlyToNewer` | `Spec => []LogLostOnlyToNewer` |

`Keep` is positive, and the names are distinct. The record is
followed through its temporary: a server writes that once (`WrittenOnce`), it stays the
newest server's until someone moves it, and then it is the record until its server has
cleaned up or a stray unlink takes it (`Records`, `Stale`). `UniquePids` says that a process
id belongs to one live process, which is how a signal is known to hit the server that a
command meant. What a command knows while it waits is `Settled`; it is kept by every step of
every server (`SoundInv`). The logs have an invariant of their own: a file that is listed for
deletion, or gone, has `Keep` newer ones. The count is over `started`, and is taken from the
files by `IntervalSize` and an injection of the newer files into the places after it.

### Migration and repair

`MaintenanceProofs`, for any clients, servers and texts, any number of migrations, repairs and
changes by other programs:

| Theorem | States |
|---|---|
| `RunInvariant` | `Spec => [](TypeOK /\ RunInv)` |
| `BackupsPredateIrigate` | `Spec => []BackupPredatesIrigate` |
| `RollBacksRestore` | `Spec => []RolledBack` |
| `MigratedClientsServed` | `Spec => []MigratedServed` |
| `ServersAreKept` | `Spec => []ServersKept` |
| `EditsAreKept` | `Spec => []EditsKept` |

`RunInv` says how far a migration is. `Taken`: it has kept the texts of the files it has gone
through, copied those that existed, and, for as long as something may fail, has the profile still
before it. `Ahead`: what is left to back up, write or restore is the rest of what it has read or
kept. `Present`: a client's file is always there, a profile that is there stays, and one that is
not was never changed by anyone. That the profile comes last (`FirstIn`, from the order of
`rendered`) is the fact most of the argument hangs on: once the profile is written nothing can
fail, so that no rollback reverts it (`Revertible`).

The properties rest on `RunInv` and on an invariant of their own each. For `BackupPredatesIrigate`,
what a rollback would put in the place of a backup it removes, or of one that could not be made,
is from before Irigate too (`BackupInv`, `PutBack`). For `RolledBack` and `MigratedServed`, while no repair is at work the kept texts
are those that were read unless another program changed the file, and the files already written
hold at least what the migration made of them (`Unchanged`, `Converted`); that it converts without
a conflict (`Agree`) is what gives a key one definition. For `ServersKept` and for `EditsKept` of
a client, its servers and its last change are in the file or in the backup (`ClientKept`), in what
the run holds (`ClientHeld`), because a rollback will remove the backups of its own run, and in a
file that it has put back (`ClientBack`). The profile has a third text, the backup of the
repair. The last change may also be only in the backup of a migration, when a repair has written
an older text over it; `Behind` says that no rollback removes such a backup, and `RepairHeld`
what a repair holds that is about to write. That doctor does not back up a file that was cut off
holds only while no migration is under way (`Alone`), which is why `ProfileInv` rests on it.

Each step of a program is first reduced to what it does to the files and to the run (`LoadDoes`,
`BackUpDoes` and their like, with `StepCases`), so that each invariant has one case for each step.
The assumptions: every client has a place in the order; the profile is not a client, a file that
is missing is not one that was cut off, and neither is a text; the files hold texts of their kind
at the beginning.

### What only the runs show

All liveness (`IdleWorkerEnds`, the `CloseCompletes` of Worker and of Broker,
`RequestsComplete`, `ReloadCompletes`, `LastProfileAdopted`, `ReloadHonoured`,
`ShutdownCompletesUnlessLaunching`), and of the refinement of `CallPort` its fairness: `ENABLED`
is beyond the provers. Every other property that a passing run checks is a theorem.

## Not modelled

* `Broker.list_tools()` over several upstreams, with a reload between two activations. It is the
  same activation as that of `call_tool()`, once per upstream; with a third upstream or a request
  that visits two, the runs of Broker do not end in reasonable time.
* The counters of `runtime_report.py` beyond the failures and crashes that decide on degradation.
  They only appear in the report, and composed with Broker they multiply its states. They clamp
  at zero (`runtime_report.py:104`), and no success or reload ever resets the failures (`:117`).
* That `_session_inputs` never loses an entry (`app.py:92`): growth is nothing a bounded model
  can tell from a large table.
* The audit log: whether a path through `call_tool()` writes its line can be read off the code
  (a failing activation at `broker.py:521` does not).
* The records of payload logs, and the logs that `irigate call` opens and rotates.
* The conversion of agents' server definitions: a migration takes them as they are, or is refused.
* How `doctor` asks an upstream for its tools; which tools a selection names.
* Bounds and defaults of configuration fields, argument parsing, output, contents of systemd
  units and `systemctl`. They keep no state of Irigate's.
* Benchmarks, compatibility scripts and spikes: measurement, not part of the program.

Simplifications that a reader should know of: the temporary of the control document is written in
one step; log names are ordered by time; a file that a
rollback left cut off is refused by the next migration, though what is left of a TOML or YAML
file may parse (`migration.py:111`), and the server tables of one client file
(`migration.py:122-129`) count as one; every process that a command finds is an irigate
process; from Python 3.12 `asyncio.wait_for` no longer swallows a cancellation that meets its
result, and the model behaves like that version in the watcher's wait; the time limit of a call
(`upstream.py:353`) may win over a result that has just been set, which such versions also allow.
