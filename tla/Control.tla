------------------------------ MODULE Control ------------------------------
(***************************************************************************)
(* Processes of one profile and what they share outside themselves: the    *)
(* control document beside the runtime report (src/irigate/restart.py),    *)
(* the port, and the directory of payload logs (logs.py).  Servers start,  *)
(* stop and crash; the commands stop, reload and status find a server      *)
(* through the document and the process id it records.                     *)
(*                                                                         *)
(* A step is one system call, or several that no other process can tell    *)
(* apart.  A control document stands for the instance that wrote it.       *)
(***************************************************************************)
EXTENDS Naturals, Sequences, FiniteSets

CONSTANTS
    Servers,          \* starts of the serve command, each an instance_id
    Bystander,        \* an irigate process that is no server of this profile
    Commands,         \* runs of irigate stop, reload and status
    Pids,             \* process ids, given again once free
    Keep,             \* MCP_LOG_KEEP_FILES
    MaxCrashes,       \* bound on the processes killed or crashed by others
    None

ASSUME KeepAssumption == Keep \in Nat \ {0} /\ MaxCrashes \in Nat
Kinds == {"stop", "reload", "status"}
ASSUME NameAssumption ==
    Bystander \notin Servers /\ None \notin Servers \union Pids \union Kinds \union {Bystander}

VARIABLES
    proc,     \* the processes
    doc,      \* <runtime_report_path>.control: the instance it records
    tmp,      \* the same with .tmp
    port,     \* the server that listens
    logs,     \* the servers whose log file exists
    started,  \* the servers in the order of their log names
    cmd,      \* the commands
    written,  \* history: the servers in the order in which they wrote tmp
    mixed,    \* history: those whose temporary another server has published
    strays    \* history: the servers that removed a record put in place of theirs

vars == <<proc, doc, tmp, port, logs, started, cmd, written, mixed, strays>>

-----------------------------------------------------------------------------
Procs == Servers \union {Bystander}
Serving == {"writing", "publishing", "binding", "bound", "serving", "draining"}
Ending == {"closing", "closed", "unlinking", "unpublished"}

(* lifespan() has the SIGHUP handler installed between these points, and   *)
(* uvicorn notes SIGTERM from before until after them.                     *)
HandlesOnceServing(pc) == pc \in {"serving", "draining"}
Handles(pc) == pc \in Serving
CatchesTerm(pc) == pc \in Serving \union Ending

(* Every variable holds a value of its type.                               *)
TypeOK ==
    /\ proc \in [Procs -> [pc : {"none", "log", "listing", "rotating", "starting", "other", "gone"}
                                \union Serving \union Ending,
                           pid : Pids \union {None}, term : BOOLEAN, crashed : BOOLEAN,
                           cleaned : BOOLEAN,        \* broker.close() has returned
                           own : BOOLEAN,            \* what remove_control() has read
                           stale : SUBSET Servers]]  \* what _rotate() has listed
    /\ {doc, tmp, port} \subseteq Servers \union {None}
    /\ logs \subseteq Servers
    /\ cmd \in [Commands -> [kind : Kinds \union {None}, pc : {"idle", "check", "kill", "poll", "done"},
                             claim : Servers \union {None}, outcome : {"none", "ok", "error", "stopped"}]]
    /\ mixed \subseteq Servers /\ strays \subseteq Servers

Init ==
    /\ proc = [i \in Procs |-> [pc |-> "none", pid |-> None, term |-> FALSE, crashed |-> FALSE,
                                cleaned |-> FALSE, own |-> FALSE, stale |-> {}]]
    /\ doc = None /\ tmp = None /\ port = None
    /\ logs = {} /\ started = <<>>
    /\ cmd = [c \in Commands |-> [kind |-> None, pc |-> "idle", claim |-> None, outcome |-> "none"]]
    /\ written = <<>> /\ mixed = {} /\ strays = {}

Live(i) == proc[i].pc \notin {"none", "gone"}
Free(p) == \A i \in Procs : Live(i) => proc[i].pid # p
At(i, pc) == proc[i].pc = pc
Goto(i, pc) == proc' = [proc EXCEPT ![i].pc = pc]

-----------------------------------------------------------------------------
(* The start of a server *)

Start(i, p) ==
    /\ At(i, "none") /\ Free(p)
    /\ proc' = [proc EXCEPT ![i].pc = IF i = Bystander THEN "other" ELSE "log", ![i].pid = p]
    /\ UNCHANGED <<doc, tmp, port, logs, started, cmd, written, mixed, strays>>

CreateLogByPid(i) ==
    /\ At(i, "log") /\ Goto(i, "listing")
    /\ logs' = logs \union {proc[i].pid} /\ started' = Append(started, i)
    /\ UNCHANGED <<doc, tmp, port, cmd, written, mixed, strays>>

(* McpCallLog.start(): the name of the file begins with the time.          *)
CreateLog(i) ==
    /\ At(i, "log") /\ Goto(i, "listing")
    /\ logs' = logs \union {i} /\ started' = Append(started, i)
    /\ UNCHANGED <<doc, tmp, port, cmd, written, mixed, strays>>

(* _rotate(): every file with Keep or more newer ones.                     *)
Age(i) == CHOOSE k \in DOMAIN started : started[k] = i
Newer(i) == {j \in logs : Age(j) > Age(i)}
OldLogsByNameOrder == {i \in logs : Cardinality(logs) - Cardinality(Newer(i)) > Keep}
OldLogs == {i \in logs : Cardinality(Newer(i)) >= Keep}

ListLogs(i) ==
    /\ At(i, "listing")
    /\ proc' = [proc EXCEPT ![i].pc = "rotating", ![i].stale = OldLogs]
    /\ UNCHANGED <<doc, tmp, port, logs, started, cmd, written, mixed, strays>>

Rotate(i) ==
    /\ At(i, "rotating")
    /\ proc' = [proc EXCEPT ![i].pc = "starting", ![i].stale = {}]
    /\ logs' = logs \ proc[i].stale
    /\ UNCHANGED <<doc, tmp, port, started, cmd, written, mixed, strays>>

(* uvicorn.run() calls lifespan(), which installs the handler.             *)
InstallHandler(i) ==
    /\ At(i, "starting") /\ Goto(i, "writing")
    /\ UNCHANGED <<doc, tmp, port, logs, started, cmd, written, mixed, strays>>

(* write_control(): all servers of the profile use the same temporary.     *)
WriteTemporary(i) ==
    /\ At(i, "writing") /\ Goto(i, "publishing")
    /\ tmp' = i /\ written' = Append(written, i)
    /\ UNCHANGED <<doc, port, logs, started, cmd, mixed, strays>>

(* os.replace(), which fails if another server has moved the file ...      *)
PublishIfAbsent(i) ==
    /\ At(i, "publishing")
    /\ IF tmp = None THEN Goto(i, "unpublished") /\ UNCHANGED doc
       ELSE Goto(i, "binding") /\ doc' = IF doc = None THEN tmp ELSE doc
    /\ tmp' = None
    /\ mixed' = mixed \union ({tmp} \ {i, None})
    /\ UNCHANGED <<port, logs, started, cmd, written, strays>>

Publish(i) ==
    /\ At(i, "publishing")
    /\ IF tmp = None THEN Goto(i, "unpublished") /\ UNCHANGED doc ELSE Goto(i, "binding") /\ doc' = tmp
    /\ tmp' = None
    /\ mixed' = mixed \union ({tmp} \ {i, None})
    /\ UNCHANGED <<port, logs, started, cmd, written, strays>>

(* ... then lifespan() ends without a record of its own to remove.         *)
GiveUp(i) ==
    /\ At(i, "unpublished")
    /\ proc' = [proc EXCEPT ![i].pc = "gone", ![i].cleaned = TRUE]
    /\ UNCHANGED <<doc, tmp, port, logs, started, cmd, written, mixed, strays>>

(* The port comes after the lifespan's startup; a port that is taken ends  *)
(* the lifespan in the regular way.                                        *)
Bind(i) ==
    /\ At(i, "binding") /\ port = None
    /\ Goto(i, "bound") /\ port' = i
    /\ UNCHANGED <<doc, tmp, logs, started, cmd, written, mixed, strays>>

BindFailsExits(i) ==
    /\ At(i, "binding") /\ port # None
    /\ Goto(i, "gone")
    /\ UNCHANGED <<doc, tmp, port, logs, started, cmd, written, mixed, strays>>

BindFails(i) ==
    /\ At(i, "binding") /\ port # None
    /\ Goto(i, "closing")
    /\ UNCHANGED <<doc, tmp, port, logs, started, cmd, written, mixed, strays>>

(* uvicorn looks for a SIGTERM noted during the startup.  If there is one  *)
(* it leaves the lifespan where it is and raises the signal again, now     *)
(* with the default handler.                                               *)
Serve(i) ==
    /\ At(i, "bound") /\ ~proc[i].term
    /\ Goto(i, "serving")
    /\ UNCHANGED <<doc, tmp, port, logs, started, cmd, written, mixed, strays>>

StopBeforeServing(i) ==
    /\ At(i, "bound") /\ proc[i].term
    /\ Goto(i, "gone") /\ port' = None
    /\ UNCHANGED <<doc, tmp, logs, started, cmd, written, mixed, strays>>

-----------------------------------------------------------------------------
(* The end of a server *)

(* uvicorn stops listening and lets the requests in progress finish.       *)
Drain(i) ==
    /\ At(i, "serving") /\ proc[i].term
    /\ Goto(i, "draining") /\ port' = None
    /\ UNCHANGED <<doc, tmp, logs, started, cmd, written, mixed, strays>>

(* The lifespan ends: the SIGHUP handler is removed ...                    *)
RemoveHandler(i) ==
    /\ At(i, "draining") /\ Goto(i, "closing")
    /\ UNCHANGED <<doc, tmp, port, logs, started, cmd, written, mixed, strays>>

(* ... the broker closed (see Application) ...                             *)
CloseBrokerLater(i) ==
    /\ At(i, "closing") /\ Goto(i, "closed")
    /\ UNCHANGED <<doc, tmp, port, logs, started, cmd, written, mixed, strays>>

CloseBroker(i) ==
    /\ At(i, "closing")
    /\ proc' = [proc EXCEPT ![i].pc = "closed", ![i].cleaned = TRUE]
    /\ UNCHANGED <<doc, tmp, port, logs, started, cmd, written, mixed, strays>>

(* ... and remove_control() reads the record and unlinks it if it is its   *)
(* own.                                                                    *)
ReadAnyRecord(i) ==
    /\ At(i, "closed")
    /\ proc' = [proc EXCEPT ![i].pc = IF doc # None THEN "unlinking" ELSE "gone", ![i].own = (doc = i)]
    /\ UNCHANGED <<doc, tmp, port, logs, started, cmd, written, mixed, strays>>

ReadRecord(i) ==
    /\ At(i, "closed")
    /\ proc' = [proc EXCEPT ![i].pc = IF doc = i THEN "unlinking" ELSE "gone", ![i].own = (doc = i)]
    /\ UNCHANGED <<doc, tmp, port, logs, started, cmd, written, mixed, strays>>

Unlink(i) ==
    /\ At(i, "unlinking") /\ Goto(i, "gone")
    /\ doc' = None
    /\ strays' = IF proc[i].own /\ doc \notin {i, None} THEN strays \union {i} ELSE strays
    /\ UNCHANGED <<tmp, port, logs, started, cmd, written, mixed>>

(* A process ends without any of this.                                     *)
Dead(i) == [proc[i] EXCEPT !.pc = "gone", !.crashed = TRUE]

Crash(i) ==
    /\ Live(i) /\ Cardinality({j \in Procs : proc[j].crashed}) < MaxCrashes
    /\ proc' = [proc EXCEPT ![i] = Dead(i)]
    /\ port' = IF port = i THEN None ELSE port
    /\ UNCHANGED <<doc, tmp, logs, started, cmd, written, mixed, strays>>

(* What a signal does to the process that has the id now.                  *)
Noted(i, signal) == [proc[i] EXCEPT !.term = @ \/ signal = "SIGTERM"]

Signal(i, signal) ==
    LET caught == IF signal = "SIGHUP" THEN Handles(proc[i].pc) ELSE CatchesTerm(proc[i].pc) IN
    /\ proc' = [proc EXCEPT ![i] = IF caught THEN Noted(i, signal) ELSE Dead(i)]
    /\ port' = IF port = i /\ ~caught THEN None ELSE port

-----------------------------------------------------------------------------
(* The commands *)

(* A command reports and is over; only a stop that reports success is of   *)
(* interest afterwards.                                                    *)
End(c, kind, outcome) ==
    cmd' = [cmd EXCEPT ![c] =
        IF kind = "stop" /\ outcome = "ok" THEN [@ EXCEPT !.pc = "done", !.outcome = outcome]
        ELSE [kind |-> None, pc |-> "done", claim |-> None, outcome |-> outcome]]
Holders(c) == {i \in Procs : Live(i) /\ proc[i].pid = proc[cmd[c].claim].pid}

(* read_control(); status asks first whether the document exists.          *)
ReadClaim(c, kind) ==
    /\ cmd[c].pc = "idle"
    /\ IF doc = None THEN End(c, kind, IF kind = "status" THEN "stopped" ELSE "error")
       ELSE cmd' = [cmd EXCEPT ![c] = [@ EXCEPT !.kind = kind, !.pc = "check", !.claim = doc]]
    /\ UNCHANGED <<proc, doc, tmp, port, logs, started, written, mixed, strays>>

(* process_is_irigate(): every process of this model is one.               *)
CheckProcess(c) ==
    /\ cmd[c].pc = "check"
    /\ IF Holders(c) = {} THEN End(c, cmd[c].kind, IF cmd[c].kind = "status" THEN "stopped" ELSE "error")
       ELSE IF cmd[c].kind = "status" THEN End(c, cmd[c].kind, "ok")
       ELSE cmd' = [cmd EXCEPT ![c].pc = "kill"]
    /\ UNCHANGED <<proc, doc, tmp, port, logs, started, written, mixed, strays>>

Kill(c) ==
    /\ cmd[c].pc = "kill"
    /\ IF Holders(c) = {} THEN End(c, cmd[c].kind, "error") /\ UNCHANGED <<proc, port>>
       ELSE /\ \E i \in Holders(c) : Signal(i, IF cmd[c].kind = "stop" THEN "SIGTERM" ELSE "SIGHUP")
            /\ IF cmd[c].kind = "stop" THEN cmd' = [cmd EXCEPT ![c].pc = "poll"] ELSE End(c, cmd[c].kind, "ok")
    /\ UNCHANGED <<doc, tmp, logs, started, written, mixed, strays>>

(* stop_running() waits for the record to go; it gives up after a time.    *)
Poll(c) ==
    /\ cmd[c].pc = "poll" /\ doc # cmd[c].claim
    /\ End(c, cmd[c].kind, IF doc = None THEN "ok" ELSE "error")
    /\ UNCHANGED <<proc, doc, tmp, port, logs, started, written, mixed, strays>>

PollTimesOut(c) ==
    /\ cmd[c].pc = "poll" /\ doc = cmd[c].claim
    /\ End(c, cmd[c].kind, "error")
    /\ UNCHANGED <<proc, doc, tmp, port, logs, started, written, mixed, strays>>

-----------------------------------------------------------------------------
ServerStep(i) ==
    \/ CreateLog(i) \/ ListLogs(i) \/ Rotate(i)
    \/ InstallHandler(i) \/ WriteTemporary(i) \/ Publish(i) \/ GiveUp(i)
    \/ Bind(i) \/ BindFails(i) \/ Serve(i) \/ StopBeforeServing(i)
    \/ Drain(i) \/ RemoveHandler(i) \/ CloseBroker(i) \/ ReadRecord(i) \/ Unlink(i)
CommandStep(c) ==
    (\E kind \in Kinds : ReadClaim(c, kind)) \/ CheckProcess(c) \/ Kill(c) \/ Poll(c) \/ PollTimesOut(c)

Next ==
    \/ \E i \in Procs : (\E p \in Pids : Start(i, p)) \/ Crash(i)
    \/ \E i \in Servers : ServerStep(i)
    \/ \E c \in Commands : CommandStep(c)

Spec == Init /\ [][Next]_vars

-----------------------------------------------------------------------------
(* The server that published last and listens can be found through its     *)
(* record, whatever servers end meanwhile, except that one which had read  *)
(* its own record may unlink the new one (restart.py:142).  A server that  *)
(* is not the newest may be without: see the README.  restart.py:105-151.  *)
RecordOfNewest ==
    \A i \in Servers : At(i, "serving") /\ written[Len(written)] = i => doc = i \/ strays # {}

(* A record of a process that is gone stems from one that was cut short,   *)
(* by a crash or by a stop while it was still starting up (which leaves    *)
(* out the cleanup of IMPLEMENTATION.md:111), or from two servers that     *)
(* publish at the same time, when one moves the temporary of the other.    *)
(* Every other end takes the record away.                                  *)
(* app.py:220,230-232, restart.py:112, __main__.py:758.                    *)
StaleRecordOnlyIfCutShort ==
    doc # None /\ At(doc, "gone") =>
        proc[doc].crashed \/ (proc[doc].term /\ ~proc[doc].cleaned) \/ doc \in mixed

(* "Exit 0 means the server removed its owned control document after       *)
(* graceful broker cleanup" (IMPLEMENTATION.md:268) holds unless another   *)
(* server has published since, or unlinked the record by mistake.          *)
(* restart.py:217-251, app.py:229-232.                                     *)
StopMeansClean ==
    \A c \in Commands : cmd[c].kind = "stop" /\ cmd[c].outcome = "ok" =>
        proc[cmd[c].claim].cleaned \/ written[Len(written)] # cmd[c].claim \/ strays # {}

(* A reload ends no server that publishes or serves: the handler is there  *)
(* before the record and until the lifespan ends.  It ends only a server   *)
(* that is stopping already, or a process that has got the id of a server  *)
(* that crashed, or that ended after the reload had read its record.       *)
(* app.py:207-226, restart.py:194-214.                                     *)
ReloadHarmless ==
    [][\A c \in Commands, i \in Procs :
        cmd[c].kind = "reload" /\ cmd[c].pc = "kill" /\ cmd'[c].pc = "done" /\ Live(i) /\ ~Live(i)'
            => proc[i].pc \in Ending \/ At(cmd[c].claim, "gone")]_vars

(* A running server loses its log only to Keep servers started after it.   *)
(* logs.py:58-61.                                                          *)
LogLostOnlyToNewer ==
    \A i \in Servers : (\E k \in DOMAIN started : started[k] = i) /\ i \notin logs =>
        Len(started) - Age(i) >= Keep
=============================================================================
