---------------------------- MODULE Application ----------------------------
(***************************************************************************)
(* src/irigate/app.py: the life of a server, its watcher of the profile    *)
(* and the entry of MCP requests.  Of Broker.reload() it keeps where the   *)
(* watcher may be suspended and cancelled; module Broker has the rest.     *)
(*                                                                         *)
(* The profile on disk belongs to other processes, which may write it      *)
(* between any two steps.  Within the server nothing else runs while the   *)
(* watcher is between two suspension points (LoopFree).                    *)
(***************************************************************************)
EXTENDS Schema

CONSTANTS
    Profiles,         \* what a profile file can hold: see Schema
    InitialProfile, Missing,
    Sessions, Requests, SessionOf,
    Queries,          \* what a request can ask: a selection query and its agent
    MaxEdits, MaxSignals,   \* bounds on the writes of the profile, on SIGHUPs
    MaxEditsWithRequests,   \* bound on the writes in a behaviour with requests
    Strict,           \* require_qualified_sharing
    None

ASSUME ProfileAssumption ==
    /\ InitialProfile \in DOMAIN Profiles /\ Missing \notin DOMAIN Profiles
    /\ \A p \in DOMAIN Profiles :
        /\ Profiles[p].parses \in BOOLEAN
        /\ \A u \in DOMAIN Profiles[p].upstreams : LET upstream == Profiles[p].upstreams[u] IN
            upstream.sources \in Seq(STRING) /\ upstream.roots \in Seq(Seq(Segments))
ASSUME RequestAssumption == SessionOf \in [Requests -> Sessions]

(* A query as Selection wants it, and the agent it names.                  *)
QueryRecord == [selectors : Seq(STRING \X Seq(STRING \X STRING)),
                inputs : Seq(STRING \X ({NoValue} \union Seq(Segments))),
                agent : STRING]
ASSUME QueryAssumption == Queries \subseteq QueryRecord
ASSUME BoundAssumption == {MaxEdits, MaxEditsWithRequests} \subseteq Nat /\ MaxSignals \in Nat

VARIABLES
    disk,       \* the profile file: content, and the signature stat() gives
    cfg,        \* broker.config
    server,     \* the serve command, then lifespan()
    created,    \* initial_signature
    requested,  \* the event reload_requested
    signals,    \* SIGHUPs so far
    watch,      \* watch_config(), with the locals of the reload() it is in
    spawning,   \* a request holds _worker_lock while its worker starts
    session,    \* MCP sessions and the inputs of _session_inputs
    request     \* requests in _StreamableHTTPApp.__call__()

vars == <<disk, cfg, server, created, requested, signals, watch, spawning, session, request>>

-----------------------------------------------------------------------------
Upstreams(p) == Profiles[p].upstreams
AllUpstreams == UNION {DOMAIN Upstreams(p) : p \in DOMAIN Profiles}
Launching == {"sharing", "probing"}
Watch == [pc : {"off", "waiting", "stat", "read", "next", "qualifying", "locking", "discarding",
                "aborting", "retiring", "ended"} \union Launching,
          sig : 0 .. MaxEdits + 1, forced : BOOLEAN,
          next : DOMAIN Profiles,            \* replacement
          todo : SUBSET AllUpstreams,        \* changed upstreams still to prepare
          spare : SUBSET AllUpstreams,       \* those with a prepared shared worker
          key : AllUpstreams \union {None},  \* the one being prepared
          cancelled : BOOLEAN]

ServerStates ==
    {"loading", "creating", "created", "up", "draining", "cancelling", "closing", "down", "refused"}

(* The variables of the watcher and what it works on hold values of their  *)
(* types.                                                                  *)
TypeOK ==
    /\ disk \in [profile : DOMAIN Profiles \union {Missing}, sig : 1 .. MaxEdits + 1]
    /\ cfg \in DOMAIN Profiles
    /\ server \in ServerStates /\ created \in 0 .. MaxEdits + 1
    /\ watch \in Watch

Asleep == [pc |-> "off", sig |-> 0, forced |-> FALSE, next |-> InitialProfile, todo |-> {},
           spare |-> {}, key |-> None, cancelled |-> FALSE]

Idle(pc) == [pc |-> pc, inputs |-> <<>>, under |-> None]

Init ==
    /\ disk = [profile |-> InitialProfile, sig |-> 1]
    /\ cfg = InitialProfile
    /\ server = "loading"
    /\ created = 0
    /\ requested = FALSE /\ signals = 0
    /\ watch = Asleep
    /\ spawning = FALSE
    /\ session = [s \in Sessions |-> [state |-> "none", inputs |-> <<>>, served |-> {}]]
    /\ request = [r \in Requests |-> Idle("new")]

LoopFree == watch.pc \notin {"stat", "read", "next"}
Rest == <<disk, server, created, signals, spawning, session, request>>

-----------------------------------------------------------------------------
(* Other processes *)

(* The profile is written, or removed.  A write that is not atomic is two  *)
(* edits, the first of which leaves an invalid profile.                    *)
Edit(p) ==
    /\ disk.sig <= MaxEdits
    /\ \A r \in Requests : request[r].pc = "new" \/ disk.sig <= MaxEditsWithRequests
    /\ disk' = [profile |-> p, sig |-> disk.sig + 1]
    /\ UNCHANGED <<cfg, server, created, requested, signals, watch, spawning, session, request>>

(* SIGHUP, once the handler is there.                                      *)
Signal ==
    /\ server \in {"up", "draining"} /\ signals < MaxSignals
    /\ requested' = TRUE
    /\ signals' = signals + 1
    /\ UNCHANGED <<disk, cfg, server, created, watch, spawning, session, request>>

(* A request takes _worker_lock and starts a worker.                       *)
Spawn ==
    /\ server = "up" /\ LoopFree /\ watch.pc # "locking"
    /\ ~spawning /\ spawning' = TRUE
    /\ UNCHANGED <<disk, cfg, server, created, requested, signals, watch, session, request>>

Spawned ==
    /\ LoopFree
    /\ spawning /\ spawning' = FALSE
    /\ UNCHANGED <<disk, cfg, server, created, requested, signals, watch, session, request>>

-----------------------------------------------------------------------------
(* From the command line to a running server *)

(* main() loads the profile ...                                            *)
Load ==
    /\ server = "loading"
    /\ IF disk.profile # Missing /\ Valid(Profiles[disk.profile])
       THEN server' = "creating" /\ cfg' = disk.profile
       ELSE server' = "refused" /\ UNCHANGED cfg
    /\ UNCHANGED <<disk, created, requested, signals, watch, spawning, session, request>>

(* ... create_app() asks for its signature ...                             *)
Create ==
    /\ server = "creating" /\ server' = "created"
    /\ created' = IF disk.profile = Missing THEN 0 ELSE disk.sig
    /\ UNCHANGED <<disk, cfg, requested, signals, watch, spawning, session, request>>

(* ... and lifespan() starts the watcher and installs the handler.         *)
Startup ==
    /\ server = "created" /\ server' = "up"
    /\ watch' = [watch EXCEPT !.pc = "waiting", !.sig = created]
    /\ UNCHANGED <<disk, cfg, created, requested, signals, spawning, session, request>>

-----------------------------------------------------------------------------
(* watch_config() *)

Watcher(from, to) == watch.pc = from /\ watch' = to

(* The wait ends by its time limit, or because a reload was requested.     *)
Polls ==
    /\ Watcher("waiting", [watch EXCEPT !.pc = "stat", !.forced = FALSE])
    /\ UNCHANGED <<Rest, cfg, requested>>

Woken ==
    /\ requested /\ requested' = FALSE
    /\ Watcher("waiting", [watch EXCEPT !.pc = "stat", !.forced = TRUE])
    /\ UNCHANGED <<Rest, cfg>>

StatUnforced ==
    LET sig == IF disk.profile = Missing THEN 0 ELSE disk.sig IN
    /\ Watcher("stat", [watch EXCEPT !.sig = sig,
          !.pc = IF sig # watch.sig /\ sig # 0 THEN "read" ELSE "waiting"])
    /\ UNCHANGED <<Rest, cfg, requested>>

Stat ==
    LET sig == IF disk.profile = Missing THEN 0 ELSE disk.sig IN
    /\ Watcher("stat", [watch EXCEPT !.sig = sig,
          !.pc = IF (sig # watch.sig \/ watch.forced) /\ sig # 0 THEN "read" ELSE "waiting"])
    /\ UNCHANGED <<Rest, cfg, requested>>

Changed(p) ==
    {u \in DOMAIN Upstreams(cfg) \intersect DOMAIN Upstreams(p) : Upstreams(cfg)[u] # Upstreams(p)[u]}

AcceptAnyStartup(p) == p # Missing /\ Valid(Profiles[p])
Accept(p) == p # Missing /\ Valid(Profiles[p]) /\ Profiles[p].startup = Profiles[cfg].startup

(* load_config(), and reload() up to its first suspension: the upstreams   *)
(* that have changed, are in use and take no inputs are prepared.          *)
Read ==
    /\ watch.pc = "read"
    /\ IF Accept(disk.profile) /\ disk.profile # cfg
       THEN \E active \in SUBSET Changed(disk.profile) :
               Watcher("read", [watch EXCEPT !.pc = "next", !.next = disk.profile,
                   !.todo = {u \in active : Upstreams(disk.profile)[u].input = "none"}])
       ELSE Watcher("read", [watch EXCEPT !.pc = "waiting"])
    /\ UNCHANGED <<Rest, cfg, requested>>

(* _prepare_upstream(): a shareable upstream is qualified; then it is      *)
(* started, without a time limit.                                          *)
Prepare(u) ==
    /\ u \in watch.todo
    /\ Watcher("next", [watch EXCEPT !.key = u, !.todo = @ \ {u},
          !.pc = IF Upstreams(watch.next)[u].shareable THEN "qualifying" ELSE "probing"])
    /\ UNCHANGED <<Rest, cfg, requested>>

InHand == Upstreams(watch.next)[watch.key]

Qualified ==
    /\ watch.pc = "qualifying"
    /\ \E admitted \in Verdicts(watch.key, InHand) :
        watch' = [watch EXCEPT !.pc = IF admitted THEN "sharing" ELSE IF Strict THEN "aborting" ELSE "probing"]
    /\ UNCHANGED <<Rest, cfg, requested>>

(* A worker that may be shared is kept for the commit; a probe is closed.  *)
Launched ==
    /\ watch.pc \in Launching /\ InHand.start # "hangs"
    /\ \/ Watcher("sharing", [watch EXCEPT !.pc = "next", !.spare = @ \union {watch.key}, !.key = None])
       \/ Watcher("probing", [watch EXCEPT !.pc = "discarding"])
    /\ UNCHANGED <<Rest, cfg, requested>>

(* The failed worker is closed, and with it the spare ones.                *)
LaunchFails ==
    /\ watch.pc \in Launching /\ InHand.start = "may fail"
    /\ watch' = [watch EXCEPT !.pc = "aborting"]
    /\ UNCHANGED <<Rest, cfg, requested>>

Discarded ==
    /\ Watcher("discarding", [watch EXCEPT !.pc = "next", !.key = None])
    /\ UNCHANGED <<Rest, cfg, requested>>

(* The exception leaves reload(): it is logged, unless it cancels.         *)
AbortedGoesOn ==
    /\ Watcher("aborting", [watch EXCEPT !.pc = "waiting", !.todo = {}, !.key = None, !.spare = {}])
    /\ UNCHANGED <<Rest, cfg, requested>>

Aborted ==
    /\ Watcher("aborting", [watch EXCEPT !.pc = IF watch.cancelled THEN "ended" ELSE "waiting",
                                         !.todo = {}, !.key = None, !.spare = {}])
    /\ UNCHANGED <<Rest, cfg, requested>>

WaitForLock ==
    /\ watch.todo = {} /\ spawning
    /\ Watcher("next", [watch EXCEPT !.pc = "locking"])
    /\ UNCHANGED <<Rest, cfg, requested>>

Commit ==
    /\ watch.pc \in {"next", "locking"} /\ watch.todo = {} /\ ~spawning
    /\ cfg' = watch.next
    /\ watch' = [watch EXCEPT !.pc = "retiring", !.spare = {}]
    /\ UNCHANGED <<Rest, requested>>

RetiredSignsAgain ==
    /\ Watcher("retiring", [watch EXCEPT !.pc = "waiting", !.sig = disk.sig])
    /\ UNCHANGED <<Rest, cfg, requested>>

Retired ==
    /\ Watcher("retiring", [watch EXCEPT !.pc = "waiting"])
    /\ UNCHANGED <<Rest, cfg, requested>>

-----------------------------------------------------------------------------
(* The end of lifespan() *)

(* manager.run() ends: the tasks of the MCP sessions are cancelled, which  *)
(* makes them give _worker_lock back.                                      *)
ShutdownBegins ==
    /\ server = "up" /\ LoopFree
    /\ \A r \in Requests : request[r].pc # "handling"
    /\ server' = "draining"
    /\ UNCHANGED <<disk, cfg, created, requested, signals, watch, spawning, session, request>>

(* The handler goes, and the watcher is cancelled where it is suspended.   *)
(* A start in progress turns the cancellation into an initialization error *)
(* (broker.py:159), which watch_config() logs like any other.              *)
CancelWatcher ==
    /\ server = "draining" /\ LoopFree
    /\ server' = "cancelling"
    /\ watch' = IF watch.pc \in Launching THEN [watch EXCEPT !.pc = "aborting"]
                ELSE IF watch.pc \in {"qualifying", "discarding", "aborting"}
                     THEN [watch EXCEPT !.pc = "aborting", !.cancelled = TRUE]
                     ELSE [watch EXCEPT !.pc = "ended", !.cancelled = TRUE]
    /\ UNCHANGED <<disk, cfg, created, requested, signals, spawning, session, request>>

(* It is cancelled once the sessions are over: a watcher that had waited   *)
(* for their lock has gone on by then.                                     *)
WatcherCancelled == ~spawning /\ watch.pc # "locking" /\ CancelWatcher

(* gather() returns once the watcher has ended, then the broker is closed. *)
BrokerCloses ==
    /\ server = "cancelling" /\ watch.pc = "ended"
    /\ server' = "closing"
    /\ UNCHANGED <<disk, cfg, created, requested, signals, watch, spawning, session, request>>

BrokerClosed ==
    /\ server = "closing" /\ server' = "down"
    /\ UNCHANGED <<disk, cfg, created, requested, signals, watch, spawning, session, request>>

-----------------------------------------------------------------------------
(* _StreamableHTTPApp *)

ChangesInputsNever(s, inputs) == FALSE
ChangesInputs(s, inputs) == session[s].state = "open" /\ session[s].inputs # inputs

(* A request is parsed against the configuration in force and, if it is    *)
(* one of a session, against what the session is bound to.                 *)
Enter(r, q) ==
    LET s == SessionOf[r]
        selection == ParseSelection(q, Upstreams(cfg)) IN
    /\ server = "up" /\ LoopFree
    /\ request[r].pc = "new" /\ session[s].state # "opening" /\ disk.sig <= MaxEditsWithRequests + 1
    /\ IF q.agent # "valid" \/ selection = Rejected \/ ChangesInputs(s, selection.inputs)
       THEN request' = [request EXCEPT ![r].pc = "done"] /\ UNCHANGED session
       ELSE /\ request' = [request EXCEPT
                  ![r] = [pc |-> "handling", inputs |-> selection.inputs, under |-> cfg]]
            /\ session' = [session EXCEPT
                  ![s].state = IF @ = "none" THEN "opening" ELSE @,
                  ![s].served = @ \union {selection.inputs}]
    /\ UNCHANGED <<disk, cfg, server, created, requested, signals, watch, spawning>>

(* The response starts.  That of a new session names it, and binds it.     *)
Respond(r) ==
    LET s == SessionOf[r] IN
    /\ LoopFree /\ request[r].pc = "handling"
    /\ request' = [request EXCEPT ![r] = Idle("done")]
    /\ \/ session[s].state = "opening"
          /\ session' = [session EXCEPT ![s].state = "open", ![s].inputs = request[r].inputs]
       \/ session[s].state = "opening"           \* status >= 400
          /\ session' = [session EXCEPT ![s].state = "none", ![s].served = {}]
       \/ session[s].state = "open" /\ UNCHANGED session
    /\ UNCHANGED <<disk, cfg, server, created, requested, signals, watch, spawning>>

-----------------------------------------------------------------------------
Reload ==
    \/ \E u \in AllUpstreams : Prepare(u)
    \/ Qualified \/ Launched \/ LaunchFails \/ Discarded \/ Aborted \/ WaitForLock \/ Retired

Next ==
    \/ \E p \in DOMAIN Profiles \union {Missing} : Edit(p)
    \/ Signal \/ Spawn \/ Spawned
    \/ Load \/ Create \/ Startup
    \/ Polls \/ Woken \/ Stat \/ Read \/ Reload \/ Commit
    \/ ShutdownBegins \/ WatcherCancelled \/ BrokerCloses \/ BrokerClosed
    \/ \E r \in Requests, q \in Queries : Enter(r, q)
    \/ \E r \in Requests : Respond(r)

(* The event loop runs what can run; the timer of the watcher fires.  That *)
(* a server is stopped, a file written or a request sent is up to others,  *)
(* and the start of a worker for a request may take for ever.              *)
Fairness ==
    /\ WF_vars(Load \/ Create \/ Startup)
    /\ WF_vars(Polls) /\ SF_vars(Woken) /\ WF_vars(Stat \/ Read \/ Reload \/ Commit)
    /\ WF_vars(WatcherCancelled) /\ WF_vars(BrokerCloses \/ BrokerClosed)

Spec == Init /\ [][Next]_vars
FairSpec == Spec /\ Fairness
=============================================================================
