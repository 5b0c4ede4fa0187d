-------------------------- MODULE BrokerProperties --------------------------
(***************************************************************************)
(* What the Broker is expected to do: the properties the code has, and the *)
(* statements of its documentation that it does not keep.                  *)
(***************************************************************************)
EXTENDS Broker

(* The shared workers that serve or are about to serve: those a reload has *)
(* prepared take over only when it commits.                                *)
Serving(w) ==
    /\ worker[w].state \in {"starting", "running"} /\ worker[w].mode = "shared"
    /\ w # proc[Reloader].hand /\ \A x \in reload.prepared : x.hand # w

(* Concurrent first use of an upstream starts it once, and neither a       *)
(* restart nor a reload doubles it: one shared process of it serves.  An   *)
(* upstream that was removed has lost its activation lock, and may be      *)
(* activated twice when it comes back (broker.py:196, 291, 382).           *)
OneSharedWorker ==
    \A v, w \in Workers :
        /\ Serving(v) /\ Serving(w) /\ worker[v].key = worker[w].key
        /\ entry[worker[v].key].lock = 0
        => v = w

(* Nobody loses a process: a worker that nobody has asked to stop is in a  *)
(* routing table or in the hands of a coroutine that will put it there or  *)
(* close it, whatever is cancelled, fails or is reloaded meanwhile.  The   *)
(* second activation of an upstream that was removed and came back may     *)
(* replace the shared worker of the first without a close (broker.py:211). *)
NoStrayWorker ==
    \A w \in Workers : worker[w].state \in {"starting", "running"} =>
        \/ \E k \in Keys : entry[k].shared = w
        \/ \E i \in Instances : isolated[i] = w
        \/ \E p \in Procs : proc[p].hand = w /\ proc[p].pc \in {"starting", "spawning"}
        \/ \E x \in reload.prepared : x.hand = w
        \/ worker[w].mode = "shared" /\ \E k \in Keys : worker[w].key = k /\ entry[k].lock # 0

(* The tables never come to hold a shared worker of an old configuration,  *)
(* except by the end of a first activation that a reload has overtaken:    *)
(* starts by worker_for() and commits exclude each other (broker.py:276,   *)
(* 364), _activate() has no such protection (broker.py:201-211).           *)
Stale(k) == entry[k].shared # None /\ worker[entry[k].shared].ver # cfg[k]
StaleOnlyByActivation ==
    [][\A k \in Keys : ~Stale(k) /\ Stale(k)' =>
         \E r \in Requests : proc[r].pc = "starting" /\ proc[r].key = k /\ proc'[r].pc = "route"]_vars

(* worker_for() starts a worker for all sessions only for an upstream that *)
(* is shareable as configured now, and so takes no session's workspace     *)
(* (models.py:164, broker.py:285-292): a reload that gives the upstream a  *)
(* workspace withdraws the admission of what it was.  Except when the      *)
(* admission is of an earlier version, entered by a first activation that  *)
(* the reload has overtaken, or when the upstream was removed meanwhile:   *)
(* two activations may then mix their results (broker.py:202-211).         *)
SharedAsConfigured ==
    [][\A r \in Requests :
         LET k == proc[r].key IN
         /\ proc[r].pc = "select" /\ proc'[r].pc = "spawning"
         /\ worker'[proc'[r].hand].mode = "shared"
         => \/ IsShareable(k, cfg[k])
            \/ entry[k].tools # cfg[k] \/ entry[k].lock # 0]_vars

(* After close() has begun, worker_for() starts nothing any more and the   *)
(* isolated workers are gone (broker.py:277, 609-614).                     *)
NoStartAfterClose ==
    closer # "open" =>
        /\ \A r \in Requests : proc[r].pc # "spawning"
        /\ \A i \in Instances : isolated[i] = None

(* The isolated workers in the table run the upstream as it is configured  *)
(* now, although they are started while reloads go on.                     *)
IsolatedCurrent ==
    \A i \in Instances : isolated[i] # None => worker[isolated[i]].ver = cfg[i[2]]

(* An isolated worker serves the workspace it was started for, and never   *)
(* two sessions that are open together.                                    *)
IsolatedPrivate ==
    \A w \in Workers : worker[w].mode = "isolated" =>
        /\ \A s \in worker[w].users :
              TakesInputs(worker[w].key, worker[w].ver) => Binding[s][worker[w].key] = worker[w].inputs
        /\ \A s, t \in worker[w].users : address[s] # None /\ address[t] # None => s = t

(* A commit replaces what has changed and nothing else: the workers of the *)
(* other upstreams stay in the tables and keep running.                    *)
UnchangedSurvive ==
    [][\A k \in Keys : cfg' # cfg /\ cfg'[k] = cfg[k] =>
         /\ entry'[k] = entry[k]
         /\ \A i \in Instances : i[2] = k => isolated'[i] = isolated[i]
         /\ \A w \in Workers : worker[w].key = k => worker'[w] = worker[w]]_vars

(* Every request comes to an end: no lock is left behind by a failure, a   *)
(* cancellation or a reload, and nobody waits for nobody.                  *)
RequestsComplete ==
    \A r \in Requests : proc[r].pc # "idle" ~> proc[r].pc \in {"done", "cancelled"}

(* A reload ends, and with it the last worker it retired.                  *)
ReloadCompletes == proc[Reloader].pc # "idle" ~> proc[Reloader].pc = "idle"

(* close() returns, whatever the requests under way do to its workers.     *)
CloseCompletes == closer = "closing" ~> closer = "closed"

-----------------------------------------------------------------------------
(* What the documentation says of the program and the code does not do.    *)

(* IMPLEMENTATION.md:103, isolated workers "are never reused across        *)
(* sessions or input contexts" (app.py:140, broker.py:267-275).            *)
NeverAcrossSessions ==
    \A w \in Workers : worker[w].mode = "isolated" =>
        \A s, t \in worker[w].users : s = t

(* IMPLEMENTATION.md:106, "Locks are per upstream. A slow or failed        *)
(* upstream must not block unrelated upstreams": a request for an upstream *)
(* that starts well gets the worker lock (broker.py:58, 276).              *)
UnrelatedNotBlocked ==
    \A r \in Requests :
        proc[r].pc = "lockWait" /\ proc[r].key \notin Hanging ~> proc[r].pc # "lockWait"
=============================================================================
