----------------------- MODULE ApplicationProperties -----------------------
(* What the server, its entry and its watcher of the profile guarantee.    *)
EXTENDS Application

CONSTANTS Patterns, Paths,   \* root patterns and canonical paths to compare
          Asked              \* selection queries to try against every profile

ASSUME PatternAssumption == Patterns \union Paths \subseteq Seq(Segments)
ASSUME AskedAssumption == Asked \subseteq QueryRecord

(* Two properties are about operators that no step changes: one state will *)
(* do to check them.                                                       *)
AtStart == server = "loading" /\ disk.sig = 1

(* Whether a pattern allows a directory is what the pattern stands for     *)
(* (Covers): whole segments, * for one, ** for any number, and everything  *)
(* below.  A workspace is allowed only under a root whose prefix exists;   *)
(* the order of the roots matters only if the prefix of one is missing.    *)
(* workspace.py:11-74.                                                     *)
RootsPermit ==
    AtStart =>
        /\ \A pattern \in Patterns, path \in Paths : Matches(pattern, path) = Covers(pattern, path)
        /\ \A path \in DOMAIN Canonical, first, second \in Patterns :
            LET roots == {r \in {CanonicalPattern(first), CanonicalPattern(second)} : r # Nowhere}
                covered == \E r \in roots : Covers(r, Canonical[path]) IN
            /\ Allowed(path, <<first, second>>) => covered
            /\ CanonicalPattern(first) # Nowhere /\ CanonicalPattern(second) # Nowhere
                  => Allowed(path, <<first, second>>) = covered

Reversed(s) == [i \in DOMAIN s |-> s[Len(s) + 1 - i]]
Backwards(q) == [q EXCEPT !.inputs = Reversed(@),
                          !.selectors = [i \in DOMAIN @ |-> <<@[i][1], Reversed(@[i][2])>>]]
Given(inputs) == {x[1] : x \in SeqSet(inputs)}
Tokens(q) == UNION {SeqSet(x[2]) : x \in SeqSet(q.selectors)}

Honours(sel, q, conf) ==
    /\ sel.upstreams # {} \/ q.selectors = <<>>
    /\ (\E x \in SeqSet(q.selectors) : x[1] = "upstreams") =>
          \A t \in Tokens(q) : t[1] = "!" => t[2] \notin sel.upstreams
    /\ \A u \in sel.upstreams : conf[u].input = "required" => u \in DOMAIN sel.inputs
    /\ \A u \in DOMAIN sel.inputs :
        /\ u \in sel.upstreams /\ \E t \in Tokens(q) : t[2] = u
        /\ \E x \in SeqSet(q.inputs) :
            x[1] \in SeqSet(conf[u].sources) /\ Canonical[x[2]] = sel.inputs[u]
        /\ \E root \in SeqSet(conf[u].roots) : Covers(CanonicalPattern(root), sel.inputs[u])
    /\ \A s \in Given(q.inputs) : \E u \in sel.upstreams : s \in SeqSet(conf[u].sources)

(* A query is either refused or selects what it says, whatever the order   *)
(* of its tokens and inputs: an excluded upstream is out even if it is     *)
(* named too, a workspace reaches only upstreams that were named and that  *)
(* list its source, it is canonical and below a root of each of them, and  *)
(* no given workspace is left without an upstream that asks for it.        *)
(* selection.py:49-212, README.md:35,402.                                  *)
SelectionFailsClosed ==
    AtStart => \A p \in DOMAIN Profiles, q \in Asked :
        LET sel == ParseSelection(q, Upstreams(p)) IN
        /\ sel = ParseSelection(Backwards(q), Upstreams(p))
        /\ sel # Rejected => Honours(sel, q, Upstreams(p))

(* The requests of a session that reach the MCP server all carry the       *)
(* inputs the session was opened with, across every reload of the profile, *)
(* and each of them was allowed by the profile in force when it arrived,   *)
(* for an upstream that shares its process with nobody.                    *)
(* app.py:78-97, models.py:152-175.                                        *)
SessionInputsFixed ==
    /\ \A s \in Sessions :
        /\ Cardinality(session[s].served) <= 1
        /\ session[s].state = "open" => session[s].served = {session[s].inputs}
    /\ \A r \in Requests : request[r].pc = "handling" =>
        \A u \in DOMAIN request[r].inputs : LET upstream == Upstreams(request[r].under)[u] IN
            /\ ~upstream.shareable
            /\ \E root \in SeqSet(upstream.roots) : Covers(CanonicalPattern(root), request[r].inputs[u])

(* A shared worker that a reload has prepared is adopted or closed before  *)
(* the watcher waits again and before the server is down, however the      *)
(* reload ends and whenever the server is stopped.  broker.py:340-364.     *)
PreparedReleased == watch.pc \in {"waiting", "ended"} => watch.spare = {}

(* A reload makes ready to share only an upstream that asks for it, whose  *)
(* tools are the reviewed ones and whose process came up three times, and  *)
(* never one that works in the workspace of a session.  One whose tools    *)
(* change from start to start may be among them: only two of its starts    *)
(* are compared.                                                           *)
(* qualification.py:103-148, broker.py:343,136-148.                        *)
SharedReviewed ==
    \A u \in watch.spare : LET upstream == Upstreams(watch.next)[u] IN
        /\ upstream.shareable /\ upstream.qualifier = u /\ upstream.input = "none"
        /\ upstream.tools # "other" /\ upstream.start # "hangs"

(* The configuration in force may only be exchanged for one that differs   *)
(* in no field fixed at startup, and never once the watcher has taken its  *)
(* cancellation or the broker is closed.                                   *)
(* app.py:225-229, broker.py:305-322.                                      *)
AdoptsOnlyWhileServing ==
    [][cfg' # cfg => \/ server = "loading"
                     \/ /\ server \notin {"closing", "down"} /\ ~watch.cancelled
                        /\ Profiles[cfg'].startup = Profiles[cfg].startup]_vars

(* A profile that stays on disk, is valid, comes up and keeps the startup  *)
(* fields is in force in the end, provided that it was written after the   *)
(* signature was taken (app.py:121) and that the watcher does not hang:    *)
(* in a start of its own, or at _worker_lock, which a request holds while  *)
(* its worker starts (broker.py:276-296,364).  Neither start has a limit.  *)
(* app.py:165-203.                                                         *)
ComesUp == {p \in DOMAIN Profiles : Valid(Profiles[p]) /\ \A u \in DOMAIN Upstreams(p) :
               Upstreams(p)[u].start = "comes up" /\ (Strict => Verdicts(u, Upstreams(p)[u]) = {TRUE})}
Stuck ==
    \/ watch.pc \in Launching /\ InHand.start = "hangs"
    \/ watch.pc = "locking" /\ spawning
Hangs == <>[]Stuck

LastProfileAdopted ==
    \A p \in ComesUp :
        <>[](/\ server = "up" /\ disk.profile = p /\ disk.sig > created
             /\ Profiles[p].startup = Profiles[cfg].startup) => <>[](cfg = p) \/ Hangs

(* A reload that was asked for is not lost while the watcher is busy: the  *)
(* profile is read once more even if it looks the same, unless it is gone, *)
(* the server stops, or the watcher hangs for ever as above.               *)
(* app.py:168-178.                                                         *)
ReloadHonoured ==
    \/ requested ~> \/ watch.forced /\ (watch.pc = "read" \/ disk.profile = Missing)
                    \/ server # "up"
    \/ Hangs

(* A server that is stopped goes down, unless the watcher was starting an  *)
(* upstream: see ShutdownCompletes.  app.py:224-232.                       *)
ShutdownCompletesUnlessLaunching == (server = "cancelling" /\ watch.cancelled) ~> server = "down"

(* "Shutdown stops new work, bounds active-call draining" (IMPLEMENTATION) *)
(* says that a server that is stopped ends.  app.py:224-232.               *)
ShutdownCompletes == server = "cancelling" ~> server = "down"
=============================================================================
