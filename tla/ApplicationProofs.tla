------------------------- MODULE ApplicationProofs -------------------------
(***************************************************************************)
(* What the watcher of the profile does, for every profile, any number of  *)
(* edits, signals, sessions and requests: a reload adopts only what it may *)
(* adopt, and leaves no shared worker behind.                              *)
(***************************************************************************)
EXTENDS ApplicationProperties, TLAPS

-----------------------------------------------------------------------------
(* The inductive invariant *)

BeforeStart == {"loading", "creating", "created", "refused"}
Reloading == {"next", "qualifying", "locking", "discarding"} \union Launching
Quiet == {"off", "waiting", "stat", "read", "retiring", "ended"}

(* The watcher lives from the start of the lifespan to the closing of the  *)
(* broker, and one that is cancelled finishes nothing but its clean-up.    *)
Phases ==
    /\ server \in BeforeStart => watch.pc = "off"
    /\ server \in {"closing", "down"} => watch.pc = "ended"
    /\ watch.cancelled => watch.pc \in {"aborting", "ended"}

(* The profile a reload prepares can replace the one in force, which does  *)
(* not change meanwhile.                                                   *)
Comparable == watch.pc \in Reloading => Profiles[watch.next].startup = Profiles[cfg].startup

(* Spare workers exist only inside a reload.                               *)
SpareInReload == watch.pc \in Quiet => watch.spare = {}

Free(u) == Upstreams(watch.next)[u].input = "none"
Fit(u) == LET upstream == Upstreams(watch.next)[u] IN
    /\ upstream.shareable /\ upstream.qualifier = u /\ upstream.input = "none"
    /\ upstream.tools # "other" /\ upstream.start # "hangs"

(* What is prepared has passed the tests so far.                           *)
Tested ==
    /\ \A u \in watch.spare : Fit(u)
    /\ watch.pc \in Reloading => \A u \in watch.todo : Free(u)
    /\ watch.pc = "qualifying" => watch.key \in AllUpstreams /\ Free(watch.key) /\ InHand.shareable
    /\ watch.pc = "sharing" => watch.key \in AllUpstreams /\ Fit(watch.key)

Inv == TypeOK /\ Phases /\ Comparable /\ SpareInReload /\ Tested

-----------------------------------------------------------------------------
LEMMA InitInv == Init => Inv
<1> SUFFICES ASSUME Init PROVE Inv
  OBVIOUS
<1>1. TypeOK
  BY ProfileAssumption, BoundAssumption DEF Init, TypeOK, Asleep, Watch, ServerStates
<1>2. watch.pc = "off" /\ watch.spare = {} /\ watch.todo = {} /\ watch.cancelled = FALSE
  BY DEF Init, Asleep
<1> QED
  BY <1>1, <1>2 DEF Inv, Phases, Comparable, SpareInReload, Tested, Reloading, Launching, Init

(* What leaves the watcher, the configuration and the server alone.        *)
LEMMA Elsewhere ==
    ASSUME Inv, TypeOK', UNCHANGED <<watch, cfg, server>>
    PROVE  Inv'
  BY DEF Inv, Phases, Comparable, SpareInReload, Tested, Fit, Free, InHand, Upstreams

LEMMA EnvironmentInv ==
    ASSUME Inv,
           \/ \E p \in DOMAIN Profiles \union {Missing} : Edit(p)
           \/ Signal \/ Spawn \/ Spawned
           \/ \E r \in Requests, q \in Queries : Enter(r, q)
           \/ \E r \in Requests : Respond(r)
    PROVE  Inv' /\ UNCHANGED <<watch, cfg, server>>
<1>1. UNCHANGED <<watch, cfg, server, created>>
  BY DEF Edit, Signal, Spawn, Spawned, Enter, Respond
<1>2. disk' \in [profile : DOMAIN Profiles \union {Missing}, sig : 1 .. MaxEdits + 1]
  <2>1. CASE \E p \in DOMAIN Profiles \union {Missing} : Edit(p)
    BY <2>1, BoundAssumption DEF Inv, TypeOK, Edit
  <2>2. CASE disk' = disk
    BY <2>2 DEF Inv, TypeOK
  <2> QED
    BY <2>1, <2>2 DEF Signal, Spawn, Spawned, Enter, Respond
<1>3. TypeOK'
  BY <1>1, <1>2 DEF Inv, TypeOK
<1> QED
  BY <1>1, <1>3, Elsewhere

-----------------------------------------------------------------------------
(* The start of a server, and its end *)

LEMMA LoadInv == ASSUME Inv, Load PROVE Inv'
<1>1. watch.pc = "off" /\ UNCHANGED <<watch, disk, created>>
  BY DEF Inv, Phases, BeforeStart, Load
<1>2. cfg' \in DOMAIN Profiles /\ server' \in {"creating", "refused"}
  BY DEF Inv, TypeOK, Load
<1>3. watch.pc \notin Reloading \union {"qualifying", "sharing"} /\ ~watch.cancelled
  BY <1>1 DEF Inv, Phases, Reloading, Launching
<1> QED
  BY <1>1, <1>2, <1>3 DEF Inv, TypeOK, Phases, Comparable, SpareInReload, Tested, Fit, Upstreams,
     BeforeStart, ServerStates

LEMMA CreateInv == ASSUME Inv, Create PROVE Inv'
<1>1. UNCHANGED <<watch, disk, cfg>> /\ server = "creating" /\ server' = "created"
  BY DEF Create
<1>2. created' \in 0 .. MaxEdits + 1
  BY BoundAssumption DEF Create, Inv, TypeOK
<1> QED
  BY <1>1, <1>2 DEF Inv, TypeOK, Phases, Comparable, SpareInReload, Tested, Fit, Free, InHand, Upstreams,
     BeforeStart, ServerStates

LEMMA StartupInv == ASSUME Inv, Startup PROVE Inv'
<1>1. watch.pc = "off" /\ ~watch.cancelled /\ watch.spare = {}
  BY DEF Inv, Phases, BeforeStart, Startup, SpareInReload, Quiet
<1>2. watch' = [watch EXCEPT !.pc = "waiting", !.sig = created] /\ server' = "up" /\ UNCHANGED <<disk, cfg, created>>
  BY DEF Startup
<1>3. watch' \in Watch /\ watch'.pc = "waiting" /\ watch'.cancelled = watch.cancelled /\ watch'.spare = watch.spare
  BY <1>2 DEF Inv, TypeOK, Watch
<1> QED
  BY <1>1, <1>2, <1>3 DEF Inv, TypeOK, Phases, Comparable, SpareInReload, Tested, BeforeStart, ServerStates,
     Reloading, Launching

(* A cancelled watcher is at its end, or cleans up what it has prepared.   *)
LEMMA CancelInv == ASSUME Inv, WatcherCancelled PROVE Inv'
<1>1. /\ watch' \in Watch /\ server' = "cancelling" /\ UNCHANGED <<disk, cfg, created>>
      /\ UNCHANGED <<watch.spare, watch.next>>
      /\ watch'.pc \in {"aborting", "ended"}
  BY DEF WatcherCancelled, CancelWatcher, Inv, TypeOK, Watch, Launching
<1>2. watch'.pc = "ended" => watch.pc \in {"off", "waiting", "retiring", "ended"}
  BY DEF WatcherCancelled, CancelWatcher, LoopFree, Inv, TypeOK, Watch, Launching
<1> QED
  BY <1>1, <1>2, SMTT(40) DEF Inv, TypeOK, Phases, Comparable, SpareInReload, Tested, BeforeStart, ServerStates, Quiet,
     Reloading, Launching, Fit, Upstreams

LEMMA EndInv ==
    ASSUME Inv, ShutdownBegins \/ BrokerCloses \/ BrokerClosed
    PROVE  Inv' /\ UNCHANGED cfg
<1>1. UNCHANGED <<watch, disk, cfg, created>> /\ server' \in {"draining", "closing", "down"}
  BY DEF ShutdownBegins, BrokerCloses, BrokerClosed
<1>2. server' \in {"closing", "down"} => watch.pc = "ended"
  BY DEF ShutdownBegins, BrokerCloses, BrokerClosed, Inv, Phases
<1> QED
  BY <1>1, <1>2 DEF Inv, TypeOK, Phases, Comparable, SpareInReload, Tested, Fit, Free, InHand, Upstreams,
     BeforeStart, ServerStates

-----------------------------------------------------------------------------
(* The steps of the watcher *)

(* A step of the watcher outside a reload, or back to the wait.            *)
LEMMA QuietInv ==
    ASSUME Inv, UNCHANGED <<disk, server, created, cfg>>, watch' \in Watch,
           server \notin BeforeStart, server \notin {"closing", "down"},
           watch'.spare = {}, ~watch'.cancelled, watch'.pc \in Quiet
    PROVE  Inv'
<1>1. TypeOK'
  BY DEF Inv, TypeOK
<1>2. Phases'
  BY DEF Phases
<1>3. Comparable' /\ SpareInReload' /\ Tested'
  BY DEF Comparable, SpareInReload, Tested, Reloading, Launching, Quiet
<1> QED
  BY <1>1, <1>2, <1>3 DEF Inv

LEMMA PollInv == ASSUME Inv, Polls \/ Woken \/ Stat PROVE Inv' /\ UNCHANGED cfg
<1>1. /\ UNCHANGED <<disk, server, created, cfg>>
      /\ watch' \in Watch /\ UNCHANGED <<watch.spare, watch.cancelled>>
      /\ watch.pc \in {"waiting", "stat"} /\ watch'.pc \in {"waiting", "stat", "read"}
  <2>1. CASE Polls
    BY <2>1 DEF Polls, Watcher, Rest, Inv, TypeOK, Watch
  <2>2. CASE Woken
    BY <2>2 DEF Woken, Watcher, Rest, Inv, TypeOK, Watch
  <2>3. CASE Stat
    <3> DEFINE sig == IF disk.profile = Missing THEN 0 ELSE disk.sig
    <3>1. sig \in 0 .. MaxEdits + 1
      BY BoundAssumption DEF Inv, TypeOK
    <3>2. /\ UNCHANGED <<disk, server, created, cfg>> /\ watch.pc = "stat"
          /\ \E pc \in {"waiting", "read"} : watch' = [watch EXCEPT !.sig = sig, !.pc = pc]
      BY <2>3 DEF Stat, Watcher, Rest
    <3> QED
      BY <3>1, <3>2, ZenonT(60) DEF Inv, TypeOK, Watch
  <2> QED
    BY <2>1, <2>2, <2>3
<1>2. /\ watch.spare = {} /\ ~watch.cancelled
      /\ server \notin BeforeStart /\ server \notin {"closing", "down"}
  BY <1>1 DEF Inv, SpareInReload, Phases, Quiet
<1> QED
  BY <1>1, <1>2, QuietInv DEF Quiet

LEMMA ReadInv == ASSUME Inv, Read PROVE Inv' /\ UNCHANGED cfg
<1>1. /\ UNCHANGED <<disk, server, created, cfg>> /\ watch.pc = "read"
  BY DEF Read, Watcher, Rest
<1>2. /\ watch.spare = {} /\ ~watch.cancelled
      /\ server \notin BeforeStart /\ server \notin {"closing", "down"}
  BY <1>1 DEF Inv, SpareInReload, Phases, Quiet
<1>3. CASE watch' = [watch EXCEPT !.pc = "waiting"]
  <2>1. watch' \in Watch /\ UNCHANGED <<watch.spare, watch.cancelled>> /\ watch'.pc = "waiting"
    BY <1>3 DEF Inv, TypeOK, Watch
  <2> QED
    BY <1>1, <1>2, <2>1, QuietInv DEF Quiet
<1>4. ASSUME NEW p, p = disk.profile, Accept(p), NEW active \in SUBSET Changed(p),
             watch' = [watch EXCEPT !.pc = "next", !.next = p,
                           !.todo = {u \in active : Upstreams(p)[u].input = "none"}]
      PROVE  Inv'
  <2>1. p \in DOMAIN Profiles /\ Profiles[p].startup = Profiles[cfg].startup
    BY <1>4 DEF Accept, Inv, TypeOK
  <2>2. active \subseteq AllUpstreams
    BY <2>1 DEF Changed, AllUpstreams
  <2>3. /\ watch' \in Watch /\ watch'.pc = "next" /\ watch'.next = p /\ watch'.spare = {} /\ ~watch'.cancelled
        /\ watch'.todo = {u \in active : Upstreams(p)[u].input = "none"}
    BY <1>2, <1>4, <2>1, <2>2 DEF Inv, TypeOK, Watch
  <2>4. Tested'
    BY <2>3 DEF Tested, Free, Upstreams
  <2> QED
    BY <1>1, <1>2, <2>1, <2>3, <2>4 DEF Inv, TypeOK, Phases, Comparable, SpareInReload, Quiet
<1> QED
  BY <1>1, <1>3, <1>4 DEF Read, Watcher

(* A step inside a reload.                                                 *)
LEMMA InsideInv ==
    ASSUME Inv, UNCHANGED <<disk, server, created, cfg>>, watch' \in Watch,
           watch.pc \in Reloading, watch'.pc \in Reloading \union {"aborting"},
           UNCHANGED <<watch.next, watch.cancelled>>, Tested'
    PROVE  Inv'
<1>1. TypeOK'
  BY DEF Inv, TypeOK
<1>2. watch.pc \notin {"off", "ended", "aborting"}
  BY DEF Reloading, Launching
<1>3. Phases'
  BY <1>2 DEF Inv, Phases
<1>4. Comparable' /\ SpareInReload'
  BY DEF Inv, Comparable, SpareInReload, Reloading, Launching, Quiet
<1> QED
  BY <1>1, <1>3, <1>4 DEF Inv

LEMMA PrepareInv == ASSUME Inv, NEW u \in AllUpstreams, Prepare(u) PROVE Inv' /\ UNCHANGED cfg
<1>1. /\ UNCHANGED <<disk, server, created, cfg>> /\ watch.pc = "next" /\ u \in watch.todo
      /\ watch' = [watch EXCEPT !.key = u, !.todo = @ \ {u},
                      !.pc = IF Upstreams(watch.next)[u].shareable THEN "qualifying" ELSE "probing"]
  BY DEF Prepare, Watcher, Rest
<1>2. PICK pc \in {"qualifying", "probing"} :
        /\ watch' = [watch EXCEPT !.key = u, !.todo = @ \ {u}, !.pc = pc]
        /\ pc = "qualifying" => Upstreams(watch.next)[u].shareable
  <2>1. CASE Upstreams(watch.next)[u].shareable
    BY <1>1, <2>1, Zenon
  <2>2. CASE ~Upstreams(watch.next)[u].shareable
    BY <1>1, <2>2
  <2> QED
    BY <2>1, <2>2
<1>3. /\ watch' \in Watch /\ UNCHANGED <<watch.next, watch.cancelled, watch.spare>>
      /\ watch'.key = u /\ watch'.todo = watch.todo \ {u} /\ watch'.pc = pc
  BY <1>2 DEF Inv, TypeOK, Watch, Launching
<1>4. Free(u) /\ \A v \in watch.todo : Free(v)
  BY <1>1 DEF Inv, Tested, Reloading
<1>5. Tested'
  BY <1>2, <1>3, <1>4, SMTT(40) DEF Inv, Tested, Fit, Free, InHand, Upstreams
<1> QED
  BY <1>1, <1>3, <1>5, InsideInv DEF Reloading, Launching

LEMMA AdmittedFit ==
    ASSUME NEW key, NEW upstream, TRUE \in Verdicts(key, upstream)
    PROVE  upstream.qualifier = key /\ upstream.tools # "other" /\ upstream.start # "hangs"
<1>1. PICK first, second, again \in StartOnce(upstream), stable \in StableSchema(upstream) :
        upstream.qualifier = key /\ first /\ second /\ again /\ stable /\ upstream.tools # "other"
  BY DEF Verdicts
<1>2. upstream.qualifier = key /\ first /\ upstream.tools # "other"
  BY <1>1
<1>3. upstream.start # "hangs"
  BY <1>2 DEF StartOnce
<1> QED
  BY <1>2, <1>3

LEMMA QualifiedInv == ASSUME Inv, Qualified PROVE Inv' /\ UNCHANGED cfg
<1>1. /\ UNCHANGED <<disk, server, created, cfg>> /\ watch.pc = "qualifying"
  BY DEF Qualified, Rest
<1>2. PICK admitted \in Verdicts(watch.key, InHand) :
        watch' = [watch EXCEPT !.pc = IF admitted THEN "sharing" ELSE IF Strict THEN "aborting" ELSE "probing"]
  BY DEF Qualified
<1>3. /\ watch' \in Watch /\ UNCHANGED <<watch.next, watch.cancelled, watch.spare, watch.key, watch.todo>>
      /\ watch'.pc \in {"sharing", "aborting", "probing"}
      /\ watch'.pc = "sharing" => admitted
  BY <1>2 DEF Inv, TypeOK, Watch, Launching
<1>4. watch'.pc = "sharing" => Fit(watch.key)
  <2> SUFFICES ASSUME watch'.pc = "sharing" PROVE Fit(watch.key)
    OBVIOUS
  <2>1. admitted \in BOOLEAN
    BY DEF Verdicts
  <2>2. TRUE \in Verdicts(watch.key, InHand)
    BY <1>2, <1>3, <2>1
  <2>3. InHand.qualifier = watch.key /\ InHand.tools # "other" /\ InHand.start # "hangs"
    BY <2>2, AdmittedFit
  <2>4. InHand.shareable /\ InHand.input = "none"
    BY <1>1 DEF Inv, Tested, Free, InHand
  <2> QED
    BY <2>3, <2>4 DEF Fit, InHand
<1>5. Tested'
  BY <1>1, <1>3, <1>4, SMTT(40) DEF Inv, Tested, Fit, Free, Upstreams, Reloading
<1> QED
  BY <1>1, <1>3, <1>5, InsideInv DEF Reloading, Launching

LEMMA LaunchedInv == ASSUME Inv, Launched PROVE Inv' /\ UNCHANGED cfg
<1>1. /\ UNCHANGED <<disk, server, created, cfg>> /\ watch.pc \in Launching
  BY DEF Launched, Rest
<1>2. CASE watch.pc = "sharing" /\ watch' = [watch EXCEPT !.pc = "next", !.spare = @ \union {watch.key}, !.key = None]
  <2>1. watch.key \in AllUpstreams /\ Fit(watch.key)
    BY <1>2 DEF Inv, Tested
  <2>2. /\ watch' \in Watch /\ UNCHANGED <<watch.next, watch.cancelled, watch.todo>>
        /\ watch'.pc = "next" /\ watch'.spare = watch.spare \union {watch.key}
    BY <1>2, <2>1 DEF Inv, TypeOK, Watch
  <2>3. /\ \A u \in watch'.spare : Fit(u)
        /\ \A u \in watch.todo : Free(u)
    BY <1>2, <2>1, <2>2 DEF Inv, Tested, Reloading, Launching
  <2>4. Tested'
    BY <2>2, <2>3 DEF Tested, Fit, Free, Upstreams
  <2> QED
    BY <1>1, <2>2, <2>4, InsideInv DEF Reloading
<1>3. CASE watch.pc = "probing" /\ watch' = [watch EXCEPT !.pc = "discarding"]
  <2>1. watch' \in Watch /\ UNCHANGED <<watch.next, watch.cancelled, watch.todo, watch.spare>> /\ watch'.pc = "discarding"
    BY <1>3 DEF Inv, TypeOK, Watch
  <2>2. Tested'
    BY <1>3, <2>1 DEF Inv, Tested, Fit, Free, Upstreams, Reloading, Launching
  <2> QED
    BY <1>1, <2>1, <2>2, InsideInv DEF Reloading
<1> QED
  BY <1>1, <1>2, <1>3 DEF Launched, Watcher

LEMMA LaunchFailsInv == ASSUME Inv, LaunchFails PROVE Inv' /\ UNCHANGED cfg
<1>1. /\ UNCHANGED <<disk, server, created, cfg>> /\ watch.pc \in Launching
      /\ watch' = [watch EXCEPT !.pc = "aborting"]
  BY DEF LaunchFails, Rest
<1>2. watch' \in Watch /\ UNCHANGED <<watch.next, watch.cancelled, watch.spare>> /\ watch'.pc = "aborting"
  BY <1>1 DEF Inv, TypeOK, Watch
<1>3. Tested'
  BY <1>2 DEF Inv, Tested, Fit, Upstreams, Reloading, Launching
<1> QED
  BY <1>1, <1>2, <1>3, InsideInv DEF Reloading

LEMMA DiscardedInv == ASSUME Inv, Discarded \/ WaitForLock PROVE Inv' /\ UNCHANGED cfg
<1>1. /\ UNCHANGED <<disk, server, created, cfg>> /\ watch.pc \in {"discarding", "next"}
      /\ watch'\in Watch /\ watch'.pc \in {"next", "locking"}
      /\ UNCHANGED <<watch.next, watch.cancelled, watch.spare, watch.todo>>
  BY ZenonT(60) DEF Discarded, WaitForLock, Watcher, Rest, Inv, TypeOK, Watch
<1>2. Tested'
  BY <1>1, SMTT(40) DEF Inv, Tested, Fit, Free, Upstreams, Reloading, Launching
<1> QED
  BY <1>1, <1>2, InsideInv DEF Reloading

(* What is prepared is closed before the watcher goes on or ends.          *)
LEMMA AbortedInv == ASSUME Inv, Aborted PROVE Inv' /\ UNCHANGED cfg
<1>1. PICK pc \in {"ended", "waiting"} :
        /\ UNCHANGED <<disk, server, created, cfg>> /\ watch.pc = "aborting"
        /\ watch' = [watch EXCEPT !.pc = pc, !.todo = {}, !.key = None, !.spare = {}]
        /\ watch.cancelled => pc = "ended"
  <2>1. watch.cancelled \in BOOLEAN
    BY DEF Inv, TypeOK, Watch
  <2>2. CASE watch.cancelled
    BY <2>2 DEF Aborted, Watcher, Rest
  <2>3. CASE ~watch.cancelled
    BY <2>3 DEF Aborted, Watcher, Rest
  <2> QED
    BY <2>1, <2>2, <2>3
<1>2. /\ watch' \in Watch /\ UNCHANGED watch.cancelled /\ watch'.pc = pc /\ watch'.spare = {}
  BY <1>1 DEF Inv, TypeOK, Watch
<1>3. Phases'
  BY <1>1, <1>2 DEF Inv, Phases
<1>4. TypeOK' /\ Comparable' /\ SpareInReload' /\ Tested'
  BY <1>1, <1>2 DEF Inv, TypeOK, Comparable, SpareInReload, Tested, Reloading, Launching
<1> QED
  BY <1>1, <1>3, <1>4 DEF Inv

(* The only other step that changes the configuration in force.            *)
LEMMA CommitInv ==
    ASSUME Inv, Commit
    PROVE  Inv' /\ /\ server \notin {"closing", "down"} /\ ~watch.cancelled
                   /\ Profiles[cfg'].startup = Profiles[cfg].startup
<1>1. /\ UNCHANGED <<disk, server, created>> /\ watch.pc \in {"next", "locking"}
      /\ cfg' = watch.next /\ watch' = [watch EXCEPT !.pc = "retiring", !.spare = {}]
  BY DEF Commit, Rest
<1>2. /\ watch' \in Watch /\ UNCHANGED watch.cancelled /\ watch'.pc = "retiring" /\ watch'.spare = {}
      /\ cfg' \in DOMAIN Profiles
  BY <1>1 DEF Inv, TypeOK, Watch
<1>3. server \notin {"closing", "down"} \union BeforeStart /\ ~watch.cancelled
  BY <1>1 DEF Inv, Phases
<1>4. Profiles[cfg'].startup = Profiles[cfg].startup
  BY <1>1 DEF Inv, Comparable, Reloading
<1>5. TypeOK' /\ Phases'
  BY <1>1, <1>2, <1>3 DEF Inv, TypeOK, Phases
<1>6. Comparable' /\ SpareInReload' /\ Tested'
  BY <1>2 DEF Comparable, SpareInReload, Tested, Reloading, Launching
<1> QED
  BY <1>3, <1>4, <1>5, <1>6 DEF Inv

LEMMA RetiredInv == ASSUME Inv, Retired PROVE Inv' /\ UNCHANGED cfg
<1>1. /\ UNCHANGED <<disk, server, created, cfg>> /\ watch.pc = "retiring"
      /\ watch' = [watch EXCEPT !.pc = "waiting"]
  BY DEF Retired, Watcher, Rest
<1>2. watch' \in Watch /\ UNCHANGED <<watch.spare, watch.cancelled>> /\ watch'.pc = "waiting"
  BY <1>1 DEF Inv, TypeOK, Watch
<1>3. /\ watch.spare = {} /\ ~watch.cancelled
      /\ server \notin BeforeStart /\ server \notin {"closing", "down"}
  BY <1>1 DEF Inv, SpareInReload, Phases, Quiet
<1> QED
  BY <1>1, <1>2, <1>3, QuietInv DEF Quiet

-----------------------------------------------------------------------------
(* Every step *)

(* What a step may do to the configuration in force.                       *)
Adopts == cfg' # cfg => \/ server = "loading"
                        \/ /\ server \notin {"closing", "down"} /\ ~watch.cancelled
                           /\ Profiles[cfg'].startup = Profiles[cfg].startup

LEMMA StepInv == ASSUME Inv, [Next]_vars PROVE Inv' /\ Adopts
<1>1. CASE \/ \E p \in DOMAIN Profiles \union {Missing} : Edit(p)
           \/ Signal \/ Spawn \/ Spawned
           \/ \E r \in Requests, q \in Queries : Enter(r, q)
           \/ \E r \in Requests : Respond(r)
  BY <1>1, EnvironmentInv DEF Adopts
<1>2. CASE Load
  BY <1>2, LoadInv DEF Load, Adopts
<1>3. CASE Create \/ Startup \/ WatcherCancelled
  BY <1>3, CreateInv, StartupInv, CancelInv DEF Create, Startup, WatcherCancelled, CancelWatcher, Adopts
<1>4. CASE ShutdownBegins \/ BrokerCloses \/ BrokerClosed
  BY <1>4, EndInv DEF Adopts
<1>5. CASE Polls \/ Woken \/ Stat \/ Read
  BY <1>5, PollInv, ReadInv DEF Adopts
<1>6. CASE Reload
  BY <1>6, PrepareInv, QualifiedInv, LaunchedInv, LaunchFailsInv, DiscardedInv, AbortedInv, RetiredInv
  DEF Reload, Adopts
<1>7. CASE Commit
  BY <1>7, CommitInv DEF Adopts
<1>8. CASE UNCHANGED vars
  <2>1. UNCHANGED <<disk, created, watch, cfg, server>>
    BY <1>8 DEF vars
  <2>2. TypeOK'
    BY <2>1 DEF Inv, TypeOK
  <2> QED
    BY <2>1, <2>2, Elsewhere DEF Adopts
<1> QED
  BY <1>1, <1>2, <1>3, <1>4, <1>5, <1>6, <1>7, <1>8 DEF Next

(* The invariant holds in every reachable state.                           *)
THEOREM WatcherInvariant == Spec => []Inv
<1>1. Inv /\ [Next]_vars => Inv'
  BY StepInv
<1> QED
  BY <1>1, InitInv, PTL DEF Spec

(* The watcher and what it works on keep their types: among others, the    *)
(* configuration in force stems from a profile that was there to be read,  *)
(* and what a reload prepares is an upstream of one.                       *)
THEOREM TypeCorrect == Spec => []TypeOK
<1>1. Inv => TypeOK
  BY DEF Inv
<1> QED
  BY <1>1, WatcherInvariant, PTL

(* A shared worker that a reload has prepared is adopted or closed before  *)
(* the watcher waits again or ends, whatever the profiles say and whenever *)
(* the server is stopped.                                                  *)
THEOREM PreparedReleasedAlways == Spec => []PreparedReleased
<1>1. Inv => PreparedReleased
  BY DEF Inv, SpareInReload, Quiet, PreparedReleased
<1> QED
  BY <1>1, WatcherInvariant, PTL

(* A reload makes ready to share only reviewed, shareable upstreams that   *)
(* take no inputs and whose process has come up.                           *)
THEOREM SharedReviewedAlways == Spec => []SharedReviewed
<1>1. Inv => SharedReviewed
  BY DEF Inv, Tested, Fit, SharedReviewed
<1> QED
  BY <1>1, WatcherInvariant, PTL

(* The configuration in force is exchanged only for one with the same      *)
(* startup fields, never after the watcher was cancelled and never once    *)
(* the broker is closed.                                                   *)
THEOREM AdoptsOnlyWhileServingAlways == Spec => AdoptsOnlyWhileServing
<1>1. Inv /\ [Next]_vars => [Adopts]_vars
  BY StepInv
<1>2. [Adopts]_vars => [cfg' # cfg => \/ server = "loading"
                     \/ /\ server \notin {"closing", "down"} /\ ~watch.cancelled
                        /\ Profiles[cfg'].startup = Profiles[cfg].startup]_vars
  BY DEF Adopts
<1> QED
  BY <1>1, <1>2, WatcherInvariant, PTL DEF Spec, AdoptsOnlyWhileServing
=============================================================================
