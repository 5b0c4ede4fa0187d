-------------------------- MODULE BrokerInduction --------------------------
(***************************************************************************)
(* The inductive invariant of the Broker, for any number of upstreams,     *)
(* requests, sessions, workers and reloads: who holds which worker, and    *)
(* what the tables may hold.                                               *)
(*                                                                         *)
(* An action is taken apart twice.  What it does to the tables decides     *)
(* which general lemma shows that the parts of Inv survive: Narrowing when *)
(* the tables only lose workers that have been stopped, Launching when a   *)
(* worker is started, Calling when one gets a call; Return, Spawned and    *)
(* Commit, which put workers into the tables, have a proof of their own.   *)
(* What it does to the process is Becomes or Leaves.                       *)
(***************************************************************************)
EXTENDS BrokerProperties, TLAPS

-----------------------------------------------------------------------------
(* The inductive invariant *)

Up == {"starting", "running"}
Awaiting == {"starting", "spawning"}    \* start() of the worker in hand is under way
Keyed == PreparePcs \union {"activate", "queued", "route", "lockWait", "select",
                            "spawning", "calling", "failing", "degrading"}
Handed == Awaiting \union {"discarding", "aborting", "calling", "degrading"}
Away == {"idle", "done", "cancelled"}
ReloadPcs == PreparePcs \union {"idle", "next", "commitWait", "retiring"}

(* What the record P of process p needs where it is.                       *)
Placed(p, P) ==
    /\ P.pc \in Keyed => P.key \in Keys
    /\ P.pc \in Handed => P.hand \in Workers
    /\ P.pc \in PreparePcs => P.ver # 0
    /\ P.pc \in PreparePcs /\ (P.pc = "qualifying" \/ P.qual = "admitted") => IsShareable(P.key, P.ver)
    /\ IF p = Reloader THEN P.pc \in ReloadPcs ELSE P.pc \notin {"next", "commitWait", "retiring"}
Places == \A p \in Procs : Placed(p, proc[p])

(* A start under way has a worker of its own, made for it.                 *)
Holds(p) ==
    LET P == proc[p]
        W == worker[P.hand] IN
    /\ W.state = "starting" /\ W.key = P.key /\ W.ver = P.ver /\ W.ver # 0
    /\ P.pc = "starting" => W.mode = IF P.qual = "admitted" THEN "shared" ELSE "probe"
    /\ P.pc = "spawning" =>
          /\ W.mode \in {"shared", "isolated"} /\ W.ver = cfg[P.key]
          /\ W.mode = "isolated" /\ TakesInputs(W.key, W.ver) => W.inputs = InputsOf(p, P.key)
Hands ==
    /\ \A p \in Procs : proc[p].pc \in Awaiting => Holds(p)
    /\ \A p, q \in Procs :
          proc[p].pc \in Awaiting /\ proc[q].pc \in Awaiting /\ proc[p].hand = proc[q].hand => p = q

(* What the tables hold.                                                   *)
SharedOf(w, k) ==
    /\ worker[w].state \notin {"unused", "starting"}
    /\ worker[w].mode = "shared" /\ worker[w].key = k /\ worker[w].ver # 0
IsolatedOf(w, i) ==
    /\ worker[w].state \notin {"unused", "starting"}
    /\ worker[w].mode = "isolated" /\ worker[w].key = i[2]
    /\ TakesInputs(worker[w].key, worker[w].ver) => worker[w].inputs = i[3]
    /\ worker[w].ver # 0 /\ worker[w].ver = cfg[i[2]]
    /\ \A s \in worker[w].users : address[s] # None => address[s] = i[1]
Entries ==
    \A k \in Keys :
        /\ entry[k].qualified # "none" => entry[k].tools # 0
        /\ entry[k].shared # None => entry[k].tools # 0 /\ SharedOf(entry[k].shared, k)
        /\ entry[k].qualified = "admitted" /\ entry[k].lock = 0 => IsShareable(k, entry[k].tools)
Isolates ==
    /\ \A i \in Instances : isolated[i] # None => IsolatedOf(isolated[i], i)
    /\ \A i, j \in Instances : isolated[i] # None /\ isolated[i] = isolated[j] => i = j

(* A reload prepares upstreams that have changed and are not dormant; they *)
(* stay so until it commits.                                               *)
Ready(x) ==
    /\ x.key \in Changed(reload.config) \ reload.todo /\ x.ver = reload.config[x.key]
    /\ entry[x.key].tools # 0
    /\ x.qual = "admitted" => IsShareable(x.key, x.ver)
    /\ x.hand # None => SharedOf(x.hand, x.key) /\ worker[x.hand].ver = x.ver
Preparing(P) ==
    P.pc \in PreparePcs =>
        P.key \in reload.todo /\ P.ver = reload.config[P.key] /\ entry[P.key].tools # 0
Reloading ==
    /\ proc[Reloader].pc \in {"idle", "retiring"} => reload.prepared = {}
    /\ proc[Reloader].pc \notin {"idle", "retiring"} => reload.todo \subseteq Changed(reload.config)
    /\ Preparing(proc[Reloader])
    /\ \A x \in reload.prepared : Ready(x)
    /\ \A x, y \in reload.prepared : x.key = y.key => x = y

(* An activation lock is held by one request.  While it is the one in the  *)
(* table, its upstream is dormant.                                         *)
Activations ==
    /\ \A r \in Requests : proc[r].pc \in PreparePcs \union {"activate", "queued"}
          => proc[r].lock <= entry[proc[r].key].lock
    /\ \A r \in Requests : proc[r].pc \in PreparePcs /\ entry[proc[r].key].lock = 0
          => entry[proc[r].key].tools = 0
    /\ \A q, r \in Requests :
          /\ proc[q].pc \in PreparePcs /\ proc[r].pc \in PreparePcs
          /\ proc[q].key = proc[r].key /\ proc[q].lock = proc[r].lock
          => q = r

(* The worker lock is held by one request, and the place in the table its  *)
(* worker is meant for stays free.                                         *)
Vacant(r) ==
    LET k == proc[r].key
        sh == entry[k].shared
        iso == isolated[Instance(r)] IN
    IF worker[proc[r].hand].mode = "shared"
    THEN /\ entry[k].tools # 0
         /\ entry[k].lock = 0 /\ sh # None => worker[sh].state \notin Up
    ELSE iso # None => worker[iso].state \notin Up
Spawns ==
    /\ \A q, r \in Requests :
          proc[q].pc = "spawning" /\ proc[r].pc \in {"spawning", "select"} => q = r
    /\ \A r \in Requests : proc[r].pc = "spawning" => Vacant(r)

(* A request belongs to an open session; what is open has its own address. *)
Addressed ==
    /\ \A r \in Requests : proc[r].pc \notin Away => address[SessionOf[r]] # None
    /\ \A s, t \in Sessions : address[s] # None /\ address[s] = address[t] => s = t
    /\ \A w \in Workers : \A s \in worker[w].users : address[s] # None \/ s \in ended

Inv ==
    /\ TypeOK /\ Places /\ Hands /\ Entries /\ Isolates /\ Reloading
    /\ Activations /\ Spawns /\ Addressed /\ IsolatedPrivate /\ NoStrayWorker

-----------------------------------------------------------------------------
LEMMA InitInv == Init => Inv
<1> SUFFICES ASSUME Init PROVE Inv
  OBVIOUS
<1>1. \A p \in Procs : proc[p] = Fresh("idle", None)
  BY DEF Init
<1>2. /\ \A k \in Keys : entry[k].tools = 0 /\ entry[k].qualified = "none" /\ entry[k].shared = None
      /\ \A i \in Instances : isolated[i] = None
      /\ \A w \in Workers : worker[w].state = "unused" /\ worker[w].users = {} /\ worker[w].mode = "none"
      /\ \A s \in Sessions : address[s] = None
      /\ reload.prepared = {}
  BY DEF Init
<1>3. \A k \in Keys : entry[k] \in Entry
  BY BoundAssumption DEF Init, Entry
<1>4. Fresh("idle", None) \in Proc
  BY DEF Fresh, Proc, OtherPcs
<1>5. TypeOK
  BY <1>1, <1>3, <1>4, ConfigAssumption DEF Init, TypeOK, Worker
<1>6. \A p \in Procs : proc[p].pc = "idle"
  BY <1>1 DEF Fresh
<1>7. Places /\ Hands
  BY <1>6 DEF Places, Placed, Hands, Keyed, Handed, Awaiting, PreparePcs, ReloadPcs
<1>8. Reloading /\ Activations /\ Spawns /\ Addressed
  BY <1>2, <1>6 DEF Reloading, Preparing, Activations, Spawns, Addressed, Away, Procs, PreparePcs
<1>9. Entries /\ Isolates /\ IsolatedPrivate /\ NoStrayWorker
  BY <1>2 DEF Entries, Isolates, IsolatedPrivate, NoStrayWorker
<1> QED
  BY <1>5, <1>7, <1>8, <1>9 DEF Inv

-----------------------------------------------------------------------------
(* Steps that leave the tables alone *)

(* What becomes of a worker that the step neither starts nor calls.        *)
Subsides(w) ==
    /\ worker'[w].key = worker[w].key /\ worker'[w].ver = worker[w].ver
    /\ worker'[w].mode = worker[w].mode /\ worker'[w].inputs = worker[w].inputs
    /\ worker'[w].users \subseteq worker[w].users
    /\ \/ worker'[w].state = worker[w].state
       \/ worker[w].state # "unused" /\ worker'[w].state \in {"exiting", "stopping", "stopped"}

LEMMA Subsiding ==
    ASSUME TypeOK, \A w \in Workers : Subsides(w), UNCHANGED <<cfg, address>>
    PROVE  /\ \A w \in Workers, k \in Keys : SharedOf(w, k) => SharedOf(w, k)'
           /\ \A w \in Workers, i \in Instances : IsolatedOf(w, i) => IsolatedOf(w, i)'
           /\ \A w \in Workers : worker'[w].state \in Up => worker[w].state \in Up
           /\ IsolatedPrivate => IsolatedPrivate'
<1>1. \A w \in Workers, k \in Keys : SharedOf(w, k) => SharedOf(w, k)'
  BY DEF Subsides, SharedOf
<1>2. \A w \in Workers, i \in Instances : IsolatedOf(w, i) => IsolatedOf(w, i)'
  BY DEF Subsides, IsolatedOf
<1>3. \A w \in Workers : worker'[w].state \in Up => worker[w].state \in Up
  BY DEF Subsides, Up
<1>4. IsolatedPrivate => IsolatedPrivate'
  BY DEF Subsides, IsolatedPrivate
<1> QED
  BY <1>1, <1>2, <1>3, <1>4

(* Who may prepare an upstream: the reloader, with what it is given, and   *)
(* the one request that has the activation lock.                           *)
MayPrepare(p, P) ==
    IF p = Reloader
    THEN Preparing(P)
    ELSE /\ P.lock <= entry[P.key].lock
         /\ entry[P.key].lock = 0 => entry[P.key].tools = 0
         /\ \A r \in Requests \ {p} :
               proc[r].pc \in PreparePcs => proc[r].key # P.key \/ proc[r].lock # P.lock

(* What has to be so when process p goes on with the record P; a reload    *)
(* neither begins nor ends with Becomes.                                   *)
Goes(p, P) ==
    /\ Placed(p, P)
    /\ p \in Requests =>
          /\ P.pc \in PreparePcs => MayPrepare(p, P)
          /\ P.pc \notin Away => address[SessionOf[p]] # None
          /\ P.pc \in {"activate", "queued"} => P.lock <= entry[P.key].lock
          /\ P.pc = "select" => WorkerLockFree
Becomes(p, P) ==
    /\ Goes(p, P)
    /\ p = Reloader =>
          /\ Preparing(P)
          /\ P.pc \notin {"idle", "retiring"} /\ proc[p].pc \notin {"idle", "retiring"}

LEMMA StillPreparing ==
    ASSUME Inv, NEW p \in Procs, proc[p].pc \in PreparePcs, NEW P,
           P.pc \in PreparePcs, P.key = proc[p].key, P.ver = proc[p].ver, P.lock = proc[p].lock
    PROVE  MayPrepare(p, P)
BY DEF Inv, Reloading, Preparing, Activations, MayPrepare, Procs
Stays(p) ==
    proc'[p] = proc[p] /\ (proc[p].pc \in Awaiting => worker'[proc[p].hand] = worker[proc[p].hand])
Leaves(p) ==
    /\ Goes(p, proc'[p]) /\ proc'[p].pc \notin Awaiting
    /\ (proc[p].pc \in Awaiting => worker'[proc[p].hand].state \notin Up)

Tables == <<cfg, entry, isolated, address, ended, closer, leaving>>

LEMMA InputsType ==
    ASSUME NEW p \in Procs, NEW k \in Keys
    PROVE  InputsOf(p, k) \in Inputs \union {None}
BY SessionAssumption DEF InputsOf, Procs

LEMMA InstanceType ==
    ASSUME TypeOK, Places, Addressed, NEW r \in Requests, proc[r].pc \in Keyed
    PROVE  Instance(r) \in Instances
<1>1. r \in Procs /\ proc[r].key \in Keys /\ address[SessionOf[r]] \in Addresses
  BY SessionAssumption, NoneAssumption DEF TypeOK, Places, Placed, Addressed, Keyed, Away, Procs, PreparePcs
<1> QED
  BY <1>1, InputsType DEF Instance, Instances

ReloadType == [config : [Keys -> Nat], todo : SUBSET Keys, prepared : SUBSET Prepared,
               retired : SUBSET Workers, count : Nat]

(* The tables lose workers that have been stopped, or nothing.             *)
Narrows ==
    /\ UNCHANGED <<cfg, address, ended>>
    /\ entry' \in [Keys -> Entry] /\ isolated' \in [Instances -> Workers \union {None}]
    /\ closer' \in {"open", "closing", "closed"} /\ leaving' \subseteq Workers
    /\ \A k \in Keys :
          /\ entry'[k].tools = entry[k].tools /\ entry'[k].qualified = entry[k].qualified
          /\ entry'[k].lock = entry[k].lock
          /\ entry'[k].shared # entry[k].shared =>
                entry'[k].shared = None /\ worker'[entry[k].shared].state \notin Up
    /\ \A i \in Instances : isolated'[i] # isolated[i] =>
          isolated'[i] = None /\ worker'[isolated[i]].state \notin Up

LEMMA Narrowing ==
    ASSUME Inv, proc' \in [Procs -> Proc], worker' \in [Workers -> Worker],
           NEW p \in Procs, Stays(p) \/ Leaves(p), \A q \in Procs \ {p} : Stays(q),
           \A w \in Workers : Subsides(w),
           Narrows, Reloading', reload' \in ReloadType,
           \A x \in reload.prepared \ reload'.prepared :
              x.hand \in Workers => worker'[x.hand].state \notin Up
    PROVE  Inv'
<1> USE DEF Narrows
<1>1. TypeOK'
  BY DEF Inv, TypeOK, ReloadType
<1>2. Places'
  BY DEF Inv, Places, Stays, Leaves, Goes, Placed
<1>3. \A q \in Procs : proc'[q].pc \in Awaiting =>
        proc'[q] = proc[q] /\ worker'[proc[q].hand] = worker[proc[q].hand]
  BY DEF Stays, Leaves, Goes
<1>4. Hands'
  BY <1>3 DEF Inv, Hands, Holds, InputsOf
<1>5. /\ \A w \in Workers, k \in Keys : SharedOf(w, k) => SharedOf(w, k)'
      /\ \A w \in Workers, i \in Instances : IsolatedOf(w, i) => IsolatedOf(w, i)'
      /\ \A w \in Workers : worker'[w].state \in Up => worker[w].state \in Up
      /\ IsolatedPrivate'
  BY Subsiding DEF Inv
<1>6. Entries'
  BY <1>5 DEF Inv, Entries, TypeOK, Entry
<1>7. Isolates'
  BY <1>5 DEF Inv, Isolates, TypeOK
<1>9. Activations'
  <2>1. \A r \in Requests \ {p} : proc'[r] = proc[r]
    BY DEF Procs, Stays
  <2>2. p \in Requests => proc'[p] = proc[p] \/ Goes(p, proc'[p])
    BY DEF Stays, Leaves
  <2> QED
    <3>1. \A r \in Requests : proc[r].pc \in PreparePcs \union {"activate", "queued"} => proc[r].key \in Keys
      BY DEF Inv, Places, Placed, Keyed, Procs
    <3>2. p \in Requests /\ proc'[p].pc \in PreparePcs \union {"activate", "queued"} => proc'[p].key \in Keys
      BY <1>2 DEF Places, Placed, Keyed, Procs
    <3>3. p \in Requests /\ proc'[p] # proc[p] /\ proc'[p].pc \in PreparePcs =>
            /\ proc'[p].lock <= entry[proc'[p].key].lock
            /\ entry[proc'[p].key].lock = 0 => entry[proc'[p].key].tools = 0
            /\ \A r \in Requests \ {p} :
                  proc[r].pc \in PreparePcs => proc[r].key # proc'[p].key \/ proc[r].lock # proc'[p].lock
      BY <2>2, NoneAssumption DEF Goes, MayPrepare
    <3>4. p \in Requests /\ proc'[p] # proc[p] /\ proc'[p].pc \in {"activate", "queued"} =>
            proc'[p].lock <= entry[proc'[p].key].lock
      BY <2>2 DEF Goes
    <3>5. \A k \in Keys : entry'[k].lock = entry[k].lock /\ entry'[k].tools = entry[k].tools
      OBVIOUS
    <3> HIDE DEF Narrows
    <3> QED
      BY <2>1, <3>1, <3>2, <3>3, <3>4, <3>5 DEF Inv, Activations
<1>10. Spawns'
  <2>1. \A r \in Requests : proc'[r].pc = "spawning" => proc[r].pc = "spawning" /\ proc'[r] = proc[r]
    BY <1>3 DEF Procs, Awaiting
  <2>2. \A r \in Requests : proc'[r].pc = "select" => proc[r].pc = "select" \/ WorkerLockFree
    BY NoneAssumption DEF Procs, Stays, Leaves, Goes
  <2>3. \A r \in Requests : proc'[r].pc = "spawning" => Vacant(r)'
    <3> SUFFICES ASSUME NEW r \in Requests, proc'[r].pc = "spawning" PROVE Vacant(r)'
      OBVIOUS
    <3>1. Vacant(r) /\ proc'[r] = proc[r] /\ worker'[proc[r].hand] = worker[proc[r].hand]
      BY <1>3, <2>1 DEF Inv, Spawns, Procs, Awaiting
    <3>2. /\ entry[proc[r].key].shared \in Workers \union {None}
          /\ isolated[Instance(r)] \in Workers \union {None}
          /\ proc[r].key \in Keys /\ Instance(r) \in Instances
      BY <2>1, InstanceType DEF Inv, TypeOK, Entry, Places, Placed, Keyed, Procs
    <3> QED
      BY <1>5, <3>1, <3>2, SMTT(40) DEF Vacant, Instance, InputsOf
  <2> QED
    BY <2>1, <2>2, <2>3 DEF Inv, Spawns, WorkerLockFree
<1>11. Addressed'
  BY NoneAssumption DEF Inv, Addressed, Stays, Leaves, Goes, Procs, Subsides
<1>12. NoStrayWorker'
  <2> SUFFICES ASSUME NEW w \in Workers, worker'[w].state \in Up
               PROVE  \/ \E k \in Keys : entry'[k].shared = w
                      \/ \E i \in Instances : isolated'[i] = w
                      \/ \E q \in Procs : proc'[q].hand = w /\ proc'[q].pc \in Awaiting
                      \/ \E x \in reload'.prepared : x.hand = w
                      \/ worker'[w].mode = "shared" /\ \E k \in Keys : worker'[w].key = k /\ entry'[k].lock # 0
    BY DEF NoStrayWorker, Up, Awaiting
  <2>1. /\ worker[w].state \in Up /\ worker'[w].mode = worker[w].mode /\ worker'[w].key = worker[w].key
    BY <1>5 DEF Subsides
  <2>2. \/ \E k \in Keys : entry[k].shared = w
        \/ \E i \in Instances : isolated[i] = w
        \/ \E q \in Procs : proc[q].hand = w /\ proc[q].pc \in Awaiting
        \/ \E x \in reload.prepared : x.hand = w
        \/ worker[w].mode = "shared" /\ \E k \in Keys : worker[w].key = k /\ entry[k].lock # 0
    BY <2>1 DEF Inv, NoStrayWorker, Up, Awaiting
  <2>3. \A q \in Procs : proc[q].hand = w /\ proc[q].pc \in Awaiting => proc'[q] = proc[q]
    BY DEF Stays, Leaves
  <2> QED
    BY <2>1, <2>2, <2>3
<1> QED
  BY <1>1, <1>2, <1>4, <1>5, <1>6, <1>7, <1>9, <1>10, <1>11, <1>12 DEF Inv

LEMMA Dropping ==
    ASSUME Inv, proc' \in [Procs -> Proc], worker' \in [Workers -> Worker],
           NEW p \in Procs, Stays(p) \/ Leaves(p), \A q \in Procs \ {p} : Stays(q),
           p = Reloader => Stays(p) \/ Becomes(p, proc'[p]),
           \A w \in Workers : Subsides(w),
           Narrows, UNCHANGED reload
    PROVE  Inv'
<1>0. UNCHANGED <<cfg, address>> /\ \A k \in Keys : entry'[k].tools = entry[k].tools
  BY DEF Narrows
<1>1. \A w \in Workers, k \in Keys : SharedOf(w, k) => SharedOf(w, k)'
  BY <1>0, Subsiding DEF Inv
<1>2. Reloading'
  <2>1. \A x \in reload.prepared : x.key \in Keys /\ x.hand \in Workers \union {None}
    BY DEF Inv, TypeOK, Prepared
  <2>2. \A x \in reload.prepared : Ready(x)'
    BY <1>0, <1>1, <2>1, \A w \in Workers : Subsides(w) DEF Inv, Reloading, Ready, Changed, Subsides
  <2>3. /\ proc'[Reloader].pc \in {"idle", "retiring"} <=> proc[Reloader].pc \in {"idle", "retiring"}
        /\ Preparing(proc[Reloader]) => Preparing(proc'[Reloader])
    BY DEF Procs, Stays, Leaves, Becomes, Goes, Preparing, MayPrepare
  <2>4. proc'[Reloader].pc \in PreparePcs => proc'[Reloader].key \in Keys
    BY DEF Inv, Places, Placed, Keyed, Procs, Stays, Leaves, Goes
  <2> QED
    BY <1>0, <2>2, <2>3, <2>4 DEF Inv, Reloading, Preparing, Changed
<1>3. reload' = reload /\ reload \in ReloadType
  BY DEF Inv, TypeOK, ReloadType
<1> QED
  BY <1>2, <1>3, Narrowing

LEMMA Quiet ==
    ASSUME Inv, proc' \in [Procs -> Proc], worker' \in [Workers -> Worker],
           NEW p \in Procs, Stays(p) \/ Leaves(p), \A q \in Procs \ {p} : Stays(q),
           p = Reloader => Stays(p) \/ Becomes(p, proc'[p]),
           \A w \in Workers : Subsides(w),
           UNCHANGED Tables, UNCHANGED reload
    PROVE  Inv'
<1>1. Narrows
  BY DEF Tables, Narrows, Inv, TypeOK
<1> QED
  BY <1>1, Dropping

LEMMA Launching ==
    ASSUME Inv, NEW p \in Procs, NEW P \in Proc, NEW mode, NEW inputs \in Inputs \union {None},
           Launch(p, P, mode, inputs), \A w \in Workers : Becomes(p, [P EXCEPT !.hand = w]),
           P.pc \in Awaiting, P.key \in Keys, P.ver # 0,
           P.pc = "starting" => mode = IF P.qual = "admitted" THEN "shared" ELSE "probe",
           P.pc = "spawning" =>
              /\ p \in Requests /\ mode \in {"shared", "isolated"} /\ P.ver = cfg[P.key]
              /\ WorkerLockFree /\ \A r \in Requests \ {p} : proc[r].pc # "select"
              /\ IF mode = "shared"
                 THEN /\ entry[P.key].tools # 0
                      /\ entry[P.key].shared # None => worker[entry[P.key].shared].state \notin Up
                 ELSE /\ inputs = InputsOf(p, P.key)
                      /\ LET i == <<address[SessionOf[p]], P.key, inputs>> IN
                         isolated[i] # None => worker[isolated[i]].state \notin Up,
           proc[p].pc \notin Awaiting, UNCHANGED Tables, UNCHANGED reload
    PROVE  Inv'
<1> USE DEF Tables
<1> DEFINE unused == {w \in Workers : worker[w].state = "unused"}
<1> DEFINE new == CHOOSE w \in unused : TRUE
<1> DEFINE W == [state |-> "starting", key |-> P.key, ver |-> P.ver, mode |-> mode,
                 inputs |-> IF TakesInputs(P.key, P.ver) THEN inputs ELSE None,
                 users |-> {}]
<1>1. /\ new \in Workers /\ worker[new].state = "unused"
      /\ worker' = [worker EXCEPT ![new] = W]
      /\ proc' = [proc EXCEPT ![p] = [P EXCEPT !.hand = new]]
  BY DEF Launch, Put
<1> HIDE DEF unused, new, W
<1>2. /\ worker'[new] = W /\ \A w \in Workers \ {new} : worker'[w] = worker[w]
      /\ proc'[p] = [P EXCEPT !.hand = new] /\ \A q \in Procs \ {p} : proc'[q] = proc[q]
  BY <1>1 DEF Inv, TypeOK
<1>3. /\ proc'[p] \in Proc /\ proc'[p].hand = new /\ proc'[p].pc = P.pc /\ proc'[p].key = P.key
      /\ proc'[p].ver = P.ver /\ proc'[p].lock = P.lock /\ proc'[p].qual = P.qual
  BY <1>1, <1>2 DEF Proc
<1>. Becomes(p, proc'[p])
  BY <1>1, <1>2
<1>4. W \in Worker /\ W.state = "starting" /\ W.key = P.key /\ W.ver = P.ver /\ W.mode = mode
      /\ (TakesInputs(P.key, P.ver) => W.inputs = inputs)
      /\ W.users = {}
  <2>1. mode \in {"shared", "isolated", "probe"}
    BY DEF Awaiting
  <2> QED
    BY <2>1 DEF W, Worker, Proc
<1>5. TypeOK'
  BY <1>1, <1>3, <1>4 DEF Inv, TypeOK
<1>6. Places'
  BY <1>1, <1>2, <1>3 DEF Inv, Places, Becomes, Goes, Placed
<1>7. Hands'
  <2>1. \A q \in Procs \ {p} : proc[q].pc \in Awaiting => Holds(q)' /\ proc[q].hand # new
    <3> SUFFICES ASSUME NEW q \in Procs \ {p}, proc[q].pc \in Awaiting
                 PROVE  Holds(q)' /\ proc[q].hand # new
      OBVIOUS
    <3>1. Holds(q) /\ proc[q].hand \in Workers
      BY DEF Inv, Hands, Places, Placed, Handed
    <3>2. proc[q].hand # new
      BY <1>1, <3>1 DEF Holds
    <3> QED
      BY <1>2, <3>1, <3>2 DEF Holds, InputsOf
  <2>2. Holds(p)'
    BY <1>2, <1>3, <1>4, NoneAssumption DEF Holds, InputsOf, Awaiting
  <2> QED
    <3>1. \A q \in Procs \ {p} : proc'[q] = proc[q]
      BY <1>2
    <3>2. proc'[p].hand = new /\ proc[p].pc \notin Awaiting
      BY <1>3
    <3>3. \A q \in Procs : proc'[q].pc \in Awaiting => Holds(q)'
      BY <3>1, <2>1, <2>2
    <3>4. ASSUME NEW q \in Procs, NEW r \in Procs, proc'[q].pc \in Awaiting, proc'[r].pc \in Awaiting,
                 proc'[q].hand = proc'[r].hand
          PROVE  q = r
      BY <3>1, <3>2, <3>4, <2>1 DEF Inv, Hands
    <3> QED
      BY <3>3, <3>4 DEF Hands
<1>8. /\ \A w \in Workers, k \in Keys : SharedOf(w, k) => SharedOf(w, k)' /\ w # new
      /\ \A w \in Workers, i \in Instances : IsolatedOf(w, i) => IsolatedOf(w, i)' /\ w # new
  BY <1>1, <1>2 DEF SharedOf, IsolatedOf
<1>9. Entries' /\ Isolates'
  BY <1>8 DEF Inv, Entries, Isolates, TypeOK, Entry
<1>10. Reloading'
  <2>1. \A x \in reload.prepared : x.key \in Keys /\ x.hand \in Workers \union {None}
    BY DEF Inv, TypeOK, Prepared
  <2>2. \A x \in reload.prepared : Ready(x)'
    BY <1>2, <1>8, <2>1 DEF Inv, Reloading, Ready, Changed
  <2>3. Preparing(proc'[Reloader]) /\ (proc'[Reloader] # proc[Reloader] =>
          proc'[Reloader].pc \notin {"idle", "retiring"} /\ proc[Reloader].pc \notin {"idle", "retiring"})
    BY <1>2, <1>3, ZenonT(60) DEF Inv, Procs, Becomes, Goes, Preparing, MayPrepare, Reloading
  <2> QED
    BY <2>2, <2>3 DEF Inv, Reloading, Preparing, Changed
<1>11. Activations'
  <2>1. P.pc \in {"starting", "spawning"}
    BY DEF Awaiting
  <2>2. p \in Requests /\ P.pc = "starting" => MayPrepare(p, P)
    BY <1>3, NoneAssumption DEF Becomes, Goes, PreparePcs, MayPrepare
  <2> QED
    <3>1. \A r \in Requests \ {p} : proc'[r] = proc[r]
      BY <1>2 DEF Procs
    <3>2. p \in Requests => /\ proc'[p].pc \in PreparePcs <=> P.pc = "starting"
                            /\ proc'[p].pc \notin {"activate", "queued"}
                            /\ proc'[p].key = P.key /\ proc'[p].lock = P.lock
      BY <1>3, <2>1 DEF PreparePcs
    <3> QED
      BY <2>1, <2>2, <3>1, <3>2, NoneAssumption DEF Inv, Activations, MayPrepare
<1>12. Spawns'
  <2>1. \A r \in Requests \ {p} : proc'[r] = proc[r]
    BY <1>2 DEF Procs
  <2>2. p \in Requests => proc'[p].pc = P.pc
    BY <1>3
  <2>3. \A r \in Requests : proc'[r].pc = "spawning" => Vacant(r)'
    <3>1. ASSUME NEW r \in Requests \ {p}, proc[r].pc = "spawning" PROVE Vacant(r)'
      <4>1. Vacant(r) /\ Holds(r) /\ proc[r].hand \in Workers /\ Instance(r) \in Instances
        BY <3>1, InstanceType DEF Inv, Spawns, Hands, Places, Placed, Handed, Awaiting, Procs, Keyed
      <4>2. proc[r].hand # new
        BY <1>1, <4>1 DEF Holds
      <4>3. \A w \in Workers : w # new => worker'[w] = worker[w]
        BY <1>2
      <4>4. entry[proc[r].key].shared # None =>
              entry[proc[r].key].shared \in Workers /\ entry[proc[r].key].shared # new
        BY <1>8, <3>1 DEF Inv, Entries, TypeOK, Entry, Places, Placed, Keyed, Procs
      <4>5. isolated[Instance(r)] # None =>
              isolated[Instance(r)] \in Workers /\ isolated[Instance(r)] # new
        BY <1>8, <4>1 DEF Inv, Isolates, TypeOK
      <4> QED
        BY <2>1, <3>1, <4>1, <4>2, <4>3, <4>4, <4>5, SMTT(40) DEF Vacant, Instance, InputsOf
    <3>2. ASSUME p \in Requests, P.pc = "spawning" PROVE Vacant(p)'
      <4>1. entry[P.key].shared # None => entry[P.key].shared \in Workers \ {new}
        BY <1>8 DEF Inv, Entries, TypeOK, Entry
      <4>2. address[SessionOf[p]] \in Addresses
        BY <1>3, <3>2, NoneAssumption, SessionAssumption DEF Inv, TypeOK, Becomes, Goes, Away
      <4>3. LET i == <<address[SessionOf[p]], P.key, inputs>> IN
              isolated[i] # None => isolated[i] \in Workers \ {new}
        BY <1>8, <4>2 DEF Inv, Isolates, TypeOK, Instances
      <4> QED
        BY <1>2, <1>3, <1>4, <3>2, <4>1, <4>3 DEF Vacant, Instance, InputsOf
    <3> QED
      BY <2>1, <2>2, <3>1, <3>2
  <2>4. P.pc = "spawning" => \A r \in Requests \ {p} : proc[r].pc \notin {"spawning", "select"}
    BY DEF WorkerLockFree
  <2>5. P.pc # "select"
    BY DEF Awaiting
  <2> QED
    BY <2>1, <2>2, <2>3, <2>4, <2>5 DEF Inv, Spawns
<1>13. Addressed'
  <2>1. \A r \in Requests : proc'[r].pc \notin Away => address[SessionOf[r]] # None
    BY <1>2, <1>3, NoneAssumption DEF Inv, Addressed, Becomes, Goes, Procs
  <2>2. \A w \in Workers : worker'[w].users \subseteq worker[w].users
    BY <1>2, <1>4
  <2> QED
    BY <2>1, <2>2 DEF Inv, Addressed
<1>14. IsolatedPrivate'
  BY <1>2, <1>4 DEF Inv, IsolatedPrivate
<1>15. NoStrayWorker'
  <2>1. ASSUME NEW w \in Workers \ {new}, worker[w].state \in {"starting", "running"},
               NEW q \in Procs, proc[q].hand = w, proc[q].pc \in {"starting", "spawning"}
        PROVE  proc'[q] = proc[q]
    BY <1>2, <2>1 DEF Awaiting
  <2>2. proc'[p].hand = new /\ proc'[p].pc \in {"starting", "spawning"}
    BY <1>3 DEF Awaiting
  <2>3. \A w \in Workers \ {new} : worker'[w] = worker[w]
    BY <1>2
  <2> QED
    BY <2>1, <2>2, <2>3 DEF Inv, NoStrayWorker
<1> QED
  BY <1>5, <1>6, <1>7, <1>9, <1>10, <1>11, <1>12, <1>13, <1>14, <1>15 DEF Inv

LEMMA Calling ==
    ASSUME Inv, NEW r \in Requests, proc[r].pc \in {"route", "select"}, NEW w \in Workers,
           w = entry[proc[r].key].shared \/ w = isolated[Instance(r)],
           Call(r, w), UNCHANGED Tables, UNCHANGED reload
    PROVE  Inv'
<1> USE DEF Tables
<1> DEFINE P == [proc[r] EXCEPT !.pc = "calling", !.hand = w]
           W == [worker[w] EXCEPT !.users = @ \union {SessionOf[r]}]
<1>1. /\ r \in Procs /\ r # Reloader /\ SessionOf[r] \in Sessions
      /\ proc[r] \in Proc /\ worker[w] \in Worker /\ proc[r].key \in Keys
      /\ Instance(r) \in Instances /\ address[SessionOf[r]] # None
  BY InstanceType, NoneAssumption, SessionAssumption
     DEF Inv, TypeOK, Procs, Places, Placed, Keyed, Addressed, Away
<1>2. /\ P \in Proc /\ P.pc = "calling" /\ P.hand = w /\ P.key = proc[r].key
      /\ W \in Worker /\ W.users = worker[w].users \union {SessionOf[r]}
      /\ W.state = worker[w].state /\ W.key = worker[w].key /\ W.ver = worker[w].ver
      /\ W.mode = worker[w].mode /\ W.inputs = worker[w].inputs
  BY <1>1 DEF Proc, OtherPcs, Worker
<1> HIDE DEF P, W
<1>3. /\ proc' = [proc EXCEPT ![r] = P] /\ worker' = [worker EXCEPT ![w] = W]
  BY DEF Call, Put, P, W
<1>4. /\ proc'[r] = P /\ \A q \in Procs \ {r} : proc'[q] = proc[q]
      /\ worker'[w] = W /\ \A v \in Workers \ {w} : worker'[v] = worker[v]
  BY <1>1, <1>3 DEF Inv, TypeOK
<1>5. /\ TypeOK'
      /\ Places'
  BY <1>1, <1>2, <1>3, <1>4 DEF Inv, TypeOK, Places, Placed, PreparePcs
<1>6. \A q \in Procs : proc'[q].pc \in Awaiting =>
         proc'[q] = proc[q] /\ proc[q].pc \in Awaiting /\ proc[q].hand \in Workers
  BY <1>2, <1>4 DEF Awaiting, Inv, Places, Placed, Handed
<1>7. \A v \in Workers :
         /\ worker'[v].state = worker[v].state /\ worker'[v].key = worker[v].key
         /\ worker'[v].ver = worker[v].ver /\ worker'[v].mode = worker[v].mode
         /\ worker'[v].inputs = worker[v].inputs
         /\ worker'[v].users = worker[v].users \/ v = w
  BY <1>2, <1>4
<1>8. Hands'
  BY <1>6, <1>7 DEF Inv, Hands, Holds, InputsOf
<1>9. \A v \in Workers, k \in Keys : SharedOf(v, k) => SharedOf(v, k)'
  BY <1>7 DEF SharedOf
<1>10. SharedOf(w, proc[r].key) \/ IsolatedOf(w, Instance(r))
  BY <1>1, NoneAssumption DEF Inv, Entries, Isolates
<1>11. Instance(r)[1] = address[SessionOf[r]] /\ Instance(r)[2] = proc[r].key
       /\ Instance(r)[3] = InputsOf(r, proc[r].key)
  BY DEF Instance
<1>12. \A i \in Instances : isolated[i] # None => IsolatedOf(isolated[i], i)'
  <2> SUFFICES ASSUME NEW i \in Instances, isolated[i] # None PROVE IsolatedOf(isolated[i], i)'
    OBVIOUS
  <2>1. isolated[i] \in Workers /\ IsolatedOf(isolated[i], i)
    BY DEF Inv, Isolates, TypeOK
  <2>2. CASE isolated[i] # w
    BY <1>7, <2>1, <2>2 DEF IsolatedOf
  <2>3. CASE isolated[i] = w
    <3>1. isolated[Instance(r)] = w
      BY <2>1, <2>3, <1>1 DEF Inv, Entries, SharedOf, IsolatedOf
    <3>2. i = Instance(r)
      BY <2>3, <3>1, <1>1, NoneAssumption DEF Inv, Isolates
    <3>3. \A s \in W.users : address[s] # None => address[s] = i[1]
      BY <2>1, <2>3, <3>2, <1>2, <1>11 DEF IsolatedOf
    <3> QED
      BY <1>2, <1>4, <2>1, <2>3, <3>3 DEF IsolatedOf
  <2> QED
    BY <2>2, <2>3
<1>13. Entries' /\ Isolates'
  BY <1>9, <1>12 DEF Inv, Entries, Isolates, TypeOK, Entry
<1>14. Reloading'
  <2>1. \A x \in reload.prepared : x.key \in Keys /\ x.hand \in Workers \union {None}
    BY DEF Inv, TypeOK, Prepared
  <2>2. \A x \in reload.prepared : Ready(x)'
    BY <1>7, <1>9, <2>1 DEF Inv, Reloading, Ready, Changed
  <2>3. proc'[Reloader] = proc[Reloader]
    BY <1>1, <1>4 DEF Procs
  <2> QED
    BY <2>2, <2>3 DEF Inv, Reloading, Preparing, Changed
<1>15. Activations'
  BY <1>2, <1>4 DEF Inv, Activations, PreparePcs, Procs
<1>16. Spawns'
  <2>1. \A q \in Requests : proc'[q].pc \in {"spawning", "select"} => proc'[q] = proc[q]
    BY <1>2, <1>4 DEF Procs
  <2>2. ASSUME NEW q \in Requests, proc[q].pc = "spawning" PROVE Vacant(q) => Vacant(q)'
    <3>1. q # r /\ proc'[q] = proc[q] /\ proc[q].hand \in Workers /\ Instance(q) \in Instances
      BY <2>2, <1>4, InstanceType DEF Inv, Procs, Places, Placed, Handed, Awaiting, Keyed
    <3>2. /\ entry[proc[q].key].shared \in Workers \union {None}
          /\ isolated[Instance(q)] \in Workers \union {None}
      BY <3>1, <2>2 DEF Inv, TypeOK, Entry, Places, Placed, Keyed, Procs
    <3> QED
      BY <1>7, <3>1, <3>2 DEF Vacant, Instance, InputsOf
  <2> QED
    BY <2>1, <2>2 DEF Inv, Spawns
<1>17. Addressed'
  <2>1. \A q \in Requests : proc'[q].pc \notin Away => address[SessionOf[q]] # None
    BY <1>1, <1>4 DEF Inv, Addressed, Procs
  <2> QED
    BY <1>1, <1>2, <1>4, <2>1 DEF Inv, Addressed
<1>18. IsolatedPrivate'
  <2>1. ASSUME worker[w].mode = "isolated"
        PROVE  /\ TakesInputs(worker[w].key, worker[w].ver)
                    => Binding[SessionOf[r]][worker[w].key] = worker[w].inputs
               /\ \A s \in worker[w].users : address[s] # None => s = SessionOf[r]
    <3>1. IsolatedOf(w, Instance(r))
      BY <2>1, <1>10 DEF SharedOf
    <3>2. \A s \in worker[w].users : s \in Sessions
      BY <1>1 DEF Worker
    <3> QED
      BY <1>1, <1>11, <3>1, <3>2 DEF IsolatedOf, InputsOf, Inv, Addressed
  <2>2. ASSUME worker[w].mode = "isolated"
        PROVE  /\ \A s \in W.users : TakesInputs(worker[w].key, worker[w].ver)
                    => Binding[s][worker[w].key] = worker[w].inputs
               /\ \A s, t \in W.users : address[s] # None /\ address[t] # None => s = t
    BY <1>2, <2>1, <2>2 DEF Inv, IsolatedPrivate
  <2> QED
    BY <1>2, <1>4, <2>2 DEF Inv, IsolatedPrivate
<1>19. NoStrayWorker'
  <2>1. \A q \in Procs : proc[q].pc \in {"starting", "spawning"} => proc'[q] = proc[q]
    BY <1>4
  <2> QED
    BY <1>7, <2>1 DEF Inv, NoStrayWorker
<1> QED
  BY <1>5, <1>8, <1>13, <1>14, <1>15, <1>16, <1>17, <1>18, <1>19 DEF Inv

-----------------------------------------------------------------------------
(* One lemma for each action that leaves the tables alone *)

LEMMA StoppingSubsides ==
    ASSUME TypeOK, NEW S \in SUBSET Workers, worker' = Stopping(S)
    PROVE  /\ worker' \in [Workers -> Worker]
           /\ \A w \in Workers : Subsides(w)
           /\ \A w \in Workers \ S : worker'[w] = worker[w]
           /\ \A w \in S : worker'[w].state \notin Up
<1>1. \A w \in Workers : worker[w] \in Worker
  BY DEF TypeOK
<1>2. \A w \in Workers :
        \/ worker'[w] = worker[w]
        \/ worker[w].state # "unused" /\ worker'[w] = [worker[w] EXCEPT !.state = "stopping"]
  BY DEF Stopping
<1>3. ASSUME NEW W \in Worker PROVE [W EXCEPT !.state = "stopping"] \in Worker
  BY DEF Worker
<1>4. worker' \in [Workers -> Worker]
  <2>1. \A w \in Workers : worker'[w] \in Worker
    BY <1>1, <1>2, <1>3, ZenonT(60)
  <2> QED
    BY <2>1 DEF Stopping
<1>5. \A w \in Workers : Subsides(w)
  BY <1>1, <1>2, ZenonT(60) DEF Subsides, Worker
<1>6. \A w \in Workers \ S : worker'[w] = worker[w]
  BY DEF Stopping
<1>7. \A w \in S : worker'[w].state \notin Up
  BY <1>1 DEF Stopping, Up, Worker
<1> QED
  BY <1>4, <1>5, <1>6, <1>7

(* A process moves on, and what it was starting is stopped.                *)
LEMMA Moving ==
    ASSUME Inv, NEW p \in Procs, NEW P \in Proc, Put(p, P), Becomes(p, P), P.pc \notin Awaiting,
           NEW S \in SUBSET Workers, worker' = Stopping(S) \/ (S = {} /\ worker' = worker),
           \A q \in Procs \ {p} : proc[q].pc \in Awaiting => proc[q].hand \notin S,
           proc[p].pc \in Awaiting => proc[p].hand \in S,
           UNCHANGED Tables, UNCHANGED reload
    PROVE  Inv'
<1>1. proc' \in [Procs -> Proc] /\ proc'[p] = P /\ \A q \in Procs \ {p} : proc'[q] = proc[q]
  BY DEF Put, Inv, TypeOK
<1>2. /\ worker' \in [Workers -> Worker]
      /\ \A w \in Workers : Subsides(w)
      /\ \A w \in Workers \ S : worker'[w] = worker[w]
      /\ \A w \in S : worker'[w].state \notin Up
  <2>1. CASE worker' = Stopping(S)
    BY <2>1, StoppingSubsides DEF Inv
  <2>2. CASE S = {} /\ worker' = worker
    BY <2>2 DEF Inv, TypeOK, Subsides
  <2> QED
    BY <2>1, <2>2
<1>3. \A q \in Procs : proc[q].pc \in Awaiting => proc[q].hand \in Workers
  BY DEF Inv, Places, Placed, Handed
<1>4. Leaves(p) /\ \A q \in Procs \ {p} : Stays(q)
  BY <1>1, <1>2, <1>3 DEF Leaves, Stays, Becomes
<1> QED
  BY <1>1, <1>2, <1>4, Quiet

LEMMA MovingOnly ==
    ASSUME Inv, NEW p \in Procs, NEW P \in Proc, Put(p, P), Becomes(p, P), P.pc \notin Awaiting,
           proc[p].pc \notin Awaiting, UNCHANGED <<worker, reload>>, UNCHANGED Tables
    PROVE  Inv'
<1>1. {} \in SUBSET Workers
  OBVIOUS
<1> QED
  BY <1>1, Moving

LEMMA FreshTyped ==
    ASSUME NEW pc \in LoopPcs \union PreparePcs \union OtherPcs, NEW k \in Keys \union {None}
    PROVE  /\ Fresh(pc, k) \in Proc /\ Fresh(pc, k).pc = pc /\ Fresh(pc, k).key = k
           /\ \A w \in Workers : LET P == [Fresh(pc, k) EXCEPT !.hand = w] IN
                 P \in Proc /\ P.pc = pc /\ P.key = k /\ P.hand = w
BY DEF Fresh, Proc

LEMMA FailingTyped ==
    ASSUME NEW r \in Requests, proc[r].key \in Keys, NEW crash \in BOOLEAN
    PROVE  Failing(r, crash) \in Proc /\ Failing(r, crash).pc = "failing" /\ Failing(r, crash).key = proc[r].key
<1> DEFINE k == proc[r].key
<1>1. Fresh("failing", k) \in Proc /\ Fresh("failing", k).pc = "failing" /\ Fresh("failing", k).key = k
  BY FreshTyped DEF LoopPcs
<1>2. ASSUME NEW F \in Proc
      PROVE  LET G == [F EXCEPT !.crash = crash] IN G \in Proc /\ G.pc = F.pc /\ G.key = F.key
  BY DEF Proc
<1> QED
  BY <1>1, <1>2 DEF Failing

(* The request is over.                                                    *)
LEMMA Ending ==
    ASSUME Inv, NEW r \in Requests, NEW pc \in {"done", "cancelled"}, Put(r, Fresh(pc, None)),
           NEW S \in SUBSET Workers, worker' = Stopping(S) \/ (S = {} /\ worker' = worker),
           \A q \in Procs \ {r} : proc[q].pc \in Awaiting => proc[q].hand \notin S,
           proc[r].pc \in Awaiting => proc[r].hand \in S,
           UNCHANGED Tables, UNCHANGED reload
    PROVE  Inv'
<1>1. Fresh(pc, None) \in Proc /\ Fresh(pc, None).pc = pc
  BY FreshTyped DEF OtherPcs
<1>2. Becomes(r, Fresh(pc, None)) /\ Fresh(pc, None).pc \notin Awaiting
  BY <1>1, NoneAssumption DEF Becomes, Goes, Placed, Keyed, Handed, Awaiting, PreparePcs, Away
<1> QED
  BY <1>1, <1>2, Moving DEF Procs

LEMMA EndingOnly ==
    ASSUME Inv, NEW r \in Requests, NEW pc \in {"done", "cancelled"}, Put(r, Fresh(pc, None)),
           proc[r].pc \notin Awaiting, UNCHANGED <<worker, reload>>, UNCHANGED Tables
    PROVE  Inv'
<1>1. {} \in SUBSET Workers
  OBVIOUS
<1> QED
  BY <1>1, Ending

(* The facts about a process and its place that every action starts from.  *)
LEMMA Facts ==
    ASSUME Inv, NEW p \in Procs
    PROVE  /\ proc[p] \in Proc
           /\ proc[p].pc \in Keyed => proc[p].key \in Keys /\ entry[proc[p].key] \in Entry
           /\ proc[p].pc \in Handed => proc[p].hand \in Workers
           /\ p \in Requests => p # Reloader /\ SessionOf[p] \in Sessions
           /\ p \in Requests /\ proc[p].pc \notin Away => address[SessionOf[p]] # None
           /\ \A q \in Procs \ {p} : proc[p].pc \in Awaiting /\ proc[q].pc \in Awaiting
                 => proc[q].hand # proc[p].hand
BY NoneAssumption, SessionAssumption DEF Inv, TypeOK, Places, Placed, Hands, Addressed

LEMMA ArriveInv ==
    ASSUME Inv, NEW r \in Requests, NEW k \in Keys, Arrive(r, k)
    PROVE  Inv'
<1>1. r \in Procs /\ r # Reloader /\ proc[r] \in Proc /\ entry[k] \in Entry /\ proc[r].pc = "idle"
      /\ UNCHANGED Tables /\ UNCHANGED reload /\ worker' = worker
  BY NoneAssumption DEF Inv, TypeOK, Procs, Arrive, At, Tables
<1>2. CASE ~Admissible(r, k)
  BY <1>1, <1>2, EndingOnly DEF Arrive, Finish, Awaiting
<1>3. CASE Admissible(r, k)
  <2> DEFINE P == [proc[r] EXCEPT !.pc = "activate", !.key = k, !.lock = entry[k].lock]
  <2>1. /\ P \in Proc /\ P.pc = "activate" /\ P.key = k /\ P.lock = entry[k].lock
        /\ entry[k].lock \in Nat
    BY <1>1 DEF Proc, Entry, LoopPcs
  <2>2. Put(r, P) /\ address[SessionOf[r]] # None
    BY <1>3 DEF Arrive
  <2> HIDE DEF P
  <2>3. Becomes(r, P) /\ P.pc \notin Awaiting
    BY <1>1, <2>1, <2>2 DEF Becomes, Goes, Placed, Keyed, Handed, Awaiting, PreparePcs
  <2> QED
    BY <1>1, <2>1, <2>2, <2>3, MovingOnly DEF Awaiting
<1> QED
  BY <1>2, <1>3

(* A step to a location that asks for nothing but the upstream.            *)
LEMMA Passing ==
    ASSUME Inv, NEW r \in Requests, NEW P \in Proc, P.pc \in {"route", "failing", "queued", "lockWait"},
           P.key \in Keys, proc[r].pc \notin Away, P.pc = "queued" => P.lock <= entry[P.key].lock
    PROVE  Becomes(r, P) /\ P.pc \notin Awaiting
BY Facts DEF Becomes, Goes, Placed, Keyed, Handed, Awaiting, PreparePcs, Procs, Away

LEMMA PrepareInv ==
    ASSUME Inv, NEW p \in Procs, NEW k \in Keys, NEW ver \in Nat \ {0}, Prepare(p, k, ver),
           proc[p].pc \in {"activate", "next"},
           MayPrepare(p, [key |-> k, ver |-> ver, lock |-> proc[p].lock, pc |-> "starting"]),
           UNCHANGED Tables, UNCHANGED reload
    PROVE  Inv'
<1> DEFINE rec == [proc[p] EXCEPT !.key = k, !.ver = ver, !.qual = "none"]
           P == [rec EXCEPT !.pc = "qualifying"]
           Q == [rec EXCEPT !.pc = "starting"]
<1>1. /\ P \in Proc /\ P.pc = "qualifying" /\ P.key = k /\ P.ver = ver /\ P.lock = proc[p].lock
      /\ Q \in Proc /\ Q.pc = "starting" /\ Q.key = k /\ Q.ver = ver /\ Q.lock = proc[p].lock
      /\ Q.qual = "none"
  BY Facts DEF Proc, PreparePcs
<1>2. IF IsShareable(k, ver) THEN Put(p, P) /\ UNCHANGED worker ELSE Launch(p, Q, "probe", InputsOf(p, k))
  BY DEF Prepare
<1> HIDE DEF P, Q
<1>3. /\ MayPrepare(p, P) /\ MayPrepare(p, Q)
      /\ proc[p].pc \notin Awaiting /\ proc[p].pc \notin Away /\ proc[p].pc \notin {"idle", "retiring"}
  BY <1>1 DEF MayPrepare, Preparing, PreparePcs, Awaiting, Away
<1>4. CASE IsShareable(k, ver)
  <2>1. P.pc \notin Awaiting
    BY <1>1 DEF Awaiting
  <2>2. Placed(p, P)
    BY <1>1, <1>4, Facts DEF Placed, Keyed, Handed, Awaiting, PreparePcs, ReloadPcs, Procs
  <2>3. Becomes(p, P)
    BY <1>1, <1>3, <2>2, Facts DEF Becomes, Goes, Placed, Handed, Awaiting, MayPrepare, ReloadPcs, PreparePcs, Procs
  <2> QED
    BY <1>1, <1>2, <1>3, <1>4, <2>1, <2>3, MovingOnly
<1>6. CASE ~IsShareable(k, ver)
  <2>1. Launch(p, Q, "probe", InputsOf(p, k)) /\ InputsOf(p, k) \in Inputs \union {None}
    BY <1>2, <1>6, InputsType
  <2>2. Q.pc \in Awaiting /\ Q.pc # "spawning" /\ Q.ver # 0 /\ Q.key \in Keys
    BY <1>1 DEF Awaiting
  <2>3. ASSUME NEW w \in Workers PROVE Becomes(p, [Q EXCEPT !.hand = w])
    <3> DEFINE R == [Q EXCEPT !.hand = w]
    <3>1. /\ R.pc = "starting" /\ R.key = k /\ R.ver = ver /\ R.lock = proc[p].lock /\ R.hand = w
          /\ R.qual = "none"
      BY <1>1 DEF Proc
    <3> HIDE DEF R
    <3>2. MayPrepare(p, R)
      BY <1>1, <1>3, <3>1 DEF MayPrepare, Preparing
    <3> QED
      BY <1>3, <3>1, <3>2, Facts DEF Becomes, Goes, Placed, Handed, Awaiting, MayPrepare, ReloadPcs, PreparePcs, Procs, R
  <2> QED
    BY <1>1, <1>3, <2>1, <2>2, <2>3, Launching
<1> QED
  BY <1>4, <1>6

LEMMA ActivateInv ==
    ASSUME Inv, NEW r \in Requests, Activate(r)
    PROVE  Inv'
<1> DEFINE k == proc[r].key
<1>1. /\ r \in Procs /\ r # Reloader /\ proc[r] \in Proc /\ k \in Keys /\ entry[k] \in Entry
      /\ proc[r].pc = "activate" /\ proc[r].pc \notin Awaiting /\ proc[r].pc \notin Away
      /\ proc[r].lock <= entry[k].lock /\ cfg[k] \in Nat
      /\ UNCHANGED Tables /\ UNCHANGED reload
  BY Facts DEF Inv, TypeOK, Activations, Activate, At, Procs, Keyed, Awaiting, Away, Tables
<1>2. CASE entry[k].tools # 0
  <2>1. Put(r, Fresh("route", k)) /\ UNCHANGED worker
    BY <1>2 DEF Activate
  <2> QED
    BY <1>1, <2>1, Passing, FreshTyped, MovingOnly DEF LoopPcs
<1>3. CASE entry[k].tools = 0 /\ Activating(k, proc[r].lock)
  <2> DEFINE P == [proc[r] EXCEPT !.pc = "queued"]
  <2>1. P \in Proc /\ P.pc = "queued" /\ P.key = k /\ P.lock = proc[r].lock
    BY <1>1 DEF Proc, OtherPcs
  <2>2. Put(r, P) /\ UNCHANGED worker
    BY <1>3 DEF Activate, Goto
  <2> QED
    BY <1>1, <2>1, <2>2, Passing, MovingOnly
<1>4. CASE entry[k].tools = 0 /\ ~Activating(k, proc[r].lock) /\ cfg[k] = 0
  BY <1>1, <1>4, EndingOnly DEF Activate, Finish
<1>5. CASE entry[k].tools = 0 /\ ~Activating(k, proc[r].lock) /\ cfg[k] # 0
  <2>1. Prepare(r, k, cfg[k])
    BY <1>5 DEF Activate
  <2>2. MayPrepare(r, [key |-> k, ver |-> cfg[k], lock |-> proc[r].lock, pc |-> "starting"])
    BY <1>1, <1>5 DEF MayPrepare, Activating
  <2> QED
    BY <1>1, <1>5, <2>1, <2>2, PrepareInv
<1> QED
  BY <1>2, <1>3, <1>4, <1>5

LEMMA LockInv ==
    ASSUME Inv, NEW r \in Requests, ActivationLockGranted(r) \/ WorkerLockGranted(r)
    PROVE  Inv'
<1>1. /\ r \in Procs /\ r # Reloader /\ proc[r] \in Proc /\ proc[r].key \in Keys
      /\ proc[r].pc \in {"queued", "lockWait"} /\ proc[r].pc \notin Awaiting /\ proc[r].pc \notin Away
      /\ proc[r].pc = "queued" => proc[r].lock <= entry[proc[r].key].lock
      /\ UNCHANGED Tables /\ UNCHANGED <<worker, reload>>
  BY Facts DEF Inv, Activations, ActivationLockGranted, WorkerLockGranted, Move, At, Procs, Keyed,
               Awaiting, Away, Tables
<1>2. PICK pc \in {"activate", "select"} :
         /\ Put(r, [proc[r] EXCEPT !.pc = pc])
         /\ pc = "activate" => proc[r].pc = "queued"
         /\ pc = "select" => WorkerLockFree
  BY DEF ActivationLockGranted, WorkerLockGranted, Move, At
<1> DEFINE P == [proc[r] EXCEPT !.pc = pc]
<1>3. P \in Proc /\ P.pc = pc /\ P.key = proc[r].key /\ P.lock = proc[r].lock
  BY <1>1 DEF Proc, LoopPcs
<1> HIDE DEF P
<1>4. Becomes(r, P) /\ P.pc \notin Awaiting
  BY <1>1, <1>2, <1>3, Facts DEF Becomes, Goes, Placed, Handed, Awaiting, PreparePcs, Procs
<1> QED
  BY <1>1, <1>2, <1>3, <1>4, MovingOnly DEF P

LEMMA RouteInv ==
    ASSUME Inv, NEW r \in Requests, Route(r)
    PROVE  Inv'
<1> DEFINE sh == entry[proc[r].key].shared
           iso == isolated[Instance(r)]
<1>1. /\ r \in Procs /\ r # Reloader /\ proc[r] \in Proc /\ proc[r].key \in Keys
      /\ proc[r].pc = "route" /\ proc[r].pc \notin Awaiting /\ proc[r].pc \notin Away
      /\ sh \in Workers \union {None} /\ iso \in Workers \union {None}
      /\ UNCHANGED Tables /\ UNCHANGED reload
  BY Facts, InstanceType DEF Inv, TypeOK, Entry, Route, At, Procs, Keyed, Awaiting, Away, Tables
<1>2. CASE Finish(r) /\ UNCHANGED worker
  BY <1>1, <1>2, EndingOnly DEF Finish
<1>3. CASE IsRunning(sh) /\ Call(r, sh)
  BY <1>1, <1>3, Calling DEF IsRunning
<1>4. CASE IsRunning(iso) /\ Call(r, iso)
  BY <1>1, <1>4, Calling DEF IsRunning
<1>5. CASE UNCHANGED worker /\ Goto(r, IF WorkerLockFree THEN "select" ELSE "lockWait")
  <2> DEFINE P == [proc[r] EXCEPT !.pc = IF WorkerLockFree THEN "select" ELSE "lockWait"]
  <2>1. /\ P \in Proc /\ P.key = proc[r].key /\ P.pc \in {"select", "lockWait"}
        /\ P.pc = "select" => WorkerLockFree
    BY <1>1 DEF Proc, LoopPcs, OtherPcs
  <2>2. Put(r, P)
    BY <1>5 DEF Goto
  <2> HIDE DEF P
  <2>3. Becomes(r, P) /\ P.pc \notin Awaiting
    BY <1>1, <2>1, Facts DEF Becomes, Goes, Placed, Handed, Awaiting, PreparePcs, Procs
  <2> QED
    BY <1>1, <1>5, <2>1, <2>2, <2>3, MovingOnly
<1> QED
  BY <1>2, <1>3, <1>4, <1>5 DEF Route

LEMMA SelectInv ==
    ASSUME Inv, NEW r \in Requests, Select(r)
    PROVE  Inv'
<1> DEFINE k == proc[r].key
           sh == entry[k].shared
           iso == isolated[Instance(r)]
           rec == [proc[r] EXCEPT !.pc = "spawning", !.ver = cfg[k]]
<1>1. /\ r \in Procs /\ r # Reloader /\ proc[r] \in Proc /\ k \in Keys /\ cfg[k] \in Nat
      /\ proc[r].pc = "select" /\ proc[r].pc \notin Awaiting /\ proc[r].pc \notin Away
      /\ sh \in Workers \union {None} /\ iso \in Workers \union {None}
      /\ InputsOf(r, k) \in Inputs \union {None}
      /\ \A q \in Procs \ {r} : proc[q].pc \notin LoopPcs
      /\ UNCHANGED Tables /\ UNCHANGED reload
  BY Facts, InstanceType, InputsType
     DEF Inv, TypeOK, Entry, Select, At, Procs, Keyed, Awaiting, Away, Tables
<1>2. WorkerLockFree /\ \A q \in Requests \ {r} : proc[q].pc # "select"
  BY <1>1 DEF Inv, Spawns, WorkerLockFree, Procs, LoopPcs
<1>3. /\ rec \in Proc /\ rec.pc = "spawning" /\ rec.key = k /\ rec.ver = cfg[k]
      /\ \A w \in Workers : LET R == [rec EXCEPT !.hand = w] IN
            R.pc = "spawning" /\ R.key = k /\ R.hand = w
  BY <1>1 DEF Proc, OtherPcs
<1> HIDE DEF rec
<1>4. \A w \in Workers : Becomes(r, [rec EXCEPT !.hand = w])
  BY <1>1, <1>3, Facts DEF Becomes, Goes, Placed, PreparePcs, Procs
<1>5. rec.pc \in Awaiting
  BY <1>3 DEF Awaiting
<1>6. CASE Unavailable(k)
  <2>1. Put(r, Failing(r, TRUE)) /\ UNCHANGED worker
    BY <1>6 DEF Select
  <2>2. Failing(r, TRUE) \in Proc /\ Failing(r, TRUE).pc = "failing" /\ Failing(r, TRUE).key = k
    BY <1>1, FailingTyped
  <2> QED
    BY <1>1, <2>1, <2>2, Passing, MovingOnly
<1>7. CASE IsRunning(sh) /\ Call(r, sh)
  BY <1>1, <1>7, Calling DEF IsRunning
<1>8. CASE IsRunning(iso) /\ Call(r, iso)
  BY <1>1, <1>8, Calling DEF IsRunning
<1>9. CASE ~Unavailable(k) /\ ~IsRunning(sh) /\ MayShare(k) /\ Launch(r, rec, "shared", InputsOf(r, k))
  <2>1. /\ cfg[k] # 0 /\ entry[k].tools # 0
        /\ sh # None => worker[sh].state \notin {"starting", "running"}
    BY <1>1, <1>9 DEF Unavailable, MayShare, IsRunning, Inv, Entries, SharedOf
  <2>2. /\ entry[rec.key].tools # 0 /\ rec.pc # "starting" /\ rec.ver # 0 /\ rec.ver = cfg[rec.key]
        /\ entry[rec.key].shared # None => worker[entry[rec.key].shared].state \notin Up
    BY <1>3, <2>1 DEF Up
  <2>3. Launch(r, rec, "shared", InputsOf(r, k)) /\ rec.key \in Keys
    BY <1>1, <1>3, <1>9
  <2> HIDE DEF k, sh, iso
  <2> QED
    BY <1>1, <1>2, <1>3, <1>4, <1>5, <2>2, <2>3, Launching
<1>10. CASE ~Unavailable(k) /\ ~IsRunning(iso) /\ Launch(r, rec, "isolated", InputsOf(r, k))
  <2>1. Instance(r) \in Instances
    BY <1>1, InstanceType DEF Inv, Keyed
  <2>2. cfg[k] # 0 /\ (iso # None => worker[iso].state \notin {"starting", "running"})
    BY <1>1, <1>10, <2>1 DEF Unavailable, IsRunning, Inv, Isolates, IsolatedOf
  <2>3. Instance(r) = <<address[SessionOf[r]], rec.key, InputsOf(r, rec.key)>>
    BY <1>3 DEF Instance
  <2> QED
    BY <1>1, <1>2, <1>3, <1>4, <1>5, <1>10, <2>2, <2>3, Launching DEF Up
<1> QED
  BY <1>6, <1>7, <1>8, <1>9, <1>10 DEF Select, rec

LEMMA CallInv ==
    ASSUME Inv, NEW r \in Requests, CallReturns(r) \/ CallFails(r) \/ Degraded(r)
    PROVE  Inv'
<1>1. /\ r \in Procs /\ proc[r] \in Proc /\ proc[r].key \in Keys
      /\ proc[r].pc \in {"calling", "degrading"} /\ proc[r].pc \notin Awaiting /\ proc[r].pc \notin Away
      /\ UNCHANGED Tables /\ UNCHANGED <<worker, reload>>
  BY Facts DEF CallReturns, CallFails, Degraded, Move, At, Procs, Keyed, Awaiting, Away, Tables
<1>2. CASE Put(r, Fresh("done", None))
  BY <1>1, <1>2, EndingOnly
<1>3. ASSUME NEW crash \in BOOLEAN, Put(r, Failing(r, crash)) PROVE Inv'
  <2>1. Failing(r, crash) \in Proc /\ Failing(r, crash).pc = "failing" /\ Failing(r, crash).key = proc[r].key
    BY <1>1, FailingTyped
  <2> QED
    BY <1>1, <1>3, <2>1, Passing, MovingOnly
<1> QED
  BY <1>2, <1>3 DEF CallReturns, CallFails, Degraded, Move

LEMMA SpawnFailsInv ==
    ASSUME Inv, NEW r \in Requests, SpawnFails(r)
    PROVE  Inv'
<1> DEFINE h == proc[r].hand
           W == [worker[h] EXCEPT !.state = "stopped"]
           P == Failing(r, TRUE)
<1>1. /\ r \in Procs /\ proc[r].key \in Keys /\ h \in Workers /\ proc[r].pc = "spawning"
      /\ proc[r].pc \notin Away /\ proc[r].pc \in Awaiting /\ UNCHANGED Tables /\ UNCHANGED reload
      /\ worker[h] \in Worker /\ worker[h].state = "starting"
      /\ worker' = [worker EXCEPT ![h] = W] /\ proc' = [proc EXCEPT ![r] = P]
  BY Facts DEF SpawnFails, Put, At, Procs, Keyed, Handed, Awaiting, Away, Tables, Inv, TypeOK, Hands, Holds
<1>2. P \in Proc /\ P.pc = "failing" /\ P.key = proc[r].key
  BY <1>1, FailingTyped
<1>3. Becomes(r, P) /\ P.pc \notin Awaiting
  BY <1>1, <1>2, Passing
<1>4. W \in Worker /\ W.state = "stopped" /\ W.key = worker[h].key /\ W.ver = worker[h].ver
      /\ W.mode = worker[h].mode /\ W.inputs = worker[h].inputs /\ W.users = worker[h].users
  BY <1>1 DEF Worker
<1> HIDE DEF W, P
<1>5. /\ proc' \in [Procs -> Proc] /\ proc'[r] = P /\ \A q \in Procs \ {r} : proc'[q] = proc[q]
      /\ worker' \in [Workers -> Worker] /\ worker'[h] = W
      /\ \A w \in Workers \ {h} : worker'[w] = worker[w]
  BY <1>1, <1>2, <1>4 DEF Inv, TypeOK
<1>6. \A w \in Workers : Subsides(w)
  BY <1>1, <1>4, <1>5 DEF Subsides
<1>7. Leaves(r) /\ \A q \in Procs \ {r} : Stays(q)
  BY <1>1, <1>3, <1>4, <1>5, Facts DEF Leaves, Stays, Becomes, Up, Handed
<1> QED
  BY <1>1, <1>5, <1>6, <1>7, Quiet, NoneAssumption

LEMMA CancelInv ==
    ASSUME Inv, NEW r \in Requests, Cancel(r)
    PROVE  Inv'
<1>1. /\ r \in Procs /\ proc[r].pc \in PreparePcs \union {"queued", "lockWait", "spawning", "calling", "degrading"}
      /\ Put(r, Fresh("cancelled", None))
      /\ UNCHANGED Tables /\ UNCHANGED reload
  BY DEF Cancel, CancelThen, Procs, Tables
<1>2. CASE proc[r].pc \in Awaiting
  <2>1. /\ {proc[r].hand} \in SUBSET Workers /\ worker' = Stopping({proc[r].hand})
        /\ \A q \in Procs \ {r} : proc[q].pc \in Awaiting => proc[q].hand \notin {proc[r].hand}
    BY <1>1, <1>2, Facts DEF Cancel, CancelThen, Awaiting, Handed
  <2> QED
    BY <1>1, <1>2, <2>1, Ending
<1>3. CASE proc[r].pc \notin Awaiting
  BY <1>1, <1>3, EndingOnly DEF Cancel, CancelThen, Awaiting
<1> QED
  BY <1>2, <1>3

-----------------------------------------------------------------------------
(* The preparation of an upstream *)

(* reload() closes what it has prepared and ends.                          *)
LEMMA ReloadGivesUp ==
    ASSUME Inv, proc[Reloader].pc \in {"qualifying", "aborting"}, GiveUp(Reloader), UNCHANGED Tables
    PROVE  Inv'
<1> DEFINE spare == {x.hand : x \in reload.prepared} \ {None}
           P == Fresh("retiring", None)
<1>1. /\ Reloader \in Procs /\ proc' = [proc EXCEPT ![Reloader] = P]
      /\ worker' = Stopping(spare)
      /\ reload' = [reload EXCEPT !.prepared = {}, !.retired = spare]
  BY DEF GiveUp, Put, Procs
<1>2. P \in Proc /\ P.pc = "retiring"
  BY FreshTyped DEF OtherPcs
<1> HIDE DEF P
<1>3. /\ proc' \in [Procs -> Proc] /\ proc'[Reloader] = P
      /\ \A q \in Procs \ {Reloader} : proc'[q] = proc[q]
  BY <1>1, <1>2 DEF Inv, TypeOK
<1>4. spare \in SUBSET Workers /\ reload \in ReloadType
  BY DEF Inv, TypeOK, Prepared, ReloadType
<1>5. /\ worker' \in [Workers -> Worker]
      /\ \A w \in Workers : Subsides(w)
      /\ \A w \in Workers \ spare : worker'[w] = worker[w]
      /\ \A w \in spare : worker'[w].state \notin Up
  BY <1>1, <1>4, StoppingSubsides DEF Inv
<1>6. ASSUME NEW q \in Procs, proc[q].pc \in Awaiting PROVE proc[q].hand \in Workers \ spare
  <2>1. proc[q].hand \in Workers /\ worker[proc[q].hand].state = "starting"
    BY <1>6 DEF Inv, Places, Placed, Handed, Hands, Holds
  <2>2. \A w \in spare : worker[w].state # "starting"
    BY DEF Inv, Reloading, Ready, SharedOf
  <2> QED
    BY <2>1, <2>2
<1>7. Leaves(Reloader) /\ \A q \in Procs \ {Reloader} : Stays(q)
  BY <1>2, <1>3, <1>5, <1>6, NoneAssumption
     DEF Leaves, Stays, Goes, Placed, Keyed, Handed, Awaiting, PreparePcs, ReloadPcs
<1>8. /\ reload' \in ReloadType /\ reload'.prepared = {}
  BY <1>1, <1>4 DEF ReloadType
<1>9. Reloading'
  BY <1>2, <1>3, <1>8 DEF Reloading, Preparing, PreparePcs
<1>10. \A x \in reload.prepared : x.hand \in Workers => worker'[x.hand].state \notin Up
  BY <1>5, NoneAssumption
<1>11. Narrows
  BY DEF Tables, Narrows, Inv, TypeOK
<1> HIDE DEF spare
<1> QED
  BY <1>1, <1>3, <1>5, <1>7, <1>8, <1>9, <1>10, <1>11, Narrowing

LEMMA GiveUpInv ==
    ASSUME Inv, NEW p \in Procs, proc[p].pc \in {"qualifying", "aborting"}, GiveUp(p), UNCHANGED Tables
    PROVE  Inv'
<1>1. CASE p = Reloader
  BY <1>1, ReloadGivesUp
<1>2. CASE p # Reloader
  <2>1. /\ p \in Requests /\ Put(p, Fresh("done", None)) /\ UNCHANGED <<worker, reload>>
        /\ proc[p].pc \notin Awaiting
    BY <1>2 DEF GiveUp, Finish, Procs, Awaiting
  <2> QED
    BY <2>1, EndingOnly
<1> QED
  BY <1>1, <1>2

LEMMA QualifiedInv ==
    ASSUME Inv, NEW p \in Procs, Qualified(p)
    PROVE  Inv'
<1>1. /\ proc[p] \in Proc /\ proc[p].key \in Keys /\ proc[p].pc = "qualifying"
      /\ proc[p].pc \in PreparePcs /\ proc[p].ver # 0 /\ UNCHANGED Tables
      /\ IsShareable(proc[p].key, proc[p].ver)
  BY Facts DEF Qualified, QualifyAs, At, Keyed, PreparePcs, Tables, Inv, Places, Placed
<1>2. CASE GiveUp(p)
  BY <1>1, <1>2, GiveUpInv
<1>3. ASSUME NEW q \in {"admitted", "rejected"}, UNCHANGED reload,
             Launch(p, [proc[p] EXCEPT !.pc = "starting", !.qual = q],
                    IF q = "admitted" THEN "shared" ELSE "probe", InputsOf(p, proc[p].key))
      PROVE  Inv'
  <2> DEFINE P == [proc[p] EXCEPT !.pc = "starting", !.qual = q]
             mode == IF q = "admitted" THEN "shared" ELSE "probe"
  <2>1. /\ P \in Proc /\ P.pc = "starting" /\ P.qual = q /\ P.key = proc[p].key
        /\ P.ver = proc[p].ver /\ P.lock = proc[p].lock
    BY <1>1 DEF Proc, PreparePcs
  <2>2. Launch(p, P, mode, InputsOf(p, proc[p].key)) /\ InputsOf(p, proc[p].key) \in Inputs \union {None}
    BY <1>1, <1>3, InputsType
  <2> HIDE DEF P
  <2>3. ASSUME NEW w \in Workers PROVE Becomes(p, [P EXCEPT !.hand = w])
    <3> DEFINE R == [P EXCEPT !.hand = w]
    <3>1. /\ R.pc = "starting" /\ R.key = P.key /\ R.ver = P.ver /\ R.lock = P.lock /\ R.hand = w
          /\ R.qual = q
      BY <2>1 DEF Proc
    <3> HIDE DEF R
    <3>2. MayPrepare(p, R) /\ R.pc \in PreparePcs
      BY <1>1, <2>1, <3>1, StillPreparing DEF PreparePcs
    <3> QED
      BY <1>1, <2>1, <3>1, <3>2, Facts
         DEF Becomes, Goes, Placed, Handed, Awaiting, MayPrepare, ReloadPcs, PreparePcs, Procs, Away, R
  <2>4. /\ P.pc \in Awaiting /\ P.pc # "spawning" /\ P.ver # 0 /\ P.key \in Keys
        /\ mode = IF P.qual = "admitted" THEN "shared" ELSE "probe"
        /\ proc[p].pc \notin Awaiting
    BY <1>1, <2>1 DEF Awaiting
  <2> HIDE DEF mode
  <2> QED
    BY <1>1, <1>3, <2>1, <2>2, <2>3, <2>4, Launching
<1> QED
  BY <1>2, <1>3 DEF Qualified, QualifyAs

LEMMA AbortedInv ==
    ASSUME Inv, NEW p \in Procs, Aborted(p)
    PROVE  Inv'
BY GiveUpInv DEF Aborted, At, Tables

(* The worker of a preparation is stopped.                                 *)
LEMMA StartEnds ==
    ASSUME Inv, NEW p \in Procs, proc[p].pc = "starting", NEW pc \in {"discarding", "aborting"},
           worker' = Stopping({proc[p].hand}), Goto(p, pc), UNCHANGED Tables, UNCHANGED reload
    PROVE  Inv'
<1> DEFINE P == [proc[p] EXCEPT !.pc = pc]
<1>1. /\ proc[p] \in Proc /\ proc[p].key \in Keys /\ proc[p].hand \in Workers /\ proc[p].ver # 0
      /\ proc[p].pc \in PreparePcs /\ proc[p].pc \in Awaiting
      /\ proc[p].qual = "admitted" => IsShareable(proc[p].key, proc[p].ver)
  BY Facts DEF Inv, Places, Placed, Keyed, Handed, Awaiting, PreparePcs
<1>2. /\ P \in Proc /\ P.pc = pc /\ P.key = proc[p].key /\ P.ver = proc[p].ver /\ P.lock = proc[p].lock
      /\ P.hand = proc[p].hand /\ P.qual = proc[p].qual
  BY <1>1 DEF Proc, PreparePcs
<1>3. Put(p, P)
  BY DEF Goto
<1> HIDE DEF P
<1>4. MayPrepare(p, P)
  BY <1>1, <1>2, StillPreparing DEF PreparePcs
<1>5. Becomes(p, P) /\ P.pc \notin Awaiting
  <2>1. Placed(p, P) /\ P.pc \in PreparePcs /\ P.pc \notin Awaiting
    BY <1>1, <1>2, Facts DEF Placed, Handed, Awaiting, ReloadPcs, PreparePcs
  <2> QED
    BY <1>1, <1>2, <1>4, <2>1, Facts
     DEF Becomes, Goes, Placed, Handed, Awaiting, MayPrepare, ReloadPcs, PreparePcs, Procs, Away
<1>6. \A q \in Procs \ {p} : proc[q].pc \in Awaiting => proc[q].hand \notin {proc[p].hand}
  BY <1>1, Facts
<1> QED
  BY <1>1, <1>2, <1>3, <1>5, <1>6, Moving

LEMMA StartFailsInv ==
    ASSUME Inv, NEW p \in Procs, StartFails(p)
    PROVE  Inv'
BY StartEnds DEF StartFails, StartFailsThen, At, Tables

(* The preparation has come to its end: with a worker that will be shared  *)
(* or, when none may be, without one.                                      *)
Prepares(p, w) ==
    \/ /\ proc[p].pc = "starting" /\ proc[p].qual = "admitted" /\ w = proc[p].hand
       /\ worker' = [worker EXCEPT ![w].state = "running"]
    \/ proc[p].pc = "discarding" /\ w = None /\ worker' = worker

(* What that makes of the workers.                                         *)
HandsOver(p, w) ==
    /\ proc[p] \in Proc /\ proc[p].key \in Keys /\ proc[p].ver # 0 /\ proc[p].pc \in PreparePcs
    /\ worker' \in [Workers -> Worker]
    /\ w # None => /\ w \in Workers /\ proc[p].hand = w /\ worker[w].state = "starting"
                   /\ worker'[w].ver = proc[p].ver
                   /\ \A k \in Keys : k = proc[p].key => SharedOf(w, k)'
    /\ w = None => proc[p].pc \notin Awaiting
    /\ \A v \in Workers : v # w => worker'[v] = worker[v]
    /\ \A v \in Workers : worker'[v].users = worker[v].users /\ worker'[v].mode = worker[v].mode
           /\ worker'[v].key = worker[v].key /\ worker'[v].inputs = worker[v].inputs
           /\ worker'[v].ver = worker[v].ver
    /\ \A v \in Workers, k \in Keys : SharedOf(v, k) => SharedOf(v, k)' /\ v # w
    /\ \A v \in Workers, i \in Instances : IsolatedOf(v, i) => IsolatedOf(v, i)' /\ v # w
    /\ \A q \in Procs \ {p} : proc[q].pc \in Awaiting =>
           proc[q].hand \in Workers /\ proc[q].hand # w

LEMMA PreparesFacts ==
    ASSUME Inv, NEW p \in Procs, NEW w, Prepares(p, w), UNCHANGED <<cfg, address>>
    PROVE  HandsOver(p, w)
<1> USE DEF HandsOver
<1>1. /\ proc[p] \in Proc /\ proc[p].key \in Keys /\ proc[p].ver # 0 /\ proc[p].pc \in PreparePcs
      /\ proc[p].hand \in Workers /\ \A v \in Workers : worker[v] \in Worker
  BY Facts DEF Prepares, Inv, TypeOK, Places, Placed, Keyed, Handed, Awaiting, PreparePcs
<1>2. CASE proc[p].pc = "discarding" /\ w = None /\ worker' = worker
  <2>1. \A v \in Workers : v # w
    BY <1>2, NoneAssumption
  <2>2. \A q \in Procs : proc[q].pc \in Awaiting => proc[q].hand \in Workers
    BY DEF Inv, Places, Placed, Handed
  <2>3. proc[p].pc \notin Awaiting
    BY <1>2 DEF Awaiting
  <2> QED
    BY <1>1, <1>2, <2>1, <2>2, <2>3 DEF Inv, TypeOK, SharedOf, IsolatedOf
<1>3. CASE /\ proc[p].pc = "starting" /\ proc[p].qual = "admitted" /\ w = proc[p].hand
           /\ worker' = [worker EXCEPT ![w].state = "running"]
  <2> DEFINE W == [worker[w] EXCEPT !.state = "running"]
  <2>1. /\ w \in Workers /\ w # None /\ worker[w] \in Worker /\ proc[p].pc \in Awaiting /\ Holds(p)
    BY <1>1, <1>3, NoneAssumption DEF Inv, Hands, Awaiting
  <2>2. /\ W \in Worker /\ W.state = "running" /\ W.key = worker[w].key /\ W.ver = worker[w].ver
        /\ W.mode = worker[w].mode /\ W.inputs = worker[w].inputs /\ W.users = worker[w].users
    BY <2>1 DEF Worker
  <2>3. worker' = [worker EXCEPT ![w] = W]
    BY <1>3
  <2> HIDE DEF W
  <2>4. /\ worker' \in [Workers -> Worker] /\ worker'[w] = W
        /\ \A v \in Workers : v # w => worker'[v] = worker[v]
    BY <2>1, <2>2, <2>3 DEF Inv, TypeOK
  <2>5. /\ worker[w].state = "starting" /\ worker[w].mode = "shared" /\ worker[w].key = proc[p].key
        /\ worker[w].ver = proc[p].ver
    BY <1>3, <2>1 DEF Holds
  <2>6. \A k \in Keys : k = proc[p].key => SharedOf(w, k)'
    BY <1>1, <2>2, <2>4, <2>5 DEF SharedOf
  <2>7. /\ \A v \in Workers, k \in Keys : SharedOf(v, k) => SharedOf(v, k)' /\ v # w
        /\ \A v \in Workers, i \in Instances : IsolatedOf(v, i) => IsolatedOf(v, i)' /\ v # w
    BY <2>4, <2>5 DEF SharedOf, IsolatedOf
  <2>8. \A q \in Procs \ {p} : proc[q].pc \in Awaiting => proc[q].hand \in Workers /\ proc[q].hand # w
    BY <1>3, <2>1, Facts DEF Handed
  <2> QED
    BY <1>1, <1>3, <2>1, <2>2, <2>4, <2>5, <2>6, <2>7, <2>8
<1> QED
  BY <1>2, <1>3 DEF Prepares

LEMMA RequestReturns ==
    ASSUME Inv, NEW p \in Requests, NEW w, Return(p, w), Prepares(p, w), NEW k \in Keys, k = proc[p].key,
           UNCHANGED <<cfg, isolated, address, ended, closer, leaving>>
    PROVE  Inv'
<1>0. HandsOver(p, w)
  BY PreparesFacts DEF Procs
<1> DEFINE E == [entry[k] EXCEPT !.tools = proc[p].ver,
                                 !.qualified = IF proc[p].qual = "none" THEN @ ELSE proc[p].qual,
                                 !.shared = IF w = None THEN @ ELSE w]
           P == Fresh("route", k)
<1>1. /\ p \in Procs /\ p # Reloader /\ k \in Keys /\ entry[k] \in Entry /\ address[SessionOf[p]] # None
      /\ proc[p].ver \in Nat \ {0}
  BY <1>0, Facts DEF HandsOver, Procs, PreparePcs, Away, Inv, TypeOK, Proc
<1>2. proc' = [proc EXCEPT ![p] = P] /\ entry' = [entry EXCEPT ![k] = E] /\ reload' = reload
  <2>1. entry' = [entry EXCEPT ![k] = [entry[k] EXCEPT !.tools = proc[p].ver,
              !.qualified = IF proc[p].qual = "none" THEN entry[k].qualified ELSE proc[p].qual,
              !.shared = IF w = None THEN entry[k].shared ELSE w]]
    BY <1>1 DEF Return, Inv, TypeOK
  <2> QED
    BY <1>1, <2>1 DEF Return, Put
<1>3. P \in Proc /\ P.pc = "route" /\ P.key = k
  <2> HIDE DEF E
  <2>1. "route" \in LoopPcs \union PreparePcs \union OtherPcs /\ k \in Keys \union {None}
    BY DEF LoopPcs
  <2> QED
    BY <2>1, FreshTyped
<1>4. /\ E \in Entry /\ E.tools = proc[p].ver /\ E.lock = entry[k].lock
      /\ E.shared = IF w = None THEN entry[k].shared ELSE w
      /\ E.qualified = IF proc[p].qual = "none" THEN entry[k].qualified ELSE proc[p].qual
  BY <1>0, <1>1 DEF HandsOver, Entry, Proc
<1> HIDE DEF E, P
<1>5. /\ proc' \in [Procs -> Proc] /\ proc'[p] = P /\ \A q \in Procs \ {p} : proc'[q] = proc[q]
      /\ entry' \in [Keys -> Entry] /\ entry'[k] = E /\ \A j \in Keys \ {k} : entry'[j] = entry[j]
  BY <1>1, <1>2, <1>3, <1>4 DEF Inv, TypeOK
<1>6. \A j \in Keys : entry'[j].lock = entry[j].lock /\ (entry[j].tools # 0 => entry'[j].tools # 0)
  BY <1>1, <1>4, <1>5
<1>7. TypeOK'
  BY <1>0, <1>2, <1>5 DEF HandsOver, Inv, TypeOK
<1>8. Places'
  BY <1>1, <1>3, <1>5 DEF Inv, Places, Placed, Keyed, Handed, Awaiting, PreparePcs
<1>9. \A q \in Procs : proc'[q].pc \in Awaiting =>
        /\ q # p /\ proc'[q] = proc[q] /\ proc[q].hand \in Workers
        /\ worker'[proc[q].hand] = worker[proc[q].hand]
  BY <1>0, <1>3, <1>5 DEF HandsOver, Awaiting
<1>10. Hands'
  BY <1>9 DEF Inv, Hands, Holds, InputsOf
<1>11. Entries'
  <2>1. ASSUME NEW j \in Keys \ {k}
        PROVE  /\ entry'[j].qualified # "none" => entry'[j].tools # 0
               /\ entry'[j].shared # None => entry'[j].tools # 0 /\ SharedOf(entry[j].shared, j)'
               /\ entry'[j].qualified = "admitted" /\ entry'[j].lock = 0 => IsShareable(j, entry'[j].tools)
    BY <1>0, <1>5 DEF HandsOver, Inv, Entries, TypeOK, Entry
  <2>2. \A v \in Workers : entry[k].shared = v => SharedOf(v, k)'
    BY <1>0, <1>1, NoneAssumption DEF HandsOver, Inv, Entries
  <2>3. \A v \in Workers : entry'[k].shared = v => SharedOf(v, k)'
    BY <1>0, <1>1, <1>4, <1>5, <2>2 DEF HandsOver
  <2>4. /\ entry'[k].tools # 0
        /\ entry'[k].shared \in Workers \union {None}
    BY <1>1, <1>4, <1>5 DEF Entry
  <2>5. entry'[k].qualified = "admitted" /\ entry'[k].lock = 0 => IsShareable(k, entry'[k].tools)
    <3>1. entry[k].lock = 0 => entry[k].qualified = "none"
      BY <1>0, <1>1 DEF HandsOver, Inv, Activations, Entries
    <3>2. proc[p].qual = "admitted" => IsShareable(k, proc[p].ver)
      BY <1>0, <1>1 DEF HandsOver, Inv, Places, Placed
    <3> QED
      BY <1>4, <1>5, <3>1, <3>2
  <2> QED
    BY <1>5, <2>1, <2>3, <2>4, <2>5 DEF Entries
<1>12. Isolates'
  BY <1>0 DEF HandsOver, Inv, Isolates, TypeOK
<1>13. Reloading'
  <2>1. \A x \in reload.prepared : x.key \in Keys /\ x.hand \in Workers \union {None}
    BY DEF Inv, TypeOK, Prepared
  <2>2. \A x \in reload.prepared : x.hand # None => worker'[x.hand].ver = worker[x.hand].ver
    BY <1>0, <2>1 DEF HandsOver, Inv, Reloading, Ready
  <2>3. \A x \in reload.prepared : Ready(x)'
    BY <1>0, <1>2, <1>6, <2>1, <2>2 DEF HandsOver, Inv, Reloading, Ready, Changed
  <2>4. proc'[Reloader] = proc[Reloader] /\ (proc[Reloader].pc \in PreparePcs => proc[Reloader].key \in Keys)
    BY <1>1, <1>5 DEF Procs, Inv, Places, Placed, Keyed
  <2> QED
    BY <1>2, <1>6, <2>3, <2>4 DEF Inv, Reloading, Preparing, Changed
<1>14. \A r \in Requests \ {p} : proc[r].pc \in PreparePcs /\ proc[r].key = k => entry[k].lock # 0
  <2>1. proc[p].lock <= entry[k].lock /\ proc[p].lock \in Nat
    BY <1>0 DEF HandsOver, Inv, Activations, Proc
  <2>2. \A r \in Requests : proc[r].pc \in PreparePcs => proc[r].lock <= entry[proc[r].key].lock /\ proc[r].lock \in Nat
    BY DEF Inv, Activations, TypeOK, Proc, Procs
  <2> QED
    BY <1>0, <2>1, <2>2 DEF HandsOver, Inv, Activations
<1>15. Activations'
  <2>1. \A r \in Requests \ {p} : proc'[r] = proc[r] /\ (proc[r].pc \in PreparePcs \union {"activate", "queued"} => proc[r].key \in Keys)
    BY <1>5 DEF Procs, Inv, Places, Placed, Keyed
  <2>2. proc'[p].pc \notin PreparePcs \union {"activate", "queued"}
    BY <1>3, <1>5 DEF PreparePcs
  <2>3. \A r \in Requests \ {p} : proc[r].pc \in PreparePcs /\ entry[proc[r].key].lock = 0 => entry'[proc[r].key] = entry[proc[r].key]
    BY <1>5, <1>14, <2>1
  <2> QED
    BY <1>6, <2>1, <2>2, <2>3 DEF Inv, Activations
<1>16. entry[k].lock = 0 => entry[k].tools = 0 /\ entry[k].shared = None
  BY <1>0, <1>1 DEF HandsOver, Inv, Activations, Entries
<1>17. Spawns'
  <2>1. \A r \in Requests : proc'[r].pc \in {"spawning", "select"} => proc'[r] = proc[r]
    BY <1>3, <1>5 DEF Procs
  <2>2. ASSUME NEW r \in Requests, proc[r].pc = "spawning", proc'[r] = proc[r] PROVE Vacant(r)'
    <3>1. Vacant(r) /\ proc[r].key \in Keys /\ worker'[proc[r].hand] = worker[proc[r].hand] /\ Instance(r) \in Instances
      BY <2>2, <1>9, InstanceType DEF Inv, Spawns, Places, Placed, Keyed, Procs, Awaiting
    <3>2. isolated[Instance(r)] # None => worker'[isolated[Instance(r)]] = worker[isolated[Instance(r)]]
      BY <1>0, <3>1 DEF HandsOver, Inv, Isolates, TypeOK
    <3>3. proc[r].key # k /\ entry[proc[r].key].shared # None =>
            worker'[entry[proc[r].key].shared] = worker[entry[proc[r].key].shared]
      BY <1>0, <3>1 DEF HandsOver, Inv, Entries, TypeOK, Entry
    <3> QED
      BY <1>5, <1>6, <1>16, <2>2, <3>1, <3>2, <3>3, SMTT(40) DEF Vacant, Instance, InputsOf
  <2> QED
    BY <2>1, <2>2 DEF Inv, Spawns
<1>18. Addressed'
  BY <1>0, <1>1, <1>5 DEF HandsOver, Inv, Addressed, Procs
<1>19. IsolatedPrivate'
  BY <1>0 DEF HandsOver, Inv, IsolatedPrivate
<1>20. NoStrayWorker'
  <2> SUFFICES ASSUME NEW v \in Workers, worker'[v].state \in {"starting", "running"}
               PROVE  \/ \E j \in Keys : entry'[j].shared = v
                      \/ \E i \in Instances : isolated'[i] = v
                      \/ \E q \in Procs : proc'[q].hand = v /\ proc'[q].pc \in {"starting", "spawning"}
                      \/ \E x \in reload'.prepared : x.hand = v
                      \/ worker'[v].mode = "shared" /\ \E j \in Keys : worker'[v].key = j /\ entry'[j].lock # 0
    BY DEF NoStrayWorker
  <2>1. CASE v = w
    BY <1>1, <1>4, <1>5, <2>1, NoneAssumption
  <2>2. CASE v # w
    <3>1. worker'[v] = worker[v]
      BY <1>0, <2>2 DEF HandsOver
    <3>2. \A q \in Procs : proc[q].hand = v /\ proc[q].pc \in {"starting", "spawning"} => q # p
      BY <1>0, <2>2, <1>1 DEF HandsOver, Awaiting, Prepares
    <3>3. entry[k].shared = v => worker[v].mode = "shared" /\ worker[v].key = k /\ entry[k].lock # 0
      BY <1>1, <1>16, NoneAssumption DEF Inv, Entries, SharedOf
    <3> QED
      BY <1>1, <1>2, <1>5, <1>6, <3>1, <3>2, <3>3 DEF Inv, NoStrayWorker
  <2> QED
    BY <2>1, <2>2
<1> QED
  BY <1>7, <1>8, <1>10, <1>11, <1>12, <1>13, <1>15, <1>17, <1>18, <1>19, <1>20 DEF Inv

LEMMA ReloadReturnsPrepared ==
    ASSUME Inv, NEW w, Return(Reloader, w), Prepares(Reloader, w), NEW k \in Keys, k = proc[Reloader].key,
           UNCHANGED <<cfg, isolated, address, ended, closer, leaving>>
    PROVE  Inv'
<1> DEFINE new == [key |-> k, ver |-> proc[Reloader].ver, qual |-> proc[Reloader].qual, hand |-> w]
           P == Fresh("next", None)
<1>1. Reloader \in Procs /\ HandsOver(Reloader, w)
  BY PreparesFacts DEF Procs
<1>2. /\ proc' = [proc EXCEPT ![Reloader] = P] /\ entry' = entry
      /\ reload' = [reload EXCEPT !.todo = reload.todo \ {k}, !.prepared = reload.prepared \union {new}]
  BY <1>1 DEF Return, Put
<1>3. P \in Proc /\ P.pc = "next"
  <2> HIDE DEF new
  <2> QED
    BY FreshTyped DEF LoopPcs
<1>4. new \in Prepared /\ new.key = k /\ new.ver = proc[Reloader].ver /\ new.hand = w
      /\ new.qual = proc[Reloader].qual
  BY <1>1 DEF HandsOver, Prepared, Proc
<1> HIDE DEF new, P
<1>5. /\ proc' \in [Procs -> Proc] /\ proc'[Reloader] = P
      /\ \A q \in Procs \ {Reloader} : proc'[q] = proc[q]
      /\ \A r \in Requests : proc'[r] = proc[r]
  BY <1>1, <1>2, <1>3, NoneAssumption DEF Inv, TypeOK, Procs
<1>6. /\ reload' \in ReloadType /\ reload'.config = reload.config /\ reload'.todo = reload.todo \ {k}
      /\ reload'.prepared = reload.prepared \union {new}
  <2>1. reload \in ReloadType
    BY DEF Inv, TypeOK, ReloadType
  <2> QED
    BY <1>2, <1>4, <2>1 DEF ReloadType
<1>7. TypeOK'
  BY <1>1, <1>2, <1>5, <1>6 DEF HandsOver, Inv, TypeOK, ReloadType
<1>8. Places'
  BY <1>3, <1>5 DEF Inv, Places, Placed, Keyed, Handed, Awaiting, PreparePcs, ReloadPcs
<1>9. \A q \in Procs : proc'[q].pc \in Awaiting =>
        /\ q # Reloader /\ proc'[q] = proc[q] /\ proc[q].hand \in Workers
        /\ worker'[proc[q].hand] = worker[proc[q].hand]
  BY <1>1, <1>3, <1>5 DEF HandsOver, Awaiting
<1>10. Hands'
  BY <1>9 DEF Inv, Hands, Holds, InputsOf
<1>11. Entries' /\ Isolates'
  BY <1>1, <1>2 DEF HandsOver, Inv, Entries, Isolates, TypeOK, Entry
<1>12. Reloading'
  <2>1. proc[Reloader].pc \in PreparePcs /\ proc[Reloader].pc \notin {"idle", "retiring"}
    BY <1>1 DEF HandsOver, PreparePcs
  <2>2. k \in reload.todo /\ new.ver = reload.config[k] /\ entry[k].tools # 0
        /\ reload.todo \subseteq Changed(reload.config)
    BY <1>4, <2>1 DEF Inv, Reloading, Preparing
  <2>3. \A x \in reload.prepared : x.key \in Keys /\ x.hand \in Workers \union {None}
    BY DEF Inv, TypeOK, Prepared
  <2>4. \A x \in reload.prepared : Ready(x)' /\ x.key # k
    BY <1>1, <1>2, <1>6, <2>2, <2>3 DEF HandsOver, Inv, Reloading, Ready, Changed
  <2>5. new.qual = "admitted" => IsShareable(k, new.ver)
    BY <1>1, <1>4 DEF HandsOver, Inv, Places, Placed
  <2>6. \A x \in reload'.prepared : x = new => Ready(x)'
    BY <1>1, <1>2, <1>4, <1>6, <2>2, <2>5 DEF HandsOver, Ready, Changed
  <2> QED
    <3>1. \A x \in reload'.prepared : Ready(x)'
      BY <1>6, <2>4, <2>6
    <3>2. \A x, y \in reload'.prepared : x.key = y.key => x = y
      BY <1>4, <1>6, <2>4 DEF Inv, Reloading
    <3>3. reload'.todo \subseteq Changed(reload.config)'
      BY <1>1, <1>6, <2>2 DEF Changed
    <3> QED
      BY <1>3, <1>5, <3>1, <3>2, <3>3 DEF Reloading, Preparing, PreparePcs
<1>13. Activations'
  BY <1>2, <1>5 DEF Inv, Activations
<1>14. Spawns'
  <2>1. ASSUME NEW r \in Requests, proc[r].pc = "spawning" PROVE Vacant(r)'
    <3>1. Vacant(r) /\ proc[r].key \in Keys /\ worker'[proc[r].hand] = worker[proc[r].hand] /\ Instance(r) \in Instances
      BY <2>1, <1>5, <1>9, InstanceType DEF Inv, Spawns, Places, Placed, Keyed, Procs, Awaiting
    <3>2. isolated[Instance(r)] # None => worker'[isolated[Instance(r)]] = worker[isolated[Instance(r)]]
      BY <1>1, <3>1 DEF HandsOver, Inv, Isolates, TypeOK
    <3>3. entry[proc[r].key].shared # None =>
            worker'[entry[proc[r].key].shared] = worker[entry[proc[r].key].shared]
      BY <1>1, <3>1 DEF HandsOver, Inv, Entries, TypeOK, Entry
    <3> QED
      BY <1>2, <1>5, <3>1, <3>2, <3>3 DEF Vacant, Instance, InputsOf
  <2> QED
    BY <1>5, <2>1 DEF Inv, Spawns
<1>15. Addressed' /\ IsolatedPrivate'
  BY <1>1, <1>5 DEF HandsOver, Inv, Addressed, IsolatedPrivate
<1>16. NoStrayWorker'
  <2> SUFFICES ASSUME NEW v \in Workers, worker'[v].state \in {"starting", "running"}
               PROVE  \/ \E j \in Keys : entry'[j].shared = v
                      \/ \E i \in Instances : isolated'[i] = v
                      \/ \E q \in Procs : proc'[q].hand = v /\ proc'[q].pc \in {"starting", "spawning"}
                      \/ \E x \in reload'.prepared : x.hand = v
                      \/ worker'[v].mode = "shared" /\ \E j \in Keys : worker'[v].key = j /\ entry'[j].lock # 0
    BY DEF NoStrayWorker
  <2>1. CASE v = w
    BY <1>4, <1>6, <2>1
  <2>2. CASE v # w
    <3>1. worker'[v] = worker[v]
      BY <1>1, <2>2 DEF HandsOver
    <3>2. \A q \in Procs : proc[q].hand = v /\ proc[q].pc \in {"starting", "spawning"} => q # Reloader
      BY <1>1, <2>2 DEF HandsOver, Awaiting
    <3> QED
      BY <1>2, <1>5, <1>6, <3>1, <3>2 DEF Inv, NoStrayWorker
  <2> QED
    BY <2>1, <2>2
<1> QED
  BY <1>7, <1>8, <1>10, <1>11, <1>12, <1>13, <1>14, <1>15, <1>16 DEF Inv

LEMMA ReturnInv ==
    ASSUME Inv, NEW p \in Procs, NEW w, Return(p, w), Prepares(p, w),
           UNCHANGED <<cfg, isolated, address, ended, closer, leaving>>
    PROVE  Inv'
<1>1. proc[p].key \in Keys
  BY PreparesFacts DEF HandsOver
<1> QED
  BY <1>1, RequestReturns, ReloadReturnsPrepared DEF Procs

LEMMA StartedInv ==
    ASSUME Inv, NEW p \in Procs, Started(p)
    PROVE  Inv'
<1>1. CASE proc[p].qual = "admitted"
  <2>1. Return(p, proc[p].hand) /\ Prepares(p, proc[p].hand)
    BY <1>1 DEF Started, Prepares, At
  <2> QED
    BY <2>1, ReturnInv DEF Started
<1>2. CASE proc[p].qual # "admitted"
  BY <1>2, StartEnds DEF Started, At, Tables
<1> QED
  BY <1>1, <1>2

LEMMA DiscardedInv ==
    ASSUME Inv, NEW p \in Procs, Discarded(p)
    PROVE  Inv'
<1>1. Return(p, None) /\ Prepares(p, None)
  BY DEF Discarded, Prepares, At
<1> QED
  BY <1>1, ReturnInv DEF Discarded

-----------------------------------------------------------------------------
(* Failures, and the workers by themselves *)

LEMMA WorkersOnly ==
    ASSUME Inv, UNCHANGED <<proc, reload>>, Narrows, worker' \in [Workers -> Worker],
           \A w \in Workers : Subsides(w) /\ (worker[w].state = "starting" => worker'[w] = worker[w])
    PROVE  Inv'
<1>1. \A q \in Procs : proc[q].pc \in Awaiting => proc[q].hand \in Workers /\ worker[proc[q].hand].state = "starting"
  BY DEF Inv, Places, Placed, Handed, Hands, Holds
<1>2. \A q \in Procs : Stays(q)
  BY <1>1 DEF Stays
<1>3. Reloader \in Procs /\ proc' \in [Procs -> Proc]
  BY DEF Procs, Inv, TypeOK
<1> QED
  BY <1>2, <1>3, Dropping

LEMMA WorkerMovesInv ==
    ASSUME Inv, NEW w \in Workers, WorkerBreaks(w) \/ WorkerEnds(w)
    PROVE  Inv'
<1>1. /\ UNCHANGED <<proc, reload>> /\ UNCHANGED Tables
      /\ worker[w].state \in {"running", "exiting", "stopping"} /\ worker[w] \in Worker
  BY DEF WorkerBreaks, WorkerEnds, WorkerMoves, Tables, Inv, TypeOK
<1>2. PICK W : /\ worker' = [worker EXCEPT ![w] = W]
              /\ \/ W = [worker[w] EXCEPT !.state = "exiting"]
                 \/ W = [worker[w] EXCEPT !.state = "stopped", !.users = {}]
  BY DEF WorkerBreaks, WorkerEnds, WorkerMoves
<1>3. /\ W \in Worker /\ W.key = worker[w].key /\ W.ver = worker[w].ver /\ W.mode = worker[w].mode
      /\ W.inputs = worker[w].inputs /\ W.users \subseteq worker[w].users
      /\ W.state \in {"exiting", "stopping", "stopped"}
  BY <1>1, <1>2 DEF Worker
<1>4. /\ worker' \in [Workers -> Worker]
      /\ \A v \in Workers : Subsides(v) /\ (worker[v].state = "starting" => worker'[v] = worker[v])
  BY <1>1, <1>2, <1>3 DEF Inv, TypeOK, Subsides
<1>5. Narrows
  BY <1>1 DEF Tables, Narrows, Inv, TypeOK
<1> QED
  BY <1>1, <1>4, <1>5, WorkersOnly

LEMMA WorkerIdlesInv ==
    ASSUME Inv, NEW w \in Workers, WorkerIdles(w)
    PROVE  Inv'
<1> DEFINE W == [worker[w] EXCEPT !.state = "exiting"]
<1>1. /\ UNCHANGED <<cfg, proc, reload, address, ended, closer, leaving>>
      /\ worker[w].state = "running" /\ worker[w] \in Worker /\ worker' = [worker EXCEPT ![w] = W]
      /\ closer \in {"open", "closing", "closed"} /\ leaving \subseteq Workers
  BY DEF WorkerIdles, Idle, Inv, TypeOK
<1>2. /\ W \in Worker /\ W.key = worker[w].key /\ W.ver = worker[w].ver /\ W.mode = worker[w].mode
      /\ W.inputs = worker[w].inputs /\ W.users = worker[w].users /\ W.state = "exiting"
  BY <1>1 DEF Worker
<1> HIDE DEF W
<1>3. /\ worker' \in [Workers -> Worker] /\ worker'[w] = W
      /\ \A v \in Workers : Subsides(v) /\ (worker[v].state = "starting" => worker'[v] = worker[v])
  BY <1>1, <1>2 DEF Inv, TypeOK, Subsides
<1>4. \A k \in Keys : entry'[k] = [entry[k] EXCEPT !.shared = IF entry[k].shared = w THEN None ELSE entry[k].shared]
  BY DEF WorkerIdles
<1>5. ASSUME NEW k \in Keys
      PROVE  /\ entry'[k] \in Entry
             /\ entry'[k].tools = entry[k].tools /\ entry'[k].qualified = entry[k].qualified
             /\ entry'[k].lock = entry[k].lock
             /\ entry'[k].shared = IF entry[k].shared = w THEN None ELSE entry[k].shared
  <2>1. entry[k] \in Entry
    BY DEF Inv, TypeOK
  <2> QED
    BY <1>4, <2>1, ZenonT(60) DEF Entry
<1>6. entry' \in [Keys -> Entry]
  <2>1. \A k \in Keys : entry'[k] \in Entry
    BY <1>5
  <2> QED
    BY <2>1 DEF WorkerIdles
<1>7. /\ isolated' \in [Instances -> Workers \union {None}]
      /\ \A i \in Instances : isolated'[i] # isolated[i] => isolated'[i] = None /\ isolated[i] = w
  BY DEF WorkerIdles, Inv, TypeOK
<1>8. Narrows
  BY <1>1, <1>2, <1>3, <1>5, <1>6, <1>7 DEF Narrows, Up
<1> QED
  BY <1>1, <1>3, <1>8, WorkersOnly

(* _record_failure() takes a degraded shared worker out of the table and   *)
(* closes it.                                                              *)
LEMMA FailInv ==
    ASSUME Inv, NEW r \in Requests, Fail(r)
    PROVE  Inv'
<1> DEFINE k == proc[r].key
           f == AtMost(entry[k].failures + 1, FailureThreshold)
           c == AtMost(entry[k].crashes + (IF proc[r].crash THEN 1 ELSE 0), CrashThreshold)
           degrade == cfg[k] # 0 /\ (f = FailureThreshold \/ c = CrashThreshold) /\ ~entry[k].degraded
           sh == entry[k].shared
           S == IF degrade /\ sh # None THEN {sh} ELSE {}
           E == [entry[k] EXCEPT !.failures = f, !.crashes = c, !.degraded = @ \/ degrade,
                                 !.shared = IF degrade THEN None ELSE @]
           P == IF degrade /\ sh # None THEN [proc[r] EXCEPT !.pc = "degrading", !.hand = sh]
                                        ELSE Fresh("done", None)
<1>1. /\ r \in Procs /\ proc[r] \in Proc /\ proc[r].pc = "failing" /\ k \in Keys /\ entry[k] \in Entry
      /\ proc[r].crash \in BOOLEAN /\ proc[r].pc \notin Away /\ proc[r].pc \notin Awaiting
      /\ UNCHANGED <<cfg, isolated, reload, address, ended, closer, leaving>>
  BY Facts DEF Fail, At, Procs, Keyed, Away, Awaiting, Proc
<1>2. entry' = [entry EXCEPT ![k] = E]
  BY DEF Fail
<1>3. /\ proc' = [proc EXCEPT ![r] = P]
      /\ worker' = Stopping(S) \/ (S = {} /\ worker' = worker)
  BY DEF Fail, Finish, Put
<1>4. f \in 0 .. FailureThreshold /\ c \in 0 .. CrashThreshold
  BY <1>1, BoundAssumption DEF AtMost, Entry
<1>5. degrade \in BOOLEAN /\ S \in SUBSET Workers /\ (sh # None => sh \in Workers)
  BY <1>1 DEF Entry
<1>6. /\ P \in Proc /\ P.pc \in {"degrading", "done"} /\ (P.pc = "degrading" => P.key = k /\ P.hand \in Workers)
  <2>1. /\ Fresh("done", None) \in Proc /\ Fresh("done", None).pc = "done"
    BY FreshTyped DEF OtherPcs
  <2>2. ASSUME NEW w \in Workers
        PROVE  LET Q == [proc[r] EXCEPT !.pc = "degrading", !.hand = w] IN
               Q \in Proc /\ Q.pc = "degrading" /\ Q.key = k /\ Q.hand = w
    BY <1>1 DEF Proc, OtherPcs
  <2> HIDE DEF degrade
  <2> QED
    BY <1>5, <2>1, <2>2
<1> HIDE DEF f, c, P
<1>7. /\ E \in Entry /\ E.tools = entry[k].tools /\ E.qualified = entry[k].qualified
      /\ E.lock = entry[k].lock /\ E.shared = IF degrade THEN None ELSE sh
  BY <1>1, <1>4, <1>5 DEF Entry
<1> HIDE DEF E, degrade
<1>8. /\ proc' \in [Procs -> Proc] /\ proc'[r] = P /\ \A q \in Procs \ {r} : proc'[q] = proc[q]
      /\ entry' \in [Keys -> Entry] /\ entry'[k] = E /\ \A j \in Keys \ {k} : entry'[j] = entry[j]
  BY <1>1, <1>2, <1>3, <1>6, <1>7 DEF Inv, TypeOK
<1>9. /\ worker' \in [Workers -> Worker]
      /\ \A w \in Workers : Subsides(w)
      /\ \A w \in Workers \ S : worker'[w] = worker[w]
      /\ \A w \in S : worker'[w].state \notin Up
  <2>1. CASE worker' = Stopping(S)
    BY <1>5, <2>1, StoppingSubsides DEF Inv
  <2>2. CASE S = {} /\ worker' = worker
    BY <2>2 DEF Inv, TypeOK, Subsides
  <2> QED
    BY <1>3, <2>1, <2>2
<1>10. ASSUME NEW q \in Procs, proc[q].pc \in Awaiting PROVE proc[q].hand \in Workers \ S
  <2>1. proc[q].hand \in Workers /\ worker[proc[q].hand].state = "starting"
    BY <1>10 DEF Inv, Places, Placed, Handed, Hands, Holds
  <2>2. \A w \in S : worker[w].state # "starting"
    BY <1>1 DEF Inv, Entries, SharedOf
  <2> QED
    BY <2>1, <2>2
<1>11. Leaves(r) /\ (\A q \in Procs \ {r} : Stays(q)) /\ r # Reloader
  BY <1>1, <1>6, <1>8, <1>9, <1>10, Facts
     DEF Leaves, Stays, Goes, Placed, Keyed, Handed, Awaiting, PreparePcs, Away
<1>12. Narrows
  BY <1>1, <1>5, <1>7, <1>8, <1>9 DEF Narrows, Inv, TypeOK
<1> QED
  BY <1>1, <1>8, <1>9, <1>11, <1>12, Dropping

LEMMA CloseInv ==
    ASSUME Inv, CloseBegins \/ CloseReturns
    PROVE  Inv'
<1>1. CASE CloseBegins
  <2> DEFINE S == ({entry[k].shared : k \in Keys} \union {isolated[i] : i \in Instances}) \ {None}
  <2>1. /\ UNCHANGED <<cfg, proc, reload, address, ended>> /\ closer' = "closing"
        /\ leaving' = S /\ worker' = Stopping(S)
        /\ isolated' = [i \in Instances |-> None]
        /\ entry' = [k \in Keys |-> [entry[k] EXCEPT !.shared = None]]
    BY <1>1 DEF CloseBegins, CloseAll
  <2>2. /\ S \in SUBSET Workers
        /\ \A k \in Keys : entry[k].shared # None => entry[k].shared \in S
        /\ \A i \in Instances : isolated[i] # None => isolated[i] \in S
    BY DEF Inv, TypeOK, Entry
  <2>3. \A w \in S : worker[w].state # "starting"
    BY DEF Inv, Entries, Isolates, SharedOf, IsolatedOf
  <2> HIDE DEF S
  <2>4. /\ worker' \in [Workers -> Worker]
        /\ \A w \in Workers : Subsides(w)
        /\ \A w \in Workers \ S : worker'[w] = worker[w]
        /\ \A w \in S : worker'[w].state \notin Up
    BY <2>1, <2>2, StoppingSubsides DEF Inv
  <2>5. ASSUME NEW k \in Keys
        PROVE  /\ entry'[k] \in Entry
               /\ entry'[k].tools = entry[k].tools /\ entry'[k].qualified = entry[k].qualified
               /\ entry'[k].lock = entry[k].lock /\ entry'[k].shared = None
    <3>1. entry[k] \in Entry
      BY DEF Inv, TypeOK
    <3> QED
      BY <2>1, <3>1 DEF Entry
  <2>6. entry' \in [Keys -> Entry] /\ isolated' \in [Instances -> Workers \union {None}]
    <3>1. \A k \in Keys : entry'[k] \in Entry
      BY <2>5
    <3> QED
      BY <2>1, <3>1
  <2>7. \A i \in Instances : isolated'[i] = None
    BY <2>1
  <2>8. Narrows
    BY <2>1, <2>2, <2>4, <2>5, <2>6, <2>7 DEF Narrows
  <2> QED
    BY <2>1, <2>3, <2>4, <2>8, WorkersOnly
<1>2. CASE CloseReturns
  <2>1. /\ UNCHANGED <<cfg, entry, isolated, worker, proc, reload, address, ended, leaving>>
        /\ closer' = "closed"
    BY <1>2 DEF CloseReturns
  <2>2. Narrows
    BY <2>1 DEF Narrows, Inv, TypeOK
  <2>3. /\ worker' \in [Workers -> Worker]
        /\ \A w \in Workers : Subsides(w) /\ worker'[w] = worker[w]
    BY <2>1 DEF Inv, TypeOK, Subsides
  <2> QED
    BY <2>1, <2>2, <2>3, WorkersOnly
<1> QED
  BY <1>1, <1>2

-----------------------------------------------------------------------------
(* worker_for() enters the worker it has started in a table                *)

LEMMA SpawnedInv ==
    ASSUME Inv, NEW r \in Requests, Spawned(r)
    PROVE  Inv'
<1>1. PICK k \in Keys, i \in Instances, w \in Workers, s \in Sessions :
         /\ k = proc[r].key /\ i = Instance(r) /\ w = proc[r].hand /\ s = SessionOf[r]
  BY Facts, InstanceType DEF Inv, Spawned, At, Keyed, Handed, Awaiting, Procs
<1> DEFINE W == [worker[w] EXCEPT !.state = "running", !.users = {s}]
           P == [Fresh("calling", k) EXCEPT !.hand = w]
           E == [entry[k] EXCEPT !.shared = w]
<1>2. /\ r \in Procs /\ r # Reloader /\ proc[r].pc = "spawning" /\ proc[r].pc \in Awaiting
      /\ worker[w] \in Worker /\ entry[k] \in Entry /\ address[s] # None
      /\ UNCHANGED <<cfg, reload, address, ended, closer, leaving>>
      /\ Holds(r) /\ Vacant(r)
  BY <1>1, Facts DEF Inv, TypeOK, Spawned, At, Away, Procs, Awaiting, Hands, Spawns
<1>3. /\ worker[w].state = "starting" /\ worker[w].key = k /\ worker[w].ver # 0
      /\ worker[w].mode \in {"shared", "isolated"} /\ worker[w].ver = cfg[k]
      /\ worker[w].mode = "isolated" /\ TakesInputs(worker[w].key, worker[w].ver)
           => worker[w].inputs = InputsOf(r, k)
  BY <1>1, <1>2 DEF Holds
<1>4. /\ proc' = [proc EXCEPT ![r] = P]
      /\ worker' = [worker EXCEPT ![w] = W]
      /\ entry' = IF worker[w].mode = "shared" THEN [entry EXCEPT ![k] = E] ELSE entry
      /\ isolated' = IF worker[w].mode = "shared" THEN isolated ELSE [isolated EXCEPT ![i] = w]
  BY <1>1, <1>2 DEF Spawned, Put, Inv, TypeOK
<1>5. P \in Proc /\ P.pc = "calling" /\ P.key = k /\ P.hand = w
  <2>1. ASSUME NEW F \in Proc PROVE LET G == [F EXCEPT !.hand = w] IN
          G \in Proc /\ G.pc = F.pc /\ G.key = F.key /\ G.hand = w
    BY DEF Proc
  <2>2. Fresh("calling", k) \in Proc /\ Fresh("calling", k).pc = "calling" /\ Fresh("calling", k).key = k
    BY FreshTyped DEF OtherPcs
  <2> QED
    BY <2>1, <2>2
<1>6. /\ W \in Worker /\ W.state = "running" /\ W.users = {s} /\ W.key = k /\ W.ver = worker[w].ver
      /\ W.mode = worker[w].mode /\ W.inputs = worker[w].inputs
  BY <1>2, <1>3 DEF Worker
<1>7. E \in Entry /\ E.shared = w /\ E.tools = entry[k].tools /\ E.lock = entry[k].lock /\ E.qualified = entry[k].qualified
  BY <1>2 DEF Entry
<1> HIDE DEF W, P, E
<1>8. /\ proc' \in [Procs -> Proc] /\ proc'[r] = P /\ \A q \in Procs \ {r} : proc'[q] = proc[q]
      /\ worker' \in [Workers -> Worker] /\ worker'[w] = W /\ \A v \in Workers \ {w} : worker'[v] = worker[v]
      /\ entry' \in [Keys -> Entry] /\ \A j \in Keys : entry'[j] = entry[j] \/ (j = k /\ entry'[j] = E)
      /\ isolated' \in [Instances -> Workers \union {None}]
      /\ \A j \in Instances : isolated'[j] = isolated[j] \/ (j = i /\ isolated'[j] = w)
  BY <1>2, <1>4, <1>5, <1>6, <1>7 DEF Inv, TypeOK
<1>9. \A j \in Keys : entry'[j].tools = entry[j].tools /\ entry'[j].lock = entry[j].lock
                       /\ entry'[j].qualified = entry[j].qualified
  BY <1>7, <1>8
<1>10. TypeOK'
  BY <1>2, <1>8 DEF Inv, TypeOK
<1>11. Places'
  BY <1>2, <1>5, <1>8 DEF Inv, Places, Placed, PreparePcs
<1>12. \A q \in Procs : proc'[q].pc \in Awaiting =>
         /\ q # r /\ proc'[q] = proc[q] /\ proc[q].hand \in Workers /\ proc[q].hand # w
         /\ worker'[proc[q].hand] = worker[proc[q].hand]
  BY <1>1, <1>2, <1>5, <1>8, Facts DEF Awaiting, Handed
<1>13. Hands'
  BY <1>2, <1>12 DEF Inv, Hands, Holds, InputsOf
<1>14. /\ \A v \in Workers, j \in Keys : SharedOf(v, j) => SharedOf(v, j)' /\ v # w
       /\ \A v \in Workers, j \in Instances : IsolatedOf(v, j) => IsolatedOf(v, j)' /\ v # w
  BY <1>2, <1>3, <1>8 DEF SharedOf, IsolatedOf
<1>15. worker[w].mode = "shared" => SharedOf(w, k)' /\ entry[k].tools # 0
  BY <1>1, <1>2, <1>3, <1>6, <1>8 DEF SharedOf, Vacant
<1>16. i[1] = address[s] /\ i[2] = k /\ i[3] = InputsOf(r, k)
  BY <1>1 DEF Instance
<1>17. worker[w].mode = "isolated" => IsolatedOf(w, i)'
  BY <1>2, <1>3, <1>6, <1>8, <1>16 DEF IsolatedOf
<1>18. Entries'
  <2> SUFFICES ASSUME NEW j \in Keys
               PROVE  /\ entry'[j].qualified # "none" => entry'[j].tools # 0
                      /\ \A v \in Workers : entry'[j].shared = v => entry'[j].tools # 0 /\ SharedOf(v, j)'
                      /\ entry'[j].qualified = "admitted" /\ entry'[j].lock = 0
                            => IsShareable(j, entry'[j].tools)
    BY <1>8 DEF Entries, Entry
  <2>1. CASE entry'[j] = entry[j]
    BY <2>1, <1>14, NoneAssumption DEF Inv, Entries
  <2>2. CASE j = k /\ entry'[j] = E /\ entry'[j] # entry[j]
    BY <2>2, <1>4, <1>7, <1>9, <1>15 DEF Inv, Entries
  <2> QED
    BY <2>1, <2>2, <1>8
<1>19. Isolates'
  <2>1. \A j \in Instances : isolated'[j] # isolated[j] => j = i /\ isolated'[j] = w /\ worker[w].mode = "isolated"
    BY <1>3, <1>4, <1>8
  <2>2. \A j \in Instances : isolated[j] # w /\ (isolated[j] # None => isolated[j] \in Workers /\ IsolatedOf(isolated[j], j))
    BY <1>14, NoneAssumption DEF Inv, Isolates, TypeOK
  <2>3. \A j \in Instances, v \in Workers : isolated'[j] = v => IsolatedOf(v, j)'
    BY <2>1, <2>2, <1>14, <1>17, NoneAssumption
  <2> QED
    BY <2>1, <2>2, <2>3, <1>8 DEF Inv, Isolates
<1>20. Reloading'
  <2>1. \A x \in reload.prepared : x.key \in Keys /\ x.hand \in Workers \union {None}
    BY DEF Inv, TypeOK, Prepared
  <2>2. \A x \in reload.prepared : Ready(x)'
    BY <1>2, <1>8, <1>9, <1>14, <2>1 DEF Inv, Reloading, Ready, Changed
  <2>3. proc'[Reloader] = proc[Reloader] /\ (proc[Reloader].pc \in PreparePcs => proc[Reloader].key \in Keys)
    BY <1>2, <1>8 DEF Procs, Inv, Places, Placed, Keyed
  <2> QED
    BY <1>2, <1>9, <2>2, <2>3 DEF Inv, Reloading, Preparing, Changed
<1>21. Activations'
  <2>1. \A q \in Requests : proc'[q].pc \in PreparePcs \union {"activate", "queued"} =>
          proc'[q] = proc[q] /\ proc[q].key \in Keys
    BY <1>5, <1>8 DEF Procs, PreparePcs, Inv, Places, Placed, Keyed
  <2> QED
    BY <1>9, <2>1 DEF Inv, Activations
<1>22. Spawns'
  <2>1. \A q \in Requests : proc'[q].pc # "spawning"
    BY <1>2, <1>5, <1>8 DEF Inv, Spawns, Procs
  <2> QED
    BY <2>1 DEF Spawns
<1>23. Addressed'
  BY <1>1, <1>2, <1>6, <1>8 DEF Inv, Addressed, Procs
<1>24. IsolatedPrivate'
  <2>1. worker[w].mode = "isolated" /\ TakesInputs(worker[w].key, worker[w].ver)
          => Binding[s][k] = worker[w].inputs
    BY <1>1, <1>2, <1>3 DEF InputsOf
  <2> QED
    BY <1>2, <1>3, <1>6, <1>8, <2>1 DEF Inv, IsolatedPrivate
<1>25. NoStrayWorker'
  <2> SUFFICES ASSUME NEW v \in Workers, worker'[v].state \in Up
               PROVE  \/ \E j \in Keys : entry'[j].shared = v
                      \/ \E j \in Instances : isolated'[j] = v
                      \/ \E q \in Procs : proc'[q].hand = v /\ proc'[q].pc \in {"starting", "spawning"}
                      \/ \E x \in reload'.prepared : x.hand = v
                      \/ worker'[v].mode = "shared" /\ \E j \in Keys : worker'[v].key = j /\ entry'[j].lock # 0
    BY DEF NoStrayWorker, Up
  <2>1. CASE v = w
    BY <1>3, <1>4, <1>7, <1>8, <2>1 DEF Inv, TypeOK
  <2>2. CASE v # w
    <3>1. worker'[v] = worker[v]
      BY <1>8, <2>2
    <3>2. \A q \in Procs : proc[q].hand = v /\ proc[q].pc \in {"starting", "spawning"} => proc'[q] = proc[q]
      BY <1>1, <1>8, <2>2
    <3>3. entry[k].shared = v /\ worker[w].mode = "shared" =>
            worker[v].mode = "shared" /\ worker[v].key = k /\ entry[k].lock # 0
      BY <1>1, <1>2, <3>1, NoneAssumption DEF Vacant, Inv, Entries, SharedOf
    <3>4. isolated[i] = v => worker[w].mode = "shared"
      BY <1>1, <1>2, <3>1, NoneAssumption DEF Vacant
    <3> QED
      BY <1>2, <1>4, <1>8, <1>9, <3>1, <3>2, <3>3, <3>4 DEF Inv, NoStrayWorker, Up
  <2> QED
    BY <2>1, <2>2
<1> QED
  BY <1>10, <1>11, <1>13, <1>18, <1>19, <1>20, <1>21, <1>22, <1>23, <1>24, <1>25 DEF Inv

-----------------------------------------------------------------------------
(* Sessions come and go                                                    *)

LEMMA SessionsInv ==
    ASSUME Inv, NEW s \in Sessions, SessionOpens(s) \/ SessionEnds(s)
    PROVE  Inv'
<1>1. /\ UNCHANGED <<cfg, entry, isolated, worker, proc, reload, closer, leaving>>
      /\ address' \in [Sessions -> Addresses \union {None}]
      /\ ended' \in SUBSET Sessions /\ ended \subseteq ended'
      /\ \A t \in Sessions \ {s} : address'[t] = address[t]
  BY DEF SessionOpens, SessionEnds, Inv, TypeOK
<1>2. /\ address'[s] # None => \A t \in Sessions \ {s} : address[t] # address'[s]
      /\ \A w \in Workers : s \in worker[w].users => address'[s] = None /\ s \in ended'
      /\ \A r \in Requests : proc[r].pc \notin Away => SessionOf[r] # s
  <2>1. CASE SessionOpens(s)
    <3>1. PICK a \in Addresses \ {address[t] : t \in Sessions} : address' = [address EXCEPT ![s] = a]
      BY <2>1 DEF SessionOpens
    <3>2. address[s] = None /\ s \notin ended /\ address'[s] = a
      BY <2>1, <3>1 DEF SessionOpens, Inv, TypeOK
    <3> QED
      BY <3>1, <3>2 DEF Inv, Addressed
  <2>2. CASE SessionEnds(s)
    BY <2>2 DEF SessionEnds, Inv, TypeOK, Away
  <2> QED
    BY <2>1, <2>2
<1>3. TypeOK'
  BY <1>1 DEF Inv, TypeOK
<1>4. \A w \in Workers : \A t \in worker[w].users : t \in Sessions
  BY DEF Inv, TypeOK, Worker
<1>5. /\ \A w \in Workers, k \in Keys : SharedOf(w, k) => SharedOf(w, k)'
      /\ \A w \in Workers, i \in Instances : IsolatedOf(w, i) => IsolatedOf(w, i)'
  BY <1>1, <1>2, <1>4 DEF SharedOf, IsolatedOf
<1>6. Places' /\ Hands' /\ Activations' /\ NoStrayWorker'
  BY <1>1 DEF Inv, Places, Placed, Hands, Holds, InputsOf, Activations, NoStrayWorker
<1>7. Entries' /\ Isolates'
  BY <1>1, <1>5 DEF Inv, Entries, Isolates, TypeOK, Entry
<1>8. Reloading'
  <2>1. \A x \in reload.prepared : x.key \in Keys /\ x.hand \in Workers \union {None}
    BY DEF Inv, TypeOK, Prepared
  <2> QED
    BY <1>1, <1>5, <2>1 DEF Inv, Reloading, Ready, Preparing, Changed
<1>9. Spawns'
  <2>1. \A r \in Requests : proc[r].pc = "spawning" => Instance(r)' = Instance(r)
    BY <1>1, <1>2, Facts DEF Instance, InputsOf, Away, Procs
  <2> QED
    BY <1>1, <2>1 DEF Inv, Spawns, Vacant
<1>10. Addressed'
  BY <1>1, <1>2, <1>4, Facts DEF Inv, Addressed, Procs
<1>11. IsolatedPrivate'
  BY <1>1, <1>2, <1>4 DEF Inv, IsolatedPrivate
<1> QED
  BY <1>3, <1>6, <1>7, <1>8, <1>9, <1>10, <1>11 DEF Inv

-----------------------------------------------------------------------------
(* reload()                                                                *)

(* The steps that only move the reloader and its locals.                   *)
LEMMA ReloadMoves ==
    ASSUME Inv, NEW P \in Proc, Put(Reloader, P), Goes(Reloader, P), P.pc \notin Awaiting,
           proc[Reloader].pc \notin Awaiting, UNCHANGED worker, UNCHANGED Tables,
           reload' \in ReloadType, Reloading', reload.prepared \subseteq reload'.prepared
    PROVE  Inv'
<1>1. Reloader \in Procs /\ proc' \in [Procs -> Proc] /\ proc'[Reloader] = P
      /\ \A q \in Procs \ {Reloader} : proc'[q] = proc[q]
  BY DEF Put, Inv, TypeOK, Procs
<1>2. worker' \in [Workers -> Worker] /\ \A w \in Workers : Subsides(w)
  BY DEF Inv, TypeOK, Subsides
<1>3. Leaves(Reloader) /\ \A q \in Procs \ {Reloader} : Stays(q)
  BY <1>1 DEF Leaves, Stays
<1>4. Narrows
  BY DEF Tables, Narrows, Inv, TypeOK
<1> QED
  BY <1>1, <1>2, <1>3, <1>4, Narrowing

LEMMA ReloadBeginsInv ==
    ASSUME Inv, NEW next \in Configs, ReloadBegins(next)
    PROVE  Inv'
<1> DEFINE R == [config |-> next, todo |-> {k \in Changed(next) : ~TakesInputs(k, next[k])}, prepared |-> {},
                 retired |-> {}, count |-> reload.count + 1]
           P == [proc[Reloader] EXCEPT !.pc = "next"]
<1>1. /\ proc[Reloader].pc = "idle" /\ reload' = R /\ UNCHANGED worker /\ UNCHANGED Tables
      /\ Put(Reloader, P) /\ proc[Reloader] \in Proc /\ Reloader \in Procs
  BY DEF ReloadBegins, Tables, Goto, Inv, TypeOK, Procs
<1>2. P \in Proc /\ P.pc = "next"
  BY <1>1 DEF Proc, LoopPcs
<1>3. Goes(Reloader, P) /\ P.pc \notin Awaiting /\ proc[Reloader].pc \notin Awaiting
  BY <1>1, <1>2, NoneAssumption
     DEF Goes, Placed, Keyed, Handed, Awaiting, PreparePcs, ReloadPcs
<1>4. reload' \in ReloadType /\ reload.prepared = {}
  BY <1>1, ConfigAssumption DEF Inv, TypeOK, ReloadType, Reloading, Changed
<1>5. proc'[Reloader] = P
  BY <1>1 DEF Put, Inv, TypeOK
<1> HIDE DEF P
<1>6. Reloading'
  <2>1. /\ reload'.prepared = {} /\ reload'.config = next
        /\ reload'.todo = {k \in Changed(next) : ~TakesInputs(k, next[k])} /\ cfg' = cfg
    BY <1>1 DEF Tables
  <2> QED
    BY <1>2, <1>5, <2>1 DEF Reloading, Preparing, PreparePcs, Changed
<1> QED
  BY <1>1, <1>2, <1>3, <1>4, <1>6, ReloadMoves

LEMMA ReloadPreparesInv ==
    ASSUME Inv, NEW k \in Keys, ReloadPrepares(k)
    PROVE  Inv'
<1>1. /\ proc[Reloader].pc = "next" /\ k \in reload.todo /\ Reloader \in Procs
      /\ UNCHANGED Tables /\ proc[Reloader] \in Proc
      /\ k \in Changed(reload.config) /\ reload.config[k] \in Nat \ {0}
  BY DEF ReloadPrepares, At, Tables, Inv, TypeOK, Procs, Reloading, Changed
<1>2. CASE entry[k].tools = 0
  <2>1. reload' = [reload EXCEPT !.todo = @ \ {k}] /\ UNCHANGED <<worker, proc>>
    BY <1>2 DEF ReloadPrepares
  <2>2. /\ reload' \in ReloadType /\ reload'.todo = reload.todo \ {k}
        /\ reload'.config = reload.config /\ reload'.prepared = reload.prepared
    BY <2>1 DEF Inv, TypeOK, ReloadType
  <2>3. Put(Reloader, proc[Reloader])
    BY <2>1 DEF Put, Inv, TypeOK
  <2>4. Goes(Reloader, proc[Reloader]) /\ proc[Reloader].pc \notin Awaiting
    BY <1>1, NoneAssumption
       DEF Goes, Placed, Keyed, Handed, Awaiting, PreparePcs, ReloadPcs
  <2>5. Reloading'
    <3>1. \A x \in reload.prepared : Ready(x)'
      BY <1>1, <2>1, <2>2 DEF Inv, Reloading, Ready, Changed, Tables, SharedOf
    <3>2. cfg' = cfg
      BY <1>1 DEF Tables
    <3> QED
      BY <1>1, <2>1, <2>2, <3>1, <3>2 DEF Inv, Reloading, Preparing, PreparePcs, Changed
  <2> QED
    BY <1>1, <2>1, <2>2, <2>3, <2>4, <2>5, ReloadMoves
<1>3. CASE entry[k].tools # 0
  <2> DEFINE P == [key |-> k, ver |-> reload.config[k], lock |-> proc[Reloader].lock, pc |-> "starting"]
  <2>1. Prepare(Reloader, k, reload.config[k]) /\ UNCHANGED reload
    BY <1>3 DEF ReloadPrepares
  <2>2. MayPrepare(Reloader, P)
    BY <1>1, <1>3 DEF MayPrepare, Preparing
  <2> QED
    BY <1>1, <2>1, <2>2, PrepareInv
<1> QED
  BY <1>2, <1>3

LEMMA ReloadWaitsInv ==
    ASSUME Inv, ReloadWaits
    PROVE  Inv'
<1> DEFINE P == [proc[Reloader] EXCEPT !.pc = "commitWait"]
<1>1. /\ proc[Reloader].pc = "next" /\ Reloader \in Procs /\ proc[Reloader] \in Proc
      /\ Put(Reloader, P) /\ UNCHANGED <<worker, reload>> /\ UNCHANGED Tables
  BY DEF ReloadWaits, Move, At, Tables, Inv, TypeOK, Procs
<1>2. P \in Proc /\ P.pc = "commitWait"
  BY <1>1 DEF Proc, OtherPcs
<1> HIDE DEF P
<1>3. Becomes(Reloader, P) /\ P.pc \notin Awaiting /\ proc[Reloader].pc \notin Awaiting
  BY <1>1, <1>2, NoneAssumption
     DEF Becomes, Goes, Placed, Keyed, Handed, Awaiting, PreparePcs, ReloadPcs, Preparing
<1> QED
  BY <1>1, <1>2, <1>3, MovingOnly

LEMMA ReloadReturnsInv ==
    ASSUME Inv, ReloadReturns
    PROVE  Inv'
<1> DEFINE P == Fresh("idle", None)
<1>1. /\ proc[Reloader].pc = "retiring" /\ Reloader \in Procs
      /\ Put(Reloader, P) /\ UNCHANGED worker /\ UNCHANGED Tables
      /\ reload' = [reload EXCEPT !.config = cfg, !.retired = {}]
  BY DEF ReloadReturns, At, Tables, Procs
<1>2. P \in Proc /\ P.pc = "idle"
  BY FreshTyped DEF OtherPcs
<1>3. proc'[Reloader] = P
  BY <1>1 DEF Put, Inv, TypeOK
<1> HIDE DEF P
<1>4. Goes(Reloader, P) /\ P.pc \notin Awaiting /\ proc[Reloader].pc \notin Awaiting
  BY <1>1, <1>2, NoneAssumption
     DEF Goes, Placed, Keyed, Handed, Awaiting, PreparePcs, ReloadPcs
<1>5. /\ reload' \in ReloadType /\ reload.prepared = {} /\ reload'.prepared = {}
  BY <1>1 DEF Inv, TypeOK, ReloadType, Reloading
<1>6. Reloading'
  BY <1>2, <1>3, <1>5 DEF Reloading, Preparing, PreparePcs
<1> QED
  BY <1>1, <1>2, <1>4, <1>5, <1>6, ReloadMoves

(* What the commit does to an upstream: it brings in what was prepared,    *)
(* forgets what has changed or gone, and leaves the others alone.          *)
Touched == Affected(reload.config)
Renewed(k) ==
    /\ k \in Changed(reload.config) /\ entry[k].tools # 0
    /\ entry'[k].tools = reload.config[k] /\ entry'[k].lock = entry[k].lock
    /\ ~entry'[k].degraded
    /\ entry'[k].qualified = "admitted" => IsShareable(k, entry'[k].tools)
    /\ \E x \in reload.prepared :
          x.key = k /\ entry'[k].shared = x.hand /\ entry'[k].qualified = x.qual
Forgotten(k) ==
    /\ k \in Touched /\ \A x \in reload.prepared : x.key # k
    /\ entry'[k].tools = 0 /\ entry'[k].shared = None /\ entry'[k].qualified = "none"
    /\ ~entry'[k].degraded /\ entry[k].lock <= entry'[k].lock
    /\ k \in Removed(reload.config) => entry'[k].lock # 0

LEMMA CommitFacts ==
    ASSUME Inv, Commit
    PROVE  /\ proc[Reloader].pc \in {"next", "commitWait"}
           /\ \A r \in Requests : proc[r].pc # "spawning"
           /\ cfg' = reload.config /\ entry' \in [Keys -> Entry]
           /\ \A k \in Keys : \/ Renewed(k) \/ Forgotten(k)
                              \/ k \notin Touched /\ entry'[k] = entry[k]
           /\ isolated' = [i \in Instances |-> IF i[2] \in Touched THEN None ELSE isolated[i]]
           /\ Put(Reloader, Fresh("retiring", None))
           /\ UNCHANGED <<address, ended, closer, leaving>>
           /\ \E S \in SUBSET Workers :
                 /\ worker' = Stopping(S) /\ reload' = [reload EXCEPT !.prepared = {}, !.retired = S]
                 /\ \A w \in Workers : w \in S <=> \/ \E k \in Touched : entry[k].shared = w
                                                   \/ \E i \in Instances : i[2] \in Touched /\ isolated[i] = w
<1> DEFINE ready == {x.key : x \in reload.prepared}
           S == ({entry[k].shared : k \in Touched}
                 \union {isolated[i] : i \in {j \in Instances : j[2] \in Touched}}) \ {None}
           New(k) == CHOOSE y \in reload.prepared : y.key = k
           B(k) == [entry[k] EXCEPT !.tools = New(k).ver, !.qualified = New(k).qual,
                                    !.shared = New(k).hand, !.degraded = FALSE]
           C(k) == [entry[k] EXCEPT !.tools = 0, !.qualified = "none", !.shared = None, !.degraded = FALSE,
                                    !.lock = IF k \in Removed(reload.config) THEN @ + 1 ELSE @]
<1>1. /\ proc[Reloader].pc \in {"next", "commitWait"} /\ cfg' = reload.config
      /\ reload.todo = {} /\ \A r \in Requests : proc[r].pc # "spawning"
      /\ entry' = [k \in Keys |-> IF k \in ready THEN B(k) ELSE IF k \in Touched THEN C(k) ELSE entry[k]]
      /\ isolated' = [i \in Instances |-> IF i[2] \in Touched THEN None ELSE isolated[i]]
      /\ worker' = Stopping(S) /\ reload' = [reload EXCEPT !.prepared = {}, !.retired = S]
      /\ Put(Reloader, Fresh("retiring", None)) /\ UNCHANGED <<address, ended, closer, leaving>>
  BY DEF Commit, CommitWith, Touched, Affected, At, WorkerLockFree
<1>2. Touched \subseteq Keys /\ ready \subseteq Keys
  BY DEF Touched, Affected, Changed, Removed, Inv, TypeOK, Prepared
<1>3. /\ S \in SUBSET Workers
      /\ \A w \in Workers : w \in S <=> \/ \E k \in Touched : entry[k].shared = w
                                        \/ \E i \in Instances : i[2] \in Touched /\ isolated[i] = w
  BY <1>2, NoneAssumption DEF Inv, TypeOK, Entry
<1> HIDE DEF S
<1>4. ASSUME NEW k \in ready
      PROVE  entry'[k] \in Entry /\ Renewed(k)
  <2>1. New(k) \in reload.prepared /\ New(k).key = k /\ entry[k] \in Entry /\ k \in Keys
    BY <1>2 DEF Inv, TypeOK
  <2>2. Ready(New(k)) /\ New(k) \in Prepared
    BY <2>1 DEF Inv, Reloading, TypeOK
  <2> HIDE DEF New
  <2>3. /\ B(k) \in Entry /\ B(k).tools = New(k).ver /\ B(k).qualified = New(k).qual
        /\ B(k).shared = New(k).hand /\ B(k).lock = entry[k].lock /\ ~B(k).degraded
    BY <2>1, <2>2 DEF Entry, Prepared
  <2>4. entry'[k] = B(k)
    BY <1>1, <2>1
  <2> HIDE DEF B
  <2> QED
    BY <2>1, <2>2, <2>3, <2>4 DEF Ready, Renewed
<1>5. ASSUME NEW k \in Touched \ ready
      PROVE  entry'[k] \in Entry /\ Forgotten(k)
  <2>1. entry[k] \in Entry /\ k \in Keys
    BY <1>2 DEF Inv, TypeOK
  <2> DEFINE n == IF k \in Removed(reload.config) THEN entry[k].lock + 1 ELSE entry[k].lock
  <2>2. n \in Nat /\ entry[k].lock <= n /\ (k \in Removed(reload.config) => n # 0)
    BY <2>1 DEF Entry
  <2> HIDE DEF n
  <2> DEFINE D == [entry[k] EXCEPT !.tools = 0, !.qualified = "none", !.shared = None,
                                   !.degraded = FALSE, !.lock = n]
  <2>3. D \in Entry /\ D.tools = 0 /\ D.qualified = "none" /\ D.shared = None /\ D.lock = n
        /\ ~D.degraded
    BY <2>1, <2>2 DEF Entry
  <2>4. entry'[k] = D
    BY <1>1, <2>1 DEF n
  <2> HIDE DEF D
  <2> QED
    BY <2>1, <2>2, <2>3, <2>4 DEF Forgotten
<1>6. \A k \in Keys : k \notin ready /\ k \notin Touched => entry'[k] = entry[k]
  BY <1>1
<1>7. entry' \in [Keys -> Entry]
  <2>1. \A k \in Keys : entry'[k] \in Entry
    BY <1>4, <1>5, <1>6 DEF Inv, TypeOK
  <2>2. entry' = [k \in Keys |-> entry'[k]]
    BY <1>1
  <2> QED
    BY <2>1, <2>2
<1>8. \A k \in Keys : Renewed(k) \/ Forgotten(k) \/ (k \notin Touched /\ entry'[k] = entry[k])
  BY <1>4, <1>5, <1>6
<1> QED
  BY <1>1, <1>3, <1>7, <1>8

LEMMA CommitInv ==
    ASSUME Inv, Commit
    PROVE  Inv'
<1>1. /\ proc[Reloader].pc \in {"next", "commitWait"} /\ Reloader \in Procs
      /\ \A r \in Requests : proc[r].pc # "spawning"
      /\ cfg' = reload.config /\ entry' \in [Keys -> Entry]
      /\ \A k \in Keys : Renewed(k) \/ Forgotten(k) \/ (k \notin Touched /\ entry'[k] = entry[k])
      /\ UNCHANGED <<address, ended, closer, leaving>>
  BY CommitFacts DEF Procs
<1>2. PICK S \in SUBSET Workers :
         /\ worker' = Stopping(S) /\ reload' = [reload EXCEPT !.prepared = {}, !.retired = S]
         /\ \A w \in Workers : w \in S <=> \/ \E k \in Touched : entry[k].shared = w
                                           \/ \E i \in Instances : i[2] \in Touched /\ isolated[i] = w
  BY CommitFacts
<1>3. /\ worker' \in [Workers -> Worker] /\ \A w \in Workers : Subsides(w)
      /\ \A w \in Workers \ S : worker'[w] = worker[w]
      /\ \A w \in S : worker'[w].state \notin Up
  BY <1>2, StoppingSubsides DEF Inv
<1>4. /\ proc' \in [Procs -> Proc] /\ proc'[Reloader].pc = "retiring"
      /\ \A q \in Procs \ {Reloader} : proc'[q] = proc[q]
  <2>1. Fresh("retiring", None) \in Proc /\ Fresh("retiring", None).pc = "retiring"
    BY FreshTyped DEF OtherPcs
  <2>2. proc' = [proc EXCEPT ![Reloader] = Fresh("retiring", None)]
    BY CommitFacts DEF Put
  <2> QED
    BY <1>1, <2>1, <2>2 DEF Inv, TypeOK
<1>5. /\ isolated' \in [Instances -> Workers \union {None}]
      /\ \A i \in Instances : isolated'[i] = None \/ (i[2] \notin Touched /\ isolated'[i] = isolated[i])
      /\ \A i \in Instances : i[2] \notin Touched => isolated'[i] = isolated[i]
  <2>1. isolated' = [i \in Instances |-> IF i[2] \in Touched THEN None ELSE isolated[i]]
    BY CommitFacts
  <2> QED
    BY <2>1 DEF Inv, TypeOK
<1>6. /\ reload' \in ReloadType /\ reload'.prepared = {} /\ reload'.config = reload.config
  BY <1>2 DEF Inv, TypeOK, ReloadType
<1>7. Touched \subseteq Keys
  BY DEF Touched, Affected, Changed, Removed
<1>8. \A k \in Keys \ Touched : cfg[k] # 0 => cfg'[k] = cfg[k]
  BY <1>1 DEF Touched, Affected, Changed, Removed
<1>9. TypeOK'
  BY <1>1, <1>3, <1>4, <1>5, <1>6 DEF Inv, TypeOK, ReloadType
<1>10. Places'
  BY <1>4, NoneAssumption DEF Inv, Places, Placed, Keyed, Handed, Awaiting, PreparePcs, ReloadPcs
<1>11. \A q \in Procs : proc'[q].pc \in Awaiting =>
          /\ q # Reloader /\ proc'[q] = proc[q] /\ proc[q].pc = "starting"
          /\ proc[q].hand \in Workers \ S
  <2>1. ASSUME NEW q \in Procs, proc'[q].pc \in Awaiting
        PROVE  q # Reloader /\ proc'[q] = proc[q] /\ proc[q].pc = "starting" /\ proc[q].hand \in Workers
    BY <1>1, <1>4, <2>1 DEF Awaiting, Procs, Inv, Places, Placed, Handed
  <2>2. \A w \in S : worker[w].state # "starting"
    BY <1>2, <1>7, NoneAssumption DEF Inv, Entries, Isolates, SharedOf, IsolatedOf
  <2>3. ASSUME NEW q \in Procs, proc'[q].pc \in Awaiting
        PROVE  worker[proc[q].hand].state = "starting"
    BY <2>1, <2>3 DEF Inv, Hands, Holds, Awaiting
  <2> QED
    BY <2>1, <2>2, <2>3
<1>12. Hands'
  <2>1. \A q \in Procs : proc'[q].pc \in Awaiting => Holds(q) /\ Holds(q)'
    BY <1>3, <1>11 DEF Inv, Hands, Holds, Awaiting
  <2> QED
    BY <1>11, <2>1 DEF Inv, Hands
<1>13. \A w \in Workers, k \in Keys : SharedOf(w, k) => SharedOf(w, k)'
  BY <1>3 DEF Subsides, SharedOf
<1>14. \A w \in Workers, i \in Instances : IsolatedOf(w, i) /\ i[2] \notin Touched => IsolatedOf(w, i)'
  <2>1. \A i \in Instances : i[2] \in Keys
    BY DEF Instances
  <2> QED
    BY <1>1, <1>3, <1>8, <2>1 DEF Subsides, IsolatedOf
<1>15. Entries'
  <2> SUFFICES ASSUME NEW k \in Keys
               PROVE  /\ entry'[k].qualified # "none" => entry'[k].tools # 0
                      /\ \A w \in Workers : entry'[k].shared = w => entry'[k].tools # 0 /\ SharedOf(w, k)'
                      /\ entry'[k].qualified = "admitted" /\ entry'[k].lock = 0
                            => IsShareable(k, entry'[k].tools)
    BY <1>1 DEF Entries, Entry
  <2>1. CASE Renewed(k)
    <3>1. PICK x \in reload.prepared : x.key = k /\ entry'[k].shared = x.hand
      BY <2>1 DEF Renewed
    <3>2. Ready(x) /\ x.hand \in Workers \union {None}
      BY DEF Inv, Reloading, TypeOK, Prepared
    <3>3. entry'[k].tools # 0
      BY <2>1 DEF Renewed, Changed
    <3>4. \A w \in Workers : w = entry'[k].shared => SharedOf(w, k)'
      BY <1>13, <3>1, <3>2, NoneAssumption DEF Ready
    <3>5. entry'[k].qualified = "admitted" => IsShareable(k, entry'[k].tools)
      BY <2>1 DEF Renewed
    <3> QED
      BY <3>1, <3>2, <3>3, <3>4, <3>5
  <2>2. CASE Forgotten(k)
    BY <2>2, NoneAssumption DEF Forgotten
  <2>3. CASE entry'[k] = entry[k]
    BY <1>13, <2>3, NoneAssumption DEF Inv, Entries
  <2> QED
    BY <1>1, <2>1, <2>2, <2>3
<1>16. Isolates'
  BY <1>5, <1>14 DEF Inv, Isolates, TypeOK
<1>17. Reloading'
  BY <1>4, <1>6 DEF Reloading, Preparing, PreparePcs
<1>18. /\ \A k \in Keys : entry[k].lock <= entry'[k].lock /\ entry[k].lock \in Nat /\ entry'[k].lock \in Nat
       /\ \A k \in Keys : entry[k].tools = 0 => entry'[k].tools = 0
  <2>1. \A k \in Keys : entry[k].lock \in Nat /\ entry'[k].lock \in Nat
    BY <1>1 DEF Inv, TypeOK, Entry
  <2> QED
    BY <1>1, <2>1 DEF Renewed, Forgotten
<1>19. Activations'
  <2>1. \A r \in Requests : proc'[r] = proc[r] /\ proc[r].lock \in Nat
    BY <1>4, NoneAssumption DEF Procs, Inv, TypeOK, Proc
  <2>2. \A r \in Requests : proc[r].pc \in PreparePcs \union {"activate", "queued"} => proc[r].key \in Keys
    BY DEF Inv, Places, Placed, Keyed, Procs
  <2> QED
    BY <1>18, <2>1, <2>2 DEF Inv, Activations
<1>20. Spawns'
  BY <1>1, <1>4, NoneAssumption DEF Spawns, Procs
<1>21. Addressed'
  BY <1>1, <1>3, <1>4, NoneAssumption DEF Inv, Addressed, Procs, Subsides
<1>22. IsolatedPrivate'
  BY <1>1, <1>3 DEF Inv, IsolatedPrivate, Subsides
<1>23. NoStrayWorker'
  <2> SUFFICES ASSUME NEW w \in Workers, worker'[w].state \in Up
               PROVE  \/ \E k \in Keys : entry'[k].shared = w
                      \/ \E i \in Instances : isolated'[i] = w
                      \/ \E q \in Procs : proc'[q].hand = w /\ proc'[q].pc \in Awaiting
                      \/ worker'[w].mode = "shared" /\ \E k \in Keys : worker'[w].key = k /\ entry'[k].lock # 0
    BY DEF NoStrayWorker, Up, Awaiting
  <2>1. w \notin S /\ worker'[w] = worker[w]
    BY <1>3
  <2>2. \A k \in Keys : entry[k].shared = w => entry'[k].shared = w
    <3> SUFFICES ASSUME NEW k \in Keys, entry[k].shared = w PROVE entry'[k].shared = w
      OBVIOUS
    <3>1. k \notin Touched
      BY <1>2, <2>1
    <3> QED
      BY <1>1, <3>1 DEF Renewed, Forgotten, Touched, Affected
  <2>3. \A i \in Instances : isolated[i] = w => isolated'[i] = w
    BY <1>2, <1>5, <2>1
  <2>4. \A q \in Procs : proc[q].hand = w /\ proc[q].pc \in Awaiting => proc'[q] = proc[q]
    BY <1>1, <1>4 DEF Awaiting
  <2>5. \A x \in reload.prepared : x.hand = w => \E k \in Keys : entry'[k].shared = w
    <3> SUFFICES ASSUME NEW x \in reload.prepared, x.hand = w PROVE entry'[x.key].shared = w /\ x.key \in Keys
      OBVIOUS
    <3>1. x.key \in Keys /\ x.key \in Touched /\ ~Forgotten(x.key)
      BY DEF Inv, Reloading, Ready, TypeOK, Prepared, Forgotten, Touched, Affected
    <3>2. PICK y \in reload.prepared : y.key = x.key /\ entry'[x.key].shared = y.hand
      BY <1>1, <3>1 DEF Renewed
    <3> QED
      BY <3>1, <3>2 DEF Inv, Reloading
  <2>6. \A k \in Keys : entry[k].lock # 0 => entry'[k].lock # 0
    BY <1>18
  <2> QED
    BY <2>1, <2>2, <2>3, <2>4, <2>5, <2>6 DEF Inv, NoStrayWorker, Up, Awaiting
<1> QED
  BY <1>9, <1>10, <1>12, <1>15, <1>16, <1>17, <1>19, <1>20, <1>21, <1>22, <1>23 DEF Inv

-----------------------------------------------------------------------------
(* The invariant                                                           *)

LEMMA NextInv == Inv /\ [Next]_vars => Inv'
<1> SUFFICES ASSUME Inv, [Next]_vars PROVE Inv'
  OBVIOUS
<1>1. ASSUME NEW p \in Procs, PrepareStep(p) PROVE Inv'
  BY <1>1, QualifiedInv, StartedInv, StartFailsInv, DiscardedInv, AbortedInv DEF PrepareStep
<1>2. ASSUME NEW r \in Requests, RequestStep(r) PROVE Inv'
  BY <1>2, ArriveInv, ActivateInv, LockInv, RouteInv, SelectInv, SpawnedInv, SpawnFailsInv,
     CallInv, FailInv, CancelInv DEF RequestStep
<1>3. ASSUME NEW w \in Workers, WorkerStep(w) PROVE Inv'
  BY <1>3, WorkerMovesInv, WorkerIdlesInv DEF WorkerStep
<1>4. ASSUME NEW s \in Sessions, SessionOpens(s) \/ SessionEnds(s) PROVE Inv'
  BY <1>4, SessionsInv
<1>5. CASE ReloadStep
  BY <1>5, ReloadBeginsInv, ReloadPreparesInv, ReloadWaitsInv, CommitInv, ReloadReturnsInv DEF ReloadStep
<1>6. CASE CloseBegins \/ CloseReturns
  BY <1>6, CloseInv
<1>7. CASE UNCHANGED vars
  <2> USE <1>7 DEF vars
  <2>1. TypeOK'
    BY DEF Inv, TypeOK
  <2>2. Places' /\ Hands'
    BY DEF Inv, Places, Placed, Hands, Holds, InputsOf
  <2>3. Entries' /\ Isolates'
    BY DEF Inv, Entries, Isolates, SharedOf, IsolatedOf
  <2>4. Reloading' /\ Activations'
    BY DEF Inv, Reloading, Preparing, Ready, Changed, SharedOf, Activations
  <2>5. Spawns' /\ Addressed'
    BY DEF Inv, Spawns, Vacant, Instance, InputsOf, Addressed
  <2>6. IsolatedPrivate' /\ NoStrayWorker'
    BY DEF Inv, IsolatedPrivate, NoStrayWorker
  <2> QED
    BY <2>1, <2>2, <2>3, <2>4, <2>5, <2>6 DEF Inv
<1> QED
  BY <1>1, <1>2, <1>3, <1>4, <1>5, <1>6, <1>7 DEF Next

(* Every reachable state satisfies Inv, whatever the values of the         *)
(* constants.                                                              *)
THEOREM BrokerInvariant == Spec => []Inv
BY InitInv, NextInv, PTL DEF Spec

=============================================================================
