--------------------------- MODULE ControlProofs ---------------------------
(***************************************************************************)
(* The control document of a profile, for any number of servers, commands, *)
(* process ids and crashes: what the record says, and whom a command hits. *)
(***************************************************************************)
EXTENDS Control, FiniteSetTheorems, TLAPS

-----------------------------------------------------------------------------
(* The inductive invariant *)

Early == {"none", "log", "listing", "rotating", "starting", "writing"}
Pcs == Early \union {"other", "gone"} \union Serving \union Ending

Process == [pc : Pcs, pid : Pids \union {None}, term : BOOLEAN, crashed : BOOLEAN,
            cleaned : BOOLEAN, own : BOOLEAN, stale : SUBSET Servers]
Command == [kind : Kinds \union {None}, pc : {"idle", "check", "kill", "poll", "done"},
            claim : Servers \union {None}, outcome : {"none", "ok", "error", "stopped"}]

Shared ==
    /\ doc \in Servers \union {None} /\ tmp \in Servers \union {None}
    /\ port \in Servers \union {None}
    /\ logs \subseteq Servers /\ written \in Seq(Servers)
    /\ mixed \subseteq Servers /\ strays \subseteq Servers
Types == Shared /\ proc \in [Procs -> Process]

Published == {"binding", "bound", "serving"}

(* A server writes the temporary once, on its way through "writing".       *)
Wrote(i) == \E k \in 1 .. Len(written) : written[k] = i
Newest(i) == written # <<>> /\ written[Len(written)] = i

WrittenOnce ==
    /\ \A i \in Servers : Wrote(i) => proc[i].pc \notin Early
    /\ \A i \in Servers : proc[i].pc \in {"publishing"} \union Published => Wrote(i)
    /\ \A i \in Servers : proc[i].pc # "other"
    /\ doc # None => Wrote(doc)

(* The temporary is the newest server's until one publishes it; then it is *)
(* the record, until its server has cleaned up or another unlinks it.      *)
Records ==
    /\ tmp # None => Newest(tmp)
    /\ doc # None /\ Newest(doc) => tmp = None
    /\ \A i \in Servers : Newest(i) /\ proc[i].pc \in Published =>
        tmp = None /\ (doc = i \/ strays # {})
    /\ \A i \in Servers : proc[i].pc \in {"closed", "unlinking"} => proc[i].cleaned
    /\ \A i \in Servers : proc[i].pc = "unlinking" => proc[i].own
    /\ \A i \in Servers : proc[i].cleaned => proc[i].pc \in {"closed", "unlinking", "gone"}

(* The record, or the temporary, of a server that is gone.                 *)
CutShort(p) == p.crashed \/ (p.term /\ ~p.cleaned)

Stale ==
    /\ doc # None /\ proc[doc].pc = "gone" => CutShort(proc[doc]) \/ doc \in mixed
    /\ doc # None /\ proc[doc].pc \in {"publishing", "unpublished"} => doc \in mixed
    /\ tmp # None => proc[tmp].pc = "publishing" \/ proc[tmp].crashed

UniquePids == \A i, j \in Procs : Live(i) /\ Live(j) /\ proc[i].pid = proc[j].pid => i = j

ServerInv == Types /\ WrittenOnce /\ Records /\ Stale /\ UniquePids

(* A command that has found the newest server finds it in the record, or   *)
(* that server has cleaned up.                                             *)
Settled(i) == Newest(i) => tmp = None /\ (doc = i \/ proc[i].cleaned \/ strays # {})

(* A stop that has reported success saw the record of its server gone.     *)
Stopped(d) == d.kind = "stop" /\ d.outcome = "ok" =>
    d.claim # None /\ (Newest(d.claim) => proc[d.claim].cleaned \/ strays # {})

Sound(d) ==
    /\ d \in Command
    /\ d.claim # None => Wrote(d.claim) /\ Settled(d.claim)
    /\ d.pc \in {"check", "kill", "poll"} => d.claim # None
    /\ d.outcome = "ok" => d.pc = "done"
    /\ Stopped(d)

CommandInv == cmd \in [Commands -> Command] /\ \A c \in Commands : Sound(cmd[c])

Inv == ServerInv /\ CommandInv

-----------------------------------------------------------------------------
LEMMA InitInv == Init => Inv
<1> SUFFICES ASSUME Init PROVE Inv
  OBVIOUS
<1>1. \A i \in Procs : proc[i] \in Process /\ proc[i].pc = "none"
  BY DEF Init, Process, Pcs, Early
<1>2. Types
  <2>1. Shared
    BY DEF Init, Shared
  <2>2. proc = [i \in Procs |-> proc[i]]
    BY DEF Init
  <2> QED
    BY <1>1, <2>1, <2>2 DEF Types
<1>3. ~\E i : Wrote(i)
  BY DEF Init, Wrote
<1>4. ServerInv
  <2>1. written = <<>> /\ doc = None /\ tmp = None /\ Servers \subseteq Procs
    BY DEF Init, Procs
  <2>2. WrittenOnce /\ Stale
    BY <1>1, <1>3, <2>1 DEF WrittenOnce, Stale, Published
  <2>3. Records
    <3>1. \A i \in Procs : ~proc[i].cleaned
      BY DEF Init
    <3> QED
      BY <1>1, <2>1, <3>1 DEF Records, Newest, Published
  <2>4. UniquePids
    BY <1>1 DEF UniquePids, Live
  <2> QED
    BY <1>2, <2>2, <2>3, <2>4 DEF ServerInv
<1>5. CommandInv
  BY <1>3 DEF Init, CommandInv, Sound, Command, Stopped, Kinds
<1> QED
  BY <1>4, <1>5 DEF Inv

-----------------------------------------------------------------------------
(* What a step that touches no record may make of a process.               *)
Moves(i, p) ==
    /\ p \in Process
    /\ proc[i].cleaned => p.cleaned
    /\ i \in Servers => p.pc # "other"
    /\ p.pc \in Early => proc[i].pc \in Early
    /\ p.pc \in Published => proc[i].pc \in Published
    /\ i \in Servers /\ p.pc \in {"closed", "unlinking"} => p.cleaned
    /\ i \in Servers /\ p.pc = "unlinking" => p.own
    /\ i \in Servers /\ p.cleaned => p.pc \in {"closed", "unlinking", "gone"}
    /\ p.pc = "gone" /\ doc = i => CutShort(p) \/ i \in mixed
    /\ p.pc = "publishing" => proc[i].pc = "publishing"
    /\ p.pc = "unpublished" => proc[i].pc \in {"publishing", "unpublished"}
    /\ tmp = i => p.pc = "publishing" \/ p.crashed
    /\ p.pc \notin {"none", "gone"} => (Live(i) /\ p.pid = proc[i].pid) \/ Free(p.pid)

LEMMA MovesInv ==
    ASSUME ServerInv, NEW i \in Procs, NEW p, Moves(i, p), proc' = [proc EXCEPT ![i] = p],
           UNCHANGED <<doc, tmp, written, mixed, strays>>, Shared'
    PROVE  ServerInv' /\ \A j \in Procs : proc[j].cleaned => proc'[j].cleaned
<1>1. proc' \in [Procs -> Process] /\ proc'[i] = p /\ \A j \in Procs \ {i} : proc'[j] = proc[j]
  BY DEF ServerInv, Types, Moves
<1>2. WrittenOnce'
  BY <1>1 DEF ServerInv, WrittenOnce, Moves, Wrote, Procs
<1>3. Records'
  BY <1>1 DEF ServerInv, Records, Moves, Newest, Procs
<1>4. Stale'
  BY <1>1, NameAssumption DEF ServerInv, Types, Shared, Stale, Moves, Procs
<1>5. UniquePids'
  BY <1>1 DEF ServerInv, UniquePids, Moves, Live, Free
<1> QED
  BY <1>1, <1>2, <1>3, <1>4, <1>5 DEF ServerInv, Types, Moves

(* No step takes back that a server has cleaned up.                        *)
LEMMA SoundInv ==
    ASSUME Inv, NEW d, Sound(d), UNCHANGED <<doc, tmp, written, strays>>,
           \A j \in Procs : proc[j].cleaned => proc'[j].cleaned
    PROVE  Sound(d)'
  BY NameAssumption DEF Sound, Settled, Stopped, Wrote, Newest, Command, Procs

LEMMA CommandsInv ==
    ASSUME Inv, NEW c \in Commands, NEW d, Sound(d), cmd' = [cmd EXCEPT ![c] = d],
           UNCHANGED <<doc, tmp, written, strays>>,
           \A j \in Procs : proc[j].cleaned => proc'[j].cleaned
    PROVE  CommandInv'
<1>1. cmd' \in [Commands -> Command] /\ \A b \in Commands : cmd'[b] = IF b = c THEN d ELSE cmd[b]
  BY DEF Inv, CommandInv, Sound
<1>2. ASSUME NEW b \in Commands PROVE Sound(cmd[b])'
  <2>1. PICK e : e = cmd'[b] /\ Sound(e)
    BY <1>1 DEF Inv, CommandInv
  <2>2. Sound(e)'
    BY <2>1, SoundInv
  <2> QED
    BY <2>1, <2>2 DEF Sound, Settled, Stopped, Wrote, Newest
<1> QED
  BY <1>1, <1>2 DEF CommandInv

(* The commands wait: their claims stay what they are.                     *)
LEMMA WaitingInv ==
    ASSUME Inv, UNCHANGED <<cmd, doc, tmp, written, strays>>,
           \A j \in Procs : proc[j].cleaned => proc'[j].cleaned
    PROVE  CommandInv'
<1>1. ASSUME NEW b \in Commands PROVE Sound(cmd[b])'
  <2>1. PICK e : e = cmd'[b] /\ Sound(e)
    BY DEF Inv, CommandInv
  <2>2. Sound(e)'
    BY <2>1, SoundInv
  <2> QED
    BY <2>1, <2>2 DEF Sound, Settled, Stopped, Wrote, Newest
<1> QED
  BY <1>1 DEF Inv, CommandInv

-----------------------------------------------------------------------------
(* The steps of processes that touch no record *)

LEMMA ProcessStep ==
    ASSUME Inv, NEW i \in Procs, NEW p, Moves(i, p), proc' = [proc EXCEPT ![i] = p],
           UNCHANGED <<doc, tmp, written, mixed, strays, cmd>>, Shared'
    PROVE  Inv'
  BY MovesInv, WaitingInv DEF Inv

LEMMA StartInv == ASSUME Inv, NEW i \in Procs, NEW q \in Pids, Start(i, q) PROVE Inv'
<1> DEFINE p == [proc[i] EXCEPT !.pc = IF i = Bystander THEN "other" ELSE "log", !.pid = q]
<1>1. proc[i] \in Process /\ proc[i].pc = "none" /\ Free(q)
  BY DEF Start, At, Inv, ServerInv, Types
<1>2. i \in Servers => i # Bystander
  BY NameAssumption
<1>3. p \in Process /\ p.cleaned = proc[i].cleaned /\ p.pid = q /\ p.crashed = proc[i].crashed
      /\ p.pc = IF i = Bystander THEN "other" ELSE "log"
  BY <1>1 DEF Process, Pcs, Early
<1>4. tmp # i \/ proc[i].crashed
  BY <1>1, NameAssumption DEF Inv, ServerInv, Types, Shared, Stale, Procs
<1>5. i \in Servers => ~p.cleaned
  BY <1>1, <1>3 DEF Inv, ServerInv, Records
<1>6. Moves(i, p)
  BY <1>1, <1>2, <1>3, <1>4, <1>5 DEF Moves, Early, Published
<1>7. proc' = [proc EXCEPT ![i] = p] /\ UNCHANGED <<doc, tmp, written, mixed, strays, cmd, port, logs>>
  BY DEF Start
<1>8. Shared'
  BY <1>7 DEF Inv, ServerInv, Types, Shared
<1> QED
  BY <1>6, <1>7, <1>8, ProcessStep

(* The steps of a server from one place to the next, without its records.  *)
Places == {<<"log", "listing">>, <<"listing", "rotating">>, <<"rotating", "starting">>,
           <<"starting", "writing">>, <<"binding", "bound">>, <<"binding", "closing">>,
           <<"bound", "serving">>, <<"bound", "gone">>, <<"unpublished", "gone">>,
           <<"serving", "draining">>, <<"draining", "closing">>, <<"closing", "closed">>,
           <<"closed", "unlinking">>, <<"closed", "gone">>}

LEMMA PlaceMoves ==
    ASSUME Inv, NEW i \in Servers, NEW p \in Process, <<proc[i].pc, p.pc>> \in Places,
           p.pid = proc[i].pid, p.crashed = proc[i].crashed,
           proc[i].cleaned => p.cleaned, p.pc = "closed" => p.cleaned,
           p.cleaned => proc[i].cleaned \/ p.pc \in {"closed", "gone"},
           p.pc = "unlinking" => p.own, p.pc = "gone" /\ doc = i => CutShort(p) \/ i \in mixed
    PROVE  Moves(i, p)
<1>1. i \in Procs /\ proc[i] \in Process
  BY DEF Procs, Inv, ServerInv, Types
<1>2. proc[i].pc # "publishing" /\ Live(i)
  BY DEF Places, Live
<1>3. tmp = i => p.crashed
  BY <1>2, NameAssumption DEF Inv, ServerInv, Stale
<1>4. proc[i].cleaned \in BOOLEAN /\ p.cleaned \in BOOLEAN
  BY <1>1 DEF Process
<1>5. p.pc \in {"closed", "unlinking"} => p.cleaned
  <2>1. CASE p.pc = "closed"
    BY <2>1
  <2>2. CASE p.pc = "unlinking"
    <3>1. proc[i].pc = "closed"
      BY <2>2 DEF Places
    <3>2. proc[i].cleaned
      BY <3>1 DEF Inv, ServerInv, Records
    <3> QED
      BY <3>2
  <2> QED
    BY <2>1, <2>2
<1>6. /\ p.pc \in Early => proc[i].pc \in Early
      /\ p.pc \in Published => proc[i].pc \in Published
      /\ p.pc \notin {"other", "publishing", "unpublished"}
  BY DEF Places, Early, Published
<1>7. p.cleaned => p.pc \in {"closed", "unlinking", "gone"}
  BY <1>1 DEF Places, Inv, ServerInv, Records
<1> QED
  BY <1>2, <1>3, <1>4, <1>5, <1>6, <1>7 DEF Moves

LEMMA PlaceInv ==
    ASSUME Inv, NEW i \in Servers, NEW p \in Process, <<proc[i].pc, p.pc>> \in Places,
           p.pid = proc[i].pid, p.crashed = proc[i].crashed,
           proc[i].cleaned => p.cleaned, p.pc = "closed" => p.cleaned,
           p.cleaned => proc[i].cleaned \/ p.pc \in {"closed", "gone"},
           p.pc = "unlinking" => p.own, p.pc = "gone" /\ doc = i => CutShort(p) \/ i \in mixed,
           proc' = [proc EXCEPT ![i] = p],
           UNCHANGED <<doc, tmp, written, mixed, strays, cmd>>,
           port' \in Servers \union {None}, logs' \subseteq Servers
    PROVE  Inv'
<1>1. Shared'
  BY DEF Inv, ServerInv, Types, Shared
<1> QED
  BY <1>1, PlaceMoves, ProcessStep DEF Procs

LEMMA ServerOwn == ASSUME Inv, NEW i \in Servers PROVE proc[i] \in Process
  BY DEF Inv, ServerInv, Types, Procs

LEMMA GotoInv ==
    ASSUME Inv, NEW i \in Servers, NEW from, NEW to, At(i, from), Goto(i, to),
           <<from, to>> \in Places, to \notin {"closed", "unlinking", "gone"},
           UNCHANGED <<doc, tmp, written, mixed, strays, cmd>>,
           port' \in Servers \union {None}, logs' \subseteq Servers
    PROVE  Inv'
<1> DEFINE p == [proc[i] EXCEPT !.pc = to]
<1>1. proc[i] \in Process /\ proc[i].pc = from
  BY ServerOwn DEF At
<1>2. to \in Pcs
  BY DEF Places, Pcs, Early, Serving, Ending
<1>3. /\ p \in Process /\ p.pc = to /\ p.pid = proc[i].pid /\ p.crashed = proc[i].crashed
      /\ p.cleaned = proc[i].cleaned
  BY <1>1, <1>2 DEF Process
<1>4. proc' = [proc EXCEPT ![i] = p]
  BY DEF Goto
<1> QED
  BY <1>1, <1>3, <1>4, PlaceInv

LEMMA QuietServer ==
    ASSUME Inv, NEW i \in Servers,
           \/ CreateLog(i) \/ InstallHandler(i) \/ Bind(i) \/ BindFails(i) \/ Serve(i)
           \/ Drain(i) \/ RemoveHandler(i)
    PROVE  Inv'
<1>1. /\ UNCHANGED <<doc, tmp, written, mixed, strays, cmd>>
      /\ port' \in Servers \union {None} /\ logs' \subseteq Servers
  BY DEF CreateLog, InstallHandler, Bind, BindFails, Serve, Drain, RemoveHandler, Inv, ServerInv, Types, Shared
<1>2. PICK from, to :
        /\ At(i, from) /\ Goto(i, to) /\ <<from, to>> \in Places
        /\ to \notin {"closed", "unlinking", "gone"}
  BY DEF CreateLog, InstallHandler, Bind, BindFails, Serve, Drain, RemoveHandler, Places
<1> QED
  BY <1>1, <1>2, GotoInv

LEMMA RotateInv == ASSUME Inv, NEW i \in Servers, ListLogs(i) \/ Rotate(i) PROVE Inv'
<1>1. proc[i] \in Process /\ logs \subseteq Servers /\ port \in Servers \union {None}
  BY ServerOwn DEF Inv, ServerInv, Types, Shared
<1>2. OldLogs \subseteq Servers
  BY <1>1 DEF OldLogs
<1>3. PICK to \in {"rotating", "starting"}, old \in SUBSET Servers :
        /\ <<proc[i].pc, to>> \in Places
        /\ proc' = [proc EXCEPT ![i] = [proc[i] EXCEPT !.pc = to, !.stale = old]]
  <2>1. CASE ListLogs(i)
    BY <1>2, <2>1 DEF ListLogs, At, Places
  <2>2. CASE Rotate(i)
    BY <2>2, ZenonT(60) DEF Rotate, At, Places
  <2> QED
    BY <2>1, <2>2
<1> DEFINE p == [proc[i] EXCEPT !.pc = to, !.stale = old]
<1>4. /\ p \in Process /\ p.pc = to /\ p.pid = proc[i].pid /\ p.crashed = proc[i].crashed
      /\ p.cleaned = proc[i].cleaned /\ proc[i].cleaned \in BOOLEAN
  BY <1>1 DEF Process, Pcs, Early
<1>5. /\ UNCHANGED <<doc, tmp, written, mixed, strays, cmd>>
      /\ port' \in Servers \union {None} /\ logs' \subseteq Servers
  BY <1>1 DEF ListLogs, Rotate
<1>6. p.pc \notin {"closed", "unlinking", "gone"}
  BY <1>4
<1> QED
  BY <1>3, <1>4, <1>5, <1>6, PlaceInv

LEMMA CloseBrokerInv == ASSUME Inv, NEW i \in Servers, CloseBroker(i) PROVE Inv'
<1> DEFINE p == [proc[i] EXCEPT !.pc = "closed", !.cleaned = TRUE]
<1>1. proc[i] \in Process /\ proc[i].pc = "closing" /\ proc' = [proc EXCEPT ![i] = p]
  BY ServerOwn DEF CloseBroker, At
<1>2. /\ p \in Process /\ p.pc = "closed" /\ p.pid = proc[i].pid /\ p.crashed = proc[i].crashed
      /\ p.cleaned = TRUE
  BY <1>1 DEF Process, Pcs, Ending
<1>3. <<proc[i].pc, p.pc>> \in Places
  BY <1>1, <1>2 DEF Places
<1>4. /\ UNCHANGED <<doc, tmp, written, mixed, strays, cmd>>
      /\ port' \in Servers \union {None} /\ logs' \subseteq Servers
  BY DEF CloseBroker, Inv, ServerInv, Types, Shared
<1> QED
  BY <1>1, <1>2, <1>3, <1>4, PlaceInv

LEMMA ReadRecordInv == ASSUME Inv, NEW i \in Servers, ReadRecord(i) PROVE Inv'
<1> DEFINE to == IF doc = i THEN "unlinking" ELSE "gone"
           p == [proc[i] EXCEPT !.pc = to, !.own = (doc = i)]
<1>1. proc[i] \in Process /\ proc[i].pc = "closed" /\ proc' = [proc EXCEPT ![i] = p]
  BY ServerOwn DEF ReadRecord, At
<1>2. /\ p \in Process /\ p.pc = to /\ p.pid = proc[i].pid /\ p.crashed = proc[i].crashed
      /\ p.cleaned = proc[i].cleaned /\ p.own = (doc = i) /\ proc[i].cleaned \in BOOLEAN
  BY <1>1 DEF Process, Pcs, Ending
<1>3. <<proc[i].pc, p.pc>> \in Places
  BY <1>1, <1>2 DEF Places
<1>4. /\ UNCHANGED <<doc, tmp, written, mixed, strays, cmd>>
      /\ port' \in Servers \union {None} /\ logs' \subseteq Servers
  BY DEF ReadRecord, Inv, ServerInv, Types, Shared
<1>5. p.pc # "closed"
  BY <1>2
<1>6. (p.pc = "unlinking" => p.own) /\ (p.pc = "gone" => doc # i)
  <2>1. CASE doc = i
    <3>1. p.own = TRUE /\ p.pc = "unlinking"
      BY <1>2, <2>1
    <3> QED
      BY <3>1
  <2>2. CASE doc # i
    BY <1>2, <2>2
  <2> QED
    BY <2>1, <2>2
<1> QED
  BY <1>1, <1>2, <1>3, <1>4, <1>5, <1>6, PlaceInv

(* The two ends of a server that was not up yet.                           *)
LEMMA NotUpInv == ASSUME Inv, NEW i \in Servers, GiveUp(i) \/ StopBeforeServing(i) PROVE Inv'
<1>1. /\ proc[i] \in Process /\ i # None /\ port' \in Servers \union {None} /\ logs' \subseteq Servers
      /\ UNCHANGED <<doc, tmp, written, mixed, strays, cmd>>
  BY ServerOwn, NameAssumption DEF GiveUp, StopBeforeServing, Inv, ServerInv, Types, Shared
<1>2. CASE GiveUp(i)
  <2> DEFINE p == [proc[i] EXCEPT !.pc = "gone", !.cleaned = TRUE]
  <2>1. proc[i].pc = "unpublished" /\ proc' = [proc EXCEPT ![i] = p]
    BY <1>2 DEF GiveUp, At
  <2>2. /\ p \in Process /\ p.pc = "gone" /\ p.pid = proc[i].pid /\ p.crashed = proc[i].crashed
        /\ p.cleaned = TRUE
    BY <1>1 DEF Process, Pcs
  <2>3. doc = i => i \in mixed
    BY <1>1, <2>1 DEF Inv, ServerInv, Stale
  <2>4. <<proc[i].pc, p.pc>> \in Places
    BY <2>1, <2>2 DEF Places
  <2> QED
    BY <1>1, <2>1, <2>2, <2>3, <2>4, PlaceInv
<1>3. CASE StopBeforeServing(i)
  <2> DEFINE p == [proc[i] EXCEPT !.pc = "gone"]
  <2>1. proc[i].pc = "bound" /\ proc[i].term /\ proc' = [proc EXCEPT ![i] = p]
    BY <1>3 DEF StopBeforeServing, At, Goto
  <2>2. /\ p \in Process /\ p.pc = "gone" /\ p.pid = proc[i].pid /\ p.crashed = proc[i].crashed
        /\ p.cleaned = proc[i].cleaned /\ p.term = proc[i].term
    BY <1>1 DEF Process, Pcs
  <2>3. ~proc[i].cleaned
    BY <2>1 DEF Inv, ServerInv, Records
  <2>4. <<proc[i].pc, p.pc>> \in Places
    BY <2>1, <2>2 DEF Places
  <2>5. CutShort(p)
    BY <2>1, <2>2, <2>3 DEF CutShort
  <2> QED
    BY <1>1, <2>1, <2>2, <2>4, <2>5, PlaceInv
<1> QED
  BY <1>2, <1>3

(* A process that ends at once.                                            *)
LEMMA DeadMoves == ASSUME Inv, NEW i \in Procs, Live(i) PROVE Moves(i, Dead(i))
<1>1. proc[i] \in Process
  BY DEF Inv, ServerInv, Types
<1>2. /\ Dead(i) \in Process /\ Dead(i).pc = "gone" /\ Dead(i).crashed = TRUE
      /\ Dead(i).cleaned = proc[i].cleaned
  BY <1>1 DEF Dead, Process, Pcs
<1> QED
  BY <1>2 DEF Moves, Early, CutShort, Published

LEMMA CrashInv == ASSUME Inv, NEW i \in Procs, Crash(i) PROVE Inv'
<1>1. Live(i) /\ proc' = [proc EXCEPT ![i] = Dead(i)]
  BY DEF Crash
<1>2. Shared' /\ UNCHANGED <<doc, tmp, written, mixed, strays, cmd>>
  BY DEF Crash, Inv, ServerInv, Types, Shared
<1> QED
  BY <1>1, <1>2, DeadMoves, ProcessStep

(* One that goes on under its id.                                          *)
LEMMA SamePids ==
    ASSUME ServerInv, NEW i \in Procs, Live(i), proc'[i].pid = proc[i].pid,
           \A j \in Procs \ {i} : proc'[j] = proc[j]
    PROVE  UniquePids'
<1>1. \A j \in Procs : Live(j)' => Live(j) /\ proc'[j].pid = proc[j].pid
  BY DEF Live
<1> QED
  BY <1>1 DEF ServerInv, UniquePids

-----------------------------------------------------------------------------
(* The three steps of a server that touch the record *)

LEMMA Appended ==
    ASSUME NEW S, NEW s \in Seq(S), NEW e \in S
    PROVE  /\ Append(s, e) \in Seq(S) /\ Append(s, e) # <<>>
           /\ Append(s, e)[Len(Append(s, e))] = e
           /\ \A x : (\E k \in 1 .. Len(Append(s, e)) : Append(s, e)[k] = x)
                    <=> x = e \/ \E k \in 1 .. Len(s) : s[k] = x
  OBVIOUS

LEMMA WriteInv == ASSUME Inv, NEW i \in Servers, WriteTemporary(i) PROVE Inv'
<1>1. /\ proc[i] \in Process /\ proc[i].pc = "writing" /\ tmp' = i
      /\ UNCHANGED <<doc, mixed, strays, cmd, port, logs>>
  BY ServerOwn DEF WriteTemporary, At
<1>2. /\ proc' \in [Procs -> Process]
      /\ proc'[i] = [proc[i] EXCEPT !.pc = "publishing"]
      /\ \A j \in Procs \ {i} : proc'[j] = proc[j]
      /\ proc'[i].pc = "publishing" /\ UNCHANGED <<proc[i].cleaned, proc[i].crashed, proc[i].pid>>
  BY <1>1 DEF WriteTemporary, Goto, Process, Pcs, Serving, Inv, ServerInv, Types, Procs
<1>3. written' \in Seq(Servers) /\ Newest(i)' /\ \A x : Wrote(x)' <=> x = i \/ Wrote(x)
  BY Appended DEF WriteTemporary, Inv, ServerInv, Types, Shared, Newest, Wrote
<1>4. ~Wrote(i)
  BY <1>1 DEF Inv, ServerInv, WrittenOnce, Early
<1>5. \A x : Newest(x)' => x = i
  BY <1>3 DEF Newest
<1>6. doc # i /\ \A c \in Commands : cmd[c].claim = None \/ cmd[c].claim # i
  BY <1>4, NameAssumption DEF Inv, ServerInv, WrittenOnce, CommandInv, Sound
<1>7. Types'
  BY <1>1, <1>2, <1>3 DEF Inv, ServerInv, Types, Shared
<1>8. WrittenOnce'
  BY <1>1, <1>2, <1>3 DEF Inv, ServerInv, WrittenOnce, Early, Procs
<1>9. Records'
  <2>1. (tmp # None => Newest(tmp))'
    BY <1>1, <1>3 DEF Newest
  <2>2. (doc # None /\ Newest(doc) => tmp = None)'
    BY <1>1, <1>5, <1>6
  <2>3. (\A j \in Servers : Newest(j) /\ proc[j].pc \in Published =>
            tmp = None /\ (doc = j \/ strays # {}))'
    BY <1>2, <1>5 DEF Published
  <2>4. (\A j \in Servers :
            /\ proc[j].pc \in {"closed", "unlinking"} => proc[j].cleaned
            /\ proc[j].pc = "unlinking" => proc[j].own
            /\ proc[j].cleaned => proc[j].pc \in {"closed", "unlinking", "gone"})'
    BY <1>1, <1>2 DEF Inv, ServerInv, Records, Procs
  <2> QED
    BY <2>1, <2>2, <2>3, <2>4 DEF Records
<1>10. Stale'
  BY <1>1, <1>2, <1>6 DEF Inv, ServerInv, Types, Shared, Stale, Procs
<1>11. UniquePids'
  BY <1>1, <1>2, SamePids DEF Inv, Live, Procs
<1>12. CommandInv'
  <2> SUFFICES ASSUME NEW c \in Commands PROVE Sound(cmd[c])'
    BY <1>1 DEF Inv, CommandInv
  <2>1. Sound(cmd[c]) /\ UNCHANGED cmd
    BY <1>1 DEF Inv, CommandInv
  <2>2. cmd[c].claim # None => Wrote(cmd[c].claim)' /\ ~Newest(cmd[c].claim)'
    BY <1>3, <1>5, <1>6, <2>1 DEF Sound
  <2> QED
    BY <2>1, <2>2 DEF Sound, Settled, Stopped, Wrote, Newest
<1> QED
  BY <1>7, <1>8, <1>9, <1>10, <1>11, <1>12 DEF Inv, ServerInv

LEMMA PublishInv == ASSUME Inv, NEW i \in Servers, Publish(i) PROVE Inv'
<1>1. /\ proc[i] \in Process /\ proc[i].pc = "publishing" /\ i \in Procs
      /\ tmp' = None /\ UNCHANGED <<written, strays, cmd, port, logs>>
  BY ServerOwn DEF Publish, At, Procs
<1>2. CASE tmp = None
  <2> DEFINE p == [proc[i] EXCEPT !.pc = "unpublished"]
  <2>1. /\ proc' = [proc EXCEPT ![i] = p] /\ UNCHANGED <<doc, tmp, mixed>>
        /\ p \in Process /\ p.pc = "unpublished" /\ p.pid = proc[i].pid /\ UNCHANGED <<port, logs>>
        /\ p.cleaned = proc[i].cleaned
    BY <1>1, <1>2 DEF Publish, Goto, Process, Pcs, Ending
  <2>2. ~proc[i].cleaned /\ Live(i)
    BY <1>1 DEF Inv, ServerInv, Records, Live
  <2>3. Moves(i, p)
    BY <1>1, <1>2, <2>1, <2>2, NameAssumption DEF Moves, Early, Published
  <2>4. Shared'
    BY <1>1, <2>1 DEF Inv, ServerInv, Types, Shared
  <2> QED
    BY <1>1, <2>1, <2>3, <2>4, ProcessStep
<1>3. CASE tmp # None
  <2>1. /\ doc' = tmp /\ tmp \in Servers /\ Newest(tmp)
        /\ mixed' = mixed \union ({tmp} \ {i, None})
    BY <1>3 DEF Publish, Inv, ServerInv, Types, Shared, Records
  <2>2. /\ proc' \in [Procs -> Process]
        /\ proc'[i] = [proc[i] EXCEPT !.pc = "binding"]
        /\ \A j \in Procs \ {i} : proc'[j] = proc[j]
        /\ proc'[i].pc = "binding" /\ UNCHANGED <<proc[i].cleaned, proc[i].pid>>
    BY <1>1, <1>3 DEF Publish, Goto, Process, Pcs, Serving, Inv, ServerInv, Types
  <2>3. Wrote(tmp) /\ \A j : Newest(j) => j = tmp
    <3>1. Len(written) \in 1 .. Len(written) /\ written[Len(written)] = tmp
      BY <2>1 DEF Newest, Inv, ServerInv, Types, Shared
    <3> QED
      BY <3>1 DEF Newest, Wrote
  <2>4. Types'
    BY <1>1, <2>1, <2>2 DEF Inv, ServerInv, Types, Shared
  <2>5. WrittenOnce'
    <3>1. \A x : Wrote(x)' <=> Wrote(x)
      BY <1>1 DEF Wrote
    <3>2. Wrote(i)
      BY <1>1 DEF Inv, ServerInv, WrittenOnce
    <3> QED
      BY <1>1, <2>1, <2>2, <2>3, <3>1, <3>2 DEF Inv, ServerInv, WrittenOnce, Early, Procs
  <2>6. Records'
    BY <1>1, <2>1, <2>2, <2>3 DEF Inv, ServerInv, Records, Newest, Procs
  <2>7. Stale'
    BY <1>1, <2>1, <2>2 DEF Stale, Procs
  <2>8. UniquePids'
    BY <1>1, <2>2, SamePids DEF Inv, Live, Procs
  <2>9. CommandInv'
    <3> SUFFICES ASSUME NEW c \in Commands PROVE Sound(cmd[c])'
      BY <1>1 DEF Inv, CommandInv
    <3>1. Sound(cmd[c]) /\ UNCHANGED cmd
      BY <1>1 DEF Inv, CommandInv
    <3>2. cmd[c].claim # None => ~Newest(cmd[c].claim)
      BY <1>3, <3>1 DEF Sound, Settled
    <3> QED
      BY <1>1, <3>1, <3>2 DEF Sound, Settled, Stopped, Wrote, Newest
  <2> QED
    BY <2>4, <2>5, <2>6, <2>7, <2>8, <2>9 DEF Inv, ServerInv
<1> QED
  BY <1>2, <1>3

(* A record that is not its own makes the server that unlinks it a stray.  *)
LEMMA UnlinkInv == ASSUME Inv, NEW i \in Servers, Unlink(i) PROVE Inv'
<1>1. /\ proc[i] \in Process /\ proc[i].pc = "unlinking" /\ i \in Procs
      /\ doc' = None /\ UNCHANGED <<tmp, written, cmd, port, logs, mixed>>
  BY ServerOwn DEF Unlink, At, Procs
<1>2. /\ proc' \in [Procs -> Process]
      /\ proc'[i] = [proc[i] EXCEPT !.pc = "gone"]
      /\ \A j \in Procs \ {i} : proc'[j] = proc[j]
      /\ proc'[i].pc = "gone" /\ UNCHANGED <<proc[i].cleaned, proc[i].crashed, proc[i].pid>>
  BY <1>1 DEF Unlink, Goto, Process, Pcs, Inv, ServerInv, Types
<1>3. proc[i].cleaned /\ proc[i].own
  BY <1>1 DEF Inv, ServerInv, Records
<1>4. strays' = IF doc \notin {i, None} THEN strays \union {i} ELSE strays
  BY <1>3 DEF Unlink
<1>5. (strays # {} => strays' # {}) /\ (doc \notin {i, None} => strays' # {})
  BY <1>4
<1>6. Types'
  BY <1>1, <1>2, <1>4 DEF Inv, ServerInv, Types, Shared
<1>7. WrittenOnce'
  <2>1. \A x : Wrote(x)' <=> Wrote(x)
    BY <1>1 DEF Wrote
  <2> QED
    BY <1>1, <1>2, <2>1 DEF Inv, ServerInv, WrittenOnce, Early, Published, Procs
<1>8. Records'
  <2>1. (\A j \in Servers : Newest(j) /\ proc[j].pc \in Published =>
            tmp = None /\ (doc = j \/ strays # {}))'
    BY <1>1, <1>2, <1>5, NameAssumption DEF Inv, ServerInv, Records, Newest, Published, Procs
  <2> QED
    BY <1>1, <1>2, <2>1 DEF Inv, ServerInv, Records, Newest, Procs
<1>9. Stale'
  BY <1>1, <1>2 DEF Inv, ServerInv, Types, Shared, Stale, Procs
<1>10. UniquePids'
  BY <1>1, <1>2, SamePids DEF Inv, Live, Procs
<1>11. CommandInv'
  <2> SUFFICES ASSUME NEW c \in Commands PROVE Sound(cmd[c])'
    BY <1>1 DEF Inv, CommandInv
  <2>1. Sound(cmd[c]) /\ UNCHANGED cmd
    BY <1>1 DEF Inv, CommandInv
  <2> DEFINE s == cmd[c].claim
  <2>2. ASSUME s # None PROVE s \in Procs /\ (proc[s].cleaned => proc'[s].cleaned)
    BY <1>2, <2>1, <2>2 DEF Sound, Command, Procs
  <2>3. ASSUME s # None PROVE Settled(s)'
    BY <1>1, <1>2, <1>3, <1>5, <2>1, <2>2, <2>3 DEF Sound, Settled, Newest
  <2>4. Stopped(cmd[c])'
    BY <1>1, <1>5, <2>1, <2>2 DEF Sound, Stopped, Newest
  <2> QED
    BY <1>1, <2>1, <2>3, <2>4 DEF Sound, Wrote
<1> QED
  BY <1>6, <1>7, <1>8, <1>9, <1>10, <1>11 DEF Inv, ServerInv

-----------------------------------------------------------------------------
(* The commands *)

Ended(d, kind, outcome) ==
    IF kind = "stop" /\ outcome = "ok" THEN [d EXCEPT !.pc = "done", !.outcome = outcome]
    ELSE [kind |-> None, pc |-> "done", claim |-> None, outcome |-> outcome]

LEMMA EndSound ==
    ASSUME NEW d, Sound(d), NEW kind \in Kinds \union {None}, NEW outcome \in {"ok", "error", "stopped"},
           kind = "stop" /\ outcome = "ok" =>
               d.claim # None /\ (Newest(d.claim) => proc[d.claim].cleaned \/ strays # {})
    PROVE  Sound(Ended(d, kind, outcome))
<1>1. CASE kind = "stop" /\ outcome = "ok"
  <2> DEFINE e == [d EXCEPT !.pc = "done", !.outcome = outcome]
  <2>1. e \in Command /\ e.claim = d.claim /\ e.pc = "done"
    BY DEF Sound, Command
  <2>2. Sound(e)
    BY <1>1, <2>1 DEF Sound, Stopped
  <2> QED
    BY <1>1, <2>2 DEF Ended
<1>2. CASE ~(kind = "stop" /\ outcome = "ok")
  <2> DEFINE e == [kind |-> None, pc |-> "done", claim |-> None, outcome |-> outcome]
  <2>1. e \in Command /\ e.claim = None /\ e.pc = "done" /\ e.kind # "stop"
    BY NameAssumption DEF Command, Kinds
  <2>2. Sound(e)
    BY <2>1 DEF Sound, Stopped
  <2> QED
    BY <1>2, <2>2 DEF Ended
<1> QED
  BY <1>1, <1>2

LEMMA AskingInv ==
    ASSUME Inv, NEW c \in Commands, NEW d, Sound(d), cmd' = [cmd EXCEPT ![c] = d],
           UNCHANGED <<proc, doc, tmp, port, logs, written, mixed, strays>>
    PROVE  Inv'
<1>1. CommandInv'
  BY CommandsInv
<1>2. ServerInv'
  BY DEF Inv, ServerInv, Types, Shared, WrittenOnce, Wrote, Records, Newest, Stale, UniquePids, Live
<1> QED
  BY <1>1, <1>2 DEF Inv

LEMMA ReadClaimInv == ASSUME Inv, NEW c \in Commands, NEW kind \in Kinds, ReadClaim(c, kind) PROVE Inv'
<1>1. Sound(cmd[c]) /\ cmd[c].pc = "idle"
  BY DEF ReadClaim, Inv, CommandInv
<1>2. UNCHANGED <<proc, doc, tmp, port, logs, written, mixed, strays>>
  BY DEF ReadClaim
<1>3. CASE doc = None
  <2>1. PICK outcome \in {"stopped", "error"} : cmd' = [cmd EXCEPT ![c] = Ended(cmd[c], kind, outcome)]
    BY <1>3 DEF ReadClaim, End, Ended
  <2>2. Sound(Ended(cmd[c], kind, outcome))
    BY <1>1, EndSound
  <2> QED
    BY <1>2, <2>1, <2>2, AskingInv
<1>4. CASE doc # None
  <2> DEFINE d == [cmd[c] EXCEPT !.kind = kind, !.pc = "check", !.claim = doc]
  <2>1. /\ d \in Command /\ d.claim = doc /\ d.pc = "check" /\ d.outcome = cmd[c].outcome
        /\ d.outcome # "ok"
    BY <1>1 DEF Sound, Command, Inv, ServerInv, Types, Shared
  <2>2. Wrote(doc) /\ Settled(doc)
    BY <1>4 DEF Inv, ServerInv, WrittenOnce, Records, Settled
  <2>3. Sound(d)
    BY <1>4, <2>1, <2>2 DEF Sound, Stopped
  <2>4. cmd' = [cmd EXCEPT ![c] = d]
    BY <1>4 DEF ReadClaim
  <2> QED
    BY <1>2, <2>3, <2>4, AskingInv
<1> QED
  BY <1>3, <1>4

LEMMA CheckInv == ASSUME Inv, NEW c \in Commands, CheckProcess(c) PROVE Inv'
<1>1. /\ Sound(cmd[c]) /\ cmd[c].pc = "check" /\ cmd[c].kind \in Kinds \union {None}
      /\ UNCHANGED <<proc, doc, tmp, port, logs, written, mixed, strays>>
  BY DEF CheckProcess, Inv, CommandInv, Command, Sound
<1>2. CASE cmd' = [cmd EXCEPT ![c].pc = "kill"]
  <2> DEFINE d == [cmd[c] EXCEPT !.pc = "kill"]
  <2>1. /\ d \in Command /\ d.claim = cmd[c].claim /\ d.pc = "kill" /\ d.outcome = cmd[c].outcome
        /\ d.outcome # "ok" /\ d.claim # None
    BY <1>1 DEF Sound, Command
  <2>2. Sound(d)
    BY <1>1, <2>1 DEF Sound, Stopped
  <2> QED
    BY <1>1, <1>2, <2>2, AskingInv
<1>3. ASSUME NEW outcome \in {"ok", "error", "stopped"}, outcome = "ok" => cmd[c].kind = "status",
             cmd' = [cmd EXCEPT ![c] = Ended(cmd[c], cmd[c].kind, outcome)]
      PROVE  Inv'
  <2>1. Sound(Ended(cmd[c], cmd[c].kind, outcome))
    BY <1>1, <1>3, EndSound
  <2> QED
    BY <1>1, <1>3, <2>1, AskingInv
<1> QED
  BY <1>2, <1>3 DEF CheckProcess, End, Ended

LEMMA PollInv == ASSUME Inv, NEW c \in Commands, Poll(c) \/ PollTimesOut(c) PROVE Inv'
<1>1. /\ Sound(cmd[c]) /\ cmd[c].pc = "poll" /\ cmd[c].kind \in Kinds \union {None}
      /\ UNCHANGED <<proc, doc, tmp, port, logs, written, mixed, strays>>
  BY DEF Poll, PollTimesOut, Inv, CommandInv, Command, Sound
<1>2. PICK outcome \in {"ok", "error"} :
        /\ cmd' = [cmd EXCEPT ![c] = Ended(cmd[c], cmd[c].kind, outcome)]
        /\ outcome = "ok" => doc # cmd[c].claim
  BY DEF Poll, PollTimesOut, End, Ended
<1>3. outcome = "ok" =>
        cmd[c].claim # None /\ (Newest(cmd[c].claim) => proc[cmd[c].claim].cleaned \/ strays # {})
  BY <1>1, <1>2 DEF Sound, Settled
<1>4. Sound(Ended(cmd[c], cmd[c].kind, outcome))
  BY <1>1, <1>3, EndSound
<1> QED
  BY <1>1, <1>2, <1>4, AskingInv

(* A signal is noted, or ends the process that has the id.                 *)
LEMMA SignalMoves ==
    ASSUME Inv, NEW i \in Procs, Live(i), NEW signal \in {"SIGTERM", "SIGHUP"}, Signal(i, signal)
    PROVE  /\ \E p : Moves(i, p) /\ proc' = [proc EXCEPT ![i] = p]
           /\ port' \in Servers \union {None}
<1> DEFINE p == Noted(i, signal)
<1>1. proc[i] \in Process
  BY DEF Inv, ServerInv, Types
<1>2. /\ p \in Process /\ p.pc = proc[i].pc /\ p.pid = proc[i].pid /\ p.crashed = proc[i].crashed
      /\ p.cleaned = proc[i].cleaned /\ p.own = proc[i].own
  BY <1>1 DEF Process, Noted
<1>3. Moves(i, p)
  <2>1. i # None /\ proc[i].pc # "gone"
    BY NameAssumption DEF Live, Procs
  <2>2. tmp = i => proc[i].pc = "publishing" \/ proc[i].crashed
    BY <2>1 DEF Inv, ServerInv, Stale
  <2>3. i \in Servers => /\ proc[i].pc # "other"
                         /\ proc[i].pc \in {"closed", "unlinking"} => proc[i].cleaned
                         /\ proc[i].pc = "unlinking" => proc[i].own
                         /\ proc[i].cleaned => proc[i].pc \in {"closed", "unlinking", "gone"}
    BY DEF Inv, ServerInv, WrittenOnce, Records
  <2> QED
    BY <1>2, <2>1, <2>2, <2>3 DEF Moves, Published
<1>4. \/ proc' = [proc EXCEPT ![i] = p]
      \/ proc' = [proc EXCEPT ![i] = Dead(i)]
  BY DEF Signal
<1>5. Moves(i, Dead(i))
  BY DeadMoves
<1>6. port' \in Servers \union {None}
  BY DEF Signal, Inv, ServerInv, Types, Shared
<1> QED
  BY <1>3, <1>4, <1>5, <1>6

LEMMA KillInv == ASSUME Inv, NEW c \in Commands, Kill(c) PROVE Inv'
<1>1. /\ Sound(cmd[c]) /\ cmd[c].pc = "kill" /\ cmd[c].kind \in Kinds \union {None}
      /\ UNCHANGED <<doc, tmp, logs, written, mixed, strays>>
  BY DEF Kill, Inv, CommandInv, Command, Sound
<1>2. CASE Holders(c) = {}
  <2>1. cmd' = [cmd EXCEPT ![c] = Ended(cmd[c], cmd[c].kind, "error")] /\ UNCHANGED <<proc, port>>
    BY <1>2 DEF Kill, End, Ended
  <2>2. Sound(Ended(cmd[c], cmd[c].kind, "error"))
    BY <1>1, EndSound
  <2> QED
    BY <1>1, <2>1, <2>2, AskingInv
<1>3. CASE Holders(c) # {}
  <2>1. PICK i \in Procs, signal \in {"SIGTERM", "SIGHUP"} : Live(i) /\ Signal(i, signal)
    BY <1>3 DEF Kill, Holders
  <2>2. PICK p : Moves(i, p) /\ proc' = [proc EXCEPT ![i] = p]
    BY <2>1, SignalMoves
  <2>3. Shared'
    BY <1>1, <2>1, SignalMoves DEF Inv, ServerInv, Types, Shared
  <2>4. ServerInv' /\ \A j \in Procs : proc[j].cleaned => proc'[j].cleaned
    BY <1>1, <2>2, <2>3, MovesInv DEF Inv
  <2>5. PICK d : Sound(d) /\ cmd' = [cmd EXCEPT ![c] = d]
    <3>1. CASE cmd[c].kind = "stop"
      <4> DEFINE d == [cmd[c] EXCEPT !.pc = "poll"]
      <4>1. /\ d \in Command /\ d.claim = cmd[c].claim /\ d.pc = "poll" /\ d.outcome = cmd[c].outcome
            /\ d.outcome # "ok" /\ d.claim # None
        BY <1>1 DEF Sound, Command
      <4>2. Sound(d)
        BY <1>1, <4>1 DEF Sound, Stopped
      <4>3. cmd' = [cmd EXCEPT ![c] = d]
        BY <1>3, <3>1 DEF Kill
      <4> QED
        BY <4>2, <4>3
    <3>2. CASE cmd[c].kind # "stop"
      <4>1. Sound(Ended(cmd[c], cmd[c].kind, "ok"))
        BY <1>1, <3>2, EndSound
      <4>2. cmd' = [cmd EXCEPT ![c] = Ended(cmd[c], cmd[c].kind, "ok")]
        BY <1>3, <3>2 DEF Kill, End, Ended
      <4> QED
        BY <4>1, <4>2
    <3> QED
      BY <3>1, <3>2
  <2>6. CommandInv'
    BY <1>1, <2>4, <2>5, CommandsInv
  <2> QED
    BY <2>4, <2>6 DEF Inv
<1> QED
  BY <1>2, <1>3

-----------------------------------------------------------------------------
LEMMA StepInv == ASSUME Inv, [Next]_vars PROVE Inv'
<1>1. ASSUME NEW i \in Servers, ServerStep(i) PROVE Inv'
  BY <1>1, QuietServer, NotUpInv, RotateInv, CloseBrokerInv, ReadRecordInv, WriteInv, PublishInv, UnlinkInv
  DEF ServerStep
<1>2. ASSUME NEW c \in Commands, CommandStep(c) PROVE Inv'
  BY <1>2, ReadClaimInv, CheckInv, KillInv, PollInv DEF CommandStep
<1>3. CASE UNCHANGED vars
  <2>1. UNCHANGED <<proc, doc, tmp, port, logs, cmd, written, mixed, strays>>
    BY <1>3 DEF vars
  <2>2. ServerInv'
    BY <2>1 DEF Inv, ServerInv, Types, Shared, WrittenOnce, Wrote, Records, Newest, Stale, UniquePids, Live
  <2>3. CommandInv'
    BY <2>1, WaitingInv
  <2> QED
    BY <2>2, <2>3 DEF Inv
<1> QED
  BY <1>1, <1>2, <1>3, StartInv, CrashInv DEF Next

(* The invariant holds in every reachable state, for any number of         *)
(* servers, commands, process ids and crashes.                             *)
THEOREM ControlInvariant == Spec => []Inv
<1>1. Inv /\ [Next]_vars => Inv'
  BY StepInv
<1> QED
  BY <1>1, InitInv, PTL DEF Spec

(* Every variable keeps its type (restart.py, logs.py).                    *)
THEOREM TypeCorrect == Spec => []TypeOK
<1>1. Inv => TypeOK
  <2> SUFFICES ASSUME Inv PROVE TypeOK
    OBVIOUS
  <2>1. /\ proc \in [Procs -> Process] /\ Shared /\ cmd \in [Commands -> Command]
    BY DEF Inv, ServerInv, CommandInv, Types
  <2>2. Process = [pc : {"none", "log", "listing", "rotating", "starting", "other", "gone"} \union Serving \union Ending,
                   pid : Pids \union {None}, term : BOOLEAN, crashed : BOOLEAN,
                   cleaned : BOOLEAN, own : BOOLEAN, stale : SUBSET Servers]
    <3>1. Pcs = {"none", "log", "listing", "rotating", "starting", "other", "gone"} \union Serving \union Ending
      BY DEF Pcs, Early, Serving, Ending
    <3> QED
      BY <3>1 DEF Process
  <2> QED
    BY <2>1, <2>2 DEF TypeOK, Shared, Command
<1> QED
  BY <1>1, ControlInvariant, PTL

(* The server that published last and listens is found through its record, *)
(* however many servers of the profile start, end and crash, unless one    *)
(* has unlinked a record that was no longer its own (restart.py:142).      *)
THEOREM NewestIsFound == Spec => []RecordOfNewest
<1>1. Inv => RecordOfNewest
  <2> SUFFICES ASSUME Inv, NEW i \in Servers, At(i, "serving"), written[Len(written)] = i
               PROVE  doc = i \/ strays # {}
    BY DEF RecordOfNewest
  <2>1. written # <<>>
    BY DEF At, Inv, ServerInv, WrittenOnce, Wrote, Published
  <2> QED
    BY <2>1 DEF At, Inv, ServerInv, Records, Newest, Published
<1> QED
  BY <1>1, ControlInvariant, PTL

(* A record of a process that is gone is left only by a crash, by a stop   *)
(* before the server was up, or by two servers that publish at the same    *)
(* time.                                                                   *)
THEOREM StaleOnlyIfCutShort == Spec => []StaleRecordOnlyIfCutShort
<1>1. Inv => StaleRecordOnlyIfCutShort
  BY DEF Inv, ServerInv, Stale, CutShort, StaleRecordOnlyIfCutShort, At
<1> QED
  BY <1>1, ControlInvariant, PTL

(* A stop that reports success has seen its server clean up, unless        *)
(* another server has written a record since or one unlinked it by         *)
(* mistake (IMPLEMENTATION.md:268).                                        *)
THEOREM StopIsClean == Spec => []StopMeansClean
<1>1. Inv => StopMeansClean
  <2> SUFFICES ASSUME Inv, NEW c \in Commands, cmd[c].kind = "stop", cmd[c].outcome = "ok"
               PROVE  proc[cmd[c].claim].cleaned \/ written[Len(written)] # cmd[c].claim \/ strays # {}
    BY DEF StopMeansClean
  <2>1. Sound(cmd[c])
    BY DEF Inv, CommandInv
  <2>2. Wrote(cmd[c].claim) /\ (Newest(cmd[c].claim) => proc[cmd[c].claim].cleaned \/ strays # {})
    BY <2>1 DEF Sound, Stopped
  <2>3. written # <<>>
    BY <2>2 DEF Wrote
  <2> QED
    BY <2>2, <2>3 DEF Newest
<1> QED
  BY <1>1, ControlInvariant, PTL

(* The step of a reload that ends a process.                               *)
LEMMA KillHarmless ==
    ASSUME Inv, [Next]_vars, NEW c \in Commands, NEW i \in Procs,
           cmd[c].kind = "reload", cmd[c].pc = "kill", cmd'[c].pc = "done", Live(i), ~Live(i)'
    PROVE  proc[i].pc \in Ending \/ At(cmd[c].claim, "gone")
<1>1. Kill(c)
  <2>1. cmd' # cmd
    OBVIOUS
  <2>2. PICK d \in Commands : CommandStep(d)
    BY <2>1 DEF Next, vars, Start, Crash, ServerStep, CreateLog, ListLogs, Rotate, InstallHandler,
       WriteTemporary, Publish, GiveUp, Bind, BindFails, Serve, StopBeforeServing, Drain, RemoveHandler,
       CloseBroker, ReadRecord, Unlink
  <2>3. d = c
    <3>1. ASSUME d # c PROVE cmd'[c] = cmd[c]
      BY <2>2, <3>1 DEF CommandStep, ReadClaim, CheckProcess, Kill, Poll, PollTimesOut, End, Inv, CommandInv
    <3> QED
      BY <3>1
  <2> QED
    BY <2>2, <2>3 DEF CommandStep, ReadClaim, CheckProcess, Poll, PollTimesOut
<1>2. PICK h \in Holders(c) : Signal(h, "SIGHUP")
  BY <1>1 DEF Kill, Live
<1>3. h = i
  <2>1. ASSUME h # i PROVE proc'[i] = proc[i]
    BY <1>2, <2>1 DEF Signal, Inv, ServerInv, Types
  <2> QED
    BY <2>1 DEF Live
<1>4. ~Handles(proc[i].pc)
  <2> SUFFICES ASSUME Handles(proc[i].pc) PROVE FALSE
    OBVIOUS
  <2>1. proc' = [proc EXCEPT ![i] = Noted(i, "SIGHUP")]
    BY <1>2, <1>3 DEF Signal
  <2>2. proc'[i].pc = proc[i].pc
    BY <2>1 DEF Inv, ServerInv, Types, Process, Noted
  <2> QED
    BY <2>2 DEF Live
<1> DEFINE s == cmd[c].claim
<1>5. s \in Servers /\ Wrote(s)
  BY DEF Inv, CommandInv, Sound, Command
<1>6. proc[s].pc \in Serving \union Ending \union {"gone"}
  BY <1>5 DEF Inv, ServerInv, Types, Process, Procs, WrittenOnce, Pcs
<1>7. CASE proc[s].pc # "gone"
  <2>1. Live(s) /\ proc[i].pid = proc[s].pid
    BY <1>2, <1>3, <1>6, <1>7 DEF Holders, Live, Serving, Ending
  <2>2. i = s
    BY <1>5, <2>1 DEF Inv, ServerInv, UniquePids, Procs
  <2> QED
    BY <1>4, <1>6, <1>7, <2>2 DEF Handles
<1> QED
  BY <1>7 DEF At

(* A reload ends no server that publishes or serves, only one that is      *)
(* stopping, or a process that has the id of one that is gone              *)
(* (restart.py:194-214).                                                   *)
THEOREM ReloadsHarmless == Spec => ReloadHarmless
<1> DEFINE Harmless ==
      \A c \in Commands, i \in Procs :
        cmd[c].kind = "reload" /\ cmd[c].pc = "kill" /\ cmd'[c].pc = "done" /\ Live(i) /\ ~Live(i)'
            => proc[i].pc \in Ending \/ At(cmd[c].claim, "gone")
<1>1. Inv /\ [Next]_vars => [Harmless]_vars
  BY KillHarmless
<1> QED
  BY <1>1, ControlInvariant, PTL DEF Spec, ReloadHarmless

-----------------------------------------------------------------------------
(* The payload logs *)

Begun(i) == \E k \in 1 .. Len(started) : started[k] = i
Old(i) == \E k \in 1 .. Len(started) : started[k] = i /\ Len(started) - k >= Keep

LogInv ==
    /\ started \in Seq(Servers)
    /\ \A k, l \in 1 .. Len(started) : started[k] = started[l] => k = l
    /\ \A i \in Servers : Begun(i) => proc[i].pc \notin {"none", "log"}
    /\ \A i \in logs : Begun(i)
    /\ \A i \in Servers : \A j \in proc[i].stale : Old(j)
    /\ \A i \in Servers : Begun(i) => i \in logs \/ Old(i)

LEMMA AgeOf ==
    ASSUME started \in Seq(Servers), NEW i, Begun(i)
    PROVE  Age(i) \in 1 .. Len(started) /\ started[Age(i)] = i
  BY DEF Age, Begun

LEMMA IntervalSize ==
    ASSUME NEW a \in Nat, NEW n \in Nat, a <= n
    PROVE  IsFiniteSet(a + 1 .. n) /\ Cardinality(a + 1 .. n) = n - a
<1>1. PICK b \in Int : b = a + 1
  OBVIOUS
<1>2. n \in Int
  OBVIOUS
<1>3. IsFiniteSet(b .. n) /\ Cardinality(b .. n) = IF b > n THEN 0 ELSE n - b + 1
  BY <1>1, <1>2, FS_Interval
<1> QED
  BY <1>1, <1>3

(* As many starts follow as there are newer logs.                          *)
LEMMA OldLogsOld == ASSUME Inv, LogInv, NEW i \in OldLogs PROVE Old(i)
<1>1. /\ started \in Seq(Servers) /\ i \in logs /\ Keep \in Nat
      /\ Cardinality(Newer(i)) >= Keep
  BY KeepAssumption DEF OldLogs, LogInv
<1>2. Age(i) \in 1 .. Len(started) /\ started[Age(i)] = i
  BY <1>1, AgeOf DEF LogInv
<1>3. \A j \in Newer(i) : Age(j) \in Age(i) + 1 .. Len(started) /\ started[Age(j)] = j
  <2> TAKE j \in Newer(i)
  <2>1. Age(j) \in 1 .. Len(started) /\ started[Age(j)] = j
    BY <1>1, AgeOf DEF LogInv, Newer
  <2> QED
    BY <1>1, <1>2, <2>1 DEF Newer
<1> DEFINE after == Age(i) + 1 .. Len(started)
           f == [j \in Newer(i) |-> Age(j)]
<1>4. f \in Injection(Newer(i), after)
  BY <1>3 DEF Injection, IsInjective
<1>5. IsFiniteSet(after) /\ Cardinality(after) = Len(started) - Age(i)
  <2>1. Age(i) \in Nat /\ Len(started) \in Nat /\ Age(i) <= Len(started)
    BY <1>1, <1>2
  <2> QED
    BY <2>1, IntervalSize
<1>6. IsFiniteSet(Newer(i)) /\ Cardinality(Newer(i)) <= Cardinality(after)
  BY <1>4, <1>5, FS_Injection
<1>7. Cardinality(Newer(i)) \in Nat /\ Len(started) - Age(i) \in Nat
  BY <1>1, <1>2, <1>6, FS_CardinalityType
<1>8. Len(started) - Age(i) >= Keep
  BY <1>1, <1>5, <1>6, <1>7
<1> QED
  BY <1>2, <1>8 DEF Old

LEMMA OtherLogs ==
    ASSUME LogInv, UNCHANGED <<started, logs>>,
           \A i \in Servers :
             /\ proc'[i].stale = proc[i].stale
             /\ proc'[i].pc \in {"none", "log"} => proc[i].pc \in {"none", "log"}
    PROVE  LogInv'
  BY DEF LogInv, Begun, Old

LEMMA CreateLogKeeps == ASSUME Inv, LogInv, NEW i \in Servers, CreateLog(i) PROVE LogInv'
<1>1. /\ proc[i].pc = "log" /\ logs' = logs \union {i} /\ started' = Append(started, i)
      /\ started \in Seq(Servers)
      /\ \A j \in Servers : proc'[j].stale = proc[j].stale
      /\ \A j \in Servers \ {i} : proc'[j].pc = proc[j].pc
      /\ proc'[i].pc = "listing"
  BY DEF CreateLog, At, Goto, LogInv, Inv, ServerInv, Types, Process, Procs
<1>2. ~Begun(i)
  BY <1>1 DEF LogInv
<1>3. /\ started' \in Seq(Servers) /\ Len(started') = Len(started) + 1
      /\ started'[Len(started) + 1] = i
      /\ \A k \in 1 .. Len(started) : started'[k] = started[k]
  BY <1>1
<1>4. \A x : Begun(x)' <=> x = i \/ Begun(x)
  BY <1>1, <1>3 DEF Begun
<1>5. \A x : Old(x) => Old(x)'
  BY <1>1, <1>3, KeepAssumption DEF Old
<1>6. (\A k, l \in 1 .. Len(started) : started[k] = started[l] => k = l)'
  BY <1>1, <1>2, <1>3 DEF LogInv, Begun
<1> QED
  BY <1>1, <1>3, <1>4, <1>5, <1>6 DEF LogInv

LEMMA RotateKeeps == ASSUME Inv, LogInv, NEW i \in Servers, ListLogs(i) \/ Rotate(i) PROVE LogInv'
<1>1. /\ UNCHANGED started /\ logs' \subseteq logs
      /\ \A x : (Begun(x)' <=> Begun(x)) /\ (Old(x)' <=> Old(x))
  BY DEF ListLogs, Rotate, Begun, Old
<1>2. /\ \A j \in Servers \ {i} : proc'[j] = proc[j]
      /\ proc'[i].pc \notin {"none", "log"}
      /\ \A j \in proc'[i].stale : Old(j)
  BY OldLogsOld DEF ListLogs, Rotate, Inv, ServerInv, Types, Process, Procs
<1>3. \A j \in logs \ logs' : Old(j)
  BY DEF ListLogs, Rotate, LogInv
<1> QED
  BY <1>1, <1>2, <1>3 DEF LogInv

LEMMA LogStep == ASSUME Inv, LogInv, [Next]_vars PROVE LogInv'
<1>1. proc \in [Procs -> Process] /\ Servers \subseteq Procs
  BY DEF Inv, ServerInv, Types, Procs
<1>2. ASSUME NEW i \in Procs, NEW q \in Pids, Start(i, q) PROVE LogInv'
  BY <1>1, <1>2, OtherLogs DEF Start, At, Process
<1>3. ASSUME NEW i \in Procs, Crash(i) PROVE LogInv'
  BY <1>1, <1>3, OtherLogs DEF Crash, Dead, Process
<1>4. ASSUME NEW i \in Servers, ServerStep(i) PROVE LogInv'
  <2>1. ASSUME NEW pc, pc \notin {"none", "log"}, Goto(i, pc), UNCHANGED <<started, logs>> PROVE LogInv'
    BY <1>1, <2>1, OtherLogs DEF Goto, Process
  <2>2. CASE CloseBroker(i) \/ ReadRecord(i) \/ GiveUp(i)
    BY <1>1, <2>2, OtherLogs DEF CloseBroker, ReadRecord, GiveUp, Process
  <2>3. CASE CreateLog(i) \/ ListLogs(i) \/ Rotate(i)
    BY <2>3, CreateLogKeeps, RotateKeeps
  <2> QED
    BY <1>4, <2>1, <2>2, <2>3 DEF ServerStep, InstallHandler, WriteTemporary, Publish, Bind, BindFails, Serve,
       StopBeforeServing, Drain, RemoveHandler, Unlink
<1>5. ASSUME NEW c \in Commands, CommandStep(c) PROVE LogInv'
  <2>1. CASE UNCHANGED <<proc, started, logs>>
    BY <2>1, OtherLogs
  <2>2. ASSUME NEW i \in Procs, NEW signal, Signal(i, signal), UNCHANGED <<started, logs>> PROVE LogInv'
    BY <1>1, <2>2, OtherLogs DEF Signal, Noted, Dead, Process
  <2> QED
    BY <1>5, <2>1, <2>2 DEF CommandStep, ReadClaim, CheckProcess, Kill, Holders, Poll, PollTimesOut
<1>6. CASE UNCHANGED vars
  BY <1>6, OtherLogs DEF vars
<1> QED
  BY <1>2, <1>3, <1>4, <1>5, <1>6 DEF Next

(* A server, whatever its process does, loses its log only when Keep       *)
(* servers have been started after it (logs.py:58-61), for every Keep.     *)
THEOREM LogsLostOnlyToNewer == Spec => []LogLostOnlyToNewer
<1>1. Init => LogInv
  BY DEF Init, LogInv, Begun, Old, Procs
<1>2. Inv /\ LogInv /\ [Next]_vars => LogInv'
  BY LogStep
<1>3. Inv /\ LogInv => LogLostOnlyToNewer
  <2> SUFFICES ASSUME LogInv, NEW i \in Servers, \E k \in DOMAIN started : started[k] = i, i \notin logs
               PROVE  Len(started) - Age(i) >= Keep
    BY DEF LogLostOnlyToNewer
  <2>1. started \in Seq(Servers) /\ Begun(i)
    BY DEF LogInv, Begun
  <2>2. Age(i) \in 1 .. Len(started) /\ started[Age(i)] = i
    BY <2>1, AgeOf
  <2>3. Old(i)
    BY <2>1 DEF LogInv
  <2> QED
    BY <2>2, <2>3 DEF Old, LogInv
<1> QED
  BY <1>1, <1>2, <1>3, ControlInvariant, PTL DEF Spec
=============================================================================
