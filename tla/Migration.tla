----------------------------- MODULE Migration -----------------------------
(***************************************************************************)
(* src/irigate/migration.py: irigate migrate moves the MCP servers of      *)
(* agent configurations into the Irigate profile, over several files.      *)
(*                                                                         *)
(* Of a client's file it keeps the direct servers, as pairs of upstream    *)
(* key and definition, and the upstreams it reaches through Irigate; of a  *)
(* profile the upstreams, and the keys that have path mappings (Doctor).   *)
(* user is the last change by another program that a text contains.  One   *)
(* run at a time; each step is one operation on one file.                  *)
(***************************************************************************)
EXTENDS Naturals, Sequences

CONSTANTS
    Clients,       \* the configurations of agents
    ClientOrder,   \* the order in which they are given
    Profile,       \* the Irigate profile
    Keys, Definitions, \* keys of servers and upstreams, and their definitions
    Absent, Partial,   \* no file; one cut off while it was written in place
    MaxRuns        \* bound on the runs of irigate migrate

Files == Clients \union {Profile}
NoFile == {Absent, Partial}

ASSUME OrderAssumption ==
    ClientOrder \in Seq(Clients) /\ \A c \in Clients : \E i \in DOMAIN ClientOrder : ClientOrder[i] = c
(* What a file can hold that is there and whole.                           *)
Servers == Keys \X Definitions
ClientTexts == [user : Nat, servers : SUBSET Servers, via : SUBSET Keys]
ProfileTexts == [user : Nat, upstreams : SUBSET Servers, mapped : SUBSET Keys]

ASSUME TextAssumption == \A t \in NoFile : t \notin ClientTexts /\ t \notin ProfileTexts
ASSUME FileAssumption == Profile \notin Clients /\ Absent # Partial

VARIABLES
    file, backup,   \* the files, and their copies with .irigate.bak
    run             \* migrate_configurations()

-----------------------------------------------------------------------------
Idle == [pc |-> "idle", todo |-> {}, read |-> <<>>, originals |-> <<>>, made |-> {}, count |-> 0]

Active == run.pc \in {"backing", "writing", "restoring", "filling", "cleaning"}
Goto(pc) == run' = [run EXCEPT !.pc = pc]

(* Of a set of files the first in the order of rendered: the clients as    *)
(* they are given, then the profile.                                       *)
First(S) ==
    IF S \subseteq {Profile} THEN Profile
    ELSE ClientOrder[CHOOSE i \in DOMAIN ClientOrder :
            /\ ClientOrder[i] \in S
            /\ \A j \in DOMAIN ClientOrder : ClientOrder[j] \in S => i <= j]

(* _load_profile(): a profile that does not exist starts empty.            *)
OrEmpty(profile) ==
    IF profile = Absent THEN [user |-> 0, upstreams |-> {}, mapped |-> {}] ELSE profile

Wanted(read) == UNION {read[c].servers : c \in DOMAIN read \ {Profile}}

(* Two definitions under one key are a conflict, between clients or with   *)
(* the profile.                                                            *)
Agree(servers) == \A x, y \in servers : x[1] = y[1] => x = y

ConvertibleEach(read) ==
    /\ Wanted(read) # {}
    /\ \A c \in DOMAIN read \ {Profile} : Agree(read[c].servers \union OrEmpty(read[Profile]).upstreams)

ConvertibleReplacing(read) == Wanted(read) # {} /\ Agree(Wanted(read))

Convertible(read) ==
    Wanted(read) # {} /\ Agree(Wanted(read) \union OrEmpty(read[Profile]).upstreams)

(* What a file becomes: the servers of a client give way to one connection *)
(* to Irigate, which selects their keys and replaces an earlier one.       *)
Migrated(read, f) ==
    IF f = Profile
    THEN [OrEmpty(read[f]) EXCEPT !.upstreams =
             {x \in @ : \A y \in Wanted(read) : x[1] # y[1]} \union Wanted(read)]
    ELSE IF read[f].servers = {} THEN read[f]
    ELSE [read[f] EXCEPT !.servers = {}, !.via = {x[1] : x \in read[f].servers}]

(* The files are read and converted; nothing has been written when the run *)
(* is refused, for a conflict or for a server that cannot be converted.    *)
(* Simplified: a file that was cut off is refused, though what is left of  *)
(* a TOML or YAML file may still parse, and the server tables of one file  *)
(* (one for each project, migration.py:122-129) count as one.              *)
Load(selected) ==
    /\ ~Active /\ run.count < MaxRuns
    /\ LET read == [f \in selected \union {Profile} |-> file[f]] IN
       \/ run' = [Idle EXCEPT !.pc = "refused", !.count = run.count + 1]
       \/ /\ \A c \in selected : read[c] \notin NoFile
          /\ read[Profile] # Partial /\ Convertible(read)
          /\ run' = [Idle EXCEPT !.pc = "backing", !.read = read, !.count = run.count + 1,
                         !.todo = DOMAIN read]
    /\ UNCHANGED <<file, backup>>

(* The files whose texts the run keeps are put back in their order.        *)
RollBackUnwritten(originals) ==
    run' = [run EXCEPT !.pc = "restoring", !.originals = originals,
                       !.todo = @ \intersect DOMAIN originals]

RollBack(originals) ==
    run' = [run EXCEPT !.pc = "restoring", !.originals = originals, !.todo = DOMAIN originals]

(* The next file: its text is kept for a rollback, and it is copied if it  *)
(* exists and has no backup yet.                                           *)
Kept(f) == [g \in DOMAIN run.originals \union {f} |-> IF g = f THEN file[f] ELSE run.originals[g]]

Copy(f) ==
    /\ run' = [run EXCEPT !.todo = @ \ {First(@)}, !.originals = Kept(f),
                          !.made = IF file[f] = Absent THEN @ ELSE @ \union {f}]
    /\ backup' = IF file[f] = Absent THEN backup ELSE [backup EXCEPT ![f] = file[f]]

BackUpSilently ==
    LET f == First(run.todo) IN
    /\ run.pc = "backing" /\ run.todo # {}
    /\ IF file[f] # Absent /\ backup[f] # Absent
       THEN run' = [run EXCEPT !.todo = @ \ {First(@)}, !.originals = Kept(f)] /\ UNCHANGED backup
       ELSE Copy(f)
    /\ UNCHANGED file

BackUpOverwriting ==
    /\ run.pc = "backing" /\ run.todo # {}
    /\ Copy(First(run.todo))
    /\ UNCHANGED file

BackUp ==
    LET f == First(run.todo) IN
    /\ run.pc = "backing" /\ run.todo # {}
    /\ IF file[f] # Absent /\ backup[f] # Absent
       THEN RollBack(Kept(f)) /\ UNCHANGED backup
       ELSE Copy(f)
    /\ UNCHANGED file

(* A copy that fails leaves nothing, a part, or the whole text of which    *)
(* only the times were not copied; it is not among the backups of the run. *)
CopyFails ==
    LET f == First(run.todo) IN
    /\ run.pc = "backing" /\ run.todo # {}
    /\ file[f] # Absent /\ backup[f] = Absent
    /\ \E t \in NoFile \union {file[f]} : backup' = [backup EXCEPT ![f] = t]
    /\ RollBack(Kept(f))
    /\ UNCHANGED file

BackedUp ==
    /\ run.pc = "backing" /\ run.todo = {}
    /\ run' = [run EXCEPT !.pc = "writing", !.todo = DOMAIN run.read]
    /\ UNCHANGED <<file, backup>>

(* A file is written beside its place and moved there.                     *)
Write ==
    LET f == First(run.todo) IN
    /\ run.pc = "writing" /\ run.todo # {}
    /\ file' = [file EXCEPT ![f] = Migrated(run.read, f)]
    /\ run' = [run EXCEPT !.todo = @ \ {First(@)}]
    /\ UNCHANGED backup

Written ==
    /\ run.pc = "writing" /\ run.todo = {}
    /\ Goto("done")
    /\ UNCHANGED <<file, backup>>

(* A file cannot be read, or written.                                      *)
Fails ==
    /\ run.pc \in {"backing", "writing"} /\ run.todo # {}
    /\ RollBack(run.originals)
    /\ UNCHANGED <<file, backup>>

(* The rollback writes the kept texts back in place, first emptying the    *)
(* file; a file that was not there is removed.                             *)
Restore ==
    LET f == First(run.todo) IN
    /\ run.pc = "restoring" /\ run.todo # {}
    /\ IF run.originals[f] = Absent
       THEN run' = [run EXCEPT !.todo = @ \ {First(@)}] /\ file' = [file EXCEPT ![f] = Absent]
       ELSE Goto("filling") /\ file' = [file EXCEPT ![f] = Partial]
    /\ UNCHANGED backup

Fill ==
    LET f == First(run.todo) IN
    /\ run.pc = "filling"
    /\ file' = [file EXCEPT ![f] = run.originals[f]]
    /\ run' = [run EXCEPT !.pc = "restoring", !.todo = @ \ {First(@)}]
    /\ UNCHANGED backup

(* Then the copies of this run are removed.                                *)
Restored ==
    /\ run.pc = "restoring" /\ run.todo = {}
    /\ backup' = [f \in Files |-> IF f \in run.made THEN Absent ELSE backup[f]]
    /\ Goto("rolledback")
    /\ UNCHANGED file

(* The rollback fails, or the process ends, where it is.                   *)
Dies ==
    /\ Active /\ Goto("crashed")
    /\ UNCHANGED <<file, backup>>

MigrationStep ==
    \/ \E selected \in SUBSET Clients \ {{}} : Load(selected)
    \/ BackUp \/ CopyFails \/ BackedUp \/ Write \/ Written \/ Fails
    \/ Restore \/ Fill \/ Restored \/ Dies
=============================================================================
