---------------------------- MODULE Maintenance ----------------------------
(***************************************************************************)
(* irigate migrate and irigate doctor --apply at work on the same files,   *)
(* while the agents that own the configurations go on writing them.        *)
(***************************************************************************)
EXTENDS Doctor, FiniteSets

CONSTANTS
    InitialFiles,   \* what the files may hold before
    NewServers,     \* servers that users add to configurations of agents
    MaxEdits        \* bound on the writes by other programs

ASSUME InitialAssumption ==
    /\ NewServers \subseteq Servers
    /\ \A before \in InitialFiles :
        /\ before \in [Files -> ClientTexts \union ProfileTexts \union NoFile]
        /\ \A c \in Clients : before[c] \in ClientTexts /\ before[c].user = 0
        /\ before[Profile] # Absent => before[Profile] \in ProfileTexts /\ before[Profile].user = 0

VARIABLES
    edits,     \* history: the changes other programs made to each file
    owned,     \* history: the servers each client has been given
    unsafe,    \* history: files changed while a program held an older text of
               \* them, or whose last change was in a backup the user deleted
    deleted,   \* history: the user has deleted the backups of a migration
    mingled    \* history: a migration and a repair have been at work together

history == <<edits, owned, unsafe, deleted, mingled>>
vars == <<file, backup, run, doctor, doctorBackup, history>>

-----------------------------------------------------------------------------
Init ==
    /\ file \in InitialFiles /\ backup = [f \in Files |-> Absent]
    /\ run = Idle
    /\ doctor = Resting /\ doctorBackup = Absent
    /\ edits = [f \in Files |-> 0] /\ owned = [c \in Clients |-> file[c].servers]
    /\ unsafe = {} /\ deleted = FALSE /\ mingled = FALSE

(* The text of f that is in hand is going to replace what is in the file.  *)
Overtaken(f) ==
    \/ Active /\ f \in DOMAIN run.originals
    \/ f = Profile /\ doctor.pc = "prepared" /\ doctorBackup # Absent
    \/ f = Profile /\ doctor.pc = "saved"

(* Another program writes a file, on the text it finds; a client may get a *)
(* server of its own.                                                      *)
Edit(f) ==
    /\ file[f] \notin NoFile
    /\ Cardinality(UNION {{g} \X (1 .. edits[g]) : g \in Files}) < MaxEdits
    /\ \E added \in {{}} \union (IF f = Profile THEN {} ELSE {{s} : s \in NewServers}) :
        /\ \A x \in added, y \in (IF f = Profile THEN {} ELSE file[f].servers) : x[1] # y[1]
        /\ file' = IF f = Profile
                   THEN [file EXCEPT ![f].user = edits[f] + 1]
                   ELSE [file EXCEPT ![f].user = edits[f] + 1, ![f].servers = @ \union added]
        /\ owned' = IF f = Profile THEN owned ELSE [owned EXCEPT ![f] = @ \union added]
    /\ edits' = [edits EXCEPT ![f] = @ + 1]
    /\ unsafe' = IF Overtaken(f) THEN unsafe \union {f} ELSE unsafe
    /\ UNCHANGED <<backup, run, doctor, doctorBackup, deleted, mingled>>

(* The user deletes the backups of a migration, to be able to run another. *)
DeleteBackups ==
    /\ ~Active /\ run.count < MaxRuns /\ \E f \in Files : backup[f] # Absent
    /\ backup' = [f \in Files |-> Absent]
    /\ unsafe' = unsafe \union {f \in Files : file[f] \in NoFile \/ file[f].user # edits[f]}
    /\ deleted' = TRUE
    /\ UNCHANGED <<file, run, doctor, doctorBackup, edits, owned, mingled>>

Next ==
    \/ /\ MigrationStep
       /\ mingled' = (mingled \/ (run'.pc = "backing" /\ doctor.pc # "idle"))
       /\ UNCHANGED <<doctor, doctorBackup, edits, owned, unsafe, deleted>>
    \/ /\ DoctorStep
       /\ mingled' = (mingled \/ Active)
       /\ UNCHANGED <<backup, run, edits, owned, unsafe, deleted>>
    \/ \E f \in Files : Edit(f)
    \/ DeleteBackups

Spec == Init /\ [][Next]_vars

-----------------------------------------------------------------------------
Texts(f) == {file[f], backup[f]} \union (IF f = Profile THEN {doctorBackup} ELSE {})

(* The last change another program made to a file is in the file or in a   *)
(* backup, however migrations, repairs, failures and crashes interleave:   *)
(* lost is only a change made after migrate had read the file for its      *)
(* backup, or doctor for its only backup, which may be a copy that failed  *)
(* midway in an earlier repair (doctor.py:250).  A rollback that is cut    *)
(* off leaves a file cut off too (migration.py:333 writes in place), and a *)
(* repair during one may back such a file up.  A profile that is not there *)
(* is one that nobody has changed.                                         *)
EditsKept ==
    \A f \in Files \ unsafe :
        \/ \E t \in Texts(f) \ NoFile : t.user = edits[f]
        \/ file[f] = Partial
        \/ f = Profile /\ ((doctorBackup = Partial /\ mingled) \/ (file[f] = Absent /\ edits[f] = 0))

(* After any number of migrations, some finished and some broken off, each *)
(* server a client was ever given stands in the client's own file, or in   *)
(* its backup: no run leaves a server only behind Irigate.  Not so when    *)
(* the user deleted the backups, or changed a file under the migration, or *)
(* a rollback was cut off.                                                 *)
ServersKept ==
    \A c \in Clients \ unsafe :
        deleted \/ file[c] = Partial \/
        \A s \in owned[c] : \E t \in Texts(c) \ NoFile : s \in t.servers

(* A server is reached through a text directly, or through Irigate.        *)
Reaches(text, profile, s) ==
    /\ text \notin NoFile
    /\ \/ s \in text.servers
       \/ s[1] \in text.via /\ profile \notin NoFile /\ s \in profile.upstreams

(* When migrate succeeds, a key of the profile has one definition, and     *)
(* each client reaches whatever it reached when its files were read.       *)
(* Exceptions are a client that had an entry for Irigate already, which    *)
(* migration.py:300 replaces, and a repair of the profile at the same time *)
(* (doctor.py:252).                                                        *)
MigratedServed ==
    run.pc = "done" /\ ~mingled =>
        /\ Agree(OrEmpty(file[Profile]).upstreams)
        /\ \A c \in DOMAIN run.read \ {Profile} :
            (run.read[c].via = {} \/ run.read[c].servers = {}) =>
            \A s \in run.read[c].servers \union OrEmpty(run.read[Profile]).upstreams :
                Reaches(run.read[c], OrEmpty(run.read[Profile]), s) => Reaches(file[c], file[Profile], s)

(* A migration that rolls back leaves no trace: the files are what they    *)
(* were when it read them, a profile it created is gone, unless another    *)
(* program or a repair changed them.                                       *)
RolledBack ==
    run.pc = "rolledback" /\ ~mingled =>
        \A f \in DOMAIN run.read :
            IF run.read[f] = Absent THEN file[f] = Absent
            ELSE run.read[f].user = edits[f] =>
                     file[f] \notin NoFile
                     /\ IF f = Profile THEN file[f].upstreams = run.read[f].upstreams ELSE file[f] = run.read[f]

(* The backup of a client is its configuration from before Irigate, over   *)
(* several migrations, until the user deletes it (migration.py:319).       *)
BackupPredatesIrigate ==
    \A c \in Clients :
        deleted \/ backup[c] \in NoFile \/ \E before \in InitialFiles : backup[c].via = before[c].via
=============================================================================
