------------------------------- MODULE Doctor -------------------------------
(***************************************************************************)
(* src/irigate/doctor.py: irigate doctor --apply adds path mappings to the *)
(* upstreams of a profile that need them.                                  *)
(***************************************************************************)
EXTENDS Migration

CONSTANTS Windows,      \* definitions of upstreams that run under Windows
          MaxRepairs    \* bound on the runs of irigate doctor --apply

VARIABLES
    doctor,         \* repair_wsl_path_arguments()
    doctorBackup    \* the profile with .irigate-doctor.bak

Resting == [pc |-> "idle", todo |-> {}, updated |-> Absent, count |-> 0]

(* diagnose_wsl_path_arguments(): the upstreams that lack a mapping.       *)
Diagnosis(profile) ==
    {x[1] : x \in {y \in profile.upstreams : y[2] \in Windows}} \ profile.mapped

Diagnose ==
    /\ doctor.pc = "idle" /\ doctor.count < MaxRepairs
    /\ file[Profile] \notin NoFile /\ Diagnosis(file[Profile]) # {}
    /\ doctor' = [doctor EXCEPT !.pc = "diagnosed", !.todo = Diagnosis(file[Profile]), !.count = @ + 1]
    /\ UNCHANGED <<file, doctorBackup>>

(* The profile is read again, and the repairs are entered in its text if   *)
(* it still has their upstreams; the result is written beside it.          *)
Prepare ==
    LET profile == file[Profile] IN
    /\ doctor.pc = "diagnosed"
    /\ IF profile \notin NoFile /\ \A k \in doctor.todo : \E x \in profile.upstreams : x[1] = k
       THEN doctor' = [doctor EXCEPT !.pc = "prepared", !.updated = [profile EXCEPT !.mapped = @ \union doctor.todo]]
       ELSE doctor' = [Resting EXCEPT !.count = doctor.count]
    /\ UNCHANGED <<file, doctorBackup>>

(* One backup, of the profile before its first repair.                     *)
BackUpText ==
    /\ doctor.pc = "prepared" /\ (file[Profile] # Absent \/ doctorBackup # Absent)
    /\ doctorBackup' = IF doctorBackup = Absent
                       THEN [doctor.updated EXCEPT !.mapped = @ \ doctor.todo] ELSE doctorBackup
    /\ doctor' = [doctor EXCEPT !.pc = "saved"]
    /\ UNCHANGED file

BackUpOnce ==
    /\ doctor.pc = "prepared" /\ (file[Profile] # Absent \/ doctorBackup # Absent)
    /\ doctorBackup' = IF doctorBackup = Absent THEN file[Profile] ELSE doctorBackup
    /\ doctor' = [doctor EXCEPT !.pc = "saved"]
    /\ UNCHANGED file

(* The copy fails midway; what it left is the backup from then on.         *)
BackUpFails ==
    /\ doctor.pc = "prepared" /\ file[Profile] # Absent /\ doctorBackup = Absent
    /\ doctorBackup' = Partial
    /\ doctor' = [Resting EXCEPT !.count = doctor.count]
    /\ UNCHANGED file

Replace ==
    /\ doctor.pc = "saved"
    /\ file' = [file EXCEPT ![Profile] = doctor.updated]
    /\ doctor' = [Resting EXCEPT !.count = doctor.count]
    /\ UNCHANGED doctorBackup

(* The result does not load, a file operation fails, or the process ends.  *)
GivesUp ==
    /\ doctor.pc # "idle"
    /\ doctor' = [Resting EXCEPT !.count = doctor.count]
    /\ UNCHANGED <<file, doctorBackup>>

DoctorStep == Diagnose \/ Prepare \/ BackUpOnce \/ BackUpFails \/ Replace \/ GivesUp
=============================================================================
