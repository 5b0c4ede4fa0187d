------------------------- MODULE MaintenanceProofs -------------------------
(***************************************************************************)
(* What a migration, a repair of the profile and the programs that write   *)
(* the same files keep, for every set of clients, any texts, and any       *)
(* number of runs and edits.                                               *)
(*                                                                         *)
(* RunInv says how far a run is and what it holds; the other invariants    *)
(* rest on it.  A text is current when it has the last change another      *)
(* program made to its file.                                               *)
(***************************************************************************)
EXTENDS Maintenance, WellFoundedInduction, TLAPS

Content(f) == (IF f = Profile THEN ProfileTexts ELSE ClientTexts) \union NoFile

TextsOf(texts, D) == DOMAIN texts = D /\ \A f \in D : texts[f] \in Content(f)

TypeOK ==
    /\ TextsOf(file, Files) /\ TextsOf(backup, Files)
    /\ run = [pc |-> run.pc, todo |-> run.todo, read |-> run.read, originals |-> run.originals,
              made |-> run.made, count |-> run.count]
    /\ run.pc \in {"idle", "refused", "backing", "writing",
                   "restoring", "filling", "done", "rolledback", "crashed"}
    /\ run.todo \subseteq Files /\ run.made \subseteq Files
    /\ DOMAIN run.read \subseteq Files /\ TextsOf(run.read, DOMAIN run.read)
    /\ DOMAIN run.originals \subseteq Files /\ TextsOf(run.originals, DOMAIN run.originals)
    /\ doctor = [pc |-> doctor.pc, todo |-> doctor.todo, updated |-> doctor.updated, count |-> doctor.count]
    /\ doctor.pc \in {"idle", "diagnosed", "prepared", "saved"}
    /\ doctor.todo \subseteq Keys /\ doctor.updated \in Content(Profile)
    /\ doctorBackup \in Content(Profile)
    /\ edits \in [Files -> Nat]
    /\ owned \in [Clients -> SUBSET Servers]
    /\ unsafe \subseteq Files /\ deleted \in BOOLEAN /\ mingled \in BOOLEAN

(* One step of a run; of a migration, of a repair.                         *)
Becomes(pc, todo, read, originals, made) ==
    run' = [pc |-> pc, todo |-> todo, read |-> read, originals |-> originals, made |-> made,
            count |-> run'.count]

ByMigration ==
    /\ mingled' = (mingled \/ (run'.pc = "backing" /\ doctor.pc # "idle"))
    /\ UNCHANGED <<doctor, doctorBackup, edits, owned, unsafe, deleted>>

ByDoctor ==
    /\ mingled' = (mingled \/ Active)
    /\ UNCHANGED <<backup, run, edits, owned, unsafe, deleted>>

Reading == run.pc \in {"backing", "writing"}
Reverting == run.pc \in {"restoring", "filling"}

(* The files a run has kept and copied, and those it still has to go       *)
(* through.                                                                *)
Taken ==
    /\ (Active \/ run.pc \in {"done", "rolledback"}) =>
           /\ Profile \in DOMAIN run.read /\ run.read[Profile] # Partial
           /\ \A c \in DOMAIN run.read \ {Profile} : run.read[c] \notin NoFile
    /\ Active => run.made \subseteq DOMAIN run.originals /\ DOMAIN run.originals \subseteq DOMAIN run.read
    /\ Active => \A f \in run.made : backup[f] = run.originals[f] /\ run.originals[f] # Absent
    /\ Active => \A f \in DOMAIN run.originals : run.originals[f] # Partial
    /\ Reading => \A f \in DOMAIN run.originals : f \in run.made \/ run.originals[f] = Absent
    /\ (Reading /\ run.todo # {}) => Profile \in run.todo

Ahead ==
    /\ run.pc = "backing" => run.todo = DOMAIN run.read \ DOMAIN run.originals
    /\ run.pc = "writing" => run.todo \subseteq DOMAIN run.read /\ DOMAIN run.originals = DOMAIN run.read
    /\ Reverting => run.todo \subseteq DOMAIN run.originals
    /\ run.pc = "filling" => run.todo # {}

(* A rollback would put the profile back: it is the last file to be        *)
(* written, and after it nothing fails.                                    *)
Revertible == Active /\ Profile \in DOMAIN run.originals /\ (run.pc = "writing" => Profile \in run.todo)

(* The file of a client is always there, and whole while a run reads and   *)
(* writes.  A profile that is there stays, and one that is not has never   *)
(* been.                                                                   *)
Present ==
    /\ \A c \in Clients : file[c] # Absent
    /\ Active => \A c \in DOMAIN run.originals \ {Profile} : run.originals[c] # Absent
    /\ Reading => \A f \in DOMAIN run.read : file[f] # Partial
    /\ file[Profile] = Absent => edits[Profile] = 0 /\ doctor.pc = "idle" /\ doctorBackup = Absent
    /\ (Active /\ run.read[Profile] # Absent) => file[Profile] # Absent
    /\ (Revertible /\ run.originals[Profile] = Absent) => file[Profile] = Absent
    /\ doctor.pc \in {"prepared", "saved"} => doctor.updated \notin NoFile

RunInv == Taken /\ Ahead /\ Present

-----------------------------------------------------------------------------
(* For BackupPredatesIrigate: a client that has no backup yet, and what a  *)
(* run would put back in its place, is as it was before Irigate.           *)
Predates(c, text) == text \in NoFile \/ \E before \in InitialFiles : text.via = before[c].via

(* The run puts c back, and there was no backup of it before the run.      *)
PutBack(c) == c \in DOMAIN run.originals /\ (c \in run.made \/ backup[c] = Absent)

BackupInv ==
    ~deleted =>
        \A c \in Clients :
            /\ Predates(c, backup[c])
            /\ backup[c] = Absent => Predates(c, file[c])
            /\ (Active /\ PutBack(c)) => Predates(c, run.originals[c])
            /\ (Reverting /\ c \in run.made \ run.todo) => Predates(c, file[c])

-----------------------------------------------------------------------------
(* For RolledBack and MigratedServed.                                      *)
ByNow(f, text) == text \in NoFile \/ text.user <= edits[f]

Dated ==
    /\ \A f \in Files : ByNow(f, file[f])
    /\ \A f \in DOMAIN run.read : ByNow(f, run.read[f])
    /\ \A f \in DOMAIN run.originals : ByNow(f, run.originals[f])
    /\ ByNow(Profile, doctor.updated)

(* text is what a run has read of f, unless another program has changed f. *)
Same(f, text, read) ==
    IF read = Absent THEN text = Absent
    ELSE read.user = edits[f] =>
            text \notin NoFile /\ IF f = Profile THEN text.upstreams = read.upstreams ELSE text = read

(* f holds at least what the migration made of it.                         *)
Serves(f) ==
    /\ file[f] \notin NoFile
    /\ IF f = Profile
       THEN file[f].upstreams = Migrated(run.read, f).upstreams
       ELSE Migrated(run.read, f).servers \subseteq file[f].servers /\ file[f].via = Migrated(run.read, f).via

(* A migration without a repair at the same time, and the reverse.         *)
Alone ==
    /\ Active => doctor.pc = "idle"
    /\ doctor.pc \in {"prepared", "saved"} =>
           file[Profile] \notin NoFile /\ doctor.updated.upstreams = file[Profile].upstreams

Unchanged ==
    /\ Active => \A f \in DOMAIN run.originals : Same(f, run.originals[f], run.read[f])
    /\ run.pc \in {"backing", "rolledback"} =>
           \A f \in DOMAIN run.read : Same(f, file[f], run.read[f])
    /\ run.pc = "writing" => \A f \in run.todo : Same(f, file[f], run.read[f])
    /\ Reverting => \A f \in DOMAIN run.read \ run.todo : Same(f, file[f], run.read[f])

Converted ==
    /\ (Reading \/ run.pc = "done") => Convertible(run.read)
    /\ run.pc = "writing" => \A f \in DOMAIN run.read \ run.todo : Serves(f)
    /\ run.pc = "done" => \A f \in DOMAIN run.read : Serves(f)

AloneInv == Dated /\ (~mingled => Alone /\ Unchanged /\ Converted)

-----------------------------------------------------------------------------
(* For ServersKept, and EditsKept of the clients: what is in a file or its *)
(* backup, in what a run puts back, and in a file it has put back.         *)
Direct(text) == IF text \in NoFile THEN {} ELSE text.servers

Has(c, text) == text \notin NoFile /\ text.user = edits[c]

ClientKept(c) ==
    /\ file[c] = Partial \/ deleted \/ owned[c] \subseteq Direct(file[c]) \union Direct(backup[c])
    /\ file[c] = Partial \/ Has(c, file[c]) \/ Has(c, backup[c])

ClientHeld(c) ==
    (Active /\ c \in DOMAIN run.originals) =>
        /\ deleted \/ owned[c] \subseteq Direct(run.originals[c])
                                         \union (IF c \in run.made THEN {} ELSE Direct(backup[c]))
        /\ Has(c, run.originals[c]) \/ (c \notin run.made /\ Has(c, backup[c]))

ClientBack(c) ==
    (Reverting /\ c \in run.made \ run.todo) =>
        /\ deleted \/ owned[c] \subseteq Direct(file[c])
        /\ Has(c, file[c])

ClientInv == \A c \in Clients \ unsafe : ClientKept(c) /\ ClientHeld(c) /\ ClientBack(c)

(* For EditsKept of the profile: its file, what a migration puts back, and *)
(* what a repair is going to write.                                        *)
Current(text) == text \notin NoFile /\ text.user = edits[Profile]

(* Its backup is current, and it is not, and no rollback changes that.     *)
Behind ==
    /\ Current(backup[Profile])
    /\ Revertible => Profile \notin run.made /\ ~Current(run.originals[Profile])

ProfileKept == file[Profile] \in NoFile \/ Current(file[Profile]) \/ Current(doctorBackup) \/ Behind

ProfileHeld ==
    (Active /\ Profile \in DOMAIN run.originals) =>
        \/ run.originals[Profile] = Absent \/ Current(run.originals[Profile]) \/ Current(doctorBackup)
        \/ (Profile \notin run.made /\ Current(backup[Profile]))

RepairHeld ==
    (doctor.pc = "saved" \/ (doctor.pc = "prepared" /\ doctorBackup # Absent)) =>
        \/ Current(doctor.updated) \/ Current(doctorBackup)
        \/ (Behind /\ ~Current(file[Profile]))

ProfileInv ==
    (Profile \notin unsafe /\ (doctorBackup = Partial => ~mingled)) => ProfileKept /\ ProfileHeld /\ RepairHeld

-----------------------------------------------------------------------------
(* The first file of a nonempty set is in it, and the profile comes last.  *)
LEMMA FirstIn ==
    ASSUME NEW S \in SUBSET Files, S # {}
    PROVE  First(S) \in S /\ (First(S) = Profile => S = {Profile})
<1>1. CASE S \subseteq {Profile}
  BY <1>1 DEF First
<1>2. CASE ~(S \subseteq {Profile})
  <2> DEFINE T == {i \in DOMAIN ClientOrder : ClientOrder[i] \in S}
             lt == OpToRel(<, Nat)
  <2>1. PICK c \in S : c # Profile
    BY <1>2
  <2>2. c \in Clients
    BY <2>1 DEF Files
  <2>3. DOMAIN ClientOrder \subseteq Nat /\ \A i \in DOMAIN ClientOrder : ClientOrder[i] \in Clients
    BY OrderAssumption
  <2>4. T # {} /\ T \subseteq Nat
    BY <2>1, <2>2, <2>3, OrderAssumption
  <2>5. IsWellFoundedOn(lt, Nat)
    BY NatLessThanWellFounded
  <2> HIDE DEF T, lt
  <2>6. \E x \in T : \A y \in T : ~ (<<y, x>> \in lt)
    BY <2>4, <2>5, WFMin, Zenon
  <2>7. PICK i \in T : \A y \in T : ~ (<<y, i>> \in lt)
    BY <2>6
  <2>8. \A y \in T : i <= y
    <3> SUFFICES ASSUME NEW y \in T PROVE i <= y
      OBVIOUS
    <3>1. ~ (<<y, i>> \in lt)
      BY <2>7
    <3>2. i \in Nat /\ y \in Nat
      BY <2>4
    <3>3. ~ (y < i)
      BY <3>1, <3>2 DEF lt, OpToRel
    <3> QED BY <3>2, <3>3
  <2>9. i \in DOMAIN ClientOrder /\ ClientOrder[i] \in S
        /\ \A j \in DOMAIN ClientOrder : ClientOrder[j] \in S => i <= j
    BY <2>8 DEF T
  <2> DEFINE k == CHOOSE j \in DOMAIN ClientOrder :
                      /\ ClientOrder[j] \in S
                      /\ \A l \in DOMAIN ClientOrder : ClientOrder[l] \in S => j <= l
  <2>10. k \in DOMAIN ClientOrder /\ ClientOrder[k] \in S
    BY <2>9
  <2>11. First(S) = ClientOrder[k]
    BY <1>2 DEF First
  <2> QED BY <2>3, <2>10, <2>11, FileAssumption
<1> QED BY <1>1, <1>2

(* What a step of a migration does to the files and to the run.  f is the  *)
(* file it is at, which it has not kept yet, or still has to put back.     *)
LEMMA EmptyDomain == DOMAIN <<>> = {}
OBVIOUS

LEMMA LoadDoes ==
    ASSUME NEW selected \in SUBSET Clients \ {{}}, Load(selected)
    PROVE  LET read == [g \in selected \union {Profile} |-> file[g]] IN
           /\ ~Active /\ UNCHANGED <<file, backup>>
           /\ \/ Becomes("refused", {}, <<>>, <<>>, {})
              \/ /\ Becomes("backing", selected \union {Profile}, read, <<>>, {})
                 /\ \A c \in selected : file[c] \notin NoFile
                 /\ file[Profile] # Partial /\ Convertible(read)
<1> DEFINE read == [g \in selected \union {Profile} |-> file[g]]
<1>1. DOMAIN read = selected \union {Profile} /\ \A c \in selected : read[c] = file[c]
  OBVIOUS
<1>2. read[Profile] = file[Profile]
  OBVIOUS
<1> HIDE DEF read
<1>3. ~Active /\ UNCHANGED <<file, backup>>
      /\ \/ run' = [Idle EXCEPT !.pc = "refused", !.count = run.count + 1]
         \/ /\ \A c \in selected : read[c] \notin NoFile
            /\ read[Profile] # Partial /\ Convertible(read)
            /\ run' = [Idle EXCEPT !.pc = "backing", !.read = read, !.count = run.count + 1,
                           !.todo = DOMAIN read]
  BY DEF Load, read
<1>4. CASE run' = [Idle EXCEPT !.pc = "refused", !.count = run.count + 1]
  <2>1. Becomes("refused", {}, <<>>, <<>>, {})
    BY <1>4 DEF Becomes, Idle
  <2> QED BY <1>3, <2>1 DEF read
<1>5. CASE /\ \A c \in selected : read[c] \notin NoFile
           /\ read[Profile] # Partial /\ Convertible(read)
           /\ run' = [Idle EXCEPT !.pc = "backing", !.read = read, !.count = run.count + 1,
                          !.todo = DOMAIN read]
  <2>1. Becomes("backing", selected \union {Profile}, read, <<>>, {})
    BY <1>1, <1>5 DEF Becomes, Idle
  <2>2. (\A c \in selected : file[c] \notin NoFile) /\ file[Profile] # Partial /\ Convertible(read)
    BY <1>1, <1>2, <1>5
  <2> QED BY <1>3, <2>1, <2>2 DEF read
<1> QED BY <1>3, <1>4, <1>5

LEMMA BackUpDoes ==
    ASSUME TypeOK, Ahead, BackUp
    PROVE  LET f == First(run.todo) IN
           /\ run.pc = "backing" /\ f \in run.todo /\ f \in Files
           /\ f \in DOMAIN run.read \ DOMAIN run.originals /\ (f = Profile => run.todo = {f})
           /\ UNCHANGED file
           /\ \/ /\ file[f] # Absent /\ backup[f] # Absent /\ UNCHANGED backup
                 /\ Becomes("restoring", DOMAIN Kept(f), run.read, Kept(f), run.made)
              \/ /\ file[f] = Absent /\ UNCHANGED backup
                 /\ Becomes("backing", run.todo \ {f}, run.read, Kept(f), run.made)
              \/ /\ file[f] # Absent /\ backup[f] = Absent
                 /\ backup' = [backup EXCEPT ![f] = file[f]]
                 /\ Becomes("backing", run.todo \ {f}, run.read, Kept(f), run.made \union {f})
<1> DEFINE f == First(run.todo)
<1>1. run.pc = "backing" /\ run.todo # {} /\ UNCHANGED file
      /\ IF file[f] # Absent /\ backup[f] # Absent
         THEN RollBack(Kept(f)) /\ UNCHANGED backup
         ELSE Copy(f)
  BY DEF BackUp
<1>2. f \in run.todo /\ (f = Profile => run.todo = {f}) /\ run.todo \subseteq Files
  BY <1>1, FirstIn DEF TypeOK
<1>3. f \in DOMAIN run.read \ DOMAIN run.originals
  BY <1>1, <1>2 DEF Ahead
<1>4. run = [pc |-> run.pc, todo |-> run.todo, read |-> run.read, originals |-> run.originals,
             made |-> run.made, count |-> run.count]
  BY DEF TypeOK
<1> HIDE DEF f
<1>5. CASE file[f] # Absent /\ backup[f] # Absent
  <2>1. Becomes("restoring", DOMAIN Kept(f), run.read, Kept(f), run.made)
    BY <1>1, <1>4, <1>5 DEF RollBack, Becomes
  <2> QED BY <1>1, <1>2, <1>3, <1>5, <2>1 DEF f
<1>6. CASE file[f] = Absent
  <2>1. Becomes("backing", run.todo \ {f}, run.read, Kept(f), run.made)
    BY <1>1, <1>4, <1>6 DEF Copy, Becomes, f
  <2>2. UNCHANGED backup
    BY <1>1, <1>6 DEF Copy
  <2> QED BY <1>1, <1>2, <1>3, <1>6, <2>1, <2>2 DEF f
<1>7. CASE file[f] # Absent /\ backup[f] = Absent
  <2>1. Becomes("backing", run.todo \ {f}, run.read, Kept(f), run.made \union {f})
    BY <1>1, <1>4, <1>7 DEF Copy, Becomes, f
  <2>2. backup' = [backup EXCEPT ![f] = file[f]]
    BY <1>1, <1>7 DEF Copy
  <2> QED BY <1>1, <1>2, <1>3, <1>7, <2>1, <2>2 DEF f
<1> QED BY <1>5, <1>6, <1>7

LEMMA CopyFailsDoes ==
    ASSUME TypeOK, Ahead, CopyFails
    PROVE  LET f == First(run.todo) IN
           /\ run.pc = "backing" /\ f \in run.todo /\ f \in Files
           /\ f \in DOMAIN run.read \ DOMAIN run.originals
           /\ UNCHANGED file /\ file[f] # Absent
           /\ backup[f] = Absent /\ (\E t \in NoFile \union {file[f]} : backup' = [backup EXCEPT ![f] = t])
           /\ Becomes("restoring", DOMAIN Kept(f), run.read, Kept(f), run.made)
<1> DEFINE f == First(run.todo)
<1>1. run.pc = "backing" /\ run.todo # {} /\ UNCHANGED file /\ file[f] # Absent /\ backup[f] = Absent
      /\ (\E t \in NoFile \union {file[f]} : backup' = [backup EXCEPT ![f] = t])
      /\ RollBack(Kept(f))
  BY DEF CopyFails
<1>2. f \in run.todo /\ run.todo \subseteq Files
  BY <1>1, FirstIn DEF TypeOK
<1>3. f \in DOMAIN run.read \ DOMAIN run.originals
  BY <1>1, <1>2 DEF Ahead
<1> HIDE DEF f
<1>4. Becomes("restoring", DOMAIN Kept(f), run.read, Kept(f), run.made)
  BY <1>1 DEF RollBack, Becomes, TypeOK
<1> QED BY <1>1, <1>2, <1>3, <1>4 DEF f

LEMMA BackedUpDoes ==
    ASSUME TypeOK, BackedUp
    PROVE  /\ run.pc = "backing" /\ run.todo = {} /\ UNCHANGED <<file, backup>>
           /\ Becomes("writing", DOMAIN run.read, run.read, run.originals, run.made)
BY DEF BackedUp, Becomes, TypeOK

LEMMA WriteDoes ==
    ASSUME TypeOK, Ahead, Write
    PROVE  LET f == First(run.todo) IN
           /\ run.pc = "writing" /\ f \in run.todo /\ f \in DOMAIN run.read /\ f \in Files
           /\ (f = Profile => run.todo = {f})
           /\ file' = [file EXCEPT ![f] = Migrated(run.read, f)] /\ UNCHANGED backup
           /\ Becomes("writing", run.todo \ {f}, run.read, run.originals, run.made)
<1> DEFINE f == First(run.todo)
<1>1. run.pc = "writing" /\ run.todo # {} /\ file' = [file EXCEPT ![f] = Migrated(run.read, f)]
      /\ UNCHANGED backup /\ run' = [run EXCEPT !.todo = @ \ {f}]
  BY DEF Write
<1>2. f \in run.todo /\ (f = Profile => run.todo = {f}) /\ run.todo \subseteq Files
  BY <1>1, FirstIn DEF TypeOK
<1>3. f \in DOMAIN run.read
  BY <1>1, <1>2 DEF Ahead
<1> HIDE DEF f
<1>4. Becomes("writing", run.todo \ {f}, run.read, run.originals, run.made)
  BY <1>1 DEF Becomes, TypeOK
<1> QED BY <1>1, <1>2, <1>3, <1>4 DEF f

LEMMA WrittenDoes ==
    ASSUME TypeOK, Written
    PROVE  /\ run.pc = "writing" /\ run.todo = {} /\ UNCHANGED <<file, backup>>
           /\ Becomes("done", run.todo, run.read, run.originals, run.made)
BY DEF Written, Goto, Becomes, TypeOK

LEMMA FailsDoes ==
    ASSUME TypeOK, Fails
    PROVE  /\ Reading /\ run.todo # {} /\ UNCHANGED <<file, backup>>
           /\ Becomes("restoring", DOMAIN run.originals, run.read, run.originals, run.made)
BY DEF Fails, RollBack, Reading, Becomes, TypeOK

LEMMA RestoreDoes ==
    ASSUME TypeOK, Ahead, Restore
    PROVE  LET f == First(run.todo) IN
           /\ run.pc = "restoring" /\ f \in run.todo /\ f \in DOMAIN run.originals /\ f \in Files
           /\ UNCHANGED backup
           /\ \/ /\ run.originals[f] = Absent /\ file' = [file EXCEPT ![f] = Absent]
                 /\ Becomes("restoring", run.todo \ {f}, run.read, run.originals, run.made)
              \/ /\ run.originals[f] # Absent /\ file' = [file EXCEPT ![f] = Partial]
                 /\ Becomes("filling", run.todo, run.read, run.originals, run.made)
<1> DEFINE f == First(run.todo)
<1>1. run.pc = "restoring" /\ run.todo # {} /\ UNCHANGED backup
      /\ IF run.originals[f] = Absent
         THEN run' = [run EXCEPT !.todo = @ \ {f}] /\ file' = [file EXCEPT ![f] = Absent]
         ELSE run' = [run EXCEPT !.pc = "filling"] /\ file' = [file EXCEPT ![f] = Partial]
  BY DEF Restore, Goto
<1>2. f \in run.todo /\ run.todo \subseteq Files
  BY <1>1, FirstIn DEF TypeOK
<1>3. f \in DOMAIN run.originals
  BY <1>1, <1>2 DEF Ahead, Reverting
<1> HIDE DEF f
<1>4. CASE run.originals[f] = Absent
  <2>1. Becomes("restoring", run.todo \ {f}, run.read, run.originals, run.made)
    BY <1>1, <1>4 DEF Becomes, TypeOK
  <2> QED BY <1>1, <1>2, <1>3, <1>4, <2>1 DEF f
<1>5. CASE run.originals[f] # Absent
  <2>1. Becomes("filling", run.todo, run.read, run.originals, run.made)
    BY <1>1, <1>5 DEF Becomes, TypeOK
  <2> QED BY <1>1, <1>2, <1>3, <1>5, <2>1 DEF f
<1> QED BY <1>4, <1>5

LEMMA FillDoes ==
    ASSUME TypeOK, Ahead, Fill
    PROVE  LET f == First(run.todo) IN
           /\ run.pc = "filling" /\ f \in run.todo /\ f \in DOMAIN run.originals /\ f \in Files
           /\ UNCHANGED backup /\ file' = [file EXCEPT ![f] = run.originals[f]]
           /\ Becomes("restoring", run.todo \ {f}, run.read, run.originals, run.made)
<1> DEFINE f == First(run.todo)
<1>1. run.pc = "filling" /\ UNCHANGED backup /\ file' = [file EXCEPT ![f] = run.originals[f]]
      /\ run' = [run EXCEPT !.pc = "restoring", !.todo = @ \ {f}]
  BY DEF Fill
<1>2. run.todo # {} /\ run.todo \subseteq DOMAIN run.originals /\ run.todo \subseteq Files
  BY <1>1 DEF Ahead, Reverting, TypeOK
<1>3. f \in run.todo
  BY <1>2, FirstIn
<1> HIDE DEF f
<1>4. Becomes("restoring", run.todo \ {f}, run.read, run.originals, run.made)
  BY <1>1 DEF Becomes, TypeOK
<1> QED BY <1>1, <1>2, <1>3, <1>4 DEF f

LEMMA RestoredDoes ==
    ASSUME TypeOK, Restored
    PROVE  /\ run.pc = "restoring" /\ run.todo = {} /\ UNCHANGED file
           /\ backup' = [g \in Files |-> IF g \in run.made THEN Absent ELSE backup[g]]
           /\ Becomes("rolledback", run.todo, run.read, run.originals, run.made)
BY DEF Restored, Goto, Becomes, TypeOK

LEMMA DiesDoes ==
    ASSUME TypeOK, Dies
    PROVE  /\ Active /\ UNCHANGED <<file, backup>>
           /\ Becomes("crashed", run.todo, run.read, run.originals, run.made)
BY DEF Dies, Goto, Becomes, TypeOK

(* What another program writes.                                            *)
LEMMA EditDoes ==
    ASSUME TypeOK, NEW f \in Files, Edit(f)
    PROVE  \E added \in SUBSET Servers, text \in Content(f) :
           /\ file[f] \notin NoFile /\ text \notin NoFile
           /\ text.user = edits[f] + 1
           /\ IF f = Profile
              THEN text.upstreams = file[f].upstreams /\ text.mapped = file[f].mapped /\ UNCHANGED owned
              ELSE /\ text.servers = file[f].servers \union added /\ text.via = file[f].via
                   /\ owned' = [owned EXCEPT ![f] = @ \union added]
           /\ file' = [file EXCEPT ![f] = text]
           /\ edits' = [edits EXCEPT ![f] = @ + 1]
           /\ unsafe' = IF Overtaken(f) THEN unsafe \union {f} ELSE unsafe
           /\ UNCHANGED <<backup, run, doctor, doctorBackup, deleted, mingled>>
<1>1. PICK added \in {{}} \union (IF f = Profile THEN {} ELSE {{s} : s \in NewServers}) :
           /\ file' = IF f = Profile
                      THEN [file EXCEPT ![f].user = edits[f] + 1]
                      ELSE [file EXCEPT ![f].user = edits[f] + 1, ![f].servers = @ \union added]
           /\ owned' = IF f = Profile THEN owned ELSE [owned EXCEPT ![f] = @ \union added]
  BY DEF Edit
<1>2. added \in SUBSET Servers
  BY <1>1, InitialAssumption
<1>3. edits[f] + 1 \in Nat /\ DOMAIN file = Files /\ file[f] \notin NoFile
      /\ (IF f = Profile THEN file[f] \in ProfileTexts ELSE file[f] \in ClientTexts)
  BY DEF TypeOK, TextsOf, Content, Edit
<1>4. /\ edits' = [edits EXCEPT ![f] = @ + 1]
      /\ unsafe' = IF Overtaken(f) THEN unsafe \union {f} ELSE unsafe
      /\ UNCHANGED <<backup, run, doctor, doctorBackup, deleted, mingled>>
  BY DEF Edit
<1>5. CASE f = Profile
  <2> DEFINE text == [file[f] EXCEPT !.user = edits[f] + 1]
  <2>1. file' = [file EXCEPT ![f] = text] /\ UNCHANGED owned
    BY <1>1, <1>5
  <2>2. text \in ProfileTexts /\ text.user = edits[f] + 1 /\ text.upstreams = file[f].upstreams
        /\ text.mapped = file[f].mapped
    BY <1>3, <1>5 DEF ProfileTexts
  <2>3. text \in Content(f) /\ text \notin NoFile
    BY <2>2, <1>5, TextAssumption DEF Content
  <2> HIDE DEF text
  <2> QED BY <1>2, <1>3, <1>4, <1>5, <2>1, <2>2, <2>3
<1>6. CASE f # Profile
  <2> DEFINE text == [file[f] EXCEPT !.user = edits[f] + 1, !.servers = @ \union added]
  <2>1. file' = [file EXCEPT ![f] = text] /\ owned' = [owned EXCEPT ![f] = @ \union added]
    BY <1>1, <1>6
  <2>2. text \in ClientTexts /\ text.user = edits[f] + 1 /\ text.servers = file[f].servers \union added
        /\ text.via = file[f].via
    BY <1>2, <1>3, <1>6 DEF ClientTexts
  <2>3. text \in Content(f) /\ text \notin NoFile
    BY <2>2, <1>6, TextAssumption DEF Content
  <2> HIDE DEF text
  <2> QED BY <1>2, <1>3, <1>4, <1>6, <2>1, <2>2, <2>3
<1> QED BY <1>5, <1>6

(* A step is one of a migration, of a repair, or of another program.       *)
LEMMA StepCases ==
    ASSUME [Next]_vars
    PROVE  \/ (\E selected \in SUBSET Clients \ {{}} : Load(selected)) /\ ByMigration
           \/ (BackUp \/ CopyFails \/ BackedUp \/ Write \/ Written \/ Fails \/ Restore \/ Fill \/ Restored \/ Dies)
              /\ ByMigration
           \/ (Diagnose \/ Prepare \/ BackUpOnce \/ BackUpFails \/ Replace \/ GivesUp) /\ ByDoctor
           \/ (\E f \in Files : Edit(f)) \/ DeleteBackups \/ UNCHANGED vars
BY DEF Next, MigrationStep, DoctorStep, ByMigration, ByDoctor

(* What a step of a repair does.                                           *)
LEMMA DoctorDoes ==
    ASSUME TypeOK
    PROVE  /\ Diagnose => /\ doctor.pc = "idle" /\ file[Profile] \notin NoFile
                          /\ doctor'.pc = "diagnosed" /\ UNCHANGED <<file, doctorBackup>>
           /\ Prepare => /\ UNCHANGED <<file, doctorBackup>>
                         /\ \/ /\ file[Profile] \in ProfileTexts /\ file[Profile] \notin NoFile
                               /\ doctor'.pc = "prepared"
                               /\ doctor'.updated \in ProfileTexts /\ doctor'.updated \notin NoFile
                               /\ doctor'.updated.user = file[Profile].user
                               /\ doctor'.updated.upstreams = file[Profile].upstreams
                            \/ doctor'.pc = "idle" /\ doctor'.updated = Absent
           /\ BackUpOnce => /\ doctor.pc = "prepared" /\ (file[Profile] # Absent \/ doctorBackup # Absent)
                            /\ doctorBackup' = IF doctorBackup = Absent THEN file[Profile] ELSE doctorBackup
                            /\ doctor'.pc = "saved" /\ doctor'.updated = doctor.updated
                            /\ UNCHANGED file
           /\ BackUpFails => /\ doctor'.pc = "idle" /\ doctor'.updated = Absent /\ UNCHANGED file
                             /\ file[Profile] # Absent /\ doctorBackup = Absent /\ doctorBackup' = Partial
           /\ Replace => /\ doctor.pc = "saved" /\ file' = [file EXCEPT ![Profile] = doctor.updated]
                         /\ doctor'.pc = "idle" /\ doctor'.updated = Absent /\ UNCHANGED doctorBackup
           /\ GivesUp => /\ doctor'.pc = "idle" /\ doctor'.updated = Absent
                         /\ UNCHANGED <<file, doctorBackup>>
<1>1. doctor = [pc |-> doctor.pc, todo |-> doctor.todo, updated |-> doctor.updated, count |-> doctor.count]
  BY DEF TypeOK
<1>2. Diagnose => /\ doctor.pc = "idle" /\ file[Profile] \notin NoFile
                  /\ doctor'.pc = "diagnosed" /\ UNCHANGED <<file, doctorBackup>>
  BY <1>1 DEF Diagnose
<1>3. ASSUME Prepare
      PROVE  /\ UNCHANGED <<file, doctorBackup>>
             /\ \/ /\ file[Profile] \in ProfileTexts /\ file[Profile] \notin NoFile
                   /\ doctor'.pc = "prepared"
                   /\ doctor'.updated \in ProfileTexts /\ doctor'.updated \notin NoFile
                   /\ doctor'.updated.user = file[Profile].user
                   /\ doctor'.updated.upstreams = file[Profile].upstreams
                \/ doctor'.pc = "idle" /\ doctor'.updated = Absent
  <2>1. CASE doctor' = [Resting EXCEPT !.count = doctor.count]
    BY <1>3, <2>1 DEF Prepare, Resting
  <2>2. CASE /\ file[Profile] \notin NoFile
             /\ doctor' = [doctor EXCEPT !.pc = "prepared",
                                         !.updated = [file[Profile] EXCEPT !.mapped = @ \union doctor.todo]]
    <3>1. file[Profile] \in ProfileTexts /\ doctor.todo \subseteq Keys
      BY <2>2 DEF TypeOK, TextsOf, Content, Files
    <3> DEFINE text == [file[Profile] EXCEPT !.mapped = @ \union doctor.todo]
    <3>2. text \in ProfileTexts /\ text.user = file[Profile].user /\ text.upstreams = file[Profile].upstreams
      BY <3>1 DEF ProfileTexts
    <3>3. text \notin NoFile
      BY <3>2, TextAssumption
    <3>4. doctor'.pc = "prepared" /\ doctor'.updated = text
      BY <1>1, <2>2
    <3> HIDE DEF text
    <3> QED BY <1>3, <2>2, <3>1, <3>2, <3>3, <3>4 DEF Prepare
  <2> QED BY <1>3, <2>1, <2>2 DEF Prepare
<1>4. BackUpOnce => /\ doctor.pc = "prepared" /\ (file[Profile] # Absent \/ doctorBackup # Absent)
                    /\ doctorBackup' = IF doctorBackup = Absent THEN file[Profile] ELSE doctorBackup
                    /\ doctor'.pc = "saved" /\ doctor'.updated = doctor.updated
                    /\ UNCHANGED file
  BY <1>1 DEF BackUpOnce
<1>5. Replace => /\ doctor.pc = "saved" /\ file' = [file EXCEPT ![Profile] = doctor.updated]
                 /\ doctor'.pc = "idle" /\ doctor'.updated = Absent /\ UNCHANGED doctorBackup
  BY DEF Replace, Resting
<1>6. GivesUp => /\ doctor'.pc = "idle" /\ doctor'.updated = Absent
                 /\ UNCHANGED <<file, doctorBackup>>
  BY DEF GivesUp, Resting
<1>7. BackUpFails => /\ doctor'.pc = "idle" /\ doctor'.updated = Absent /\ UNCHANGED file
                     /\ file[Profile] # Absent /\ doctorBackup = Absent /\ doctorBackup' = Partial
  BY DEF BackUpFails, Resting
<1> QED BY <1>2, <1>3, <1>4, <1>5, <1>6, <1>7

-----------------------------------------------------------------------------
(* What a file becomes is again a text of its kind.                        *)
LEMMA OrEmptyType ==
    ASSUME NEW t \in Content(Profile), t # Partial
    PROVE  OrEmpty(t) \in ProfileTexts
BY DEF OrEmpty, Content, NoFile, ProfileTexts

LEMMA WantedType ==
    ASSUME TypeOK, Taken, Active
    PROVE  Wanted(run.read) \subseteq Servers
<1> SUFFICES ASSUME NEW c \in DOMAIN run.read \ {Profile} PROVE run.read[c].servers \subseteq Servers
  BY DEF Wanted
<1>1. run.read[c] \in ClientTexts
  BY DEF TypeOK, Taken, TextsOf, Content
<1> QED BY <1>1 DEF ClientTexts

LEMMA MigratedType ==
    ASSUME TypeOK, Taken, Active, NEW f \in DOMAIN run.read
    PROVE  Migrated(run.read, f) \in Content(f) \ NoFile
<1>1. CASE f = Profile
  <2>1. OrEmpty(run.read[f]) \in ProfileTexts
    BY <1>1, OrEmptyType DEF TypeOK, Taken, TextsOf
  <2> DEFINE kept == {x \in OrEmpty(run.read[f]).upstreams : \A y \in Wanted(run.read) : x[1] # y[1]}
  <2>2. kept \union Wanted(run.read) \subseteq Servers
    BY <2>1, WantedType DEF ProfileTexts
  <2>3. Migrated(run.read, f) = [OrEmpty(run.read[f]) EXCEPT !.upstreams = kept \union Wanted(run.read)]
    BY <1>1 DEF Migrated
  <2> HIDE DEF kept
  <2>4. Migrated(run.read, f) \in ProfileTexts
    BY <2>1, <2>2, <2>3 DEF ProfileTexts
  <2> QED BY <1>1, <2>4, TextAssumption DEF Content
<1>2. CASE f # Profile
  <2>1. run.read[f] \in ClientTexts
    BY <1>2 DEF TypeOK, Taken, TextsOf, Content
  <2>2. {x[1] : x \in run.read[f].servers} \subseteq Keys
    BY <2>1 DEF ClientTexts, Servers
  <2>3. Migrated(run.read, f) \in ClientTexts
    BY <1>2, <2>1, <2>2 DEF Migrated, ClientTexts
  <2> QED BY <1>2, <2>3, TextAssumption DEF Content
<1> QED BY <1>1, <1>2

LEMMA KeptType ==
    ASSUME TypeOK, NEW f \in Files
    PROVE  /\ DOMAIN Kept(f) = DOMAIN run.originals \union {f} /\ Kept(f)[f] = file[f]
           /\ \A g \in DOMAIN run.originals : g # f => Kept(f)[g] = run.originals[g]
           /\ TextsOf(Kept(f), DOMAIN Kept(f)) /\ DOMAIN Kept(f) \subseteq Files
BY DEF Kept, TypeOK, TextsOf

(* A step of the migration that keeps the shape of its record keeps the    *)
(* types.                                                                  *)
LEMMA RunType ==
    ASSUME TypeOK, ByMigration, TextsOf(file', Files), TextsOf(backup', Files),
           NEW pc \in {"idle", "refused", "backing", "writing",
                       "restoring", "filling", "done", "rolledback", "crashed"},
           NEW todo \in SUBSET Files, NEW made \in SUBSET Files, NEW read, NEW originals,
           DOMAIN read \subseteq Files, TextsOf(read, DOMAIN read),
           DOMAIN originals \subseteq Files, TextsOf(originals, DOMAIN originals),
           Becomes(pc, todo, read, originals, made)
    PROVE  TypeOK'
BY DEF TypeOK, TextsOf, ByMigration, Becomes

(* Every step keeps the types.                                             *)
LEMMA TypeStep ==
    ASSUME TypeOK, Taken, Ahead, [Next]_vars
    PROVE  TypeOK'
<1> DEFINE f == First(run.todo)
<1>0. /\ TextsOf(file, Files) /\ TextsOf(backup, Files)
      /\ run.todo \subseteq Files /\ run.made \subseteq Files
      /\ DOMAIN run.read \subseteq Files /\ TextsOf(run.read, DOMAIN run.read)
      /\ DOMAIN run.originals \subseteq Files /\ TextsOf(run.originals, DOMAIN run.originals)
      /\ \A g \in Files : Absent \in Content(g) /\ Partial \in Content(g)
      /\ Profile \in Files
  BY DEF TypeOK, Content, NoFile, Files
<1>1. ASSUME NEW selected \in SUBSET Clients \ {{}}, Load(selected), ByMigration PROVE TypeOK'
  <2> DEFINE read == [g \in selected \union {Profile} |-> file[g]]
  <2>1. DOMAIN read \subseteq Files /\ TextsOf(read, DOMAIN read)
    BY <1>0 DEF TextsOf, Files
  <2>2. DOMAIN <<>> \subseteq Files /\ TextsOf(<<>>, DOMAIN <<>>) /\ {} \in SUBSET Files
    BY EmptyDomain DEF TextsOf
  <2>3. selected \union {Profile} \in SUBSET Files
    BY DEF Files
  <2> HIDE DEF read
  <2>4. /\ UNCHANGED <<file, backup>>
        /\ \/ Becomes("refused", {}, <<>>, <<>>, {})
           \/ Becomes("backing", selected \union {Profile}, read, <<>>, {})
    BY <1>1, LoadDoes DEF read
  <2>5. TextsOf(file', Files) /\ TextsOf(backup', Files)
    BY <1>0, <2>4
  <2>6. CASE Becomes("refused", {}, <<>>, <<>>, {})
    BY <1>1, <2>2, <2>5, <2>6, RunType
  <2>7. CASE Becomes("backing", selected \union {Profile}, read, <<>>, {})
    BY <1>1, <2>1, <2>2, <2>3, <2>5, <2>7, RunType
  <2> QED BY <2>4, <2>6, <2>7
<1>2. ASSUME BackUp, ByMigration PROVE TypeOK'
  <2> HIDE DEF f
  <2>1. /\ f \in run.todo /\ f \in Files /\ UNCHANGED file
        /\ \/ UNCHANGED backup /\ Becomes("restoring", DOMAIN Kept(f), run.read, Kept(f), run.made)
           \/ UNCHANGED backup /\ Becomes("backing", run.todo \ {f}, run.read, Kept(f), run.made)
           \/ /\ backup' = [backup EXCEPT ![f] = file[f]]
              /\ Becomes("backing", run.todo \ {f}, run.read, Kept(f), run.made \union {f})
    BY <1>2, BackUpDoes DEF f
  <2>2. TextsOf(Kept(f), DOMAIN Kept(f)) /\ DOMAIN Kept(f) \in SUBSET Files
    BY <2>1, KeptType
  <2>3. TextsOf(file', Files) /\ TextsOf(backup', Files)
    BY <1>0, <2>1 DEF TextsOf
  <2>4. run.todo \ {f} \in SUBSET Files /\ run.made \union {f} \in SUBSET Files /\ run.made \in SUBSET Files
    BY <1>0, <2>1
  <2> QED BY <1>0, <1>2, <2>1, <2>2, <2>3, <2>4, RunType
<1>3. ASSUME CopyFails, ByMigration PROVE TypeOK'
  <2> HIDE DEF f
  <2>1. /\ f \in Files /\ UNCHANGED file /\ (\E t \in NoFile \union {file[f]} : backup' = [backup EXCEPT ![f] = t])
        /\ Becomes("restoring", DOMAIN Kept(f), run.read, Kept(f), run.made)
    BY <1>3, CopyFailsDoes DEF f
  <2>2. TextsOf(Kept(f), DOMAIN Kept(f)) /\ DOMAIN Kept(f) \in SUBSET Files /\ run.made \in SUBSET Files
    BY <1>0, <2>1, KeptType
  <2>3. TextsOf(file', Files) /\ TextsOf(backup', Files)
    <3>1. PICK t \in NoFile \union {file[f]} : backup' = [backup EXCEPT ![f] = t]
      BY <2>1
    <3>2. t \in Content(f)
      BY <2>1, <3>1 DEF TypeOK, TextsOf, Content, NoFile
    <3> QED BY <1>0, <2>1, <3>1, <3>2 DEF TextsOf
  <2> QED BY <1>0, <1>3, <2>1, <2>2, <2>3, RunType
<1>4. ASSUME BackedUp, ByMigration PROVE TypeOK'
  <2>1. TextsOf(file', Files) /\ TextsOf(backup', Files)
    BY <1>0, <1>4, BackedUpDoes
  <2> QED BY <1>0, <1>4, <2>1, BackedUpDoes, RunType
<1>5. ASSUME Write, ByMigration PROVE TypeOK'
  <2> HIDE DEF f
  <2>1. /\ run.pc = "writing" /\ f \in DOMAIN run.read /\ f \in Files
        /\ file' = [file EXCEPT ![f] = Migrated(run.read, f)] /\ UNCHANGED backup
        /\ Becomes("writing", run.todo \ {f}, run.read, run.originals, run.made)
    BY <1>5, WriteDoes DEF f
  <2>2. Migrated(run.read, f) \in Content(f)
    BY <2>1, MigratedType DEF Active
  <2>3. TextsOf(file', Files) /\ TextsOf(backup', Files)
    BY <1>0, <2>1, <2>2 DEF TextsOf
  <2>4. run.todo \ {f} \in SUBSET Files /\ run.made \in SUBSET Files
    BY <1>0
  <2> QED BY <1>0, <1>5, <2>1, <2>3, <2>4, RunType
<1>6. ASSUME Written \/ Fails \/ Dies, ByMigration PROVE TypeOK'
  <2>1. /\ UNCHANGED <<file, backup>>
        /\ \/ Becomes("done", run.todo, run.read, run.originals, run.made)
           \/ Becomes("restoring", DOMAIN run.originals, run.read, run.originals, run.made)
           \/ Becomes("crashed", run.todo, run.read, run.originals, run.made)
    BY <1>6, WrittenDoes, FailsDoes, DiesDoes
  <2>2. TextsOf(file', Files) /\ TextsOf(backup', Files)
    BY <1>0, <2>1
  <2> QED BY <1>0, <1>6, <2>1, <2>2, RunType
<1>7. ASSUME Restore, ByMigration PROVE TypeOK'
  <2> HIDE DEF f
  <2>1. /\ f \in Files /\ UNCHANGED backup
        /\ \/ /\ file' = [file EXCEPT ![f] = Absent]
              /\ Becomes("restoring", run.todo \ {f}, run.read, run.originals, run.made)
           \/ /\ file' = [file EXCEPT ![f] = Partial]
              /\ Becomes("filling", run.todo, run.read, run.originals, run.made)
    BY <1>7, RestoreDoes DEF f
  <2>2. TextsOf(file', Files) /\ TextsOf(backup', Files)
    BY <1>0, <2>1 DEF TextsOf
  <2>3. run.todo \ {f} \in SUBSET Files /\ run.made \in SUBSET Files
    BY <1>0
  <2> QED BY <1>0, <1>7, <2>1, <2>2, <2>3, RunType
<1>8. ASSUME Fill, ByMigration PROVE TypeOK'
  <2> HIDE DEF f
  <2>1. /\ f \in DOMAIN run.originals /\ f \in Files
        /\ UNCHANGED backup /\ file' = [file EXCEPT ![f] = run.originals[f]]
        /\ Becomes("restoring", run.todo \ {f}, run.read, run.originals, run.made)
    BY <1>8, FillDoes DEF f
  <2>2. TextsOf(file', Files) /\ TextsOf(backup', Files)
    BY <1>0, <2>1 DEF TextsOf
  <2>3. run.todo \ {f} \in SUBSET Files /\ run.made \in SUBSET Files
    BY <1>0
  <2> QED BY <1>0, <1>8, <2>1, <2>2, <2>3, RunType
<1>9. ASSUME Restored, ByMigration PROVE TypeOK'
  <2>1. TextsOf(file', Files) /\ TextsOf(backup', Files)
    BY <1>0, <1>9, RestoredDoes DEF TextsOf
  <2> QED BY <1>0, <1>9, <2>1, RestoredDoes, RunType
<1>10. ASSUME Diagnose, ByDoctor PROVE TypeOK'
  <2>1. Diagnosis(file[Profile]) \subseteq Keys
    BY <1>0, <1>10 DEF Diagnose, Diagnosis, TextsOf, Content, ProfileTexts, Servers
  <2>2. doctor' = [doctor EXCEPT !.pc = "diagnosed", !.todo = Diagnosis(file[Profile]), !.count = @ + 1]
    BY <1>10 DEF Diagnose
  <2> QED BY <1>10, <2>1, <2>2 DEF Diagnose, TypeOK, TextsOf, ByDoctor
<1>11. ASSUME Prepare, ByDoctor PROVE TypeOK'
  <2>1. doctor'.updated \in Content(Profile) /\ doctor'.pc \in {"idle", "prepared"} /\ UNCHANGED <<file, doctorBackup>>
    BY <1>0, <1>11, DoctorDoes DEF Content
  <2>2. /\ doctor' = [pc |-> doctor'.pc, todo |-> doctor'.todo, updated |-> doctor'.updated, count |-> doctor'.count]
        /\ doctor'.todo \subseteq Keys
    BY <1>11 DEF Prepare, Resting, TypeOK
  <2> QED BY <1>11, <2>1, <2>2 DEF TypeOK, TextsOf, ByDoctor
<1>12. ASSUME BackUpOnce \/ BackUpFails \/ Replace \/ GivesUp, ByDoctor PROVE TypeOK'
  <2>1. doctor'.updated \in Content(Profile) /\ doctor'.pc \in {"idle", "saved"} /\ doctorBackup' \in Content(Profile)
    BY <1>0, <1>12, DoctorDoes DEF TypeOK, TextsOf, NoFile
  <2>2. /\ doctor' = [pc |-> doctor'.pc, todo |-> doctor'.todo, updated |-> doctor'.updated, count |-> doctor'.count]
        /\ doctor'.todo \subseteq Keys
    BY <1>12 DEF BackUpOnce, BackUpFails, Replace, GivesUp, Resting, TypeOK
  <2>3. TextsOf(file', Files)
    BY <1>0, <1>12, DoctorDoes DEF TypeOK, TextsOf
  <2> QED BY <1>12, <2>1, <2>2, <2>3 DEF TypeOK, TextsOf, ByDoctor
<1>13. ASSUME NEW g \in Files, Edit(g) PROVE TypeOK'
  <2>1. PICK added \in SUBSET Servers, text \in Content(g) :
           /\ IF g = Profile THEN UNCHANGED owned ELSE owned' = [owned EXCEPT ![g] = @ \union added]
           /\ file' = [file EXCEPT ![g] = text]
           /\ edits' = [edits EXCEPT ![g] = @ + 1]
           /\ unsafe' = IF Overtaken(g) THEN unsafe \union {g} ELSE unsafe
           /\ UNCHANGED <<backup, run, doctor, doctorBackup, deleted, mingled>>
    BY <1>13, EditDoes
  <2>2. TextsOf(file', Files)
    BY <1>0, <2>1 DEF TextsOf
  <2>3. owned' \in [Clients -> SUBSET Servers]
    BY <2>1 DEF TypeOK, Files
  <2>4. edits' \in [Files -> Nat] /\ unsafe' \subseteq Files
    BY <2>1 DEF TypeOK
  <2> QED BY <2>1, <2>2, <2>3, <2>4 DEF TypeOK, TextsOf
<1>14. ASSUME DeleteBackups PROVE TypeOK'
  BY <1>14 DEF DeleteBackups, Content, NoFile, TypeOK, TextsOf
<1>15. ASSUME UNCHANGED vars PROVE TypeOK'
  BY <1>15 DEF vars, history, TypeOK, TextsOf
<1> HIDE DEF f
<1> QED BY <1>1, <1>2, <1>3, <1>4, <1>5, <1>6, <1>7, <1>8, <1>9, <1>10, <1>11, <1>12, <1>13, <1>14,
         <1>15, StepCases

-----------------------------------------------------------------------------
(* How far a run is, and what is there.                                    *)
LEMMA RunStep ==
    ASSUME TypeOK, TypeOK', RunInv, [Next]_vars
    PROVE  RunInv'
<1> DEFINE f == First(run.todo)
<1>0. /\ DOMAIN file = Files /\ DOMAIN backup = Files /\ Profile \in Files /\ Clients \subseteq Files
      /\ \A g \in Files : g = Profile \/ g \in Clients
      /\ run.todo \subseteq Files /\ run.made \subseteq Files
      /\ DOMAIN run.read \subseteq Files /\ DOMAIN run.originals \subseteq Files
      /\ Profile \notin Clients /\ Absent # Partial
  BY FileAssumption DEF TypeOK, TextsOf, Files
<1> USE DEF RunInv
<1>1. ASSUME NEW selected \in SUBSET Clients \ {{}}, Load(selected), ByMigration PROVE RunInv'
  <2> DEFINE read == [g \in selected \union {Profile} |-> file[g]]
  <2>1. /\ DOMAIN read = selected \union {Profile} /\ read[Profile] = file[Profile]
        /\ \A c \in selected : read[c] = file[c]
    OBVIOUS
  <2> HIDE DEF read
  <2>2. /\ UNCHANGED <<file, backup>>
        /\ \/ Becomes("refused", {}, <<>>, <<>>, {})
           \/ /\ Becomes("backing", selected \union {Profile}, read, <<>>, {})
              /\ \A c \in selected : file[c] \notin NoFile
              /\ file[Profile] # Partial
    BY <1>1, LoadDoes DEF read
  <2>3. CASE Becomes("refused", {}, <<>>, <<>>, {})
    BY <1>1, <2>2, <2>3 DEF Becomes, ByMigration, Taken, Ahead, Present, Active, Reading, Reverting, Revertible
  <2>4. CASE /\ Becomes("backing", selected \union {Profile}, read, <<>>, {})
             /\ \A c \in selected : file[c] \notin NoFile
             /\ file[Profile] # Partial
    <3>1. Taken'
      BY <1>0, <1>1, <2>1, <2>2, <2>4, EmptyDomain DEF Becomes, Taken, Active, Reading
    <3>2. Ahead'
      BY <1>0, <1>1, <2>1, <2>2, <2>4, EmptyDomain DEF Becomes, Ahead, Reverting
    <3>3. Present'
      BY <1>0, <1>1, <2>1, <2>2, <2>4, EmptyDomain
         DEF Becomes, ByMigration, Present, Active, Reading, Revertible, NoFile
    <3> QED BY <3>1, <3>2, <3>3
  <2> QED BY <2>2, <2>3, <2>4
<1>2. ASSUME BackUp, ByMigration PROVE RunInv'
  <2> HIDE DEF f
  <2>1. /\ run.pc = "backing" /\ f \in run.todo /\ f \in Files
        /\ f \in DOMAIN run.read \ DOMAIN run.originals /\ (f = Profile => run.todo = {f})
        /\ UNCHANGED file
        /\ \/ /\ file[f] # Absent /\ backup[f] # Absent /\ UNCHANGED backup
              /\ Becomes("restoring", DOMAIN Kept(f), run.read, Kept(f), run.made)
           \/ /\ file[f] = Absent /\ UNCHANGED backup
              /\ Becomes("backing", run.todo \ {f}, run.read, Kept(f), run.made)
           \/ /\ file[f] # Absent /\ backup[f] = Absent
              /\ backup' = [backup EXCEPT ![f] = file[f]]
              /\ Becomes("backing", run.todo \ {f}, run.read, Kept(f), run.made \union {f})
    BY <1>2, BackUpDoes DEF f
  <2>2. /\ DOMAIN Kept(f) = DOMAIN run.originals \union {f} /\ Kept(f)[f] = file[f]
        /\ \A g \in DOMAIN run.originals : g # f => Kept(f)[g] = run.originals[g]
    BY <2>1, KeptType
  <2>3. Taken'
    BY <1>0, <2>1, <2>2 DEF Becomes, Taken, Active, Reading, Present
  <2>4. Ahead'
    BY <1>0, <2>1, <2>2 DEF Becomes, Ahead, Reverting
  <2>5. Present'
    BY <1>0, <1>2, <2>1, <2>2 DEF Becomes, ByMigration, Present, Active, Reading, Revertible
  <2> QED BY <2>3, <2>4, <2>5
<1>3. ASSUME CopyFails, ByMigration PROVE RunInv'
  <2> HIDE DEF f
  <2>1. /\ run.pc = "backing" /\ f \in Files
        /\ f \in DOMAIN run.read \ DOMAIN run.originals
        /\ UNCHANGED file /\ file[f] # Absent
        /\ backup[f] = Absent /\ (\E t \in NoFile \union {file[f]} : backup' = [backup EXCEPT ![f] = t])
        /\ Becomes("restoring", DOMAIN Kept(f), run.read, Kept(f), run.made)
    BY <1>3, CopyFailsDoes DEF f
  <2>2. /\ DOMAIN Kept(f) = DOMAIN run.originals \union {f} /\ Kept(f)[f] = file[f]
        /\ \A g \in DOMAIN run.originals : g # f => Kept(f)[g] = run.originals[g]
    BY <2>1, KeptType
  <2>3. Taken'
    BY <1>0, <2>1, <2>2 DEF Becomes, Taken, Active, Reading, Present
  <2>4. Ahead'
    BY <1>0, <2>1, <2>2 DEF Becomes, Ahead, Reverting
  <2>5. Present'
    BY <1>0, <1>3, <2>1, <2>2 DEF Becomes, ByMigration, Present, Active, Reading, Revertible
  <2> QED BY <2>3, <2>4, <2>5
<1>4. ASSUME BackedUp, ByMigration PROVE RunInv'
  <2>1. /\ run.pc = "backing" /\ run.todo = {} /\ UNCHANGED <<file, backup>>
        /\ Becomes("writing", DOMAIN run.read, run.read, run.originals, run.made)
    BY <1>4, BackedUpDoes
  <2>2. Taken'
    BY <1>0, <2>1 DEF Becomes, Taken, Active, Reading
  <2>3. Ahead'
    BY <1>0, <2>1 DEF Becomes, Ahead, Reverting, Taken, Active
  <2>4. Present'
    BY <1>0, <1>4, <2>1 DEF Becomes, ByMigration, Present, Active, Reading, Revertible
  <2> QED BY <2>2, <2>3, <2>4
<1>5. ASSUME Write, ByMigration PROVE RunInv'
  <2> HIDE DEF f
  <2>1. /\ run.pc = "writing" /\ f \in run.todo /\ f \in DOMAIN run.read /\ f \in Files
        /\ (f = Profile => run.todo = {f})
        /\ file' = [file EXCEPT ![f] = Migrated(run.read, f)] /\ UNCHANGED backup
        /\ Becomes("writing", run.todo \ {f}, run.read, run.originals, run.made)
    BY <1>5, WriteDoes DEF f
  <2>2. Migrated(run.read, f) \notin NoFile
    BY <2>1, MigratedType DEF Active
  <2>3. Taken'
    BY <1>0, <2>1 DEF Becomes, Taken, Active, Reading
  <2>4. Ahead'
    BY <1>0, <2>1 DEF Becomes, Ahead, Reverting
  <2>5. Present'
    BY <1>0, <1>5, <2>1, <2>2 DEF Becomes, ByMigration, Present, Active, Reading, Revertible, NoFile
  <2> QED BY <2>3, <2>4, <2>5
<1>6. ASSUME Written \/ Fails \/ Dies, ByMigration PROVE RunInv'
  <2>1. /\ UNCHANGED <<file, backup>> /\ Active
        /\ \/ Becomes("done", run.todo, run.read, run.originals, run.made)
           \/ /\ Reading /\ run.todo # {}
              /\ Becomes("restoring", DOMAIN run.originals, run.read, run.originals, run.made)
           \/ Becomes("crashed", run.todo, run.read, run.originals, run.made)
    BY <1>6, WrittenDoes, FailsDoes, DiesDoes DEF Active, Reading
  <2>2. Taken'
    BY <1>0, <2>1 DEF Becomes, Taken, Active, Reading
  <2>3. Ahead'
    BY <1>0, <2>1 DEF Becomes, Ahead, Reverting
  <2>4. Present'
    BY <1>0, <1>6, <2>1 DEF Becomes, ByMigration, Present, Taken, Active, Reading, Revertible
  <2> QED BY <2>2, <2>3, <2>4
<1>7. ASSUME Restore, ByMigration PROVE RunInv'
  <2> HIDE DEF f
  <2>1. /\ run.pc = "restoring" /\ f \in run.todo /\ f \in DOMAIN run.originals /\ f \in Files
        /\ UNCHANGED backup
        /\ \/ /\ run.originals[f] = Absent /\ file' = [file EXCEPT ![f] = Absent]
              /\ Becomes("restoring", run.todo \ {f}, run.read, run.originals, run.made)
           \/ /\ run.originals[f] # Absent /\ file' = [file EXCEPT ![f] = Partial]
              /\ Becomes("filling", run.todo, run.read, run.originals, run.made)
    BY <1>7, RestoreDoes DEF f
  <2>2. Taken'
    BY <1>0, <2>1 DEF Becomes, Taken, Active, Reading
  <2>3. Ahead'
    BY <1>0, <2>1 DEF Becomes, Ahead, Reverting
  <2>4. Present'
    BY <1>0, <1>7, <2>1 DEF Becomes, ByMigration, Present, Active, Reading, Revertible
  <2> QED BY <2>2, <2>3, <2>4
<1>8. ASSUME Fill, ByMigration PROVE RunInv'
  <2> HIDE DEF f
  <2>1. /\ run.pc = "filling" /\ f \in run.todo /\ f \in DOMAIN run.originals /\ f \in Files
        /\ UNCHANGED backup /\ file' = [file EXCEPT ![f] = run.originals[f]]
        /\ Becomes("restoring", run.todo \ {f}, run.read, run.originals, run.made)
    BY <1>8, FillDoes DEF f
  <2>2. Taken'
    BY <1>0, <2>1 DEF Becomes, Taken, Active, Reading
  <2>3. Ahead'
    BY <1>0, <2>1 DEF Becomes, Ahead, Reverting
  <2>4. Present'
    BY <1>0, <1>8, <2>1 DEF Becomes, ByMigration, Present, Active, Reading, Revertible
  <2> QED BY <2>2, <2>3, <2>4
<1>9. ASSUME Restored, ByMigration PROVE RunInv'
  <2>1. /\ run.pc = "restoring" /\ run.todo = {} /\ UNCHANGED file
        /\ Becomes("rolledback", run.todo, run.read, run.originals, run.made)
    BY <1>9, RestoredDoes
  <2>2. Taken'
    BY <1>0, <2>1 DEF Becomes, Taken, Active, Reading
  <2>3. Ahead'
    BY <1>0, <2>1 DEF Becomes, Ahead, Reverting
  <2>4. Present'
    BY <1>0, <1>9, <2>1 DEF Becomes, ByMigration, Present, Active, Reading, Revertible
  <2> QED BY <2>2, <2>3, <2>4
<1>10. ASSUME Diagnose \/ Prepare \/ BackUpOnce \/ BackUpFails \/ Replace \/ GivesUp, ByDoctor PROVE RunInv'
  <2>1. UNCHANGED <<run, backup, edits>>
    BY <1>10 DEF ByDoctor
  <2>2. Taken' /\ Ahead'
    BY <2>1 DEF Taken, Ahead, Active, Reading, Reverting
  <2>3. CASE Diagnose \/ Prepare
    <3>1. UNCHANGED <<file, doctorBackup>> /\ (doctor'.pc = "idle" \/ file[Profile] \notin NoFile)
          /\ (doctor'.pc = "prepared" => doctor'.updated \notin NoFile) /\ doctor'.pc # "saved"
      BY <2>3, DoctorDoes
    <3>2. Present'
      BY <2>1, <3>1 DEF Present, Active, Reading, Revertible, NoFile
    <3> QED BY <2>2, <3>2
  <2>4. CASE BackUpOnce
    <3>1. doctor.pc = "prepared" /\ doctor'.pc = "saved" /\ doctor'.updated = doctor.updated /\ UNCHANGED file
      BY <2>4, DoctorDoes
    <3>2. file[Profile] # Absent /\ doctor.updated \notin NoFile
      BY <3>1 DEF Present
    <3>3. Present'
      BY <2>1, <3>1, <3>2 DEF Present, Active, Reading, Revertible
    <3> QED BY <2>2, <3>3
  <2>5. CASE Replace
    <3>1. doctor.pc = "saved" /\ file' = [file EXCEPT ![Profile] = doctor.updated] /\ doctor'.pc = "idle"
      BY <2>5, DoctorDoes
    <3>2. file[Profile] # Absent /\ doctor.updated \notin NoFile
      BY <3>1 DEF Present
    <3>3. Present'
      BY <1>0, <2>1, <3>1, <3>2 DEF Present, Active, Reading, Revertible, NoFile
    <3> QED BY <2>2, <3>3
  <2>6. CASE BackUpFails \/ GivesUp
    <3>1. doctor'.pc = "idle" /\ UNCHANGED file /\ (file[Profile] # Absent \/ UNCHANGED doctorBackup)
      BY <2>6, DoctorDoes
    <3>2. Present'
      BY <2>1, <3>1 DEF Present, Active, Reading, Revertible
    <3> QED BY <2>2, <3>2
  <2> QED BY <1>10, <2>3, <2>4, <2>5, <2>6
<1>11. ASSUME NEW g \in Files, Edit(g) PROVE RunInv'
  <2>1. PICK text \in Content(g) :
           /\ file[g] \notin NoFile /\ text \notin NoFile
           /\ file' = [file EXCEPT ![g] = text] /\ edits' = [edits EXCEPT ![g] = @ + 1]
           /\ UNCHANGED <<backup, run, doctor, doctorBackup>>
    BY <1>11, EditDoes
  <2>2. Taken' /\ Ahead'
    BY <2>1 DEF Taken, Ahead, Active, Reading, Reverting
  <2>3. Present'
    BY <1>0, <2>1 DEF Present, Active, Reading, Revertible, NoFile, TypeOK
  <2> QED BY <2>2, <2>3
<1>12. ASSUME DeleteBackups PROVE RunInv'
  <2>1. ~Active /\ UNCHANGED <<file, run, doctor, doctorBackup, edits>>
    BY <1>12 DEF DeleteBackups
  <2> QED BY <2>1 DEF Taken, Ahead, Present, Active, Reading, Reverting, Revertible
<1>13. ASSUME UNCHANGED vars PROVE RunInv'
  BY <1>13 DEF vars, history, Taken, Ahead, Present, Active, Reading, Reverting, Revertible
<1> HIDE DEF f, RunInv
<1> QED BY <1>1, <1>2, <1>3, <1>4, <1>5, <1>6, <1>7, <1>8, <1>9, <1>10, <1>11, <1>12, <1>13, StepCases

(* Before the first run.                                                   *)
LEMMA RunInit ==
    ASSUME Init
    PROVE  TypeOK /\ RunInv
<1>1. PICK before \in InitialFiles : file = before
  BY DEF Init
<1>2. /\ DOMAIN file = Files
      /\ \A c \in Clients : file[c] \in ClientTexts
      /\ file[Profile] # Absent => file[Profile] \in ProfileTexts
  BY <1>1, InitialAssumption
<1>3. TextsOf(file, Files)
  BY <1>2, FileAssumption DEF TextsOf, Content, Files, NoFile
<1>4. TextsOf(backup, Files)
  BY DEF Init, TextsOf, Content, NoFile
<1>5. owned \in [Clients -> SUBSET Servers]
  BY <1>2 DEF Init, ClientTexts
<1>6. TypeOK
  BY <1>3, <1>4, <1>5, EmptyDomain DEF TypeOK, Init, Idle, Resting, Content, NoFile, TextsOf
<1>7. \A c \in Clients : file[c] # Absent
  BY <1>2, TextAssumption DEF NoFile
<1>8. RunInv
  BY <1>7 DEF RunInv, Taken, Ahead, Present, Init, Idle, Resting, Active, Reading, Reverting, Revertible, Files
<1> QED BY <1>6, <1>8

(* The files hold texts of their kind, whatever is done to them; a run     *)
(* holds copies of what it may have to put back, and a profile that        *)
(* exists is never lost.                                                   *)
THEOREM RunInvariant == Spec => [](TypeOK /\ RunInv)
<1>1. Init => TypeOK /\ RunInv
  BY RunInit
<1>2. TypeOK /\ RunInv /\ [Next]_vars => (TypeOK /\ RunInv)'
  <2> SUFFICES ASSUME TypeOK, RunInv, [Next]_vars PROVE TypeOK' /\ RunInv'
    OBVIOUS
  <2>1. TypeOK'
    BY TypeStep DEF RunInv
  <2>2. RunInv'
    BY <2>1, RunStep
  <2> QED BY <2>1, <2>2
<1> QED BY <1>1, <1>2, PTL DEF Spec

-----------------------------------------------------------------------------
(* The backup of a client is its configuration from before Irigate         *)
LEMMA BackupStep ==
    ASSUME TypeOK, TypeOK', RunInv, RunInv', BackupInv, [Next]_vars
    PROVE  BackupInv'
<1> DEFINE f == First(run.todo)
<1> SUFFICES ASSUME ~deleted', NEW c \in Clients
             PROVE  /\ Predates(c, backup'[c])
                    /\ backup'[c] = Absent => Predates(c, file'[c])
                    /\ (Active' /\ PutBack(c)') => Predates(c, run'.originals[c])
                    /\ (Reverting' /\ c \in run'.made \ run'.todo) => Predates(c, file'[c])
  BY DEF BackupInv, Predates, PutBack
<1>0. /\ DOMAIN file = Files /\ DOMAIN backup = Files /\ c \in Files /\ c # Profile
      /\ Predates(c, Absent) /\ Predates(c, Partial)
      /\ Active => run.made \subseteq DOMAIN run.originals
      /\ Active => backup[c] # Absent \/ c \notin run.made
      /\ run.pc = "writing" => DOMAIN run.originals = DOMAIN run.read
      /\ (run.pc = "writing" /\ c \in DOMAIN run.read) => c \in run.made
  BY FileAssumption DEF TypeOK, TextsOf, Files, Predates, NoFile, RunInv, Taken, Ahead, Present, Active, Reading
<1>1. ASSUME ~deleted
      PROVE  /\ Predates(c, backup[c])
             /\ backup[c] = Absent => Predates(c, file[c])
             /\ (Active /\ PutBack(c)) => Predates(c, run.originals[c])
             /\ (Reverting /\ c \in run.made \ run.todo) => Predates(c, file[c])
  BY <1>1 DEF BackupInv
<1>2. CASE (\E selected \in SUBSET Clients \ {{}} : Load(selected)) /\ ByMigration
  <2>1. PICK selected \in SUBSET Clients \ {{}} : Load(selected)
    BY <1>2
  <2>2. /\ UNCHANGED <<file, backup>>
        /\ \/ Becomes("refused", {}, <<>>, <<>>, {})
           \/ Becomes("backing", selected \union {Profile}, [g \in selected \union {Profile} |-> file[g]], <<>>, {})
    BY <2>1, LoadDoes
  <2>3. deleted' = deleted
    BY <1>2 DEF ByMigration
  <2>4. run'.made = {} /\ run'.originals = <<>>
    BY <2>2 DEF Becomes
  <2> QED BY <1>1, <2>2, <2>3, <2>4, EmptyDomain DEF PutBack
<1>3. CASE (BackUp \/ CopyFails) /\ ByMigration
  <2> HIDE DEF f
  <2>1. /\ run.pc = "backing" /\ f \in Files /\ f \in DOMAIN run.read \ DOMAIN run.originals
        /\ UNCHANGED file /\ deleted' = deleted
        /\ \/ /\ UNCHANGED backup
              /\ Becomes("restoring", DOMAIN Kept(f), run.read, Kept(f), run.made)
           \/ /\ \E t \in NoFile \union {file[f]} : backup' = [backup EXCEPT ![f] = t]
              /\ file[f] # Absent /\ backup[f] = Absent
              /\ Becomes("restoring", DOMAIN Kept(f), run.read, Kept(f), run.made)
           \/ /\ UNCHANGED backup
              /\ Becomes("backing", run.todo \ {f}, run.read, Kept(f), run.made)
           \/ /\ file[f] # Absent /\ backup[f] = Absent
              /\ backup' = [backup EXCEPT ![f] = file[f]]
              /\ Becomes("backing", run.todo \ {f}, run.read, Kept(f), run.made \union {f})
    BY <1>3, BackUpDoes, CopyFailsDoes DEF f, ByMigration, RunInv
  <2>2. /\ DOMAIN Kept(f) = DOMAIN run.originals \union {f} /\ Kept(f)[f] = file[f]
        /\ \A g \in DOMAIN run.originals : g # f => Kept(f)[g] = run.originals[g]
    BY <2>1, KeptType
  <2>3. CASE UNCHANGED backup
    BY <1>0, <1>1, <2>1, <2>2, <2>3 DEF Becomes, Active, Reverting, PutBack
  <2>4. CASE /\ file[f] # Absent /\ backup[f] = Absent
             /\ \E t \in NoFile \union {file[f]} : backup' = [backup EXCEPT ![f] = t]
    <3>1. PICK t \in NoFile \union {file[f]} : backup' = [backup EXCEPT ![f] = t]
      BY <2>4
    <3>2. c = f => Predates(c, t)
      BY <1>0, <1>1, <2>1, <2>4, <3>1 DEF NoFile
    <3> QED BY <1>0, <1>1, <2>1, <2>2, <2>4, <3>1, <3>2 DEF Becomes, Active, Reverting, PutBack
  <2> QED BY <2>1, <2>3, <2>4
<1>4. CASE (BackedUp \/ Written \/ Fails \/ Dies) /\ ByMigration
  <2>1. /\ UNCHANGED <<file, backup, deleted>> /\ Active
        /\ run'.made = run.made /\ run'.originals = run.originals
        /\ run'.pc \in {"writing", "done", "crashed"} \/ (run'.pc = "restoring" /\ run'.todo = DOMAIN run.originals)
    BY <1>4, BackedUpDoes, WrittenDoes, FailsDoes, DiesDoes DEF Becomes, ByMigration, Active, Reading
  <2> QED BY <1>0, <1>1, <2>1 DEF Reverting, Active, PutBack
<1>5. CASE Write /\ ByMigration
  <2> HIDE DEF f
  <2>1. /\ run.pc = "writing" /\ f \in DOMAIN run.read /\ deleted' = deleted
        /\ file' = [file EXCEPT ![f] = Migrated(run.read, f)] /\ UNCHANGED backup
        /\ Becomes("writing", run.todo \ {f}, run.read, run.originals, run.made)
    BY <1>5, WriteDoes DEF f, RunInv, ByMigration
  <2> QED BY <1>0, <1>1, <2>1 DEF Becomes, Active, Reverting, PutBack
<1>6. CASE (Restore \/ Fill) /\ ByMigration
  <2> HIDE DEF f
  <2>1. /\ Reverting /\ Active /\ f \in run.todo /\ f \in DOMAIN run.originals /\ UNCHANGED <<backup, deleted>>
        /\ \/ /\ file' = [file EXCEPT ![f] = run.originals[f]]
              /\ Becomes("restoring", run.todo \ {f}, run.read, run.originals, run.made)
           \/ /\ file' = [file EXCEPT ![f] = Partial]
              /\ Becomes("filling", run.todo, run.read, run.originals, run.made)
    BY <1>6, RestoreDoes, FillDoes DEF f, RunInv, ByMigration, Reverting, Active
  <2> QED BY <1>0, <1>1, <2>1 DEF Becomes, Reverting, Active, PutBack
<1>7. CASE Restored /\ ByMigration
  <2>1. /\ run.pc = "restoring" /\ run.todo = {} /\ UNCHANGED <<file, deleted>>
        /\ backup' = [g \in Files |-> IF g \in run.made THEN Absent ELSE backup[g]]
        /\ Becomes("rolledback", run.todo, run.read, run.originals, run.made)
    BY <1>7, RestoredDoes DEF ByMigration
  <2> QED BY <1>0, <1>1, <2>1 DEF Becomes, Reverting, Active, PutBack
<1>8. CASE (Diagnose \/ Prepare \/ BackUpOnce \/ BackUpFails \/ Replace \/ GivesUp) /\ ByDoctor
  <2>1. UNCHANGED <<backup, run, deleted>> /\ file'[c] = file[c]
    BY <1>0, <1>8, DoctorDoes DEF ByDoctor
  <2> QED BY <1>1, <2>1 DEF Reverting, Active, PutBack
<1>9. ASSUME NEW g \in Files, Edit(g)
      PROVE  /\ Predates(c, backup'[c])
             /\ backup'[c] = Absent => Predates(c, file'[c])
             /\ (Active' /\ PutBack(c)') => Predates(c, run'.originals[c])
             /\ (Reverting' /\ c \in run'.made \ run'.todo) => Predates(c, file'[c])
  <2>1. PICK text \in Content(g) :
           /\ file[g] \notin NoFile
           /\ g # Profile => text.via = file[g].via
           /\ file' = [file EXCEPT ![g] = text]
           /\ UNCHANGED <<backup, run, deleted>>
    BY <1>9, EditDoes
  <2>2. Predates(c, file[c]) => Predates(c, file'[c])
    BY <1>0, <2>1 DEF Predates
  <2> QED BY <1>1, <2>1, <2>2 DEF Reverting, Active, PutBack
<1>10. CASE DeleteBackups
  BY <1>10 DEF DeleteBackups
<1>11. CASE UNCHANGED vars
  BY <1>1, <1>11 DEF vars, history, Reverting, Active, PutBack
<1> HIDE DEF f
<1> QED BY <1>2, <1>3, <1>4, <1>5, <1>6, <1>7, <1>8, <1>9, <1>10, <1>11, StepCases

LEMMA BackupInit ==
    ASSUME Init
    PROVE  BackupInv
<1> SUFFICES ASSUME NEW c \in Clients
             PROVE  Predates(c, backup[c]) /\ Predates(c, file[c]) /\ c \notin run.made /\ ~Active
  BY DEF BackupInv
<1>1. c \notin run.made /\ ~Active /\ backup[c] \in NoFile
  BY DEF Init, Idle, Files, NoFile, Active
<1>2. Predates(c, file[c])
  BY DEF Init, Predates
<1> QED BY <1>1, <1>2 DEF Predates

(* The backup of a client is its configuration from before Irigate, after  *)
(* any number of migrations, finished, rolled back or broken off           *)
(* (migration.py:319).                                                     *)
THEOREM BackupsPredateIrigate == Spec => []BackupPredatesIrigate
<1>1. Init => BackupInv
  BY BackupInit
<1>2. (TypeOK /\ RunInv) /\ (TypeOK /\ RunInv)' /\ BackupInv /\ [Next]_vars => BackupInv'
  BY BackupStep
<1>3. BackupInv => BackupPredatesIrigate
  BY DEF BackupInv, BackupPredatesIrigate, Predates
<1> QED BY <1>1, <1>2, <1>3, RunInvariant, PTL DEF Spec

-----------------------------------------------------------------------------
(* No text is newer than the last change to its file.                      *)
LEMMA DatedStep ==
    ASSUME TypeOK, TypeOK', RunInv, RunInv', Dated, [Next]_vars
    PROVE  Dated'
<1> DEFINE f == First(run.todo)
<1>0. /\ DOMAIN file = Files /\ Profile \in Files /\ DOMAIN run.read \subseteq Files
      /\ \A g \in Files : edits[g] \in Nat
      /\ \A g \in Files : ByNow(g, Absent) /\ ByNow(g, Partial)
  BY DEF TypeOK, TextsOf, Files, ByNow, NoFile
<1>1. /\ \A g \in Files : ByNow(g, file[g])
      /\ \A g \in DOMAIN run.read : ByNow(g, run.read[g])
      /\ \A g \in DOMAIN run.originals : ByNow(g, run.originals[g])
      /\ ByNow(Profile, doctor.updated)
  BY DEF Dated
<1>2. ASSUME UNCHANGED edits, \A g \in Files : ByNow(g, file'[g]),
             \A g \in DOMAIN run'.read : ByNow(g, run'.read[g]),
             \A g \in DOMAIN run'.originals : ByNow(g, run'.originals[g]),
             ByNow(Profile, doctor'.updated)
      PROVE  Dated'
  BY <1>2 DEF Dated, ByNow
<1>3. ASSUME UNCHANGED <<edits, doctor>>, \A g \in Files : ByNow(g, file'[g]),
             run'.read = run.read, run'.originals = run.originals
      PROVE  Dated'
  BY <1>1, <1>2, <1>3
<1>4. CASE (\E selected \in SUBSET Clients \ {{}} : Load(selected)) /\ ByMigration
  <2>1. PICK selected \in SUBSET Clients \ {{}} : Load(selected)
    BY <1>4
  <2> DEFINE read == [g \in selected \union {Profile} |-> file[g]]
  <2>2. \A g \in DOMAIN read : ByNow(g, read[g])
    BY <1>1 DEF Files
  <2>3. \A g \in DOMAIN <<>> : ByNow(g, <<>>[g])
    BY EmptyDomain
  <2> HIDE DEF read
  <2>4. /\ UNCHANGED <<file, backup>>
        /\ \/ Becomes("refused", {}, <<>>, <<>>, {})
           \/ Becomes("backing", selected \union {Profile}, read, <<>>, {})
    BY <2>1, LoadDoes DEF read
  <2>5. UNCHANGED <<edits, doctor>>
    BY <1>4 DEF ByMigration
  <2>6. (run'.read = <<>> \/ run'.read = read) /\ run'.originals = <<>>
    BY <2>4 DEF Becomes
  <2>7. \A g \in DOMAIN run'.read : ByNow(g, run'.read[g])
    BY <2>2, <2>3, <2>6
  <2>8. \A g \in DOMAIN run'.originals : ByNow(g, run'.originals[g])
    BY <2>3, <2>6
  <2> QED BY <1>1, <1>2, <2>4, <2>5, <2>7, <2>8
<1>5. CASE (BackUp \/ CopyFails) /\ ByMigration
  <2> HIDE DEF f
  <2>1. /\ f \in Files /\ UNCHANGED file
        /\ run'.originals = Kept(f) /\ run'.read = run.read
    BY <1>5, BackUpDoes, CopyFailsDoes DEF f, RunInv, Becomes
  <2>2. /\ DOMAIN Kept(f) = DOMAIN run.originals \union {f} /\ Kept(f)[f] = file[f]
        /\ \A g \in DOMAIN run.originals : g # f => Kept(f)[g] = run.originals[g]
    BY <2>1, KeptType
  <2>3. \A g \in DOMAIN run'.originals : ByNow(g, run'.originals[g])
    BY <1>1, <2>1, <2>2
  <2> QED BY <1>1, <1>2, <1>5, <2>1, <2>3 DEF ByMigration
<1>6. CASE (BackedUp \/ Written \/ Fails \/ Dies \/ Restored) /\ ByMigration
  <2>1. UNCHANGED file /\ run'.read = run.read /\ run'.originals = run.originals
    BY <1>6, BackedUpDoes, WrittenDoes, FailsDoes, DiesDoes, RestoredDoes DEF Becomes
  <2> QED BY <1>1, <1>3, <1>6, <2>1 DEF ByMigration
<1>7. CASE Write /\ ByMigration
  <2> HIDE DEF f
  <2>1. /\ run.pc = "writing" /\ f \in DOMAIN run.read /\ f \in Files
        /\ file' = [file EXCEPT ![f] = Migrated(run.read, f)]
        /\ run'.read = run.read /\ run'.originals = run.originals
    BY <1>7, WriteDoes DEF f, RunInv, Becomes
  <2>2. f # Profile => run.read[f] \in ClientTexts /\ run.read[f] \notin NoFile
    BY <2>1 DEF RunInv, Taken, Active, TypeOK, TextsOf, Content
  <2>3. f = Profile => OrEmpty(run.read[f]) \in ProfileTexts
    BY <2>1, OrEmptyType DEF RunInv, Taken, Active, TypeOK, TextsOf
  <2>4. Migrated(run.read, f).user = IF f = Profile THEN OrEmpty(run.read[f]).user ELSE run.read[f].user
    BY <2>2, <2>3 DEF Migrated, ClientTexts, ProfileTexts
  <2>5. f = Profile => OrEmpty(run.read[f]).user = IF run.read[f] = Absent THEN 0 ELSE run.read[f].user
    BY DEF OrEmpty
  <2>6. f = Profile => run.read[f] # Partial
    BY <2>1 DEF RunInv, Taken, Active
  <2>7. ByNow(f, Migrated(run.read, f))
    BY <1>0, <1>1, <2>1, <2>2, <2>4, <2>5, <2>6 DEF ByNow, NoFile
  <2>8. \A g \in Files : ByNow(g, file'[g])
    BY <1>0, <1>1, <2>1, <2>7
  <2> QED BY <1>3, <1>7, <2>1, <2>8 DEF ByMigration
<1>8. CASE (Restore \/ Fill) /\ ByMigration
  <2> HIDE DEF f
  <2>1. /\ f \in DOMAIN run.originals /\ f \in Files
        /\ file' = [file EXCEPT ![f] = run.originals[f]] \/ file' = [file EXCEPT ![f] = Partial]
        /\ run'.read = run.read /\ run'.originals = run.originals
    BY <1>8, RestoreDoes, FillDoes DEF f, RunInv, Becomes
  <2>2. \A g \in Files : ByNow(g, file'[g])
    BY <1>0, <1>1, <2>1
  <2> QED BY <1>3, <1>8, <2>1, <2>2 DEF ByMigration
<1>9. CASE (Diagnose \/ Prepare \/ BackUpOnce \/ BackUpFails \/ Replace \/ GivesUp) /\ ByDoctor
  <2>1. UNCHANGED <<run, edits>>
    BY <1>9 DEF ByDoctor
  <2>2. \A g \in Files : ByNow(g, file'[g])
    BY <1>0, <1>1, <1>9, DoctorDoes
  <2>3. doctor'.updated = doctor.updated \/ doctor'.updated = Absent
        \/ (doctor'.updated.user = file[Profile].user /\ file[Profile] \notin NoFile)
    BY <1>9, DoctorDoes DEF Diagnose, TypeOK
  <2>4. ByNow(Profile, doctor'.updated)
    BY <1>0, <1>1, <2>3 DEF ByNow
  <2> QED BY <1>1, <1>2, <2>1, <2>2, <2>4
<1>10. ASSUME NEW g \in Files, Edit(g) PROVE Dated'
  <2>1. PICK text \in Content(g) :
           /\ text.user = edits[g] + 1
           /\ file' = [file EXCEPT ![g] = text] /\ edits' = [edits EXCEPT ![g] = @ + 1]
           /\ UNCHANGED <<backup, run, doctor, doctorBackup>>
    BY <1>10, EditDoes
  <2>2. \A h \in Files : edits[h] <= edits'[h] /\ edits'[h] \in Nat
    BY <1>0, <2>1 DEF TypeOK
  <2>3. edits'[g] = edits[g] + 1
    BY <2>1 DEF TypeOK
  <2>4. ASSUME NEW h \in Files, NEW t \in Content(h), ByNow(h, t) PROVE ByNow(h, t)'
    <3>1. t \notin NoFile => t.user \in Nat
      BY DEF Content, ClientTexts, ProfileTexts
    <3> QED BY <1>0, <2>2, <2>4, <3>1 DEF ByNow
  <2>5. \A h \in Files : ByNow(h, file[h])' 
    <3> TAKE h \in Files
    <3>1. CASE h = g
      BY <1>0, <2>1, <2>2, <2>3, <3>1 DEF ByNow
    <3>2. CASE h # g
      <4>1. file'[h] = file[h] /\ file[h] \in Content(h)
        BY <2>1, <3>2 DEF TypeOK, TextsOf
      <4> QED BY <1>1, <2>4, <4>1 DEF ByNow
    <3> QED BY <3>1, <3>2
  <2>6. /\ \A h \in DOMAIN run.read : ByNow(h, run.read[h])'
        /\ \A h \in DOMAIN run.originals : ByNow(h, run.originals[h])'
        /\ ByNow(Profile, doctor.updated)'
    <3>1. /\ \A h \in DOMAIN run.read : run.read[h] \in Content(h) /\ h \in Files
          /\ \A h \in DOMAIN run.originals : run.originals[h] \in Content(h) /\ h \in Files
          /\ doctor.updated \in Content(Profile)
      BY DEF TypeOK, TextsOf
    <3> QED BY <1>0, <1>1, <2>1, <2>4, <3>1 DEF ByNow
  <2> QED BY <2>1, <2>5, <2>6 DEF Dated
<1>11. CASE DeleteBackups
  BY <1>1, <1>3, <1>11 DEF DeleteBackups
<1>12. CASE UNCHANGED vars
  BY <1>1, <1>3, <1>12 DEF vars, history
<1> HIDE DEF f
<1> QED BY <1>4, <1>5, <1>6, <1>7, <1>8, <1>9, <1>10, <1>11, <1>12, StepCases

(* A repair alone keeps the upstreams of the profile it has read.          *)
LEMMA AloneStep ==
    ASSUME TypeOK, TypeOK', RunInv, Alone, [Next]_vars, ~mingled'
    PROVE  Alone'
<1>0. DOMAIN file = Files /\ Profile \in Files
  BY DEF TypeOK, TextsOf, Files
<1>1. CASE (\E selected \in SUBSET Clients \ {{}} : Load(selected)) /\ ByMigration
  <2>1. PICK selected \in SUBSET Clients \ {{}} : Load(selected)
    BY <1>1
  <2>2. /\ UNCHANGED <<file, backup>>
        /\ \/ Becomes("refused", {}, <<>>, <<>>, {})
           \/ Becomes("backing", selected \union {Profile}, [g \in selected \union {Profile} |-> file[g]], <<>>, {})
    BY <2>1, LoadDoes
  <2>3. run'.pc \in {"refused", "backing"}
    BY <2>2 DEF Becomes
  <2> QED BY <1>1, <2>2, <2>3 DEF Alone, ByMigration, Active
<1>2. CASE (BackUp \/ CopyFails \/ BackedUp \/ Write \/ Written \/ Fails \/ Restore \/ Fill \/ Restored \/ Dies)
           /\ ByMigration
  <2>1. Active
    BY <1>2 DEF BackUp, CopyFails, BackedUp, Write, Written, Fails, Restore, Fill, Restored, Dies, Active
  <2> QED BY <1>2, <2>1 DEF Alone, ByMigration
<1>3. CASE (Diagnose \/ Prepare \/ BackUpOnce \/ BackUpFails \/ Replace \/ GivesUp) /\ ByDoctor
  <2>1. ~Active /\ ~Active'
    BY <1>3 DEF ByDoctor, Active
  <2>2. CASE Prepare
    BY <2>1, <2>2, DoctorDoes DEF Alone
  <2>3. CASE Diagnose \/ BackUpOnce \/ BackUpFails \/ Replace \/ GivesUp
    BY <1>0, <2>1, <2>3, DoctorDoes DEF Alone
  <2> QED BY <1>3, <2>2, <2>3
<1>4. ASSUME NEW g \in Files, Edit(g) PROVE Alone'
  <2>1. PICK text \in Content(g) :
           /\ file[g] \notin NoFile /\ text \notin NoFile
           /\ g = Profile => text.upstreams = file[g].upstreams
           /\ file' = [file EXCEPT ![g] = text]
           /\ UNCHANGED <<run, doctor, mingled>>
    BY <1>4, EditDoes
  <2> QED BY <1>0, <2>1 DEF Alone, Active
<1>5. CASE DeleteBackups \/ UNCHANGED vars
  BY <1>5 DEF DeleteBackups, vars, history, Alone, Active
<1> QED BY <1>1, <1>2, <1>3, <1>4, <1>5, StepCases

(* What a run may put back, or has put back, is what it has read, unless   *)
(* another program has changed it.                                         *)
LEMMA UnchangedStep ==
    ASSUME TypeOK, TypeOK', RunInv, RunInv', Dated, Alone, Unchanged, [Next]_vars, ~mingled'
    PROVE  Unchanged'
<1> DEFINE f == First(run.todo)
<1>0. /\ DOMAIN file = Files /\ Profile \in Files /\ DOMAIN run.read \subseteq Files
      /\ \A g \in Files : edits[g] \in Nat
  BY DEF TypeOK, TextsOf, Files
<1>1. /\ Active => \A g \in DOMAIN run.originals : Same(g, run.originals[g], run.read[g])
      /\ run.pc \in {"backing", "rolledback"} => \A g \in DOMAIN run.read : Same(g, file[g], run.read[g])
      /\ run.pc = "writing" => \A g \in run.todo : Same(g, file[g], run.read[g])
      /\ Reverting => \A g \in DOMAIN run.read \ run.todo : Same(g, file[g], run.read[g])
  BY DEF Unchanged
<1>2. ASSUME UNCHANGED edits,
             Active' => \A g \in DOMAIN run'.originals : Same(g, run'.originals[g], run'.read[g]),
             run'.pc \in {"backing", "rolledback"} => \A g \in DOMAIN run'.read : Same(g, file'[g], run'.read[g]),
             run'.pc = "writing" => \A g \in run'.todo : Same(g, file'[g], run'.read[g]),
             Reverting' => \A g \in DOMAIN run'.read \ run'.todo : Same(g, file'[g], run'.read[g])
      PROVE  Unchanged'
  BY <1>2 DEF Unchanged, Same
<1>3. CASE (\E selected \in SUBSET Clients \ {{}} : Load(selected)) /\ ByMigration
  <2>1. PICK selected \in SUBSET Clients \ {{}} : Load(selected)
    BY <1>3
  <2> DEFINE read == [g \in selected \union {Profile} |-> file[g]]
  <2>3. DOMAIN read = selected \union {Profile} /\ \A g \in DOMAIN read : read[g] = file[g]
    OBVIOUS
  <2> HIDE DEF read
  <2>4. /\ UNCHANGED <<file, backup>>
        /\ \/ Becomes("refused", {}, <<>>, <<>>, {})
           \/ /\ Becomes("backing", selected \union {Profile}, read, <<>>, {})
              /\ \A c \in selected : file[c] \notin NoFile
              /\ file[Profile] # Partial
    BY <2>1, LoadDoes DEF read
  <2>5. CASE Becomes("refused", {}, <<>>, <<>>, {})
    <3>1. run'.pc = "refused"
      BY <2>5 DEF Becomes
    <3> QED BY <3>1 DEF Unchanged, Active, Reverting
  <2>6. CASE /\ Becomes("backing", selected \union {Profile}, read, <<>>, {})
             /\ \A c \in selected : file[c] \notin NoFile
             /\ file[Profile] # Partial
    <3>1. run'.pc = "backing" /\ run'.read = read /\ run'.originals = <<>>
      BY <2>6 DEF Becomes
    <3>2. \A g \in DOMAIN read : Same(g, file[g], read[g])
      BY <2>3, <2>6 DEF Same, NoFile
    <3>3. UNCHANGED <<file, edits>>
      BY <1>3, <2>4 DEF ByMigration
    <3> QED BY <1>2, <3>1, <3>2, <3>3, EmptyDomain DEF Reverting
  <2> QED BY <2>4, <2>5, <2>6
<1>4. CASE (BackUp \/ CopyFails) /\ ByMigration
  <2> HIDE DEF f
  <2>1. /\ run.pc = "backing" /\ f \in Files /\ f \in DOMAIN run.read \ DOMAIN run.originals
        /\ UNCHANGED <<file, edits>> /\ run'.pc \in {"backing", "restoring"}
        /\ run'.originals = Kept(f) /\ run'.read = run.read
    BY <1>4, BackUpDoes, CopyFailsDoes DEF f, RunInv, Becomes, ByMigration
  <2>2. /\ DOMAIN Kept(f) = DOMAIN run.originals \union {f} /\ Kept(f)[f] = file[f]
        /\ \A g \in DOMAIN run.originals : g # f => Kept(f)[g] = run.originals[g]
    BY <2>1, KeptType
  <2>3. \A g \in DOMAIN Kept(f) : Same(g, Kept(f)[g], run.read[g])
    BY <1>1, <2>1, <2>2 DEF Active
  <2> QED BY <1>1, <1>2, <2>1, <2>3
<1>5. CASE BackedUp /\ ByMigration
  <2>1. /\ run.pc = "backing" /\ UNCHANGED file /\ run'.pc = "writing" /\ run'.todo = DOMAIN run.read
        /\ run'.read = run.read /\ run'.originals = run.originals
    BY <1>5, BackedUpDoes DEF Becomes
  <2> QED BY <1>1, <1>2, <1>5, <2>1 DEF ByMigration, Active, Reverting
<1>6. CASE Write /\ ByMigration
  <2> HIDE DEF f
  <2>1. /\ run.pc = "writing" /\ f \in DOMAIN run.read
        /\ file' = [file EXCEPT ![f] = Migrated(run.read, f)]
        /\ run'.pc = "writing" /\ run'.todo = run.todo \ {f}
        /\ run'.read = run.read /\ run'.originals = run.originals /\ run.todo \subseteq Files
    BY <1>6, WriteDoes DEF f, RunInv, Becomes, TypeOK
  <2> QED BY <1>0, <1>1, <1>2, <1>6, <2>1 DEF ByMigration, Active, Reverting
<1>7. CASE (Written \/ Dies) /\ ByMigration
  <2>1. run'.pc \in {"done", "crashed"}
    BY <1>7, WrittenDoes, DiesDoes DEF Becomes
  <2> QED BY <2>1 DEF Unchanged, Active, Reverting
<1>8. CASE Fails /\ ByMigration
  <2>1. /\ Reading /\ UNCHANGED file /\ run'.pc = "restoring" /\ run'.todo = DOMAIN run.originals
        /\ run'.read = run.read /\ run'.originals = run.originals
    BY <1>8, FailsDoes DEF Becomes
  <2>2. run.pc = "writing" => DOMAIN run.read \ run'.todo = {}
    BY <2>1 DEF RunInv, Ahead
  <2> QED BY <1>1, <1>2, <1>8, <2>1, <2>2 DEF ByMigration, Active, Reading
<1>9. CASE Restore /\ ByMigration
  <2> HIDE DEF f
  <2>1. /\ run.pc = "restoring" /\ f \in run.todo /\ f \in DOMAIN run.originals /\ f \in Files
        /\ run'.pc \in {"restoring", "filling"} /\ run'.read = run.read /\ run'.originals = run.originals
        /\ \/ file' = [file EXCEPT ![f] = run.originals[f]] /\ run'.todo = run.todo \ {f}
           \/ file' = [file EXCEPT ![f] = Partial] /\ run'.todo = run.todo
    BY <1>9, RestoreDoes DEF f, RunInv, Becomes
  <2> QED BY <1>0, <1>1, <1>2, <1>9, <2>1 DEF ByMigration, Active, Reverting
<1>10. CASE Fill /\ ByMigration
  <2> HIDE DEF f
  <2>1. /\ run.pc = "filling" /\ f \in run.todo /\ f \in DOMAIN run.originals /\ f \in Files
        /\ run'.pc = "restoring" /\ run'.read = run.read /\ run'.originals = run.originals
        /\ file' = [file EXCEPT ![f] = run.originals[f]] /\ run'.todo = run.todo \ {f}
    BY <1>10, FillDoes DEF f, RunInv, Becomes
  <2> QED BY <1>0, <1>1, <1>2, <1>10, <2>1 DEF ByMigration, Active, Reverting
<1>11. CASE Restored /\ ByMigration
  <2>1. /\ run.pc = "restoring" /\ run.todo = {} /\ UNCHANGED file
        /\ run'.pc = "rolledback" /\ run'.read = run.read
    BY <1>11, RestoredDoes DEF Becomes
  <2> QED BY <1>1, <1>2, <1>11, <2>1 DEF ByMigration, Active, Reverting
<1>12. CASE (Diagnose \/ Prepare \/ BackUpOnce \/ BackUpFails \/ Replace \/ GivesUp) /\ ByDoctor
  <2>1. ~Active /\ UNCHANGED <<run, edits>>
    BY <1>12 DEF ByDoctor
  <2>2. \/ UNCHANGED file
        \/ /\ file' = [file EXCEPT ![Profile] = doctor.updated]
           /\ file[Profile] \notin NoFile /\ doctor.updated \notin NoFile
           /\ doctor.updated.upstreams = file[Profile].upstreams
    BY <1>12, DoctorDoes DEF Alone, RunInv, Present
  <2>3. \A g \in Files : \A read : Same(g, file[g], read) => Same(g, file'[g], read)
    BY <1>0, <2>2 DEF Same, NoFile
  <2> QED BY <1>0, <1>1, <1>2, <2>1, <2>3 DEF Active, Reverting
<1>13. ASSUME NEW g \in Files, Edit(g) PROVE Unchanged'
  <2>1. PICK text \in Content(g) :
           /\ file[g] \notin NoFile
           /\ file' = [file EXCEPT ![g] = text] /\ edits' = [edits EXCEPT ![g] = @ + 1]
           /\ UNCHANGED run
    BY <1>13, EditDoes
  <2>2. edits'[g] = edits[g] + 1 /\ \A h \in Files : h # g => edits'[h] = edits[h] /\ file'[h] = file[h]
    BY <1>0, <2>1 DEF TypeOK, TextsOf
  <2> DEFINE Now(h, t, read) ==
          IF read = Absent THEN t = Absent
          ELSE read.user = edits'[h] =>
                  t \notin NoFile /\ IF h = Profile THEN t.upstreams = read.upstreams ELSE t = read
  <2>3. ASSUME Active \/ run.pc \in {"done", "rolledback"}, NEW h \in DOMAIN run.read, NEW t,
               Same(h, t, run.read[h])
        PROVE  Now(h, t, run.read[h]) 
    <3>1. run.read[h] \in Content(h) /\ run.read[h] # Partial /\ ByNow(h, run.read[h]) /\ h \in Files
      BY <2>3 DEF TypeOK, TextsOf, RunInv, Taken, Dated, NoFile
    <3>2. CASE h # g
      BY <2>2, <2>3, <3>1, <3>2 DEF Same
    <3>3. CASE h = g
      <4>1. run.read[h] # Absent => run.read[h].user # edits'[g] 
        <5>1. run.read[h] # Absent => run.read[h].user <= edits[g] /\ run.read[h].user \in Nat
          BY <3>1, <3>3 DEF ByNow, NoFile, Content, ClientTexts, ProfileTexts
        <5> QED BY <1>0, <2>2, <5>1
      <4> QED BY <2>3, <3>3, <4>1 DEF Same
    <3> QED BY <3>2, <3>3
  <2>4. ASSUME Active \/ run.pc \in {"done", "rolledback"}, NEW h \in DOMAIN run.read,
               Same(h, file[h], run.read[h])
        PROVE  Now(h, file'[h], run.read[h]) 
    <3>1. CASE h # g
      BY <1>0, <2>2, <2>3, <2>4, <3>1
    <3>2. CASE h = g
      <4>1. run.read[h] # Absent
        BY <2>1, <2>4, <3>2 DEF Same, NoFile
      <4>2. run.read[h] # Partial /\ ByNow(h, run.read[h]) /\ run.read[h] \in Content(h)
        BY <2>4 DEF TypeOK, TextsOf, RunInv, Taken, Dated, NoFile
      <4>3. run.read[h].user <= edits[g] /\ run.read[h].user \in Nat
        BY <3>2, <4>1, <4>2 DEF ByNow, NoFile, Content, ClientTexts, ProfileTexts
      <4>4. run.read[h].user # edits'[g]
        BY <1>0, <2>2, <4>3
      <4> QED BY <3>2, <4>1, <4>4
    <3> QED BY <3>1, <3>2
  <2>5. Active => DOMAIN run.originals \subseteq DOMAIN run.read
    BY DEF RunInv, Taken
  <2>6. run.pc = "writing" => run.todo \subseteq DOMAIN run.read
    BY DEF RunInv, Ahead
  <2>7. /\ Active => \A h \in DOMAIN run.originals : Now(h, run.originals[h], run.read[h])
        /\ run.pc \in {"backing", "rolledback"} => \A h \in DOMAIN run.read : Now(h, file'[h], run.read[h])
        /\ run.pc = "writing" => \A h \in run.todo : Now(h, file'[h], run.read[h])
        /\ Reverting => \A h \in DOMAIN run.read \ run.todo : Now(h, file'[h], run.read[h])
    <3> HIDE DEF Now
    <3> QED BY <1>1, <2>3, <2>4, <2>5, <2>6 DEF Active, Reverting
  <2> QED BY <2>1, <2>7 DEF Unchanged, Same, Active, Reverting
<1>14. CASE DeleteBackups \/ UNCHANGED vars
  <2>1. UNCHANGED <<file, run, edits>>
    BY <1>14 DEF DeleteBackups, vars, history
  <2> QED BY <1>1, <1>2, <2>1 DEF Active, Reverting
<1> HIDE DEF f
<1> QED BY <1>3, <1>4, <1>5, <1>6, <1>7, <1>8, <1>9, <1>10, <1>11, <1>12, <1>13, <1>14, StepCases

(* While a run writes, what it has written serves what was read; other     *)
(* programs add to it, and repairs keep the upstreams.                     *)
LEMMA ConvertedStep ==
    ASSUME TypeOK, TypeOK', RunInv, RunInv', Alone, Converted, [Next]_vars, ~mingled'
    PROVE  Converted'
<1> DEFINE f == First(run.todo)
<1>0. /\ DOMAIN file = Files /\ Profile \in Files /\ DOMAIN run.read \subseteq Files
  BY DEF TypeOK, TextsOf, Files
<1>1. /\ (Reading \/ run.pc = "done") => Convertible(run.read)
      /\ run.pc = "writing" => \A g \in DOMAIN run.read \ run.todo : Serves(g)
      /\ run.pc = "done" => \A g \in DOMAIN run.read : Serves(g)
  BY DEF Converted
<1>2. ASSUME run'.pc \notin {"backing", "writing", "done"} PROVE Converted'
  BY <1>2 DEF Converted, Reading
<1>3. CASE (\E selected \in SUBSET Clients \ {{}} : Load(selected)) /\ ByMigration
  <2>1. PICK selected \in SUBSET Clients \ {{}} : Load(selected)
    BY <1>3
  <2> DEFINE read == [g \in selected \union {Profile} |-> file[g]]
  <2> HIDE DEF read
  <2>2. \/ Becomes("refused", {}, <<>>, <<>>, {})
        \/ /\ Becomes("backing", selected \union {Profile}, read, <<>>, {})
           /\ Convertible(read)
    BY <2>1, LoadDoes DEF read
  <2>3. run'.pc = "refused" \/ (run'.pc = "backing" /\ Convertible(run'.read))
    BY <2>2 DEF Becomes
  <2> QED BY <2>3 DEF Converted, Reading
<1>4. CASE (BackUp \/ BackedUp) /\ ByMigration
  <2>1. /\ run.pc = "backing" /\ run'.read = run.read
        /\ \/ run'.pc \in {"backing", "restoring"}
           \/ run'.pc = "writing" /\ run'.todo = DOMAIN run.read
    BY <1>4, BackUpDoes, BackedUpDoes DEF RunInv, Becomes
  <2> QED BY <1>1, <2>1 DEF Converted, Reading
<1>5. CASE (CopyFails \/ Fails \/ Dies \/ Restored) /\ ByMigration
  <2>1. run'.pc \in {"restoring", "crashed", "rolledback"}
    BY <1>5, CopyFailsDoes, FailsDoes, DiesDoes, RestoredDoes DEF RunInv, Becomes
  <2> QED BY <1>2, <2>1
<1>6. CASE (Restore \/ Fill) /\ ByMigration
  <2>1. run'.pc \in {"restoring", "filling"}
    BY <1>6, RestoreDoes, FillDoes DEF RunInv, Becomes
  <2> QED BY <1>2, <2>1
<1>7. CASE Write /\ ByMigration
  <2> HIDE DEF f
  <2>1. /\ run.pc = "writing" /\ f \in DOMAIN run.read
        /\ file' = [file EXCEPT ![f] = Migrated(run.read, f)]
        /\ run'.pc = "writing" /\ run'.todo = run.todo \ {f} /\ run'.read = run.read
    BY <1>7, WriteDoes DEF f, RunInv, Becomes
  <2>2. Migrated(run.read, f) \notin NoFile
    BY <2>1, MigratedType DEF RunInv, Active
  <2>3. ASSUME NEW g \in DOMAIN run'.read \ run'.todo PROVE Serves(g)'
    BY <1>0, <1>1, <2>1, <2>2, <2>3 DEF Serves
  <2> QED BY <1>1, <2>1, <2>3 DEF Converted, Reading
<1>8. CASE Written /\ ByMigration
  <2>1. /\ run.pc = "writing" /\ run.todo = {} /\ UNCHANGED file /\ run'.pc = "done" /\ run'.read = run.read
    BY <1>8, WrittenDoes DEF Becomes
  <2>2. \A g \in DOMAIN run'.read : Serves(g)'
    BY <1>1, <2>1 DEF Serves
  <2> QED BY <1>1, <2>1, <2>2 DEF Converted, Reading
<1>9. CASE (Diagnose \/ Prepare \/ BackUpOnce \/ BackUpFails \/ Replace \/ GivesUp) /\ ByDoctor
  <2>1. ~Active /\ UNCHANGED run
    BY <1>9 DEF ByDoctor
  <2>2. \/ UNCHANGED file
        \/ /\ file' = [file EXCEPT ![Profile] = doctor.updated]
           /\ file[Profile] \notin NoFile /\ doctor.updated \notin NoFile
           /\ doctor.updated.upstreams = file[Profile].upstreams
    BY <1>9, DoctorDoes DEF Alone, RunInv, Present
  <2>3. ASSUME NEW g \in DOMAIN run.read, Serves(g) PROVE Serves(g)'
    BY <1>0, <2>1, <2>2, <2>3 DEF Serves
  <2> QED BY <1>1, <2>1, <2>3 DEF Active, Converted, Reading
<1>10. ASSUME NEW h \in Files, Edit(h) PROVE Converted'
  <2>1. PICK added \in SUBSET Servers, text \in Content(h) :
           /\ file[h] \notin NoFile /\ text \notin NoFile
           /\ IF h = Profile THEN text.upstreams = file[h].upstreams
              ELSE text.servers = file[h].servers \union added /\ text.via = file[h].via
           /\ file' = [file EXCEPT ![h] = text]
           /\ UNCHANGED run
    BY <1>10, EditDoes
  <2>2. ASSUME NEW g \in DOMAIN run.read, Serves(g) PROVE Serves(g)'
    BY <1>0, <2>1, <2>2 DEF Serves
  <2> QED BY <1>1, <2>1, <2>2 DEF Converted, Reading
<1>11. CASE DeleteBackups \/ UNCHANGED vars
  <2>1. UNCHANGED <<file, run>>
    BY <1>11 DEF DeleteBackups, vars, history
  <2> QED BY <1>1, <2>1 DEF Converted, Reading, Serves
<1> HIDE DEF f
<1> QED BY <1>3, <1>4, <1>5, <1>6, <1>7, <1>8, <1>9, <1>10, <1>11, StepCases

(* Repairs and migrations that are not mingled.                            *)
LEMMA AloneInvariant == Spec => []AloneInv
<1>1. Init => AloneInv
  <2> SUFFICES ASSUME Init PROVE AloneInv
    OBVIOUS
  <2>1. PICK before \in InitialFiles : file = before
    BY DEF Init
  <2>2. \A g \in Files : edits[g] = 0 /\ (file[g] # Absent => file[g].user = 0)
    BY <2>1, InitialAssumption DEF Init, Files
  <2>3. Dated
    BY <2>2, EmptyDomain DEF Dated, ByNow, Init, Idle, Resting, NoFile, Files
  <2>4. Alone /\ Unchanged /\ Converted
    BY DEF Init, Idle, Resting, Alone, Unchanged, Converted, Active, Reading, Reverting
  <2> QED BY <2>3, <2>4 DEF AloneInv
<1>2. (TypeOK /\ RunInv) /\ (TypeOK /\ RunInv)' /\ AloneInv /\ [Next]_vars => AloneInv'
  <2> SUFFICES ASSUME TypeOK, RunInv, TypeOK', RunInv', AloneInv, [Next]_vars PROVE AloneInv'
    OBVIOUS
  <2>1. Dated'
    BY DatedStep DEF AloneInv
  <2>2. ASSUME ~mingled' PROVE Alone' /\ Unchanged' /\ Converted'
    <3>1. ~mingled
      BY <2>2, StepCases DEF ByMigration, ByDoctor, Edit, DeleteBackups, vars, history
    <3>2. Dated /\ Alone /\ Unchanged /\ Converted
      BY <3>1 DEF AloneInv
    <3> QED BY <2>2, <3>2, AloneStep, UnchangedStep, ConvertedStep
  <2> QED BY <2>1, <2>2 DEF AloneInv
<1> QED BY <1>1, <1>2, RunInvariant, PTL DEF Spec

(* A migration that rolls back leaves the files as it read them            *)
(* (migration.py:328-336), for what no other program has changed.          *)
THEOREM RollBacksRestore == Spec => []RolledBack
<1>1. TypeOK /\ RunInv /\ AloneInv => RolledBack
  <2> SUFFICES ASSUME TypeOK, RunInv, AloneInv, run.pc = "rolledback", ~mingled, NEW g \in DOMAIN run.read
               PROVE  IF run.read[g] = Absent THEN file[g] = Absent
                      ELSE run.read[g].user = edits[g] =>
                               file[g] \notin NoFile
                               /\ IF g = Profile THEN file[g].upstreams = run.read[g].upstreams
                                  ELSE file[g] = run.read[g]
    BY DEF RolledBack
  <2> QED BY DEF AloneInv, Unchanged, Same
<1> QED BY <1>1, RunInvariant, AloneInvariant, PTL


(* When the definitions agree, the new profile has one of each key: those  *)
(* of the clients, and those it had.                                       *)
LEMMA ServedOnce ==
    ASSUME NEW read, Convertible(read), OrEmpty(read[Profile]) \in ProfileTexts
    PROVE  /\ Agree(Migrated(read, Profile).upstreams)
           /\ Wanted(read) \union OrEmpty(read[Profile]).upstreams \subseteq Migrated(read, Profile).upstreams
<1> DEFINE old == OrEmpty(read[Profile]).upstreams
           kept == {x \in old : \A y \in Wanted(read) : x[1] # y[1]}
<1>1. Migrated(read, Profile).upstreams = kept \union Wanted(read)
  BY DEF Migrated, ProfileTexts
<1>2. \A x, y \in Wanted(read) \union old : x[1] = y[1] => x = y
  BY DEF Convertible, Agree
<1>3. kept \subseteq old /\ \A x \in old : x \in kept \/ \E y \in Wanted(read) : x[1] = y[1]
  OBVIOUS
<1> HIDE DEF kept, old
<1>4. Agree(kept \union Wanted(read))
  BY <1>2, <1>3 DEF Agree
<1>5. old \subseteq kept \union Wanted(read)
  BY <1>2, <1>3
<1> QED BY <1>1, <1>4, <1>5 DEF old

(* When a migration is done, a key has one definition, and each client     *)
(* reaches what it reached before, unless it had an entry for Irigate that *)
(* was replaced (migration.py:300) or a repair was at work.                *)
THEOREM MigratedClientsServed == Spec => []MigratedServed
<1>1. TypeOK /\ RunInv /\ AloneInv => MigratedServed
  <2> SUFFICES ASSUME TypeOK, RunInv, AloneInv, run.pc = "done", ~mingled PROVE MigratedServed
    BY DEF MigratedServed
  <2> DEFINE new == Migrated(run.read, Profile).upstreams
             old == OrEmpty(run.read[Profile])
  <2>1. Convertible(run.read) /\ Profile \in DOMAIN run.read /\ \A g \in DOMAIN run.read : Serves(g)
    BY DEF AloneInv, Converted, RunInv, Taken
  <2>2. old \in ProfileTexts
    BY <2>1, OrEmptyType DEF RunInv, Taken, TypeOK, TextsOf
  <2>3. file[Profile] \notin NoFile /\ file[Profile].upstreams = new
    BY <2>1 DEF Serves
  <2>4. Agree(new) /\ Wanted(run.read) \union old.upstreams \subseteq new
    BY <2>1, <2>2, ServedOnce
  <2>5. Agree(OrEmpty(file[Profile]).upstreams)
    BY <2>3, <2>4 DEF OrEmpty, NoFile
  <2> HIDE DEF new, old
  <2>6. ASSUME NEW c \in DOMAIN run.read \ {Profile}, run.read[c].via = {} \/ run.read[c].servers = {},
               NEW s \in run.read[c].servers \union old.upstreams, Reaches(run.read[c], old, s)
        PROVE  Reaches(file[c], file[Profile], s)
    <3>1. run.read[c] \in ClientTexts
      BY DEF RunInv, Taken, TypeOK, TextsOf, Content
    <3>2. file[c] \notin NoFile /\ file[c].via = Migrated(run.read, c).via
          /\ Migrated(run.read, c).servers \subseteq file[c].servers
      BY <2>1, <2>6 DEF Serves
    <3>3. s \in new
      BY <2>4, <2>6 DEF Reaches, Wanted
    <3>4. CASE run.read[c].servers = {}
      <4>1. Migrated(run.read, c) = run.read[c]
        BY <2>6, <3>4 DEF Migrated
      <4> QED BY <2>3, <2>6, <3>2, <3>3, <3>4, <4>1 DEF Reaches
    <3>5. CASE run.read[c].servers # {}
      <4>1. Migrated(run.read, c).via = {x[1] : x \in run.read[c].servers}
        BY <2>6, <3>1, <3>5 DEF Migrated, ClientTexts
      <4>2. s \in run.read[c].servers
        BY <2>6, <3>5 DEF Reaches
      <4>3. s[1] \in file[c].via
        BY <3>2, <4>1, <4>2
      <4> QED BY <2>3, <3>2, <3>3, <4>3 DEF Reaches
    <3> QED BY <3>4, <3>5
  <2> QED BY <2>5, <2>6 DEF MigratedServed, old
<1> QED BY <1>1, RunInvariant, AloneInvariant, PTL

-----------------------------------------------------------------------------
(* The files of the clients: what is in one, in its backup, or in what a   *)
(* run puts back.                                                          *)
(* A run keeps a client before it writes it, and puts back what it kept.   *)
LEMMA ClientStep ==
    ASSUME TypeOK, TypeOK', RunInv, RunInv', [Next]_vars,
           NEW c \in Clients, c \notin unsafe', ClientKept(c), ClientHeld(c), ClientBack(c)
    PROVE  ClientKept(c)' /\ ClientHeld(c)' /\ ClientBack(c)'
<1> DEFINE f == First(run.todo)
<1>0. /\ DOMAIN file = Files /\ DOMAIN backup = Files /\ c \in Files /\ c # Profile
      /\ file[c] # Absent
      /\ Direct(Absent) = {} /\ Direct(Partial) = {} /\ ~Has(c, Absent) /\ ~Has(c, Partial)
  BY FileAssumption DEF TypeOK, TextsOf, Files, NoFile, RunInv, Present, Direct, Has
<1>1. ASSUME UNCHANGED <<edits, owned, deleted, run>>, file'[c] = file[c], backup'[c] = backup[c]
      PROVE  ClientKept(c)' /\ ClientHeld(c)' /\ ClientBack(c)'
  BY <1>1 DEF ClientKept, ClientHeld, ClientBack, Has, Active, Reverting
<1>2. CASE (\E selected \in SUBSET Clients \ {{}} : Load(selected)) /\ ByMigration
  <2>1. PICK selected \in SUBSET Clients \ {{}} : Load(selected)
    BY <1>2
  <2>2. /\ UNCHANGED <<file, backup>>
        /\ \/ Becomes("refused", {}, <<>>, <<>>, {})
           \/ Becomes("backing", selected \union {Profile}, [g \in selected \union {Profile} |-> file[g]], <<>>, {})
    BY <2>1, LoadDoes
  <2>3. run'.originals = <<>> /\ run'.made = {}
    BY <2>2 DEF Becomes
  <2> QED BY <1>2, <2>2, <2>3, EmptyDomain DEF ClientKept, ClientHeld, ClientBack, Has, ByMigration
<1>3. CASE (BackUp \/ CopyFails) /\ ByMigration
  <2> HIDE DEF f
  <2>1. /\ run.pc = "backing" /\ f \in Files /\ f \in DOMAIN run.read \ DOMAIN run.originals
        /\ UNCHANGED <<file, edits, owned, deleted>> /\ run'.originals = Kept(f)
        /\ \/ /\ UNCHANGED backup
              /\ run'.pc = "restoring" /\ run'.todo = DOMAIN Kept(f) /\ run'.made = run.made
           \/ /\ backup[f] = Absent
              /\ \E t \in NoFile \union {file[f]} : backup' = [backup EXCEPT ![f] = t]
              /\ run'.pc = "restoring" /\ run'.todo = DOMAIN Kept(f) /\ run'.made = run.made
           \/ /\ UNCHANGED backup
              /\ run'.pc = "backing" /\ run'.made = run.made
           \/ /\ file[f] # Absent /\ backup[f] = Absent
              /\ backup' = [backup EXCEPT ![f] = file[f]]
              /\ run'.pc = "backing" /\ run'.made = run.made \union {f}
    BY <1>3, BackUpDoes, CopyFailsDoes DEF f, ByMigration, RunInv, Becomes
  <2>2. /\ DOMAIN Kept(f) = DOMAIN run.originals \union {f} /\ Kept(f)[f] = file[f]
        /\ \A g \in DOMAIN run.originals : g # f => Kept(f)[g] = run.originals[g]
    BY <2>1, KeptType
  <2>3. run.made \subseteq DOMAIN run.originals /\ (c = f => file[c] # Partial) /\ f \notin run.made /\ Active
    BY <2>1 DEF RunInv, Taken, Present, Active, Reading
  <2>4. ClientKept(c)'
    BY <1>0, <2>1, <2>3 DEF ClientKept, Has
  <2>5. ClientHeld(c)'
    BY <1>0, <2>1, <2>2, <2>3 DEF ClientKept, ClientHeld, Has
  <2>6. ClientBack(c)'
    BY <2>1, <2>2, <2>3 DEF ClientBack, Reverting
  <2> QED BY <2>4, <2>5, <2>6
<1>4. CASE (BackedUp \/ Written \/ Fails \/ Dies) /\ ByMigration
  <2>1. /\ UNCHANGED <<file, backup, edits, owned, deleted>> /\ Active
        /\ run'.made = run.made /\ run'.originals = run.originals
        /\ run'.pc \in {"writing", "done", "crashed"} \/ (run'.pc = "restoring" /\ run'.todo = DOMAIN run.originals)
    BY <1>4, BackedUpDoes, WrittenDoes, FailsDoes, DiesDoes DEF Becomes, ByMigration, Active, Reading
  <2>2. run.made \subseteq DOMAIN run.originals
    BY <2>1 DEF RunInv, Taken
  <2> QED BY <2>1, <2>2 DEF ClientKept, ClientHeld, ClientBack, Has, Reverting, Active
<1>5. CASE Write /\ ByMigration
  <2> HIDE DEF f
  <2>1. /\ run.pc = "writing" /\ f \in DOMAIN run.read
        /\ file' = [file EXCEPT ![f] = Migrated(run.read, f)] /\ UNCHANGED <<backup, edits, owned, deleted>>
        /\ run'.pc = "writing" /\ run'.originals = run.originals /\ run'.made = run.made
    BY <1>5, WriteDoes DEF f, RunInv, ByMigration, Becomes
  <2>2. c = f => c \in DOMAIN run.originals /\ c \in run.made /\ backup[c] = run.originals[c]
    BY <1>0, <2>1 DEF RunInv, Taken, Ahead, Present, Active, Reading
  <2>3. c = f => (deleted \/ owned[c] \subseteq Direct(backup[c])) /\ Has(c, backup[c])
    BY <2>1, <2>2 DEF ClientHeld, Active
  <2>4. ClientKept(c)'
    BY <1>0, <2>1, <2>3 DEF ClientKept, Has
  <2>5. ClientHeld(c)' /\ ClientBack(c)'
    BY <2>1 DEF ClientHeld, ClientBack, Has, Active, Reverting
  <2> QED BY <2>4, <2>5
<1>6. CASE (Restore \/ Fill) /\ ByMigration
  <2> HIDE DEF f
  <2>1. /\ Reverting /\ Active /\ f \in run.todo /\ f \in DOMAIN run.originals
        /\ UNCHANGED <<backup, edits, owned, deleted>>
        /\ run'.originals = run.originals /\ run'.made = run.made
        /\ \/ file' = [file EXCEPT ![f] = run.originals[f]] /\ run'.todo = run.todo \ {f}
           \/ file' = [file EXCEPT ![f] = Partial] /\ run'.todo = run.todo
    BY <1>6, RestoreDoes, FillDoes DEF f, RunInv, ByMigration, Becomes, Reverting, Active
  <2>2. ClientKept(c)'
    BY <1>0, <2>1 DEF ClientKept, ClientHeld, Has
  <2>3. ClientHeld(c)'
    BY <2>1 DEF ClientHeld, Has
  <2>4. ClientBack(c)'
    BY <1>0, <2>1 DEF ClientBack, ClientHeld, Has
  <2> QED BY <2>2, <2>3, <2>4
<1>7. CASE Restored /\ ByMigration
  <2>1. /\ run.pc = "restoring" /\ run.todo = {} /\ UNCHANGED <<file, edits, owned, deleted>>
        /\ backup' = [g \in Files |-> IF g \in run.made THEN Absent ELSE backup[g]]
        /\ run'.pc = "rolledback"
    BY <1>7, RestoredDoes DEF ByMigration, Becomes
  <2>2. ClientKept(c)'
    BY <1>0, <2>1 DEF ClientKept, ClientBack, Has, Reverting
  <2> QED BY <2>1, <2>2 DEF ClientHeld, ClientBack, Active, Reverting
<1>8. CASE (Diagnose \/ Prepare \/ BackUpOnce \/ BackUpFails \/ Replace \/ GivesUp) /\ ByDoctor
  <2>1. UNCHANGED <<backup, run, edits, owned, deleted>> /\ file'[c] = file[c]
    BY <1>0, <1>8, DoctorDoes DEF ByDoctor
  <2> QED BY <1>1, <2>1
<1>9. ASSUME NEW g \in Files, Edit(g) PROVE ClientKept(c)' /\ ClientHeld(c)' /\ ClientBack(c)'
  <2>1. PICK added \in SUBSET Servers, text \in Content(g) :
           /\ file[g] \notin NoFile /\ text \notin NoFile /\ text.user = edits[g] + 1
           /\ IF g = Profile THEN UNCHANGED owned
              ELSE text.servers = file[g].servers \union added /\ owned' = [owned EXCEPT ![g] = @ \union added]
           /\ file' = [file EXCEPT ![g] = text]
           /\ edits' = [edits EXCEPT ![g] = @ + 1]
           /\ unsafe' = IF Overtaken(g) THEN unsafe \union {g} ELSE unsafe
           /\ UNCHANGED <<backup, run, deleted>>
    BY <1>9, EditDoes
  <2>2. CASE g # c
    <3>1. file'[c] = file[c] /\ owned'[c] = owned[c] /\ edits'[c] = edits[c]
      BY <1>0, <2>1, <2>2 DEF TypeOK
    <3> QED BY <2>1, <3>1 DEF ClientKept, ClientHeld, ClientBack, Has, Active, Reverting
  <2>3. CASE g = c
    <3>1. file'[c] = text /\ owned'[c] = owned[c] \union added /\ edits'[c] = edits[c] + 1
      BY <1>0, <2>1, <2>3 DEF TypeOK
    <3>2. ~(Active /\ c \in DOMAIN run.originals)
      BY <2>1, <2>3 DEF Overtaken
    <3>3. ClientKept(c)'
      <4>1. deleted \/ owned[c] \subseteq Direct(file[c]) \union Direct(backup[c])
        BY <2>1, <2>3 DEF ClientKept, NoFile
      <4>2. Direct(text) = Direct(file[c]) \union added
        BY <1>0, <2>1, <2>3 DEF Direct
      <4>3. Has(c, file[c])'
        BY <2>1, <3>1, <2>3 DEF Has
      <4>4. deleted' \/ owned'[c] \subseteq Direct(file'[c]) \union Direct(backup'[c])
        BY <2>1, <3>1, <4>1, <4>2
      <4> QED BY <4>3, <4>4 DEF ClientKept, Direct
    <3>4. ~(Reverting /\ c \in run.made)
      BY <3>2 DEF RunInv, Taken, Reverting, Active
    <3> QED BY <2>1, <3>2, <3>3, <3>4 DEF ClientHeld, ClientBack, Active, Reverting
  <2> QED BY <2>2, <2>3
<1>10. CASE DeleteBackups
  <2>1. /\ ~Active /\ UNCHANGED <<file, run, edits>> /\ deleted'
        /\ unsafe' = unsafe \union {g \in Files : file[g] \in NoFile \/ file[g].user # edits[g]}
    BY <1>10 DEF DeleteBackups
  <2>2. Has(c, file[c])
    BY <1>0, <2>1 DEF Has
  <2> QED BY <2>1, <2>2 DEF ClientKept, ClientHeld, ClientBack, Has, Active, Reverting
<1>11. CASE UNCHANGED vars
  BY <1>1, <1>11 DEF vars, history
<1> HIDE DEF f
<1> QED BY <1>2, <1>3, <1>4, <1>5, <1>6, <1>7, <1>8, <1>9, <1>10, <1>11, StepCases

LEMMA ClientInvariant == Spec => []ClientInv
<1>1. Init => ClientInv
  <2> SUFFICES ASSUME Init, NEW c \in Clients PROVE ClientKept(c) /\ ClientHeld(c) /\ ClientBack(c)
    BY DEF ClientInv
  <2>1. PICK before \in InitialFiles : file = before
    BY DEF Init
  <2>2. edits[c] = 0 /\ file[c].user = 0 /\ file[c] \notin NoFile /\ owned[c] = file[c].servers
    BY <2>1, InitialAssumption, TextAssumption DEF Init, Files
  <2> QED BY <2>2 DEF Init, Idle, ClientKept, ClientHeld, ClientBack, Direct, Has, Active, Reverting
<1>2. (TypeOK /\ RunInv) /\ (TypeOK /\ RunInv)' /\ ClientInv /\ [Next]_vars => ClientInv'
  <2> SUFFICES ASSUME TypeOK, RunInv, TypeOK', RunInv', ClientInv, [Next]_vars,
                      NEW c \in Clients, c \notin unsafe'
               PROVE  ClientKept(c)' /\ ClientHeld(c)' /\ ClientBack(c)'
    BY DEF ClientInv
  <2>1. c \notin unsafe
    BY StepCases DEF ByMigration, ByDoctor, Edit, DeleteBackups, vars, history
  <2> QED BY <2>1, ClientStep DEF ClientInv
<1> QED BY <1>1, <1>2, RunInvariant, PTL DEF Spec

(* Each server a client was ever given is in its file or in its backup,    *)
(* after any number of migrations, finished or broken off.                 *)
THEOREM ServersAreKept == Spec => []ServersKept
<1>1. TypeOK /\ ClientInv => ServersKept
  <2> SUFFICES ASSUME TypeOK, ClientInv, NEW c \in Clients \ unsafe, ~deleted, file[c] # Partial, NEW s \in owned[c]
               PROVE  \E t \in Texts(c) \ NoFile : s \in t.servers
    BY DEF ServersKept
  <2>1. s \in Direct(file[c]) \union Direct(backup[c])
    BY DEF ClientInv, ClientKept
  <2> QED BY <2>1 DEF Direct, Texts
<1> QED BY <1>1, RunInvariant, ClientInvariant, PTL

-----------------------------------------------------------------------------
(* The profile, which migrations and repairs write.                        *)
LEMMA ProfileMigrationStep ==
    ASSUME TypeOK, TypeOK', RunInv, RunInv', ByMigration,
           (\E selected \in SUBSET Clients \ {{}} : Load(selected))
           \/ BackUp \/ CopyFails \/ BackedUp \/ Write \/ Written \/ Fails \/ Restore \/ Fill \/ Restored \/ Dies,
           ProfileKept, ProfileHeld, RepairHeld
    PROVE  ProfileKept' /\ ProfileHeld' /\ RepairHeld'
<1> DEFINE f == First(run.todo)
<1>0. /\ DOMAIN file = Files /\ DOMAIN backup = Files /\ Profile \in Files
      /\ ~Current(Absent) /\ ~Current(Partial)
      /\ UNCHANGED <<edits, doctor, doctorBackup>>
      /\ \A t : Current(t)' <=> Current(t)
  BY DEF TypeOK, TextsOf, Files, NoFile, Current, ByMigration
<1>1. ASSUME file'[Profile] = file[Profile], Behind => Behind', ProfileHeld'
      PROVE  ProfileKept' /\ ProfileHeld' /\ RepairHeld'
  BY <1>0, <1>1 DEF ProfileKept, RepairHeld
<1>2. CASE \E selected \in SUBSET Clients \ {{}} : Load(selected)
  <2>1. PICK selected \in SUBSET Clients \ {{}} : Load(selected)
    BY <1>2
  <2>2. /\ UNCHANGED <<file, backup>>
        /\ \/ Becomes("refused", {}, <<>>, <<>>, {})
           \/ Becomes("backing", selected \union {Profile}, [g \in selected \union {Profile} |-> file[g]], <<>>, {})
    BY <2>1, LoadDoes
  <2>3. run'.originals = <<>>
    BY <2>2 DEF Becomes
  <2>4. Behind => Behind'
    BY <1>0, <2>2, <2>3, EmptyDomain DEF Behind, Revertible, Current
  <2>5. ProfileHeld'
    BY <2>3, EmptyDomain DEF ProfileHeld
  <2> QED BY <1>1, <2>2, <2>4, <2>5
<1>3. CASE BackUp \/ CopyFails
  <2> HIDE DEF f
  <2>1. /\ run.pc = "backing" /\ f \in Files /\ f \in DOMAIN run.read \ DOMAIN run.originals
        /\ UNCHANGED file /\ run'.originals = Kept(f) /\ run'.pc \in {"backing", "restoring"}
        /\ \/ UNCHANGED backup /\ run'.made = run.made
           \/ /\ backup[f] = Absent /\ run'.made = run.made
              /\ \E t \in NoFile \union {file[f]} : backup' = [backup EXCEPT ![f] = t]
           \/ /\ backup[f] = Absent
              /\ backup' = [backup EXCEPT ![f] = file[f]] /\ run'.made = run.made \union {f}
    BY <1>3, BackUpDoes, CopyFailsDoes DEF f, RunInv, Becomes
  <2>2. /\ DOMAIN Kept(f) = DOMAIN run.originals \union {f} /\ Kept(f)[f] = file[f]
        /\ \A g \in DOMAIN run.originals : g # f => Kept(f)[g] = run.originals[g]
    BY <2>1, KeptType
  <2>3. run.made \subseteq DOMAIN run.originals /\ file[f] # Partial /\ f \notin run.made /\ Active
    BY <2>1 DEF RunInv, Taken, Present, Active, Reading
  <2>4. CASE f # Profile
    <3>1. Profile \in DOMAIN run'.originals <=> Profile \in DOMAIN run.originals
      BY <2>1, <2>2, <2>4
    <3>2. Profile \in run'.made <=> Profile \in run.made
      BY <2>1, <2>4
    <3>3. Profile \in DOMAIN run.originals => run'.originals[Profile] = run.originals[Profile]
      BY <2>1, <2>2, <2>4
    <3>4. backup'[Profile] = backup[Profile]
      BY <1>0, <2>1, <2>4
    <3>5. Revertible' <=> Revertible
      BY <2>1, <3>1 DEF Revertible, Active
    <3>6. Behind => Behind'
      BY <1>0, <3>2, <3>3, <3>4, <3>5 DEF Behind, Revertible
    <3>7. ProfileHeld'
      BY <1>0, <2>3, <3>1, <3>2, <3>3, <3>4 DEF ProfileHeld
    <3> QED BY <1>1, <2>1, <3>6, <3>7
  <2>5. CASE f = Profile
    <3>1. Profile \in DOMAIN run'.originals /\ run'.originals[Profile] = file[Profile]
      BY <2>1, <2>2, <2>5
    <3>2. CASE UNCHANGED backup /\ run'.made = run.made
      <4>1. Profile \notin run'.made /\ backup'[Profile] = backup[Profile]
        BY <2>3, <2>5, <3>2
      <4>2. (Behind /\ ~Current(file[Profile])) => (Behind /\ ~Current(file[Profile]))'
        BY <1>0, <2>1, <3>1, <4>1 DEF Behind
      <4>3. ProfileKept'
        BY <1>0, <2>1, <4>2 DEF ProfileKept
      <4>4. ProfileHeld'
        BY <1>0, <2>3, <2>5, <3>1, <4>1 DEF ProfileHeld, ProfileKept, Behind, NoFile
      <4>5. RepairHeld'
        BY <1>0, <4>2 DEF RepairHeld
      <4> QED BY <4>3, <4>4, <4>5
    <3>3. CASE backup[f] = Absent
      <4>1. ~Behind
        BY <1>0, <2>5, <3>3 DEF Behind
      <4>2. ProfileHeld'
        BY <1>0, <2>3, <2>5, <3>1, <4>1 DEF ProfileHeld, ProfileKept, NoFile
      <4> QED BY <1>1, <2>1, <4>1, <4>2
    <3> QED BY <2>1, <3>2, <3>3
  <2> QED BY <2>4, <2>5
<1>4. CASE BackedUp \/ Written \/ Fails \/ Dies
  <2>1. /\ UNCHANGED <<file, backup>> /\ Active
        /\ run'.made = run.made /\ run'.originals = run.originals
        /\ \/ run'.pc \in {"done", "crashed"}
           \/ run'.pc = "writing" /\ run.pc = "backing"
           \/ run'.pc = "restoring" /\ Reading /\ run.todo # {}
    BY <1>4, BackedUpDoes, WrittenDoes, FailsDoes, DiesDoes DEF Becomes, Active, Reading
  <2>2. Revertible' => Revertible
    BY <2>1 DEF Revertible, Active, Reading, RunInv, Taken
  <2>3. Behind => Behind'
    BY <1>0, <2>1, <2>2 DEF Behind
  <2>4. ProfileHeld'
    BY <1>0, <2>1 DEF ProfileHeld
  <2> QED BY <1>1, <2>1, <2>3, <2>4
<1>5. CASE Write
  <2> HIDE DEF f
  <2>1. /\ run.pc = "writing" /\ f \in DOMAIN run.read /\ f \in run.todo /\ (f = Profile => run.todo = {f})
        /\ file' = [file EXCEPT ![f] = Migrated(run.read, f)] /\ UNCHANGED backup
        /\ run'.pc = "writing" /\ run'.originals = run.originals /\ run'.made = run.made
        /\ run'.read = run.read /\ run'.todo = run.todo \ {f}
    BY <1>5, WriteDoes DEF f, RunInv, Becomes
  <2>2. ProfileHeld'
    BY <1>0, <2>1 DEF ProfileHeld, Active
  <2>3. CASE f # Profile
    <3>1. Revertible' <=> Revertible
      BY <2>1, <2>3 DEF Revertible, Active
    <3>2. Behind => Behind'
      BY <1>0, <2>1, <3>1 DEF Behind
    <3> QED BY <1>0, <1>1, <2>1, <2>2, <2>3, <3>2
  <2>4. CASE f = Profile
    <3>1. ~Revertible' /\ Revertible /\ Profile \in DOMAIN run.originals /\ Active
      BY <2>1, <2>4 DEF Revertible, Active, RunInv, Ahead
    <3>2. Profile \in run.made \/ run.originals[Profile] = Absent
      BY <2>1, <3>1 DEF RunInv, Taken, Reading
    <3>3. CASE run.originals[Profile] = Absent
      <4>1. file[Profile] = Absent /\ edits[Profile] = 0 /\ doctor.pc = "idle"
        BY <3>1, <3>3 DEF RunInv, Present
      <4>2. run.read[Profile] = Absent
        BY <3>1, <4>1 DEF RunInv, Present
      <4>3. Migrated(run.read, Profile).user = 0
        BY <4>2 DEF Migrated, OrEmpty
      <4>4. Migrated(run.read, Profile) \notin NoFile
        BY <2>1, <2>4, MigratedType DEF RunInv, Active
      <4>5. Current(file[Profile])'
        BY <1>0, <2>1, <2>4, <4>1, <4>3, <4>4 DEF Current
      <4> QED BY <1>0, <2>2, <4>1, <4>5 DEF ProfileKept, RepairHeld
    <3>4. CASE run.originals[Profile] # Absent
      <4>1. Profile \in run.made /\ backup[Profile] = run.originals[Profile]
        BY <3>1, <3>2, <3>4 DEF RunInv, Taken
      <4>2. ~Behind
        BY <3>1, <4>1 DEF Behind
      <4>3. Current(backup[Profile]) \/ Current(doctorBackup)
        BY <3>1, <3>4, <4>1 DEF ProfileHeld
      <4>4. Current(backup[Profile]) => Behind'
        BY <1>0, <2>1, <3>1 DEF Behind
      <4>5. ProfileKept'
        BY <1>0, <4>3, <4>4 DEF ProfileKept
      <4>6. RepairHeld'
        BY <1>0, <4>2 DEF RepairHeld
      <4> QED BY <2>2, <4>5, <4>6
    <3> QED BY <3>3, <3>4
  <2> QED BY <2>3, <2>4
<1>6. CASE Restore \/ Fill
  <2> HIDE DEF f
  <2>1. /\ run.pc \in {"restoring", "filling"} /\ f \in run.todo /\ f \in DOMAIN run.originals
        /\ UNCHANGED backup /\ run'.pc \in {"restoring", "filling"}
        /\ run'.originals = run.originals /\ run'.made = run.made
        /\ file' = [file EXCEPT ![f] = run.originals[f]] \/ file' = [file EXCEPT ![f] = Partial]
    BY <1>6, RestoreDoes, FillDoes DEF f, RunInv, Becomes
  <2>2. (Revertible' <=> Revertible) /\ (Profile \in DOMAIN run.originals => Revertible) /\ Active
    BY <2>1 DEF Revertible, Active
  <2>3. Behind => Behind'
    BY <1>0, <2>1, <2>2 DEF Behind
  <2>4. ProfileHeld'
    BY <1>0, <2>1, <2>2 DEF ProfileHeld
  <2>5. CASE f # Profile
    BY <1>0, <1>1, <2>1, <2>3, <2>4, <2>5
  <2>6. CASE f = Profile
    <3>1. file'[Profile] = run.originals[Profile] \/ file'[Profile] = Partial
      BY <1>0, <2>1, <2>6
    <3>2. (Behind /\ ~Current(file[Profile])) => (Behind /\ ~Current(file[Profile]))'
      BY <1>0, <2>1, <2>2, <2>3, <2>6, <3>1 DEF Behind
    <3>3. RepairHeld'
      BY <1>0, <3>2 DEF RepairHeld
    <3>4. CASE file'[Profile] = Partial
      BY <2>4, <3>3, <3>4 DEF ProfileKept, NoFile
    <3>5. CASE file'[Profile] = run.originals[Profile]
      <4>1. \/ run.originals[Profile] = Absent \/ Current(run.originals[Profile]) \/ Current(doctorBackup)
            \/ (Profile \notin run.made /\ Current(backup[Profile]))
        BY <2>1, <2>2, <2>6 DEF ProfileHeld
      <4>2. ~Current(run.originals[Profile]) /\ Profile \notin run.made /\ Current(backup[Profile]) => Behind'
        BY <1>0, <2>1 DEF Behind
      <4> QED BY <1>0, <2>4, <3>3, <3>5, <4>1, <4>2 DEF ProfileKept, NoFile
    <3> QED BY <3>1, <3>4, <3>5
  <2> QED BY <2>5, <2>6
<1>7. CASE Restored
  <2>1. /\ run.pc = "restoring" /\ run.todo = {} /\ UNCHANGED file
        /\ backup' = [g \in Files |-> IF g \in run.made THEN Absent ELSE backup[g]]
        /\ run'.pc = "rolledback"
    BY <1>7, RestoredDoes DEF Becomes
  <2>2. run.made \subseteq DOMAIN run.originals /\ Active
    BY <2>1 DEF RunInv, Taken, Active
  <2>3. Behind => Behind'
    BY <1>0, <2>1, <2>2 DEF Behind, Revertible, Active
  <2>4. ProfileHeld'
    BY <2>1 DEF ProfileHeld, Active
  <2> QED BY <1>1, <2>1, <2>3, <2>4
<1> HIDE DEF f
<1> QED BY <1>2, <1>3, <1>4, <1>5, <1>6, <1>7

(* A repair puts back what it has read, and keeps what that replaces.      *)
LEMMA ProfileRepairStep ==
    ASSUME TypeOK, TypeOK', RunInv, RunInv', ByDoctor,
           Diagnose \/ Prepare \/ BackUpOnce \/ BackUpFails \/ Replace \/ GivesUp,
           doctorBackup' = Partial => Alone, ProfileKept, ProfileHeld, RepairHeld
    PROVE  ProfileKept' /\ ProfileHeld' /\ RepairHeld'
<1>0. /\ DOMAIN file = Files /\ Profile \in Files
      /\ ~Current(Absent) /\ ~Current(Partial)
      /\ UNCHANGED <<edits, run, backup>>
      /\ \A t : Current(t)' <=> Current(t)
      /\ Behind' <=> Behind
  BY DEF TypeOK, TextsOf, Files, NoFile, Current, ByDoctor, Behind, Revertible, Active
<1>1. CASE Diagnose \/ GivesUp
  <2>1. doctor'.pc \in {"idle", "diagnosed"} /\ UNCHANGED <<file, doctorBackup>>
    BY <1>1, DoctorDoes
  <2> QED BY <1>0, <2>1 DEF ProfileKept, ProfileHeld, RepairHeld, Active
<1>2. CASE Prepare
  <2>1. UNCHANGED <<file, doctorBackup>>
    BY <1>2, DoctorDoes
  <2>2. ProfileKept' /\ ProfileHeld'
    BY <1>0, <2>1 DEF ProfileKept, ProfileHeld, Active
  <2>3. CASE doctor'.pc = "idle"
    BY <2>2, <2>3 DEF RepairHeld
  <2>4. CASE /\ file[Profile] \notin NoFile /\ doctor'.updated \notin NoFile
             /\ doctor'.updated.user = file[Profile].user
    <3>1. Current(file[Profile]) => Current(doctor'.updated)
      BY <2>4 DEF Current
    <3> QED BY <1>0, <2>1, <2>2, <2>4, <3>1 DEF RepairHeld, ProfileKept
  <2> QED BY <1>2, <2>3, <2>4, DoctorDoes
<1>3. CASE BackUpOnce
  <2>1. /\ doctor.pc = "prepared" /\ doctor'.pc = "saved" /\ doctor'.updated = doctor.updated /\ UNCHANGED file
        /\ doctorBackup' = IF doctorBackup = Absent THEN file[Profile] ELSE doctorBackup
    BY <1>3, DoctorDoes
  <2>2. CASE doctorBackup # Absent
    BY <1>0, <2>1, <2>2 DEF ProfileKept, ProfileHeld, RepairHeld, Active
  <2>3. CASE doctorBackup = Absent
    <3>1. file[Profile] \notin NoFile
      BY <2>1, <2>3 DEF RunInv, Present, NoFile, Alone
    <3>2. ProfileKept' /\ ProfileHeld'
      BY <1>0, <2>1, <2>3, <3>1 DEF ProfileKept, ProfileHeld, Active
    <3>3. RepairHeld'
      BY <1>0, <2>1, <2>3, <3>1 DEF ProfileKept, RepairHeld
    <3> QED BY <3>2, <3>3
  <2> QED BY <2>2, <2>3
<1>4. CASE Replace
  <2>1. /\ doctor.pc = "saved" /\ file'[Profile] = doctor.updated /\ doctor'.pc = "idle" /\ UNCHANGED doctorBackup
    BY <1>0, <1>4, DoctorDoes
  <2>2. ProfileKept'
    BY <1>0, <2>1 DEF ProfileKept, RepairHeld
  <2>3. ProfileHeld'
    BY <1>0, <2>1 DEF ProfileHeld, Active
  <2> QED BY <2>1, <2>2, <2>3 DEF RepairHeld
<1>5. CASE BackUpFails
  <2>1. doctor'.pc = "idle" /\ doctorBackup = Absent /\ UNCHANGED file
    BY <1>5, DoctorDoes
  <2> QED BY <1>0, <2>1 DEF ProfileKept, ProfileHeld, RepairHeld, Active
<1> QED BY <1>1, <1>2, <1>3, <1>4, <1>5

(* An edit that overtakes nobody is current in the file.                   *)
LEMMA ProfileEditStep ==
    ASSUME TypeOK, TypeOK', RunInv, Profile \notin unsafe',
           (\E g \in Files : Edit(g)) \/ DeleteBackups \/ UNCHANGED vars,
           ProfileKept, ProfileHeld, RepairHeld
    PROVE  ProfileKept' /\ ProfileHeld' /\ RepairHeld'
<1>0. DOMAIN file = Files /\ Profile \in Files
  BY DEF TypeOK, TextsOf, Files
<1>1. ASSUME NEW g \in Files, Edit(g) PROVE ProfileKept' /\ ProfileHeld' /\ RepairHeld'
  <2>1. PICK text \in Content(g) :
           /\ text \notin NoFile /\ text.user = edits[g] + 1
           /\ file' = [file EXCEPT ![g] = text]
           /\ edits' = [edits EXCEPT ![g] = @ + 1]
           /\ unsafe' = IF Overtaken(g) THEN unsafe \union {g} ELSE unsafe
           /\ UNCHANGED <<backup, run, doctor, doctorBackup>>
    BY <1>1, EditDoes
  <2>2. CASE g # Profile
    <3>1. file'[Profile] = file[Profile] /\ edits'[Profile] = edits[Profile]
      BY <1>0, <2>1, <2>2 DEF TypeOK
    <3> QED BY <2>1, <3>1 DEF ProfileKept, ProfileHeld, RepairHeld, Behind, Current, Revertible, Active
  <2>3. CASE g = Profile
    <3>1. Current(file[Profile])'
      BY <1>0, <2>1, <2>3 DEF Current, TypeOK
    <3>2. ~Overtaken(Profile)
      BY <2>1, <2>3
    <3>3. ~(Active /\ Profile \in DOMAIN run.originals) /\ doctor.pc # "saved"
          /\ ~(doctor.pc = "prepared" /\ doctorBackup # Absent)
      BY <3>2 DEF Overtaken
    <3> QED BY <2>1, <3>1, <3>3 DEF ProfileKept, ProfileHeld, RepairHeld, Active
  <2> QED BY <2>2, <2>3
<1>2. CASE DeleteBackups
  <2>1. /\ ~Active /\ UNCHANGED <<file, run, edits, doctor, doctorBackup>>
        /\ unsafe' = unsafe \union {g \in Files : file[g] \in NoFile \/ file[g].user # edits[g]}
    BY <1>2 DEF DeleteBackups
  <2>2. Current(file[Profile])
    BY <1>0, <2>1 DEF Current
  <2> QED BY <2>1, <2>2 DEF ProfileKept, ProfileHeld, RepairHeld, Current, Active
<1>3. CASE UNCHANGED vars
  BY <1>3 DEF vars, history, ProfileKept, ProfileHeld, RepairHeld, Behind, Current, Revertible, Active
<1> QED BY <1>1, <1>2, <1>3

LEMMA ProfileInvariant == Spec => []ProfileInv
<1>1. Init => ProfileInv
  <2> SUFFICES ASSUME Init PROVE ProfileKept /\ ProfileHeld /\ RepairHeld
    BY DEF ProfileInv
  <2>1. PICK before \in InitialFiles : file = before
    BY DEF Init
  <2>2. file[Profile] # Absent => Current(file[Profile])
    BY <2>1, InitialAssumption, TextAssumption DEF Init, Current, Files
  <2> QED BY <2>2 DEF Init, Idle, Resting, ProfileKept, ProfileHeld, RepairHeld, Active, NoFile
<1>2. (TypeOK /\ RunInv) /\ (TypeOK /\ RunInv)' /\ AloneInv /\ ProfileInv /\ [Next]_vars => ProfileInv'
  <2> SUFFICES ASSUME TypeOK, RunInv, TypeOK', RunInv', AloneInv, ProfileInv, [Next]_vars,
                      Profile \notin unsafe', doctorBackup' = Partial => ~mingled'
               PROVE  ProfileKept' /\ ProfileHeld' /\ RepairHeld'
    BY DEF ProfileInv
  <2>1. Profile \notin unsafe
    BY StepCases DEF ByMigration, ByDoctor, Edit, DeleteBackups, vars, history
  <2>2. ~mingled' => ~mingled
    BY StepCases DEF ByMigration, ByDoctor, Edit, DeleteBackups, vars, history
  <2>3. doctorBackup = Partial => doctorBackup' = Partial
    <3>1. (Diagnose \/ Prepare \/ BackUpOnce \/ BackUpFails \/ Replace \/ GivesUp) =>
              (doctorBackup = Partial => doctorBackup' = Partial)
      BY FileAssumption, DoctorDoes
    <3> QED BY <3>1, StepCases DEF ByMigration, Edit, DeleteBackups, vars, history
  <2>4. ProfileKept /\ ProfileHeld /\ RepairHeld
    BY <2>1, <2>2, <2>3 DEF ProfileInv
  <2>5. doctorBackup' = Partial => Alone
    BY <2>2 DEF AloneInv
  <2> QED BY <2>4, <2>5, StepCases, ProfileMigrationStep, ProfileRepairStep, ProfileEditStep
<1> QED BY <1>1, <1>2, RunInvariant, AloneInvariant, PTL DEF Spec

(* The last change another program made to a file is in the file or in a   *)
(* backup, however migrations, repairs and the programs interleave.        *)
THEOREM EditsAreKept == Spec => []EditsKept
<1>1. TypeOK /\ RunInv /\ ClientInv /\ ProfileInv => EditsKept
  <2> SUFFICES ASSUME TypeOK, RunInv, ClientInv, ProfileInv, NEW g \in Files \ unsafe
               PROVE  \/ \E t \in Texts(g) \ NoFile : t.user = edits[g]
                      \/ file[g] = Partial
                      \/ g = Profile /\ ((doctorBackup = Partial /\ mingled) \/ (file[g] = Absent /\ edits[g] = 0))
    BY DEF EditsKept
  <2>1. CASE g \in Clients
    <3>1. file[g] = Partial \/ Has(g, file[g]) \/ Has(g, backup[g])
      BY <2>1 DEF ClientInv, ClientKept
    <3> QED BY <3>1 DEF Has, Texts
  <2>2. CASE g = Profile /\ ~(doctorBackup = Partial /\ mingled)
    <3>1. file[g] \in NoFile \/ Current(file[g]) \/ Current(doctorBackup) \/ Current(backup[g])
      BY <2>2 DEF ProfileInv, ProfileKept, Behind
    <3>2. file[g] = Absent => edits[g] = 0
      BY <2>2 DEF RunInv, Present
    <3> QED BY <2>2, <3>1, <3>2 DEF Current, Texts, NoFile
  <2> QED BY <2>1, <2>2 DEF Files
<1> QED BY <1>1, RunInvariant, ClientInvariant, ProfileInvariant, PTL
=====
