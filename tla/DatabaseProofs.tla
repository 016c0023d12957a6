--------------------------- MODULE DatabaseProofs ---------------------------
(***************************************************************************)
(* For every set of processes, of backups and of files to start from: the  *)
(* store opens on a current and complete schema only, the backups are      *)
(* snapshots, and the schema and its version switch at once.               *)
(***************************************************************************)
EXTENDS Database, TLAPS

USE DatabaseAssumption

-----------------------------------------------------------------------------
(* A statement adds required objects, and what it is there for.            *)
LEMMA StatementAdds ==
  ASSUME NEW objects \in Schema, "alien" \notin objects, NEW k \in 1..Statements
  PROVE  /\ Statement(k, objects) \in Schema
         /\ objects \subseteq Statement(k, objects)
         /\ Statement(k, objects) \subseteq objects \cup Required
         /\ k = 1 => "core" \in Statement(k, objects)
         /\ k = 2 => "columns" \in Statement(k, objects)
         /\ k = 4 => "indexes" \in Statement(k, objects)
         /\ k = 5 => "triggers" \in Statement(k, objects)
<1>1. k \in {1, 2, 3, 4, 5}
  BY DEF Statements
<1>2. CASE k = 1
  BY <1>2 DEF Statement, Created, Schema, Required, Spoilers
<1>3. CASE k = 2
  BY <1>3 DEF Statement, Created, Schema, Required, Spoilers
<1>4. CASE k = 3
  BY <1>4 DEF Statement, Created, Schema, Required, Spoilers
<1>5. CASE k = 4
  BY <1>5 DEF Statement, Created, Schema, Required, Spoilers
<1>6. CASE k = 5
  BY <1>6 DEF Statement, Created, Schema, Required, Spoilers
<1> QED
  BY <1>1, <1>2, <1>3, <1>4, <1>5, <1>6

(* Whoever migrates has the write transaction, and is the only one. *)
LEMMA MigratingWrites ==
  ASSUME TypeOK, NEW p \in Processes, pc[p] = "migrating"
  PROVE  /\ writer = p /\ work \in File
         /\ \A q \in Processes : pc[q] = "migrating" => q = p
BY DEF TypeOK

LEMMA InitInv == Init => Inv
BY DEF Init, Inv, TypeOK, WorkFollowsDisk, StatementsDone, OldOrCurrent,
       CopiesAreSnapshots, OpenMeansCurrent, BackupIsSnapshot, Statements

(* The actions of a process that leave the file and the backups alone. *)
LEMMA QuietSteps ==
  ASSUME Inv, NEW p \in Processes,
         Start(p) \/ ReadVersion(p) \/ BeginMigration(p) \/ GiveUp(p)
           \/ Check(p) \/ Stop(p) \/ Probe(p) \/ EndProbe(p)
  PROVE  Inv'
<1> USE DEF Inv
<1>1. UNCHANGED <<disk, past, job, temp, dest>>
  BY DEF Start, ReadVersion, BeginMigration, GiveUp, Check, Stop, Probe,
         EndProbe, Rollback, Begin, backupVars
<1>2. TypeOK'
  BY <1>1 DEF TypeOK, Start, ReadVersion, BeginMigration, GiveUp, Check, Stop,
         Probe, EndProbe, Rollback, Begin, Statements
<1>3. WorkFollowsDisk'
  BY <1>1 DEF TypeOK, WorkFollowsDisk, Start, ReadVersion, BeginMigration, GiveUp,
         Check, Stop, Probe, EndProbe, Rollback, Begin
<1>4. StatementsDone'
  BY <1>1 DEF TypeOK, StatementsDone, Start, ReadVersion, BeginMigration, GiveUp,
         Check, Stop, Probe, EndProbe, Rollback, Begin
<1>5. OldOrCurrent'
  BY <1>1 DEF TypeOK, OldOrCurrent, Start, ReadVersion, BeginMigration, GiveUp,
         Check, Stop, Probe, EndProbe, Supported, File
<1>6. OpenMeansCurrent'
  BY <1>1 DEF TypeOK, OpenMeansCurrent, Start, ReadVersion, BeginMigration, GiveUp,
         Check, Stop, Probe, EndProbe, Valid
<1>7. CopiesAreSnapshots' /\ BackupIsSnapshot'
  BY <1>1 DEF CopiesAreSnapshots, BackupIsSnapshot
<1> QED
  BY <1>2, <1>3, <1>4, <1>5, <1>6, <1>7

(* A migration works on pages of its own: the file stays as it is. *)
LEMMA MigrateKeepsInv == ASSUME Inv, NEW p \in Processes, Migrate(p) PROVE Inv'
<1> USE DEF Inv
<1> DEFINE objects == Statement(step + 1, work.objects)
<1>1. /\ pc[p] = "migrating" /\ writer = p /\ work \in File
      /\ \A q \in Processes : pc[q] = "migrating" => q = p
      /\ work.objects \in Schema /\ "alien" \notin work.objects
      /\ step \in 0..(Statements - 1) /\ step + 1 \in 1..Statements
  BY MigratingWrites DEF Migrate, TypeOK, File, Statements
<1>2. /\ objects \in Schema
      /\ work.objects \subseteq objects /\ objects \subseteq work.objects \cup Required
      /\ step + 1 = 1 => "core" \in objects
      /\ step + 1 = 2 => "columns" \in objects
      /\ step + 1 = 4 => "indexes" \in objects
      /\ step + 1 = 5 => "triggers" \in objects
  BY <1>1, StatementAdds
<1>3. /\ work' = [work EXCEPT !.objects = objects] /\ step' = step + 1
      /\ UNCHANGED <<disk, past, writer, pc, job, temp, dest>>
  BY DEF Migrate, backupVars
<1> HIDE DEF objects
<1>4. /\ work' \in File /\ work'.objects = objects
      /\ work'.version = work.version /\ work'.rows = work.rows
  BY <1>1, <1>2, <1>3 DEF File
<1>5. TypeOK'
  BY <1>1, <1>3, <1>4 DEF TypeOK, Statements
<1>6. WorkFollowsDisk'
  BY <1>1, <1>2, <1>3, <1>4 DEF WorkFollowsDisk
<1>7. StatementsDone'
  BY <1>1, <1>2, <1>3, <1>4 DEF StatementsDone, Statements
<1>8. OldOrCurrent' /\ OpenMeansCurrent' /\ CopiesAreSnapshots' /\ BackupIsSnapshot'
  BY <1>3 DEF OldOrCurrent, OpenMeansCurrent, CopiesAreSnapshots, BackupIsSnapshot
<1> QED
  BY <1>5, <1>6, <1>7, <1>8

(* What is committed at the end of a migration is the file it began with,  *)
(* with the new schema and the new version.                                *)
LEMMA FinishUpgrades ==
  ASSUME Inv, NEW p \in Processes, Finish(p)
  PROVE  /\ pc[p] = "migrating" /\ writer = p
         /\ disk' = [disk EXCEPT !.version = Supported, !.objects = @ \cup Required]
         /\ disk' \in File /\ Required \subseteq disk'.objects
         /\ disk.objects \cap Spoilers = {}
         /\ disk.version = 0 \/ disk' = disk
<1> USE DEF Inv
<1>1. /\ pc[p] = "migrating" /\ writer = p /\ work \in File /\ disk \in File
      /\ step = Statements /\ Shaped(work.objects) /\ writer # None
      /\ disk' = [work EXCEPT !.version = Supported]
  BY MigratingWrites DEF Finish, Commit, TypeOK
<1>2. /\ work.version = disk.version /\ work.rows = disk.rows
      /\ disk.objects \subseteq work.objects
      /\ work.objects \subseteq disk.objects \cup Required
  BY <1>1 DEF WorkFollowsDisk
<1>3. Required \subseteq work.objects
  BY <1>1 DEF StatementsDone, Statements, Shaped, Required
<1>4. work.objects = disk.objects \cup Required
  BY <1>2, <1>3
<1>5. disk' = [disk EXCEPT !.version = Supported, !.objects = @ \cup Required]
  BY <1>1, <1>2, <1>4 DEF File
<1>6. disk' \in File /\ Required \subseteq disk'.objects
  BY <1>1, <1>3 DEF File, Supported
<1>7. disk.objects \cap Spoilers = {}
  BY <1>1, <1>2, <1>3 DEF File, Schema, Required, Spoilers
<1>8. disk.version = 0 \/ disk' = disk
  <2>1. CASE disk.version = Supported /\ Required \subseteq disk.objects
    <3>1. work.objects = disk.objects /\ work.version = Supported
      BY <1>2, <1>4, <2>1
    <3>2. /\ disk = [version |-> disk.version, objects |-> disk.objects, rows |-> disk.rows]
          /\ work = [version |-> work.version, objects |-> work.objects, rows |-> work.rows]
      BY <1>1 DEF File
    <3>3. [work EXCEPT !.version = Supported] = work
      BY <1>1, <3>1 DEF File
    <3> QED
      BY <1>1, <1>2, <2>1, <3>1, <3>2, <3>3
  <2> QED
    BY <1>1, <2>1 DEF OldOrCurrent
<1> QED
  BY <1>1, <1>5, <1>6, <1>7, <1>8

LEMMA FinishKeepsInv == ASSUME Inv, NEW p \in Processes, Finish(p) PROVE Inv'
<1> USE DEF Inv
<1>1. /\ pc[p] = "migrating" /\ writer = p
      /\ disk' = [disk EXCEPT !.version = Supported, !.objects = @ \cup Required]
      /\ disk' \in File /\ Required \subseteq disk'.objects /\ disk \in File
  BY FinishUpgrades DEF TypeOK
<1>2. disk'.version = Supported
  BY <1>1 DEF File
<1>3. /\ past' = past \cup {disk'} /\ writer' = None /\ work' = None
      /\ pc' = [pc EXCEPT ![p] = "checking"] /\ UNCHANGED <<step, job, temp, dest>>
  BY DEF Finish, Commit, backupVars
<1>4. TypeOK'
  BY <1>1, <1>3 DEF TypeOK
<1>5. WorkFollowsDisk' /\ StatementsDone'
  BY <1>1, <1>3 DEF TypeOK, WorkFollowsDisk, StatementsDone
<1>6. OldOrCurrent' /\ OpenMeansCurrent'
  BY <1>1, <1>2, <1>3 DEF OldOrCurrent, OpenMeansCurrent
<1>7. CopiesAreSnapshots' /\ BackupIsSnapshot'
  BY <1>3 DEF CopiesAreSnapshots, BackupIsSnapshot
<1> QED
  BY <1>4, <1>5, <1>6, <1>7

(* The other commits find nobody in the middle of a transaction. *)
LEMMA OtherCommitsKeepInv ==
  ASSUME Inv, (\E p \in Processes : Write(p)) \/ NewerRelease
  PROVE  Inv'
<1> USE DEF Inv
<1>1. /\ past' = past \cup {disk'} /\ writer' = None /\ work' = None
      /\ UNCHANGED <<pc, step, job, temp, dest>>
  BY DEF Write, NewerRelease, Commit, backupVars
<1>2. \A q \in Processes : pc[q] \notin {"migrating", "probing"}
  BY DEF TypeOK, Write, NewerRelease
<1>3. disk' \in File /\ disk'.objects = disk.objects
  BY DEF TypeOK, File, Write, NewerRelease, Commit, Supported
<1>4. disk'.version = disk.version \/ \A q \in Processes : pc[q] = "off"
  BY DEF TypeOK, File, Write, NewerRelease, Commit
<1>5. TypeOK'
  BY <1>1, <1>2, <1>3 DEF TypeOK
<1>6. WorkFollowsDisk' /\ StatementsDone'
  BY <1>1, <1>2 DEF WorkFollowsDisk, StatementsDone
<1>7. OldOrCurrent' /\ OpenMeansCurrent'
  BY <1>1, <1>3, <1>4 DEF OldOrCurrent, OpenMeansCurrent
<1>8. CopiesAreSnapshots' /\ BackupIsSnapshot'
  BY <1>1 DEF CopiesAreSnapshots, BackupIsSnapshot
<1> QED
  BY <1>5, <1>6, <1>7, <1>8

(* A backup copies what is committed, and publishes a sound copy only. *)
LEMMA BackupStepsKeepInv ==
  ASSUME Inv, NEW b \in Backups,
         (\E overwrite \in BOOLEAN : CheckDestination(b, overwrite))
           \/ Copy(b) \/ Publish(b) \/ Abandon(b)
  PROVE  Inv'
<1> USE DEF Inv
<1>1. UNCHANGED <<disk, past, writer, work, pc, step>>
  BY DEF CheckDestination, Copy, Publish, Abandon
<1>2. /\ job' \in [Backups -> {"off", "copying", "copied"}]
      /\ temp' \in [Backups -> [file : File, sound : BOOLEAN] \cup {None}]
      /\ dest' \in [file : File, sound : BOOLEAN] \cup {None}
  BY DEF TypeOK, CheckDestination, Copy, Publish, Abandon
<1>3. TypeOK' /\ WorkFollowsDisk' /\ StatementsDone' /\ OldOrCurrent' /\ OpenMeansCurrent'
  BY <1>1, <1>2 DEF TypeOK, WorkFollowsDisk, StatementsDone, OldOrCurrent, OpenMeansCurrent
<1>4. CopiesAreSnapshots'
  BY <1>1 DEF TypeOK, CopiesAreSnapshots, CheckDestination, Copy, Publish, Abandon
<1>5. BackupIsSnapshot'
  BY <1>1 DEF TypeOK, CopiesAreSnapshots, BackupIsSnapshot, CheckDestination, Copy,
              Publish, Abandon
<1> QED
  BY <1>3, <1>4, <1>5

LEMMA NextInv == Inv /\ [Next]_vars => Inv'
<1> SUFFICES ASSUME Inv, [Next]_vars PROVE Inv'
  OBVIOUS
<1>1. CASE UNCHANGED vars
  BY <1>1 DEF vars, Inv, TypeOK, WorkFollowsDisk, StatementsDone, OldOrCurrent,
              CopiesAreSnapshots, OpenMeansCurrent, BackupIsSnapshot
<1>2. CASE Next
  BY <1>2, QuietSteps, MigrateKeepsInv, FinishKeepsInv, OtherCommitsKeepInv,
     BackupStepsKeepInv DEF Next
<1> QED
  BY <1>1, <1>2

(* The invariant of the runs holds of every database that is opened by any *)
(* number of processes.                                                    *)
THEOREM DatabaseInv == Spec => []Inv
<1> QED
  BY InitInv, NextInv, PTL DEF Spec

(* Nobody works on a database whose schema is not current and complete.    *)
THEOREM OpenIsCurrent == Spec => []OpenMeansCurrent
<1>1. Inv => OpenMeansCurrent
  BY DEF Inv
<1> QED
  BY <1>1, DatabaseInv, PTL

(* A published backup is one committed state of the database, and sound. *)
THEOREM BackupsAreSnapshots == Spec => []BackupIsSnapshot
<1>1. Inv => BackupIsSnapshot
  BY DEF Inv
<1> QED
  BY <1>1, DatabaseInv, PTL

-----------------------------------------------------------------------------
Users == {p \in Processes : pc[p] = "open"}

(* Only three actions commit, and only four change who works on the file. *)
LEMMA StepSwitches ==
  ASSUME Inv, Next
  PROVE  Abstract!Next \/ UNCHANGED <<disk, Users>>
<1> USE DEF Inv
<1>1. ASSUME NEW p \in Processes, Finish(p)
      PROVE  Abstract!Upgrade \/ UNCHANGED <<disk, Users>>
  <2>1. UNCHANGED Users
    BY <1>1, FinishUpgrades DEF Finish, Users, TypeOK
  <2> QED
    BY <1>1, <2>1, FinishUpgrades DEF Abstract!Upgrade, Users, Supported
<1>2. ASSUME NEW p \in Processes, Check(p)
      PROVE  Abstract!Open(p) \/ UNCHANGED <<disk, Users>>
  <2>1. disk' = disk
    BY <1>2 DEF Check
  <2>2. CASE Valid(disk)
    <3>1. pc' = [pc EXCEPT ![p] = "open"]
      BY <1>2, <2>2 DEF Check
    <3>2. Users' = Users \cup {p}
      BY <3>1 DEF Users, TypeOK
    <3> QED
      BY <2>1, <2>2, <3>2 DEF Abstract!Open, Abstract!Current, Valid, Supported, Users
  <2>3. CASE ~Valid(disk)
    <3>1. pc[p] = "checking" /\ pc' = [pc EXCEPT ![p] = "off"]
      BY <1>2, <2>3 DEF Check
    <3> QED
      BY <2>1, <3>1 DEF Users, TypeOK
  <2> QED
    BY <2>2, <2>3
<1>3. ASSUME NEW p \in Processes, Write(p)
      PROVE  Abstract!Write
  <2>1. disk' = [disk EXCEPT !.rows = @ + 1] /\ UNCHANGED Users /\ p \in Users
    BY <1>3 DEF Write, Commit, Users
  <2> QED
    BY <2>1 DEF Abstract!Write, Users
<1>4. ASSUME NEW p \in Processes, Stop(p)
      PROVE  Abstract!Leave(p)
  <2>1. disk' = disk /\ Users' = Users \ {p}
    BY <1>4 DEF Stop, Rollback, Users, TypeOK
  <2> QED
    BY <2>1 DEF Abstract!Leave, Users
<1>5. ASSUME NewerRelease
      PROVE  Abstract!NewerRelease
  <2>1. disk' = [disk EXCEPT !.version = 2] /\ UNCHANGED Users /\ Users = {}
    BY <1>5 DEF NewerRelease, Commit, Users, Supported
  <2> QED
    BY <2>1 DEF Abstract!NewerRelease, Users
<1>6. ASSUME NEW p \in Processes,
             Start(p) \/ ReadVersion(p) \/ BeginMigration(p) \/ Migrate(p)
               \/ GiveUp(p) \/ Probe(p) \/ EndProbe(p)
      PROVE  UNCHANGED <<disk, Users>>
  BY <1>6 DEF Start, ReadVersion, BeginMigration, Migrate, GiveUp, Probe, EndProbe,
              Begin, Rollback, Users, TypeOK
<1>7. ASSUME NEW b \in Backups,
             (\E overwrite \in BOOLEAN : CheckDestination(b, overwrite))
               \/ Copy(b) \/ Publish(b) \/ Abandon(b)
      PROVE  UNCHANGED <<disk, Users>>
  BY <1>7 DEF CheckDestination, Copy, Publish, Abandon, Users
<1> QED
  BY <1>1, <1>2, <1>3, <1>4, <1>5, <1>6, <1>7 DEF Next, Abstract!Next

(* Whoever looks at the file sees the old schema with the old version or   *)
(* the new one with the new version, however many processes migrate it and *)
(* wherever they fail or die; rows are never lost on the way.              *)
THEOREM ImplementsSwitch == Spec => ImplementsSchemaSwitch
<1>1. Init => Abstract!Init
  BY DEF Init, Abstract!Init
<1>2. Inv /\ [Next]_vars => [Abstract!Next]_<<disk, Users>>
  <2>1. UNCHANGED vars => UNCHANGED <<disk, Users>>
    BY DEF vars, Users
  <2> QED
    BY <2>1, StepSwitches
<1> QED
  BY <1>1, <1>2, DatabaseInv, PTL DEF Spec, ImplementsSchemaSwitch, Abstract!Spec, Users
=============================================================================
