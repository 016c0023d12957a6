------------------------------ MODULE Database ------------------------------
(***************************************************************************)
(* One SQLite file, the processes that open it (and migrate it on the way) *)
(* and the backups taken of it.                                            *)
(*                                                                         *)
(* disk is what is committed; a migration works on a copy of its own, the  *)
(* pages of its transaction, which a commit puts in place at once and a    *)
(* rollback or the death of the process forgets.  One transaction at a     *)
(* time may write.                                                         *)
(***************************************************************************)
EXTENDS Integers, Sequences, FiniteSets

CONSTANTS
  Processes,  \* that open the file, all of the same release
  Backups,    \* backup commands, all with the same destination
  Files,      \* the databases to start from
  MaxRows,    \* rows that are written, at most
  None

(* A schema is the set of its objects: the table signals with its first    *)
(* columns, the columns added later, the other tables, the indexes and the *)
(* triggers; "alien" is a table signals of another program and "thin" a    *)
(* table of the right name without all of its columns.                     *)
Required == {"core", "columns", "tables", "indexes", "triggers"}
Spoilers == {"alien", "thin"}
Supported == 1  \* DATABASE_SCHEMA_VERSION

Schema == {objects \in SUBSET (Required \cup Spoilers) :
             /\ "alien" \in objects => "core" \notin objects
             /\ "thin" \in objects => "tables" \notin objects}
File == [version : 0..(Supported + 1), objects : Schema, rows : 0..MaxRows]

ASSUME DatabaseAssumption ==
  /\ MaxRows \in Nat
  /\ Files \subseteq File
  /\ None \notin File /\ None \notin Processes

VARIABLES
  disk,   \* the file as committed
  past,   \* every state it was committed in
  writer, \* the process with the write transaction
  work,   \* the file as that transaction sees it
  pc,     \* "off", "opening", "waiting", "migrating", "checking", "open",
          \* and "probing" for the write lock
  step,   \* the statements a migration has executed
  job,    \* of a backup: "off", "copying", "copied"
  temp,   \* its temporary file, and whether it passes quick_check
  dest    \* the published backup

vars == <<disk, past, writer, work, pc, step, job, temp, dest>>
backupVars == <<job, temp, dest>>

Init ==
  /\ disk \in Files
  /\ past = {disk}
  /\ writer = None
  /\ work = None
  /\ pc = [p \in Processes |-> "off"]
  /\ step = 0
  /\ job = [b \in Backups |-> "off"]
  /\ temp = [b \in Backups |-> None]
  /\ dest = None

-----------------------------------------------------------------------------
Begin(p) == writer' = p /\ work' = disk
Commit(file) == disk' = file /\ past' = past \cup {file} /\ writer' = None /\ work' = None

(* Variant: the transaction is left open. *)
RollbackForgotten == UNCHANGED <<disk, past, writer, work>>

Rollback == writer' = None /\ work' = None /\ UNCHANGED <<disk, past>>

(* SQLiteSignalStore.__init__ connects. *)
Start(p) ==
  /\ pc[p] = "off"
  /\ pc' = [pc EXCEPT ![p] = "opening"]
  /\ UNCHANGED <<disk, past, writer, work, step, backupVars>>

(* migrate_database reads the version, outside of any transaction, and     *)
(* refuses a database of a newer release.                                  *)
ReadVersion(p) ==
  /\ pc[p] = "opening"
  /\ \/ disk.version > Supported /\ pc' = [pc EXCEPT ![p] = "off"]
     \/ disk.version < Supported /\ pc' = [pc EXCEPT ![p] = "waiting"]
     \/ disk.version = Supported /\ pc' = [pc EXCEPT ![p] = "checking"]
  /\ UNCHANGED <<disk, past, writer, work, step, backupVars>>

(* BEGIN IMMEDIATE, or the busy timeout while somebody else writes. *)
BeginMigration(p) ==
  /\ pc[p] = "waiting"
  /\ \/ /\ writer = None
        /\ Begin(p)
        /\ pc' = [pc EXCEPT ![p] = "migrating"]
        /\ step' = 0
     \/ /\ writer # None
        /\ pc' = [pc EXCEPT ![p] = "off"]
        /\ UNCHANGED <<writer, work, step>>
  /\ UNCHANGED <<disk, past, backupVars>>

(* What each statement of _migrate_to_v1 adds; CREATE ... IF NOT EXISTS     *)
(* leaves a table of that name as it is.                                   *)
Created(objects) ==
  << IF "core" \in objects THEN {} ELSE {"core", "columns"},
     {"columns"},
     IF "thin" \in objects THEN {} ELSE {"tables"},
     {"indexes"},
     {"triggers"} >>

Statement(k, objects) == objects \cup Created(objects)[k]

Statements == 5

(* Before the first statement the table signals has to look familiar. *)
Migrate(p) ==
  /\ pc[p] = "migrating"
  /\ step < Statements
  /\ "alien" \notin work.objects
  /\ work' = [work EXCEPT !.objects = Statement(step + 1, @)]
  /\ step' = step + 1
  /\ UNCHANGED <<disk, past, writer, pc, backupVars>>

(* _validate_v1_shape looks at tables and columns. *)
Shaped(objects) == {"core", "columns", "tables"} \subseteq objects

(* The version is stamped and everything is committed. *)
Finish(p) ==
  /\ pc[p] = "migrating"
  /\ step = Statements
  /\ Shaped(work.objects)
  /\ Commit([work EXCEPT !.version = Supported])
  /\ pc' = [pc EXCEPT ![p] = "checking"]
  /\ UNCHANGED <<step, backupVars>>

(* Variant: what was done so far is committed. *)
GiveUpHalfway(p) ==
  /\ pc[p] = "migrating"
  /\ Commit(work)
  /\ pc' = [pc EXCEPT ![p] = "off"]
  /\ UNCHANGED <<step, backupVars>>

(* A check, a statement or the commit fails: rollback, and the store does  *)
(* not open.                                                               *)
GiveUp(p) ==
  /\ pc[p] = "migrating"
  /\ Rollback
  /\ pc' = [pc EXCEPT ![p] = "off"]
  /\ UNCHANGED <<step, backupVars>>

(* Variant: a database that has been migrated is taken for complete. *)
ValidVersion(file) == file.version = Supported

(* validate_database_schema *)
Valid(file) == file.version = Supported /\ Required \subseteq file.objects

Check(p) ==
  /\ pc[p] = "checking"
  /\ pc' = [pc EXCEPT ![p] = IF Valid(disk) THEN "open" ELSE "off"]
  /\ UNCHANGED <<disk, past, writer, work, step, backupVars>>

(* A transaction of an open store, see Outbox for what it writes. *)
Write(p) ==
  /\ pc[p] = "open"
  /\ writer = None
  /\ disk.rows < MaxRows
  /\ Commit([disk EXCEPT !.rows = @ + 1])
  /\ UNCHANGED <<pc, step, backupVars>>

(* The process ends, in the middle of whatever it does. *)
Stop(p) ==
  /\ pc[p] # "off"
  /\ pc' = [pc EXCEPT ![p] = "off"]
  /\ IF writer = p THEN Rollback ELSE UNCHANGED <<disk, past, writer, work>>
  /\ UNCHANGED <<step, backupVars>>

(* probe_write_lock takes the write transaction, or hears at once that it  *)
(* is taken, and rolls it back.                                            *)
Probe(p) ==
  /\ pc[p] = "off"
  /\ writer = None
  /\ Begin(p)
  /\ pc' = [pc EXCEPT ![p] = "probing"]
  /\ UNCHANGED <<disk, past, step, backupVars>>

EndProbe(p) ==
  /\ pc[p] = "probing"
  /\ Rollback
  /\ pc' = [pc EXCEPT ![p] = "off"]
  /\ UNCHANGED <<step, backupVars>>

(* A newer release migrates the file while this one is not running. *)
NewerRelease ==
  /\ \A p \in Processes : pc[p] = "off"
  /\ disk.version = Supported
  /\ Commit([disk EXCEPT !.version = Supported + 1])
  /\ UNCHANGED <<pc, step, backupVars>>

-----------------------------------------------------------------------------
(* backup_database refuses a destination that exists, unless told to       *)
(* overwrite it, and only looks once.                                      *)
CheckDestination(b, overwrite) ==
  /\ job[b] = "off"
  /\ dest = None \/ overwrite
  /\ job' = [job EXCEPT ![b] = "copying"]
  /\ UNCHANGED <<disk, past, writer, work, pc, step, temp, dest>>

(* The backup API copies one committed state into a temporary file beside  *)
(* the destination; the copy may be damaged all the same.                  *)
Copy(b) ==
  /\ job[b] = "copying"
  /\ \E sound \in BOOLEAN : temp' = [temp EXCEPT ![b] = [file |-> disk, sound |-> sound]]
  /\ job' = [job EXCEPT ![b] = "copied"]
  /\ UNCHANGED <<disk, past, writer, work, pc, step, dest>>

(* Variant: the copy is published without quick_check. *)
PublishUnchecked(b) ==
  /\ job[b] = "copied"
  /\ dest' = temp[b]
  /\ job' = [job EXCEPT ![b] = "off"]
  /\ temp' = [temp EXCEPT ![b] = None]
  /\ UNCHANGED <<disk, past, writer, work, pc, step>>

(* quick_check passes and os.replace puts the copy in place. *)
Publish(b) ==
  /\ job[b] = "copied"
  /\ temp[b].sound
  /\ dest' = temp[b]
  /\ job' = [job EXCEPT ![b] = "off"]
  /\ temp' = [temp EXCEPT ![b] = None]
  /\ UNCHANGED <<disk, past, writer, work, pc, step>>

(* The copy or its check fails, or the process dies and leaves its         *)
(* temporary file behind.                                                  *)
Abandon(b) ==
  /\ job[b] # "off"
  /\ job' = [job EXCEPT ![b] = "off"]
  /\ temp' = [temp EXCEPT ![b] = None]
  /\ UNCHANGED <<disk, past, writer, work, pc, step, dest>>

Next ==
  \/ \E p \in Processes :
       \/ Start(p) \/ ReadVersion(p) \/ BeginMigration(p)
       \/ Migrate(p) \/ Finish(p) \/ GiveUp(p) \/ Check(p)
       \/ Write(p) \/ Stop(p) \/ Probe(p) \/ EndProbe(p)
  \/ NewerRelease
  \/ \E b \in Backups :
       \/ \E overwrite \in BOOLEAN : CheckDestination(b, overwrite)
       \/ Copy(b) \/ Publish(b) \/ Abandon(b)

Spec == Init /\ [][Next]_vars

-----------------------------------------------------------------------------
(* Every variable has its type, and the write transaction belongs to the   *)
(* process that migrates or probes.                                        *)
TypeOK ==
  /\ disk \in File
  /\ past \subseteq File /\ disk \in past
  /\ writer \in Processes \cup {None}
  /\ work \in File \cup {None}
  /\ pc \in [Processes -> {"off", "opening", "waiting", "migrating",
                           "checking", "open", "probing"}]
  /\ \A p \in Processes : pc[p] \in {"migrating", "probing"} <=> writer = p
  /\ writer # None <=> work # None
  /\ step \in 0..Statements
  /\ job \in [Backups -> {"off", "copying", "copied"}]
  /\ temp \in [Backups -> [file : File, sound : BOOLEAN] \cup {None}]
  /\ dest \in [file : File, sound : BOOLEAN] \cup {None}

(* Nobody collects into or delivers from a database whose schema is not    *)
(* current and complete, whichever process migrated it and whoever died    *)
(* on the way.                                                             *)
OpenMeansCurrent ==
  \A p \in Processes : pc[p] = "open" =>
    disk.version = Supported /\ Required \subseteq disk.objects

(* The published backup is a state the database was in, all of it at once, *)
(* and it passed its integrity check.                                      *)
BackupIsSnapshot == dest # None => dest.file \in past /\ dest.sound

-----------------------------------------------------------------------------
(* A migration only adds to what was committed when it began, and nobody   *)
(* else commits meanwhile.                                                 *)
WorkFollowsDisk ==
  writer # None =>
    /\ work.version = disk.version /\ work.rows = disk.rows
    /\ disk.objects \subseteq work.objects
    /\ work.objects \subseteq disk.objects \cup Required

(* What the statements executed so far have made sure of; the tables of a  *)
(* thin database are what _validate_v1_shape is there for.                 *)
StatementsDone ==
  \A p \in Processes : pc[p] = "migrating" =>
    /\ step >= 1 => "core" \in work.objects
    /\ step >= 2 => "columns" \in work.objects
    /\ step >= 4 => "indexes" \in work.objects
    /\ step >= 5 => "triggers" \in work.objects

(* Whoever read an old version, outside of a transaction, finds that one   *)
(* or the current one when it gets to write.                               *)
OldOrCurrent ==
  \A p \in Processes : pc[p] \in {"waiting", "migrating"} =>
    disk.version = 0 \/ (disk.version = Supported /\ Required \subseteq disk.objects)

CopiesAreSnapshots ==
  \A b \in Backups : temp[b] # None => temp[b].file \in past

(* The inductive invariant. *)
Inv ==
  /\ TypeOK
  /\ WorkFollowsDisk /\ StatementsDone /\ OldOrCurrent /\ CopiesAreSnapshots
  /\ OpenMeansCurrent /\ BackupIsSnapshot

(* The old schema with the old version, or the new schema with the new     *)
(* version, and never anything in between.                                 *)
Abstract == INSTANCE SchemaSwitch
              WITH file <- disk, users <- {p \in Processes : pc[p] = "open"}
ImplementsSchemaSwitch == Abstract!Spec
=============================================================================
