---------------------------- MODULE SchemaSwitch ----------------------------
(***************************************************************************)
(* What a user of the database may rely on: its schema and its version     *)
(* change together and at once, rows are never lost on the way, and nobody *)
(* works on a database that is not current.                                *)
(***************************************************************************)
EXTENDS Integers

CONSTANTS
  Required,   \* the objects of schema version 1
  Spoilers,   \* objects that no migration can make a current schema of
  Files,      \* the databases to start from
  Processes

VARIABLES
  file,   \* [version, objects, rows] as committed
  users   \* the processes that work on it

Current == file.version = 1 /\ Required \subseteq file.objects

Init ==
  /\ file \in Files
  /\ users = {}

Upgrade ==
  /\ file.version = 0
  /\ file.objects \cap Spoilers = {}
  /\ file' = [file EXCEPT !.version = 1, !.objects = @ \cup Required]
  /\ UNCHANGED users

Open(p) ==
  /\ Current
  /\ users' = users \cup {p}
  /\ UNCHANGED file

Write ==
  /\ users # {}
  /\ file' = [file EXCEPT !.rows = @ + 1]
  /\ UNCHANGED users

Leave(p) ==
  /\ users' = users \ {p}
  /\ UNCHANGED file

NewerRelease ==
  /\ users = {}
  /\ file' = [file EXCEPT !.version = 2]
  /\ UNCHANGED users

Next ==
  \/ Upgrade \/ Write \/ NewerRelease
  \/ \E p \in Processes : Open(p) \/ Leave(p)

Spec == Init /\ [][Next]_<<file, users>>
=============================================================================
