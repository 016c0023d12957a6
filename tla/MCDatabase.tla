----------------------------- MODULE MCDatabase -----------------------------
(* Model-checking instances of Database: see the .cfg files for the sizes. *)
EXTENDS Database

Found(version, objects) == [version |-> version, objects |-> objects, rows |-> 0]

(* Databases a process may find: none yet, of the first releases, of the    *)
(* last unversioned ones, current, of a newer release, and four that no     *)
(* release made.                                                            *)
FoundFiles ==
  {Found(0, {}), Found(0, {"core"}), Found(0, {"core", "columns", "tables"}),
   Found(1, Required), Found(2, Required),
   Found(0, {"alien"}), Found(0, {"core", "thin"}),
   Found(1, Required \ {"triggers"}), Found(1, {})}
=============================================================================
