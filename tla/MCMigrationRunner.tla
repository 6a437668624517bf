-------------------------- MODULE MCMigrationRunner --------------------------
(***************************************************************************)
(* Three files, as the repository has them: one that creates a table, one  *)
(* that is repeatable, one that is repeatable and needs a variable.        *)
(***************************************************************************)
EXTENDS MigrationRunner, TLC

RepeatableFiles == {2, 3}
FilesWithVariable == {3}
=============================================================================
