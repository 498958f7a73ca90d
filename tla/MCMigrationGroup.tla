-------------------------- MODULE MCMigrationGroup --------------------------
(* Two groups that migrate at the same time.                                 *)
EXTENDS MigrationGroup
=============================================================================
