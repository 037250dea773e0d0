---------------------------- MODULE MCMigration -----------------------------
(* A small instance of Migration. *)
EXTENDS Migration

\* A new file, one with the first tables only, one with everything but versions.
MCLegacy == {{}, {1, 2, 4, 5}, 1 .. 8}
=============================================================================
