---------------------------- MODULE MCMigrations ----------------------------
(* Two runners that upgrade to head and downgrade to any revision.         *)
EXTENDS Migrations

CONSTANTS r1, r2
=============================================================================
