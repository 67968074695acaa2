---------------------------- MODULE MCMigrations ----------------------------
(* Two machines that migrate one database. *)
EXTENDS Migrations, TLC

CONSTANTS p1, p2, users, todos

=============================================================================
