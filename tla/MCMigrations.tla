---------------------------- MODULE MCMigrations ----------------------------
(* Migrations alone, for the upgrade that loses the numbering mode.          *)
EXTENDS Migrations
=============================================================================
