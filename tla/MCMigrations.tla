--------------------------- MODULE MCMigrations ----------------------------
(* Instances of Migrations for TLC: one server and one doctor.             *)
EXTENDS Migrations
=============================================================================
