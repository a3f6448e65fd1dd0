------------------------- MODULE MCLegacyMigration --------------------------
(* LegacyMigration for TLC. *)
EXTENDS LegacyMigration
=============================================================================
