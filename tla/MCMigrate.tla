------------------------------- MODULE MCMigrate -------------------------------
(* Two rows, so that one can be cleared while the other is written; three   *)
(* migrations, so that two can leave their traces for the third.            *)
EXTENDS Migrate

CONSTANTS r1, r2

MCRule == {r1, r2}
=============================================================================
