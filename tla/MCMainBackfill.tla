-------------------------- MODULE MCMainBackfill --------------------------
(* Instances of MainBackfill for TLC. *)
EXTENDS MainBackfill

NoBroken == {}
OneBroken == {4}
=============================================================================
