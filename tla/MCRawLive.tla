----------------------------- MODULE MCRawLive -----------------------------
(* Instances of RawLive for TLC. *)
EXTENDS RawLive

=============================================================================
