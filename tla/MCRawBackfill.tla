--------------------------- MODULE MCRawBackfill ---------------------------
(* Instances of RawBackfill for TLC. *)
EXTENDS RawBackfill, TLC

CONSTANTS c1, c2

OneChain == {c1}
TwoChains == {c1, c2}

=============================================================================
