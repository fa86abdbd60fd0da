--------------------------- MODULE MCPriceInputs ---------------------------
(* One pool, every kind of block; the second day begins during the run. *)
EXTENDS PriceInputs

MCKinds == BlockKinds
=============================================================================
