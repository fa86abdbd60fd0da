--------------------------- MODULE MCPriceTools ---------------------------
(* An instance of PriceTools for TLC: block 2 is alone in its interval, 3 and 4 *)
(* share one.                                                                  *)
EXTENDS PriceTools

MovedBlocks == {First + 1, First + 2}
SwapBlocks == {First + 1, First + 2}
NoUpgrades == {}
NoExotic == {}
Intervals == {"1h"}
Blocks == [t \in Intervals |-> 3]
=============================================================================
