------------------------ MODULE MCPricePublication ------------------------
(* Instances of PricePublication for TLC. *)
EXTENDS PricePublication

MovedBlocks == {First + 1, Last}
SwapBlocks == {Last}
UpgradeBlocks == {First + 2}
NoUpgrades == {}
=============================================================================
