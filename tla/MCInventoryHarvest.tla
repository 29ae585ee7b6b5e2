-------------------------- MODULE MCInventoryHarvest --------------------------
(* Items of up to three units in all, and calls three deep: a transfer, the  *)
(* AddItem it calls and one inside that.                                     *)
EXTENDS InventoryHarvest
=============================================================================
