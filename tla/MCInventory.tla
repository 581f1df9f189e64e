----------------------------- MODULE MCInventory -----------------------------
(* Instances of Inventory for TLC: calls are interchangeable, and so are events. *)
EXTENDS InventoryRefinement, TLC

Symmetry == Permutations(Calls) \cup Permutations(Events)

=============================================================================
