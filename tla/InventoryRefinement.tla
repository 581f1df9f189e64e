------------------------- MODULE InventoryRefinement -------------------------
(***************************************************************************)
(* The Inventory service implements SeatLedger when no two callers settle  *)
(* one reservation at the same time: capacities are the total column, the  *)
(* holds are the reservations table.                                       *)
(***************************************************************************)
EXTENDS Inventory

totals == [e \in Events |-> IF inv[e] = None THEN None ELSE inv[e].total]

Ledger == INSTANCE SeatLedger WITH Holds <- Calls, cap <- totals, hold <- res

(* Every transaction of the service, however its reads interleave with other
   transactions, takes effect as one step of the ledger: no hold beyond the
   free seats, no hold settled twice, no capacity changed but by an
   adjustment.                                                             *)
ImplementsLedger == Ledger!Spec

=============================================================================
