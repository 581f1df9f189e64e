----------------------------- MODULE MCEventSync -----------------------------
(* EventSync for TLC. *)
EXTENDS EventSync, TLC

=============================================================================
