------------------------------ MODULE MCBooking ------------------------------
(* Booking for TLC. *)
EXTENDS Booking, TLC

=============================================================================
