------------------------------ MODULE MCMeter ------------------------------
(* A small instance of Meter: two sessions in turn on one device. *)
EXTENDS Meter

=============================================================================
