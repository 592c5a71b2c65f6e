---------------------------- MODULE MCAppActions ----------------------------
(* A small instance of AppActions: three loops, one request, two leases. *)
EXTENDS AppActions

=============================================================================
