-------------------------- MODULE MCDashboardStream --------------------------
(* Model checking DashboardStream: bounds in the configuration. *)
EXTENDS DashboardStream
=============================================================================
