----------------------------- MODULE MCVenueClock -----------------------------
(* Every schedule of a short week, at every moment of it. *)
EXTENDS VenueClock
=============================================================================
