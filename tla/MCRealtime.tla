------------------------------ MODULE MCRealtime ------------------------------
(* Instances of Realtime for TLC: the sets are model values in the cfg files. *)
EXTENDS Realtime
=============================================================================
