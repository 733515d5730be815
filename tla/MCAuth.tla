-------------------------------- MODULE MCAuth --------------------------------
(* Two tablets of one account, and the requests they send. *)
EXTENDS Auth
=============================================================================
