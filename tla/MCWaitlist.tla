------------------------------ MODULE MCWaitlist ------------------------------
(* Instances of Waitlist for TLC: the sets are model values in the cfg files. *)
EXTENDS Waitlist, TLC

Symmetry == Permutations(Workers) \cup Permutations(Phones) \cup Permutations(Venues)
=============================================================================
