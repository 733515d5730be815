---------------------------- MODULE MCRateLimiter ----------------------------
(* An address that joins lists and logs in to two accounts. *)
EXTENDS RateLimiter

Limits == [r \in Routes |-> IF r = "login" THEN 2 ELSE 1]

Symmetry == Permutations(Accounts)
=============================================================================
