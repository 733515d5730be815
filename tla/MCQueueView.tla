----------------------------- MODULE MCQueueView -----------------------------
(* Three diners of one venue, over two service dates. *)
EXTENDS QueueView

Symmetry == Permutations(Phones)
=============================================================================
