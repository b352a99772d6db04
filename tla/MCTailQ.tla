------------------------------- MODULE MCTailQ -------------------------------
(* Tail queues, for TLC. *)
EXTENDS TailQ, TLC

Symmetric == Permutations(Elem)
=============================================================================
