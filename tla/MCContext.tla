------------------------------ MODULE MCContext ------------------------------
(* Context switches and PROC arguments, for TLC. *)
EXTENDS Context, TLC

\* A chunk of arguments, and a chunk and a half.
SomeArgs == {<<"x", "y">>, <<"x", "y", "z">>}

Symmetric == Permutations(Proc) \cup Permutations(Code)
=============================================================================
