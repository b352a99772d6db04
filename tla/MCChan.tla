------------------------------- MODULE MCChan -------------------------------
(* Channels without ALT, for TLC. *)
EXTENDS Chan, TLC

Symmetric == Permutations(Proc \ {Main}) \cup Permutations(Chans)
               \cup Permutations(Data)
=============================================================================
