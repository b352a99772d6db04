-------------------------------- MODULE MCCsp --------------------------------
(* PAR, SEQ, RUN and GO, for TLC. *)
EXTENDS Csp

Symmetric == Permutations(Proc \ {Main}) \cup Permutations(Comp)
=============================================================================
