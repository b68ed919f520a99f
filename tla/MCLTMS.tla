------------------------------- MODULE MCLTMS -------------------------------
(***************************************************************************)
(* Instances of LTMS for TLC.                                              *)
(***************************************************************************)
EXTENDS LTMS, TLC

CONSTANTS p1, p2, c1, c2, a1

(* Every clause over two propositions, the empty and the tautological too. *)
AllBodies == SUBSET Literal

(* Clauses of the same kind are interchangeable; propositions are not, since
   find_satisfying_prop picks one of them. *)
ClauseSymmetry == Permutations({c1, c2})

=============================================================================
