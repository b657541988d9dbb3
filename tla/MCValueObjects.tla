-------------------------- MODULE MCValueObjects ---------------------------
(***************************************************************************)
(* Few entities and types for TLC. ValueObjects names no entity and no     *)
(* type, so each set is symmetric.                                         *)
(***************************************************************************)
EXTENDS ValueObjects, TLC

Symmetry == Permutations(Entities) \cup Permutations(Types)
=============================================================================
