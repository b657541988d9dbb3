---------------------------- MODULE MCNumbering ----------------------------
(***************************************************************************)
(* Few entities and dialects for TLC. Entities are interchangeable: none   *)
(* is named in Numbering.                                                  *)
(***************************************************************************)
EXTENDS Numbering, TLC

EntitySymmetry == Permutations(Entities)
=============================================================================
