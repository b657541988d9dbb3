-------------------------- MODULE MCRegistrations --------------------------
(***************************************************************************)
(* Small shared files for TLC: declaration "N" in the notifications file,  *)
(* key "k" in a catalog. One entity rewords the declaration and drops the  *)
(* key between its shapes, every other the other way round.                *)
(***************************************************************************)
EXTENDS Registrations

CONSTANT First     \* the entity that differs from the others

MCSiteOf == [n \in Names |-> IF n = "N" THEN "notifications" ELSE "catalog"]

Entry(N, k) == [n \in Names |-> IF n = "N" THEN N ELSE k]

MCDeclares ==
    [e \in Entities |->
        IF e = First THEN [one |-> Entry("g1", "g1"), two |-> Entry("g2", Absent)]
                     ELSE [one |-> Entry(Absent, "g1"), two |-> Entry("g1", "g2")]]
=============================================================================
