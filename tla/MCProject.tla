----------------------------- MODULE MCProject -----------------------------
(***************************************************************************)
(* Small projects for TLC. Path 1 is an owned file, path 2 a hook, path 3  *)
(* a file both entities produce (the vos package comment), path 4 a        *)
(* migration. The lean shape drops what the full one has; the other full   *)
(* shape has a different text for the owned file.                          *)
(***************************************************************************)
EXTENDS Project, TLC

Owned(p, t) == [path |-> p, class |-> "owned", text |-> t, shared |-> FALSE]
Hook(p, t) == [path |-> p, class |-> "hook", text |-> t, shared |-> FALSE]
Shared(p, t) == [path |-> p, class |-> "owned", text |-> t, shared |-> TRUE]

\* One entity with a file of each class.
MCSoloEmits ==
    [e \in Entities |-> [s \in Shapes |->
        CASE s = "full"  -> {Owned(1, "g1"), Hook(2, "g1"), Hook(4, "g1")}
          [] s = "other" -> {Owned(1, "g2"), Hook(2, "g1"), Hook(4, "g1")}
          [] s = "lean"  -> {Hook(4, "g1")}]]

\* Two entities that share a file; the first has one of its own too.
MCSharedEmits ==
    [e \in Entities |-> [s \in Shapes |->
        (IF e = 1 /\ 1 \in Paths THEN {Owned(1, "g1")} ELSE {})
          \cup (IF s = "full" THEN {Shared(3, "g1")} ELSE {})]]

\* Commands are interchangeable.
RunSymmetry == Permutations(Runs)
=============================================================================
