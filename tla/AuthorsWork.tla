----------------------------- MODULE AuthorsWork ----------------------------
(***************************************************************************)
(* What omnicore-gen promises the author about the files of a project,     *)
(* with nothing said of seals, hashes, locks or plans. Each path is        *)
(* nobody's, the generator's or the author's. The author and the commands  *)
(* take turns; in its turn a command touches one path at a time, takes     *)
(* nothing that is the author's unless the author waived it by name for    *)
(* that command, and writes a hook only where there is none.               *)
(***************************************************************************)
CONSTANTS Paths, Hooks

VARIABLES
    holder,    \* whose work each path holds
    working,   \* whether it is a command's turn
    waived     \* the paths the author gave up for this command

Holders == {"nobody", "generator", "author"}

Init == /\ holder = [p \in Paths |-> "nobody"]
        /\ working = FALSE
        /\ waived = {}

\* In the author's turn anything may happen to a path.
AuthorTakes(p) ==
    /\ ~working
    /\ \E h \in Holders : holder' = [holder EXCEPT ![p] = h]
    /\ UNCHANGED <<working, waived>>

Begin ==
    /\ ~working /\ working' = TRUE
    /\ waived' \in SUBSET Paths
    /\ UNCHANGED holder

End ==
    /\ working /\ working' = FALSE
    /\ waived' = {}
    /\ UNCHANGED holder

\* A command writes a file; it may be the last thing it does.
Write(p) ==
    /\ working
    /\ holder[p] = "author" => p \in waived
    /\ p \in Hooks => holder[p] = "nobody"
    /\ holder' = [holder EXCEPT ![p] = "generator"]
    /\ \/ UNCHANGED <<working, waived>>
       \/ working' = FALSE /\ waived' = {}

\* A command removes a file.
Remove(p) ==
    /\ working
    /\ holder[p] = "generator"
    /\ holder' = [holder EXCEPT ![p] = "nobody"]
    /\ UNCHANGED <<working, waived>>

Next == \/ Begin
        \/ End
        \/ \E p \in Paths : AuthorTakes(p) \/ Write(p) \/ Remove(p)

Spec == Init /\ [][Next]_<<holder, working, waived>>
=============================================================================
