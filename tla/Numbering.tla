----------------------------- MODULE Numbering -----------------------------
(***************************************************************************)
(* Migration pairs and the numbers they are known by.                      *)
(*                                                                         *)
(* A pair is named migrations/<dialect>/<number>_<entity>[_manual] and is  *)
(* written once. The first generation of an entity takes the number above  *)
(* the highest in the folder; the lock records it, and later generations   *)
(* use the recorded number and so find the pair there and keep it. The     *)
(* lock is saved last. One command runs at a time.                         *)
(***************************************************************************)
EXTENDS Naturals, FiniteSets

CONSTANTS
    Entities,      \* aggregates of the project
    Person,        \* whose name the author's own pairs carry
    Dialects,      \* engines, numbered in the order of their names
    Idle,          \* no command
    MaxNumber,     \* bound on migration numbers
    MaxKinds       \* bound: how many of the kinds in happened there may be

ASSUME PersonAssumption == Person \notin Entities
ASSUME DialectsAssumption == Dialects \subseteq Nat
ASSUME BoundAssumption == MaxNumber \in Nat /\ MaxKinds \in Nat

VARIABLES
    files,         \* the SQL files under migrations/
    ordinals,      \* the lock's ordinals, 0 where none is recorded
    configured,    \* the dialects the yaml profiles name
    run,           \* the generation in progress
    happened       \* history: was a pair deleted, was a record lost or not made

vars == <<files, ordinals, configured, run, happened>>

Kinds == {"deletion", "loss"}
Halves == {"up", "down"}
Styles == {"manual", "plain"}      \* with the _manual suffix, or before it

File == [dialect : Dialects, number : 1..MaxNumber, entity : Entities \cup {Person},
         style : Styles, half : Halves]

Ordinals == [Dialects -> 0..MaxNumber]

Run == [entity : Entities, todo : SUBSET File, number : Ordinals]

ASSUME IdleAssumption == Idle \notin Run

TypeOK ==
    /\ files \subseteq File
    /\ ordinals \in [Entities -> Ordinals]
    /\ configured \subseteq Dialects
    /\ run \in Run \cup {Idle}
    /\ happened \subseteq Kinds

Pair(d, n, e, style) ==
    {[dialect |-> d, number |-> n, entity |-> e, style |-> style, half |-> h] : h \in Halves}

NoOrdinals == [e \in Entities |-> [d \in Dialects |-> 0]]

\* A new project, or one where an older build generated an entity.
Init ==
    /\ \/ files = {} /\ ordinals = NoOrdinals
       \/ \E e \in Entities, d \in Dialects :
             /\ 1 <= MaxNumber
             /\ files = Pair(d, 1, e, "plain")
             /\ ordinals = [NoOrdinals EXCEPT ![e] = [@ EXCEPT ![d] = 1]]
    /\ configured \in SUBSET Dialects
    /\ run = Idle
    /\ happened = {}

-----------------------------------------------------------------------------
Used(d) == {f.number : f \in {g \in files : g.dialect = d}}

\* A folder that holds SQL names its dialect as well as a profile does.
Targets == configured \cup {d \in Dialects : Used(d) # {}}

\* IsNextOrdinal as it would be if the numbers were counted from the lock.
IsNextOrdinalRecorded(d, n) ==
    LET taken == {ordinals[e][d] : e \in Entities}
    IN  /\ \A m \in taken : m < n
        /\ n = 1 \/ n - 1 \in taken

\* n is the number above the highest one in the dialect's folder.
IsNextOrdinal(d, n) ==
    /\ \A m \in Used(d) : m < n
    /\ n = 1 \/ n - 1 \in Used(d)

\* NumberFor as it would be if nothing were recorded.
NumberForFresh(e, d, n) ==
    IF d \in Targets THEN n \in 1..MaxNumber /\ IsNextOrdinal(d, n) ELSE n = 0

\* n is the number this generation of e uses in dialect d.
NumberFor(e, d, n) ==
    IF ordinals[e][d] # 0 THEN n = ordinals[e][d]
    ELSE IF d \in Targets THEN n \in 1..MaxNumber /\ IsNextOrdinal(d, n)
    ELSE n = 0

\* A pair that is already there under the older name keeps it.
StyleOf(e, d, n) ==
    LET up(s) == [dialect |-> d, number |-> n, entity |-> e, style |-> s, half |-> "up"]
    IN  IF up("plain") \in files /\ up("manual") \notin files THEN "plain" ELSE "manual"

\* The files of this generation that are not on disk.
Missing(e, number) ==
    (UNION {Pair(d, number[d], e, StyleOf(e, d, number[d])) : d \in Targets}) \ files

\* Precedes as it would be if files were written in the order they are emitted.
PrecedesEmitted(f, g) ==
    \/ f.dialect < g.dialect
    \/ f.dialect = g.dialect /\ (f.half = "up" \/ g.half = "down")

\* Files are written in the order of their paths: .down.sql before .up.sql.
Precedes(f, g) ==
    \/ f.dialect < g.dialect
    \/ f.dialect = g.dialect /\ (f.half = "down" \/ g.half = "up")

Happens(kind) ==
    /\ happened' = happened \cup {kind}
    /\ Cardinality(happened') <= MaxKinds

StartGenerate(e, number) ==
    /\ run = Idle /\ Targets # {}
    /\ \A d \in Dialects : NumberFor(e, d, number[d])
    /\ run' = [entity |-> e, todo |-> Missing(e, number), number |-> number]
    /\ UNCHANGED <<files, ordinals, configured, happened>>

WriteFile(f) ==
    /\ run # Idle /\ f \in run.todo
    /\ \A g \in run.todo : Precedes(f, g)
    /\ files' = files \cup {f}
    /\ run' = [run EXCEPT !.todo = @ \ {f}]
    /\ UNCHANGED <<ordinals, configured, happened>>

SaveLock ==
    /\ run # Idle /\ run.todo = {}
    /\ ordinals' = [ordinals EXCEPT ![run.entity] = run.number]
    /\ run' = Idle
    /\ UNCHANGED <<files, configured, happened>>

\* The command dies, or a write fails and it returns the error.
Crash ==
    /\ run # Idle
    /\ run' = Idle
    /\ Happens("loss")
    /\ UNCHANGED <<files, ordinals, configured>>

-----------------------------------------------------------------------------
(* The author.                                                             *)

\* "A later change to the shape is a NEW numbered pair."
AddPair(d, n) ==
    /\ run = Idle /\ IsNextOrdinal(d, n)
    /\ files' = files \cup Pair(d, n, Person, "manual")
    /\ UNCHANGED <<ordinals, configured, run, happened>>

\* Squashes migrations, or drops those of a table that never shipped.
DeletePair(d, n) ==
    /\ run = Idle
    /\ files' = {f \in files : ~(f.dialect = d /\ f.number = n)}
    /\ files' # files
    /\ Happens("deletion")
    /\ UNCHANGED <<ordinals, configured, run>>

Configure(ds) ==
    /\ run = Idle /\ configured' = ds
    /\ UNCHANGED <<files, ordinals, run, happened>>

LoseLock ==
    /\ run = Idle /\ ordinals # NoOrdinals
    /\ ordinals' = NoOrdinals
    /\ Happens("loss")
    /\ UNCHANGED <<files, configured, run>>

-----------------------------------------------------------------------------
Generate ==
    \/ \E e \in Entities, number \in Ordinals : StartGenerate(e, number)
    \/ \E f \in File : WriteFile(f)
    \/ SaveLock

Author ==
    \/ \E d \in Dialects, n \in 1..MaxNumber : AddPair(d, n) \/ DeletePair(d, n)
    \/ \E ds \in SUBSET Dialects : Configure(ds)

Next == Generate \/ Crash \/ LoseLock \/ Author

Spec == Init /\ [][Next]_vars

-----------------------------------------------------------------------------
(* Properties.                                                             *)

OneOwnerEach ==
    \A f, g \in files :
       f.dialect = g.dialect /\ f.number = g.number => f.entity = g.entity

\* No two tables' migrations share a number in a folder, whatever generations
\* die on the way and however often the lock is lost, as long as no pair is
\* deleted. (nextOrdinal)
NumbersDistinct == "deletion" \notin happened => OneOwnerEach

\* "The down file is not optional — the framework aborts the boot when an up
\* has no twin": a generation that dies never leaves an up alone. (Plan's order
\* of decisions, emitMigrations)
EveryUpHasDown ==
    \A f \in files : f.half = "up" => [f EXCEPT !.half = "down"] \in files

\* An entity's tables are created by one pair in each dialect.
OnePairEach ==
    \A f, g \in files :
       /\ f.entity # Person /\ f.entity = g.entity
       /\ f.dialect = g.dialect /\ f.half = g.half
       => f = g

\* Regenerating, adding dialects, the older file names and pairs the author
\* adds or deletes never lead to a second pair, as long as every generation
\* gets to save the lock and the lock is kept. (LockEntity.Ordinals,
\* migrationBase)
NoSecondMigration == "loss" \notin happened => OnePairEach

-----------------------------------------------------------------------------
(* Why numbers stay distinct while no pair is deleted.                     *)

Owns(e, d, n) == \A f \in files : f.dialect = d /\ f.number = n => f.entity = e

\* A recorded number is its entity's, and the folder shows that it is taken.
RecordsHold ==
    \A e \in Entities, d \in Dialects :
       ordinals[e][d] # 0 => /\ Owns(e, d, ordinals[e][d])
                             /\ ordinals[e][d] \in Used(d)

\* So is a number in use by the generation at work, once it has been written.
RunHolds ==
    run # Idle =>
       /\ \A f \in run.todo : /\ f.entity = run.entity
                              /\ f.number = run.number[f.dialect]
       /\ \A d \in Dialects : run.number[d] # 0 =>
             /\ Owns(run.entity, d, run.number[d])
             /\ \/ run.number[d] \in Used(d)
                \/ \E f \in run.todo : f.dialect = d
             /\ \A e \in Entities \ {run.entity} : ordinals[e][d] # run.number[d]

Inv ==
    /\ TypeOK
    /\ "deletion" \notin happened => OneOwnerEach /\ RecordsHold /\ RunHolds
=============================================================================
