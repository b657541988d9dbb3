---------------------------- MODULE ValueObjects ---------------------------
(***************************************************************************)
(* The package of value objects, which the entities of a project share.    *)
(*                                                                         *)
(* A type has one file. One spec declares it and its generation writes the *)
(* file, whose header names that entity; other specs reuse it by name and  *)
(* write nothing. A spec may also declare a type that the author writes.   *)
(* generate and prune validate the spec against the package before they    *)
(* do anything, and prune reads the other specs for the types they name.   *)
(* What a file holds is left to Project; here a file has an owner.         *)
(***************************************************************************)
EXTENDS FiniteSets

CONSTANTS
    Entities,      \* aggregates of the project
    Types,         \* value objects
    Person,        \* the owner of a file without the generator's header
    Gone,          \* no such file
    Idle           \* no command

ASSUME OwnersAssumption == {Person, Gone} \cap Entities = {} /\ Person # Gone

VARIABLES
    spec,          \* what each entity's spec says of each type
    parses,        \* the entities whose spec can be parsed
    owner,         \* who the file of each type belongs to, as its header says
    edited,        \* generated files with a hand edit below the header
    claims,        \* the files the lock records for each entity
    run            \* the command in progress

vars == <<spec, parses, owner, edited, claims, run>>

Uses == {"unused",
         "makes",      \* declared here, written by the generator
         "asks",       \* declared here, written by hand
         "reuses"}     \* declared elsewhere

Run == [cmd : {"generate", "prune"}, entity : Entities, todo : SUBSET Types,
        claimed : SUBSET Types]

ASSUME IdleAssumption == Idle \notin Run

TypeOK ==
    /\ spec \in [Entities -> [Types -> Uses]]
    /\ parses \subseteq Entities
    /\ owner \in [Types -> Entities \cup {Person, Gone}]
    /\ edited \subseteq Types
    /\ claims \in [Entities -> SUBSET Types]
    /\ run \in Run \cup {Idle}

Init ==
    /\ spec \in [Entities -> [Types -> Uses]]
    /\ parses = Entities
    /\ owner = [t \in Types |-> Gone]
    /\ edited = {}
    /\ claims = [e \in Entities |-> {}]
    /\ run = Idle

-----------------------------------------------------------------------------
Makes(e) == {t \in Types : spec[e][t] = "makes"}

\* The types a spec's code will not compile without.
Names(e) == {t \in Types : spec[e][t] # "unused"}

\* What validateValueObjects and validateField ask of the package: no second
\* copy of another's type, and no reuse of one that is not there.
Valid(e) ==
    \A t \in Types :
       /\ spec[e][t] = "makes" => owner[t] \in {Gone, e}
       /\ spec[e][t] = "reuses" => owner[t] # Gone

Accepted(e) == e \in parses /\ Valid(e)

StartGenerate(e) ==
    /\ run = Idle /\ Accepted(e)
    /\ run' = [cmd |-> "generate", entity |-> e,
               todo |-> {t \in Makes(e) : owner[t] = Gone},
               claimed |-> claims[e] \cup (Makes(e) \ edited)]
    /\ UNCHANGED <<spec, parses, owner, edited, claims>>

\* Needed as it would be if only declarations counted.
NeededDeclared(e) == UNION {Makes(o) : o \in (Entities \cap parses) \ {e}}

\* The types other specs name, those that can be parsed.
Needed(e) == UNION {Names(o) : o \in (Entities \cap parses) \ {e}}

Leftovers(e) == claims[e] \ Makes(e)

\* Removable as it would be if the hash were not compared.
RemovableUnhashed(e) ==
    {t \in Leftovers(e) : /\ owner[t] # Gone
                          /\ \A o \in Entities \ {e} : t \notin claims[o]}
       \ Needed(e)

\* The generator's text as recorded, no other entity's, and nobody's need.
Removable(e) ==
    {t \in Leftovers(e) : /\ owner[t] = e /\ t \notin edited
                          /\ \A o \in Entities \ {e} : t \notin claims[o]}
       \ Needed(e)

StartPrune(e) ==
    LET forgotten == {t \in Leftovers(e) : owner[t] = Gone}
    IN  /\ run = Idle /\ Accepted(e)
        /\ Removable(e) \cup forgotten # {}
        /\ run' = [cmd |-> "prune", entity |-> e, todo |-> Removable(e),
                   claimed |-> claims[e] \ (Removable(e) \cup forgotten)]
        /\ UNCHANGED <<spec, parses, owner, edited, claims>>

\* Writes one file or removes one.
NextFile(t) ==
    /\ run # Idle /\ t \in run.todo
    /\ owner' = [owner EXCEPT ![t] = IF run.cmd = "generate" THEN run.entity ELSE Gone]
    /\ run' = [run EXCEPT !.todo = @ \ {t}]
    /\ UNCHANGED <<spec, parses, edited, claims>>

SaveLock ==
    /\ run # Idle /\ run.todo = {}
    /\ claims' = [claims EXCEPT ![run.entity] = run.claimed]
    /\ run' = Idle
    /\ UNCHANGED <<spec, parses, owner, edited>>

Crash ==
    /\ run # Idle
    /\ run' = Idle
    /\ UNCHANGED <<spec, parses, owner, edited, claims>>

-----------------------------------------------------------------------------
(* The author.                                                             *)

EditSpec(e, t, use) ==
    /\ run = Idle /\ spec[e][t] # use
    /\ spec' = [spec EXCEPT ![e] = [@ EXCEPT ![t] = use]]
    /\ UNCHANGED <<parses, owner, edited, claims, run>>

\* Leaves a spec half-written, with a key this build does not know, or mends it.
BreakSpec(e) ==
    /\ run = Idle
    /\ parses' = IF e \in parses THEN parses \ {e} ELSE parses \cup {e}
    /\ UNCHANGED <<spec, owner, edited, claims, run>>

EditType(t) ==
    /\ run = Idle /\ owner[t] \in Entities /\ t \notin edited
    /\ edited' = edited \cup {t}
    /\ UNCHANGED <<spec, parses, owner, claims, run>>

HandWrite(t) ==
    /\ run = Idle
    /\ owner' = [owner EXCEPT ![t] = Person]
    /\ edited' = edited \ {t}
    /\ UNCHANGED <<spec, parses, claims, run>>

DeleteType(t) ==
    /\ run = Idle /\ owner[t] # Gone
    /\ owner' = [owner EXCEPT ![t] = Gone]
    /\ edited' = edited \ {t}
    /\ UNCHANGED <<spec, parses, claims, run>>

-----------------------------------------------------------------------------
Command ==
    \/ \E e \in Entities : StartGenerate(e) \/ StartPrune(e)
    \/ \E t \in Types : NextFile(t)
    \/ SaveLock

Author ==
    \/ \E e \in Entities, t \in Types, use \in Uses : EditSpec(e, t, use)
    \/ \E e \in Entities : BreakSpec(e)
    \/ \E t \in Types : EditType(t) \/ HandWrite(t) \/ DeleteType(t)

Next == Command \/ Crash \/ Author

Spec == Init /\ [][Next]_vars

-----------------------------------------------------------------------------
(* Properties.                                                             *)

\* No entity's command turns another entity's spec into one that generate and
\* prune refuse, except that of two specs declaring one type the first comes
\* first. (validateValueObjects, keepWhatNeighboursStillNeed)
ValidStaysValid ==
    [][Command /\ run # Idle => \A e \in parses \ {run.entity} :
          Valid(e) => Valid(e)' \/ Makes(e) \cap Makes(run.entity) # {}]_vars

\* A type is no entity's to rewrite but its owner's: whatever is being written
\* is not there, and what is being removed is its owner's, untouched, and on
\* record as nobody else's. (discoverVOs, validateValueObjects, PlanPrune)
RunHolds ==
    run # Idle => \A t \in run.todo :
       IF run.cmd = "generate" THEN owner[t] = Gone /\ spec[run.entity][t] = "makes"
       ELSE /\ owner[t] = run.entity /\ t \notin edited
            /\ spec[run.entity][t] # "makes"
            /\ \A e \in Entities \ {run.entity} : t \notin claims[e]

Inv == TypeOK /\ RunHolds
=============================================================================
