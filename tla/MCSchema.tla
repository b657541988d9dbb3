------------------------------ MODULE MCSchema ------------------------------
(***************************************************************************)
(* Projects for TLC: an identity with a role of its own, a second role over *)
(* it that mounts its collection, and an entity that is no role.           *)
(***************************************************************************)
EXTENDS Schema

\* The role that declares the identity, with a collection of the identity's
\* and a facet of that collection's entries.
Teacher ==
    [table |-> "teachers", base |-> "persons", reuse |-> FALSE, link |-> "shared-pk",
     again |-> FALSE, facets |-> <<"teacher_contacts">>,
     children |-> <<[table |-> "addresses", ownedBy |-> "base", facets |-> <<"address_notes">>]>>,
     uniques |-> <<>>]

\* The second role, which may be held again, with a collection of its own whose
\* entries are unique while they are not archived.
Student ==
    [table |-> "students", base |-> "persons", reuse |-> TRUE, link |-> "separate-fk",
     again |-> TRUE, facets |-> <<>>,
     children |-> <<[table |-> "addresses", ownedBy |-> "base", facets |-> <<"address_notes">>],
                    [table |-> "courses", ownedBy |-> "role", facets |-> <<"course_grades">>]>>,
     uniques |-> <<[table |-> "students", columns |-> <<"enrolment">>, activeOnly |-> FALSE],
                   [table |-> "courses", columns |-> <<"student_id", "code">>, activeOnly |-> TRUE]>>]

\* A tenant's rooms, unique by code within the tenant while they are active.
Room ==
    [table |-> "rooms", base |-> NoTable, reuse |-> FALSE, link |-> "shared-pk",
     again |-> FALSE, facets |-> <<>>, children |-> <<>>,
     uniques |-> <<[table |-> "rooms", columns |-> <<"tenant_id", "code">>, activeOnly |-> TRUE]>>]

\* The same, unique by name within the tenant too.
NamedRoom ==
    [Room EXCEPT !.uniques = Append(@,
        [table |-> "rooms", columns |-> <<"tenant_id", "name">>, activeOnly |-> TRUE])]

MCPlans == {<<Teacher, Student, Room>>, <<Room, Teacher>>}

MCTwice == {<<NamedRoom, Teacher, Student>>}

\* Which of the projects meet the condition of the proof that nothing is refused.
ASSUME MirrorsAssumption == MirrorsFree <=> Plans = MCPlans
=============================================================================
