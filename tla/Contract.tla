------------------------------ MODULE Contract ------------------------------
(***************************************************************************)
(* What a spec promises about the rows of its entity, whatever requests    *)
(* arrive in whatever order: each write is one step, from a row that obeys *)
(* the declared invariants to one that does.                               *)
(***************************************************************************)
EXTENDS Declared

CONSTANTS Ids, Declarations

VARIABLES
    decl,   \* the declaration the service was generated from
    rows    \* the entity's table

vars == <<decl, rows>>

Unwritten == [at |-> "unused", e |-> NoData]
Deleted == [at |-> "gone", e |-> NoData]

Init ==
    /\ decl \in {d \in Declarations : Accepted(d)}
    /\ rows = [i \in Ids |-> Unwritten]

\* The declared rules over what one row is made of.
Lawful(d, e) ==
    /\ Cardinality(Live(e)) <= d.cap
    /\ d.distinct => \A s, t \in Live(e) : e.entries[s] = e.entries[t] => s = t
    /\ (d.whole /\ e.span # Absent) => e.span.must # Zero

\* Whether some route may set the key of a row that exists.
KeyWritable(d) ==
    /\ ~d.fixed
    /\ \/ Answers(d, "update")
       \/ Answers(d, "patch") /\ ~d.patchExcludes

\* What an edit may make of a row: its scope is for good, an immutable or
\* excluded key too, the phase takes declared moves, an entry taken out stays
\* out, and no partial edit takes out the composite.
MayBecome(d, old, e) ==
    /\ e.tenant = old.tenant
    /\ e.key # old.key => KeyWritable(d)
    /\ e.phase = old.phase \/ e.phase \in d.moves[old.phase]
    /\ \A s \in Slots : old.entries[s] = Removed => e.entries[s] = Removed
    /\ \A s \in Slots : old.entries[s] \in Names => e.entries[s] # NoEntry
    /\ (e.span = Absent /\ old.span # Absent) => \E v \in {"update", ClearVerb} : Answers(d, v)

\* An edit to the closing phase archives the row, in the phase it becomes.
Outcome(d, e) ==
    IF e.phase # d.closing THEN [at |-> "active", e |-> e]
    ELSE [at |-> "archived",
          e |-> IF d.becomes = Nothing THEN e ELSE [e EXCEPT !.phase = d.becomes]]

\* No two rows share a key the index holds.
KeysUnique(d, table) ==
    \A i, j \in Ids : /\ i # j
                      /\ d.unique # "no"
                      /\ table[i].at \in Kept /\ table[j].at \in Kept
                      /\ d.unique = "active-only" =>
                            table[i].at = "active" /\ table[j].at = "active"
                      => IndexColumns(d, table[i].e) # IndexColumns(d, table[j].e)

Store(i, row) ==
    /\ rows' = [rows EXCEPT ![i] = row]
    /\ KeysUnique(decl, rows')
    /\ UNCHANGED decl

Create(i) ==
    /\ "insert" \in decl.modes /\ rows[i].at = "unused"
    /\ \E e \in Entities(decl) : /\ Lawful(decl, e)
                                  /\ \A s \in Slots : e.entries[s] # Removed
                                  /\ Store(i, [at |-> "active", e |-> e])

Edit(i) ==
    /\ "update" \in decl.modes /\ rows[i].at = "active"
    /\ \E e \in Entities(decl) : /\ Lawful(decl, e) /\ MayBecome(decl, rows[i].e, e)
                                  /\ Store(i, Outcome(decl, e))

Archive(i) ==
    /\ "archive" \in decl.modes /\ rows[i].at = "active"
    /\ Store(i, [rows[i] EXCEPT !.at = "archived"])

Unarchive(i) ==
    /\ "unarchive" \in decl.modes /\ rows[i].at = "archived"
    /\ Store(i, [rows[i] EXCEPT !.at = "active"])

Delete(i) ==
    /\ "delete" \in decl.modes /\ rows[i].at = "active"
    /\ Store(i, Deleted)

Next == \E i \in Ids : Create(i) \/ Edit(i) \/ Archive(i) \/ Unarchive(i) \/ Delete(i)

Spec == Init /\ [][Next]_vars
=============================================================================
