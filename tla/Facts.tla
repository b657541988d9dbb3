------------------------------- MODULE Facts -------------------------------
(***************************************************************************)
(* The questions a rule asks the generated service about the rows already  *)
(* in the table: which rows a fact's query admits, the numbers computed    *)
(* over them, and what a bound over such a number refuses. The store is    *)
(* external: a row has a key, which is never NULL, and a measure, which    *)
(* may be.                                                                 *)
(***************************************************************************)
EXTENDS Integers, FiniteSets, FiniteSetsExt

CONSTANTS
    Absent,    \* NULL, and Go's nil pointer
    NoBound    \* a bound a rule does not declare

ASSUME FactsAssumption == Absent \notin Int /\ NoBound \notin Int

\* A fact over the rows, narrowed by a list of filters: a filter is a group of
\* leaves, and a bare leaf is a group of one.
LeafOps == {"eq", "ne", "in", "nin", "gt", "lt", "isnull", "notnull"}

Leaf == [op : LeafOps,
         pinned : SUBSET Int]    \* the spec's literals; none takes a parameter

Filter == [group : {"all", "any", "not"}, leaves : SUBSET Leaf]

Fact == [kind : {"exists", "count", "sum", "min", "max", "avg"},
         scope : {"", "active", "archivedOnly", "all"},
         activeOnly : BOOLEAN,       \* the older spelling of scope: active
         filters : SUBSET Filter,
         grouped : BOOLEAN,          \* groupBy the key
         nullable : BOOLEAN,         \* the measure's column
         excludeSelf : BOOLEAN]

\* The facts the validator accepts: one word for the archived rows, a group
\* that combines something, and an operand where the operator takes one.
ScopeAccepted(f) == f.activeOnly => f.scope = ""

GroupingAccepted(f) == f.grouped => f.kind # "exists"

LeafAccepted(f, leaf) ==
    /\ leaf.op \in {"isnull", "notnull"} => f.nullable /\ leaf.pinned = {}
    /\ leaf.op \notin {"in", "nin"} => Cardinality(leaf.pinned) <= 1

FilterAccepted(f, n) ==
    /\ n.leaves # {}
    /\ n.group = "any" => Cardinality(n.leaves) > 1
    /\ \A leaf \in n.leaves : LeafAccepted(f, leaf)

FactAccepted(f) ==
    /\ ScopeAccepted(f) /\ GroupingAccepted(f)
    /\ \A n \in f.filters : FilterAccepted(f, n)

FactScope(f) ==
    IF f.scope # "" THEN f.scope ELSE IF f.activeOnly THEN "active" ELSE "all"

InScope(f, row) ==
    CASE FactScope(f) = "active"       -> ~row.archived
      [] FactScope(f) = "archivedOnly" -> row.archived
      [] OTHER                         -> TRUE

\* A leaf compares the key with its literals, or with the value the write
\* carries; NULL is a question of its own.
LeafHolds(leaf, row, key) ==
    LET operands == IF leaf.pinned = {} THEN {key} ELSE leaf.pinned
    IN CASE leaf.op \in {"eq", "in"}  -> row.key \in operands
         [] leaf.op \in {"ne", "nin"} -> row.key \notin operands
         [] leaf.op = "gt"            -> \A x \in operands : row.key > x
         [] leaf.op = "lt"            -> \A x \in operands : row.key < x
         [] leaf.op = "isnull"        -> row.measure = Absent
         [] leaf.op = "notnull"       -> row.measure # Absent

\* Several leaves under a not are ANDed before it.
FilterHolds(n, row, key) ==
    CASE n.group = "any" -> \E leaf \in n.leaves : LeafHolds(leaf, row, key)
      [] n.group = "not" -> ~\A leaf \in n.leaves : LeafHolds(leaf, row, key)
      [] OTHER           -> \A leaf \in n.leaves : LeafHolds(leaf, row, key)

\* The rows the query admits. An insert has no id, so nothing to exclude.
Admitted(f, rows, self, key) ==
    {row \in rows : /\ InScope(f, row)
                    /\ \A n \in f.filters : FilterHolds(n, row, key)
                    /\ ~(f.excludeSelf /\ row.id = self)}

\* The yes or no a uniqueness rule asks for.
Exists(f, rows, self, key) == Admitted(f, rows, self, key) # {}

\* Whether an answer says that there was something to compute it from: over
\* no rows SQL answers NULL, and a group exists because a row matched.
NeedsFound(f) == f.kind \in {"min", "max", "avg"} /\ (~f.grouped \/ f.nullable)

Measured(rows) == {row \in rows : row.measure # Absent}

\* One number, as a fraction: an average is not cut to an integer.
Answer(f, rows) ==
    LET some == Measured(rows)
        measures == {row.measure : row \in some}
        total == MapThenSumSet(LAMBDA row : row.measure, some)
    IN [num |-> CASE f.kind = "count" -> Cardinality(rows)
                  [] f.kind \in {"sum", "avg"} -> total
                  [] f.kind = "min" -> IF some = {} THEN 0 ELSE Min(measures)
                  [] f.kind = "max" -> IF some = {} THEN 0 ELSE Max(measures),
        den |-> IF f.kind = "avg" /\ some # {} THEN Cardinality(some) ELSE 1,
        found |-> ~NeedsFound(f) \/ some # {}]

\* The answers: one, or one for each key there is.
Answers(f, rows, self, key) ==
    LET in == Admitted(f, rows, self, key)
    IN IF f.grouped
       THEN {Answer(f, {row \in in : row.key = k}) : k \in {row.key : row \in in}}
       ELSE {Answer(f, in)}
=============================================================================
