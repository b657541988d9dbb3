------------------------------ MODULE MCRules ------------------------------
(***************************************************************************)
(* Specs for TLC, each turning on one group of rules, and for each the     *)
(* writes that could reach its BuildRules: what is stored is what its      *)
(* value objects accept, and what is sent is anything the types hold.      *)
(***************************************************************************)
EXTENDS Rules, TLC

CONSTANTS Cases     \* the specs a run looks at

Plain == [kind |-> "none", min |-> NoBound, max |-> NoBound, matches |-> {}, members |-> {}]
Raw == [Plain EXCEPT !.kind = "raw", !.max = 2, !.matches = {0, 1, 3}]
Enum == [Plain EXCEPT !.kind = "enum", !.members = {1, 2}]

Number == [type |-> "number", nullable |-> FALSE, vo |-> Plain, source |-> "stored",
           modes |-> {}]
Text == [Number EXCEPT !.type = "text"]
State == [Text EXCEPT !.vo = Enum]
Lifecycle == [x \in {1} |-> {2}]
Sent == [Text EXCEPT !.source = "body", !.modes = {"insert", "update"}, !.vo = Raw]

NoFact == [kind |-> "count", scope |-> "", activeOnly |-> FALSE, filters |-> {},
           grouped |-> FALSE, nullable |-> TRUE, excludeSelf |-> TRUE]

Rule == [id |-> "", kind |-> "", fields |-> <<>>, scope |-> {"insertOrUpdate"},
         guard |-> FALSE, skip |-> "", other |-> "", op |-> "", min |-> NoBound,
         max |-> NoBound, moves |-> <<>>, admin |-> FALSE, cap |-> 0, groupBy |-> {},
         only |-> {}, key |-> "", attach |-> "", fact |-> NoFact]

NoChild == [name |-> "", fields |-> <<>>, rules |-> <<>>, perChild |-> FALSE, identity |-> {}]

Base == [modes |-> {"insert", "update", "archive"}, scoped |-> {}, fields |-> <<>>,
         rules |-> <<>>, uniques |-> <<>>, child |-> NoChild]

\* What a field may hold, and what of it a row may have been stored with.
Holds(f) ==
    (CASE f.type = "flag" -> {0, 1} [] f.vo.kind # "none" -> 0..3 [] OTHER -> 0..2)
      \cup (IF f.nullable THEN {Absent} ELSE {})

Storable(f) ==
    IF f.source # "stored" THEN {0}
    ELSE {v \in Holds(f) : f.vo.kind = "none" \/ v = Absent \/ Valid(f, v)}

\* Value objects pulled forward, in front of what they guard or not, and two of
\* fields nobody stores.
Forward ==
    [Base EXCEPT
        !.fields = [a |-> [Text EXCEPT !.vo = Raw],
                    b |-> [State EXCEPT !.nullable = TRUE],
                    confirm |-> Sent,
                    once |-> [Sent EXCEPT !.modes = {"insert"}]],
        !.rules = <<[Rule EXCEPT !.id = "premise", !.kind = "valueObject",
                                 !.fields = <<"a", "b">>, !.guard = TRUE,
                                 !.scope = {"insert"}],
                    [Rule EXCEPT !.id = "shape", !.kind = "valueObject",
                                 !.fields = <<"b", "a">>, !.scope = {"update"}],
                    [Rule EXCEPT !.id = "matching", !.kind = "comparison", !.other = "a",
                                 !.fields = <<"confirm">>, !.op = "eq", !.scope = {"insert"}],
                    [Rule EXCEPT !.id = "fixed", !.kind = "immutable",
                                 !.fields = <<"a", "b">>, !.scope = {"update"}]>>]

\* The kinds one record decides, a row scope over them and an owner.
Kinds ==
    [Base EXCEPT
        !.scoped = {"insert", "update"},
        !.fields = [n |-> Text, m |-> [Text EXCEPT !.nullable = TRUE],
                    f |-> [Number EXCEPT !.type = "flag"]],
        !.rules = <<[Rule EXCEPT !.id = "asked", !.kind = "requiredIf", !.other = "f",
                                 !.fields = <<"n", "m">>, !.guard = TRUE],
                    [Rule EXCEPT !.id = "size", !.kind = "length", !.skip = "null",
                                 !.fields = <<"m">>, !.min = 1, !.max = 1],
                    [Rule EXCEPT !.id = "there", !.kind = "required", !.scope = {"insert"},
                                 !.fields = <<"n", "f">>],
                    [Rule EXCEPT !.id = "order", !.kind = "comparison", !.other = "n",
                                 !.fields = <<"m">>, !.op = "lte", !.skip = "empty",
                                 !.scope = {"update"}],
                    [Rule EXCEPT !.id = "mine", !.kind = "ownerCheck", !.admin = TRUE,
                                 !.fields = <<"n">>, !.scope = {"update", "archive"}]>>]

\* A lifecycle of its own, a flag the caller may carry, and a guard that ends
\* its clause.
Moves ==
    [Base EXCEPT
        !.fields = [st |-> State, u |-> Number],
        !.rules = <<[Rule EXCEPT !.id = "moves", !.kind = "transition", !.fields = <<"st">>,
                                 !.moves = Lifecycle,
                                 !.scope = {"update"}, !.guard = TRUE],
                    [Rule EXCEPT !.id = "bounds", !.kind = "range", !.fields = <<"u">>,
                                 !.min = 1, !.scope = {"insert", "update", "archive"}]>>]

\* A collection whose entries have a state and an identity.
Collection ==
    [Base EXCEPT
        !.rules = <<[Rule EXCEPT !.id = "twice", !.kind = "childDuplicate", !.fields = <<"Items">>,
                                 !.attach = "Items", !.guard = TRUE],
                    [Rule EXCEPT !.id = "cap", !.kind = "groupCap", !.attach = "Items",
                                 !.fields = <<"Items">>,
                                 !.cap = 1, !.key = "st", !.only = {1}, !.groupBy = {"k"}],
                    [Rule EXCEPT !.id = "size", !.kind = "groupCap", !.attach = "Items",
                                 !.fields = <<"Items">>,
                                 !.cap = 1, !.key = "st", !.scope = {"insert"}]>>,
        !.fields = [n |-> Number],
        !.child = [name |-> "Items", perChild |-> TRUE, identity |-> {"k"},
                   fields |-> [k |-> Number, st |-> State],
                   rules |-> <<[Rule EXCEPT !.id = "state", !.kind = "valueObject",
                                            !.fields = <<"st">>, !.guard = TRUE],
                               [Rule EXCEPT !.id = "low", !.kind = "range",
                                            !.fields = <<"k">>, !.max = 1],
                               [Rule EXCEPT !.id = "next", !.kind = "transition",
                                            !.fields = <<"st">>, !.scope = {"update"},
                                            !.moves = Lifecycle,
                                            !.guard = TRUE],
                               [Rule EXCEPT !.id = "kept", !.kind = "immutable",
                                            !.fields = <<"k">>, !.scope = {"update"}]>>]]

\* Two fields under one rule of the collection.
TwoFixed ==
    [Base EXCEPT
        !.fields = [n |-> Number],
        !.child = [name |-> "Items", perChild |-> TRUE, identity |-> {"k"},
                   fields |-> [k |-> Number, st |-> State],
                   rules |-> <<[Rule EXCEPT !.id = "kept", !.kind = "immutable",
                                            !.fields = <<"k", "st">>, !.scope = {"update"}]>>]]

\* A uniqueness rule, and a bound over each of these facts.
Own == {[group |-> "all", leaves |-> {[op |-> "eq", pinned |-> {}]}]}
Neither == {[group |-> "not", leaves |-> {[op |-> "in", pinned |-> {1}],
                                          [op |-> "notnull", pinned |-> {}]}]}

Asking(f, least, most) ==
    [Base EXCEPT
        !.fields = [key |-> [Number EXCEPT !.nullable = ~f.grouped], n |-> Number],
        !.uniques = <<[Rule EXCEPT !.id = "unique-key", !.kind = "uniquePrecheck",
                                   !.fields = <<"key">>, !.attach = "key",
                                   !.fact = [NoFact EXCEPT !.kind = "exists", !.filters = Own]]>>,
        !.rules = <<[Rule EXCEPT !.id = "quota", !.kind = "factRange", !.key = "key",
                                 !.attach = "n", !.fact = f, !.min = least, !.max = most,
                                 !.guard = TRUE, !.scope = {"insert", "update"}]>>]

MCSpecs ==
    [forward   |-> Forward,
     kinds     |-> Kinds,
     moves     |-> Moves,
     entries   |-> Collection,
     replaced  |-> [Collection EXCEPT !.child.perChild = FALSE],
     fixed     |-> TwoFixed,
     least     |-> Asking([NoFact EXCEPT !.kind = "min"], 2, NoBound),
     means     |-> Asking([NoFact EXCEPT !.kind = "avg", !.grouped = TRUE], 1, 1),
     count     |-> Asking([NoFact EXCEPT !.filters = Own, !.activeOnly = TRUE], NoBound, 0),
     sum       |-> Asking([NoFact EXCEPT !.kind = "sum", !.filters = Neither], 1, NoBound),
     withdrawn |-> Asking([NoFact EXCEPT !.kind = "max", !.scope = "archivedOnly",
                                         !.excludeSelf = FALSE], NoBound, 1)]

-----------------------------------------------------------------------------
\* Writes. What no body carries is empty.

Anyone == [present |-> FALSE, name |-> 0, admin |-> FALSE]

Sendable(f, mode) == IF CarriedBy(f, mode) THEN Holds(f) ELSE {0}

\* The functions that pick a value of each field.
Data(fs, may(_)) ==
    LET all == UNION {may(fs[n]) : n \in DOMAIN fs}
    IN {e \in [DOMAIN fs -> all] : \A n \in DOMAIN fs : e[n] \in may(fs[n])}

Insertions(s) ==
    {[spec |-> s, mode |-> "insert", id |-> None, old |-> None, now |-> e,
      were |-> <<>>, entries |-> <<>>, who |-> Anyone, outside |-> FALSE, rows |-> {}] :
        e \in Data(MCSpecs[s].fields, LAMBDA f : Sendable(f, "insert"))}

Edition(s, mode, old, now) ==
    [spec |-> s, mode |-> mode, id |-> 1, old |-> old, now |-> now,
     were |-> <<>>, entries |-> <<>>, who |-> Anyone, outside |-> FALSE, rows |-> {}]

\* A bodyless write leaves the fields as they were.
Editions(s) ==
    LET fs == MCSpecs[s].fields
    IN UNION {{Edition(s, "update", old, now) :
                  now \in Data(fs, LAMBDA f : Sendable(f, "update"))}
                \cup {Edition(s, "archive", old, old)} : old \in Data(fs, Storable)}

AllWrites(s) == Insertions(s) \cup Editions(s)

KindWrites ==
    {[w EXCEPT !.who = who, !.outside = out] :
        w \in AllWrites("kinds"), out \in BOOLEAN,
        who \in {Anyone, [Anyone EXCEPT !.present = TRUE, !.name = 1]}}

\* Entries sent in a replacement have no id; what is stored has one, and holds
\* no duplicate.
Lists(c, may(_), ids) ==
    LET entry == [id : ids, data : Data(c.fields, may)]
    IN {<<>>} \cup {<<x>> : x \in entry} \cup
       {<<p[1], p[2]>> : p \in {p \in entry \X entry : p[1].id # p[2].id \/ p[1].id = None}}

EntryWrites(s) ==
    LET c == MCSpecs[s].child
        low(f) == Holds(f) \ {3}
        stored == {t \in Lists(c, Storable, {1, 2}) :
                     /\ t # <<>>
                     /\ Len(t) = 2 => /\ t[1].id < t[2].id
                                      /\ ~SameIdentity(c, t[1], t[2])}
        sent == Lists(c, low, IF c.perChild THEN {1, 2} ELSE {None})
    IN {[w EXCEPT !.entries = t] :
           w \in {w \in Insertions(s) : w.now.n = 1}, t \in Lists(c, low, {None})}
         \cup
       {[w EXCEPT !.were = o, !.entries = t] :
           w \in {w \in Editions(s) : w.mode = "update" /\ w.now.n = 1 /\ w.old.n = 1},
           o \in stored, t \in {t \in sent : Len(t) = 2 => t[1].data.k # 0}}

Tables ==
    LET row(i) == [id : {i}, archived : BOOLEAN, key : {1, 2}, measure : {Absent, 1, 2}]
    IN {{}} \cup {{x} : x \in row(1)} \cup {{x, y} : x \in row(1), y \in row(2)}

AskingWrites(s) ==
    {[w EXCEPT !.rows = t] :
        w \in {w \in AllWrites(s) : /\ w.now.n = 1 /\ w.now.key \in {1, Absent}
                                    /\ w.old # None => w.old.n = 1 /\ w.old.key = 1},
        t \in Tables}

MCWrites ==
    UNION {CASE s = "kinds" -> KindWrites
             [] s \in {"entries", "replaced", "fixed"} -> EntryWrites(s)
             [] s \in {"forward", "moves"} -> AllWrites(s)
             [] OTHER -> AskingWrites(s) : s \in Cases}
=============================================================================
