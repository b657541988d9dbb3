------------------------------- MODULE Rules -------------------------------
(***************************************************************************)
(* One validation pass of a generated aggregate: the BuildRules the        *)
(* emitter writes from the declared rules, in the order it writes them,    *)
(* run under the mode of one write. Guards end the pass early, rules over  *)
(* a collection's history are hoisted to the root, value objects are       *)
(* pulled forward out of the automatic pass or left out of it. The         *)
(* dispatch of the clauses, StopIfInvalid and the automatic pass are the   *)
(* framework's, as the generated code uses them.                           *)
(***************************************************************************)
EXTENDS Facts, Sequences, SequencesExt

CONSTANTS
    None,       \* no snapshot: the write is an insert
    Specs,      \* the specs, by name
    Writes      \* the writes, each with the name of the spec it is made under

VARIABLES
    write,      \* the write being validated
    at,         \* 0 for the root, n for its n-th entry
    todo,       \* the lines of that owner's BuildRules still to run
    excluded,   \* fields the automatic pass over that owner leaves out
    told,       \* what the caller will be told
    ended

vars == <<write, at, todo, excluded, told, ended>>

SpecOf(w) == Specs[w.spec]

-----------------------------------------------------------------------------
\* Fields. Every value is an integer: a text is its length, its place among the
\* others too, 0 is the zero of the Go type, and a nullable field may be Absent.

\* Nothing there to require: nil, and of a nullable field only a text may
\* also be empty. A false flag is a value.
Zero(f, v) ==
    IF f.nullable THEN v = Absent \/ (f.type = "text" /\ v = 0)
    ELSE f.type # "flag" /\ v = 0

Present(f, v) == IF f.type = "flag" /\ ~f.nullable THEN v # 0 ELSE ~Zero(f, v)

Within(bounds, v) ==
    /\ bounds.min = NoBound \/ v >= bounds.min
    /\ bounds.max = NoBound \/ v <= bounds.max

\* A raw value object takes no empty text, and what is within its bounds and
\* matches its pattern; an enum takes its members, the unknown one not among
\* them, and has no check of its own.
RawTakes(f, v) ==
    /\ f.type = "text" => v # 0
    /\ Within(f.vo, v)
    /\ v \in f.vo.matches

EnumTakes(f, v) == v \in f.vo.members

\* What a value object says of a value, by the call its kind is asked with.
Valid(f, v) == IF f.vo.kind = "enum" THEN EnumTakes(f, v) ELSE RawTakes(f, v)

\* Whether the body of a write in this mode carries the field at all.
CarriedBy(f, mode) == f.source = "stored" \/ (f.source = "body" /\ mode \in f.modes)

-----------------------------------------------------------------------------
\* What each kind of rule refuses: the fields it reports.

Subjects(r) == ToSet(r.fields)

Required(r, fs, e) == {n \in Subjects(r) : Zero(fs[n], e[n])}

Immutable(r, old, e) == {n \in Subjects(r) : old # None /\ e[n] # old[n]}

Bounded(r, e) == {n \in Subjects(r) : e[n] # Absent /\ ~Within(r, e[n])}

\* An absent operand, or a zero instant, is not compared.
Comparable(f, v) == v # Absent /\ (f.type = "time" => v # 0)

Relates(op, x, y) ==
    CASE op = "gte" -> x >= y [] op = "gt" -> x > y
      [] op = "lte" -> x <= y [] op = "lt" -> x < y
      [] op = "eq"  -> x = y  [] op = "ne" -> x # y

Comparison(r, fs, e) ==
    {n \in {r.fields[1]} : /\ Comparable(fs[n], e[n])
                           /\ Comparable(fs[r.other], e[r.other])
                           /\ ~Relates(r.op, e[n], e[r.other])}

RequiredIf(r, fs, e) ==
    {n \in Subjects(r) : Present(fs[r.other], e[r.other]) /\ Zero(fs[n], e[n])}

\* What is not in the machine moves nowhere.
Reachable(r, v) == IF v \in DOMAIN r.moves THEN r.moves[v] ELSE {}

Transition(r, old, e) ==
    {n \in Subjects(r) : /\ old # None
                         /\ e[n] # old[n]
                         /\ e[n] \notin Reachable(r, old[n])}

\* A request without identity is let through, and so is a declared admin.
OwnerCheck(r, who, e) ==
    {n \in Subjects(r) : who.present /\ e[n] # who.name /\ ~(r.admin /\ who.admin)}

Judged(r, fs, e) == {n \in Subjects(r) : e[n] # Absent /\ ~Valid(fs[n], e[n])}

\* There is a value to look up, and another row has it.
UniquePrecheck(r, w) ==
    LET n == r.fields[1]
        f == SpecOf(w).fields[n]
        v == w.now[n]
    IN {m \in {r.attach} :
           /\ IF f.nullable THEN v # Absent ELSE f.type = "flag" \/ v # 0
           /\ Exists(r.fact, w.rows, w.id, v)}

Below(r, a) == r.min # NoBound /\ a.num < r.min * a.den
Above(r, a) == r.max # NoBound /\ a.num > r.max * a.den

\* Go reads v < min || v > max behind a Found as (found && v < min) || v > max.
OutOfRange(r, a) ==
    IF r.min = NoBound THEN a.found /\ Above(r, a) ELSE (a.found /\ Below(r, a)) \/ Above(r, a)

FactRange(r, w) ==
    {n \in {r.attach} :
        \E a \in Answers(r.fact, w.rows, w.id, w.now[r.key]) : OutOfRange(r, a)}

\* The rules over the entries the write leaves behind.
SameIdentity(c, x, y) == \A n \in c.identity : x.data[n] = y.data[n]

ChildDuplicate(r, w) ==
    {n \in {r.attach} :
        \E i, j \in DOMAIN w.entries :
            i < j /\ SameIdentity(SpecOf(w).child, w.entries[i], w.entries[j])}

Counted(r, x) == r.only = {} \/ x.data[r.key] \in r.only

\* The code joins the values with a bar; here they are kept apart.
GroupKey(r, x) == [n \in r.groupBy |-> x.data[n]]

GroupCap(r, w) ==
    LET counted == {i \in DOMAIN w.entries : Counted(r, w.entries[i])}
        sameGroup(i) == {j \in counted : GroupKey(r, w.entries[j]) = GroupKey(r, w.entries[i])}
    IN {n \in {r.attach} : \E i \in counted : Cardinality(sameGroup(i)) > r.cap}

\* An entry is paired with the way it was: by id where entries are edited one
\* at a time, by business identity where they are replaced, since those sent
\* back have no id. The first that fits is the one.
Pairs(c, x, y) == IF c.perChild THEN x.id = y.id ELSE SameIdentity(c, x, y)

Paired(w) ==
    {p \in (DOMAIN w.entries) \X (DOMAIN w.were) :
        /\ Pairs(SpecOf(w).child, w.entries[p[1]], w.were[p[2]])
        /\ \A k \in 1..(p[2] - 1) : ~Pairs(SpecOf(w).child, w.entries[p[1]], w.were[k])}

StandsDown(r, fs, e) ==
    LET n == r.fields[1]
    IN /\ r.skip # "" /\ r.fields # <<>>
       /\ IF r.skip = "null" THEN fs[n].nullable /\ e[n] = Absent ELSE ~Present(fs[n], e[n])

ChildTransition(r, w) ==
    LET n == r.fields[1]
    IN {m \in {r.attach} :
           \E p \in Paired(w) :
              LET cur == w.entries[p[1]].data
                  old == w.were[p[2]].data
              IN /\ ~StandsDown(r, SpecOf(w).child.fields, cur)
                 /\ cur[n] # old[n] /\ cur[n] \notin Reachable(r, old[n])}

\* Of the fields an immutable rule names on a collection, the first is compared.
ChildImmutable(r, w) ==
    LET n == r.fields[1]
    IN {m \in {r.attach} :
           \E p \in Paired(w) : w.entries[p[1]].data[n] # w.were[p[2]].data[n]}

\* The kinds that one record decides, root or entry, and their guard.
RecordRefuses(r, fs, old, e, who) ==
    IF StandsDown(r, fs, e) THEN {}
    ELSE CASE r.kind = "required"         -> Required(r, fs, e)
           [] r.kind = "immutable"        -> Immutable(r, old, e)
           [] r.kind \in {"range", "length"} -> Bounded(r, e)
           [] r.kind = "comparison"       -> Comparison(r, fs, e)
           [] r.kind = "requiredIf"       -> RequiredIf(r, fs, e)
           [] r.kind = "transition"       -> Transition(r, old, e)
           [] r.kind = "ownerCheck"       -> OwnerCheck(r, who, e)
           [] r.kind = "valueObject"      -> Judged(r, fs, e)

\* What a rule of the root's BuildRules refuses of a write.
RootRefuses(r, w) ==
    CASE r.kind = "childTransition" -> ChildTransition(r, w)
      [] r.kind = "childImmutable"  -> ChildImmutable(r, w)
      [] r.kind = "childDuplicate"  -> ChildDuplicate(r, w)
      [] r.kind = "groupCap"        -> GroupCap(r, w)
      [] r.kind = "uniquePrecheck"  -> UniquePrecheck(r, w)
      [] r.kind = "factRange"       -> FactRange(r, w)
      [] OTHER -> RecordRefuses(r, SpecOf(w).fields, w.old, w.now, w.who)

Refuses(n, r, w) ==
    IF n = 0 THEN RootRefuses(r, w)
    ELSE RecordRefuses(r, SpecOf(w).child.fields, None, w.entries[n].data, w.who)

-----------------------------------------------------------------------------
\* What the emitter writes: clauses in the order of their gates, each rule
\* followed by its barrier.

Gates == <<"insert", "insertOrUpdate", "update", "archive", "unarchive", "delete">>
Modes == ToSet(Gates) \ {"insertOrUpdate"}

Fires(gate, mode) == gate = mode \/ (gate = "insertOrUpdate" /\ mode \in {"insert", "update"})

\* Those of a list that are wanted, in its order.
Only(list, wanted) ==
    FlattenSeq([n \in DOMAIN list |-> IF list[n] \in wanted THEN <<list[n]>> ELSE <<>>])

Of(rules, gate) == Only(rules, {r \in ToSet(rules) : gate \in r.scope})

NeedsPrevious == {"transition", "immutable"}

Historical(s) == {r \in ToSet(s.child.rules) : r.kind \in NeedsPrevious}

\* A collection's rule that reads the previous version becomes the root's,
\* addressed to the collection.
HoistedKind(kind) == IF kind = "transition" THEN "childTransition" ELSE "childImmutable"

Hoisted(s) ==
    LET up == Only(s.child.rules, Historical(s))
    IN [n \in DOMAIN up |->
           [up[n] EXCEPT !.kind = HoistedKind(@), !.attach = s.child.name]]

EntryRules(s) == Only(s.child.rules, ToSet(s.child.rules) \ Historical(s))

\* The clauses that are there once the collections' are merged in.
Clause(s, gate) == Of(s.rules, gate) \o Of(Hoisted(s), gate)

\* The prechecks of the unique fields end the clause of both modes, or are one
\* at the end of the file.
GateOrder(s) ==
    IF s.uniques = <<>> \/ Clause(s, "insertOrUpdate") # <<>> THEN Gates
    ELSE Append(Only(Gates, Modes), "insertOrUpdate")

Checks(gate, rules) ==
    FlattenSeq([n \in DOMAIN rules |->
        IF rules[n].guard
        THEN <<[gate |-> gate, do |-> "check", rule |-> rules[n]], [gate |-> gate, do |-> "stop"]>>
        ELSE <<[gate |-> gate, do |-> "check", rule |-> rules[n]]>>])

\* One guard for each mode the row scope is enforced in, above everything.
ScopeLines(s) ==
    LET gates == Only(Gates, s.scoped)
    IN [n \in DOMAIN gates |-> [gate |-> gates[n], do |-> "scope"]]

\* Fields the automatic pass would find though no column holds them.
NeedsIgnore(f) ==
    f.source # "stored" /\ f.vo.kind # "none" /\ ~f.nullable /\ f.type # "flag"

\* They are left out of it where no verb of the mode carries them, and where
\* some does but not all, when they are empty; as it would be if even when they
\* are not.
HowIgnoredBlunt(f, gate) ==
    IF ~CarriedBy(f, gate) \/ gate # "insert" THEN {"exclude"} ELSE {}

HowIgnored(f, gate) ==
    IF ~CarriedBy(f, gate) THEN {"exclude"}
    ELSE IF gate # "insert" THEN {"excludeEmpty"} ELSE {}

\* In some order: they are told apart by gate and field.
IgnoreLines(s) ==
    SetToSeq({l \in [gate : s.modes, do : {"exclude", "excludeEmpty"}, field : DOMAIN s.fields] :
                 /\ NeedsIgnore(s.fields[l.field])
                 /\ l.do \in HowIgnored(s.fields[l.field], l.gate)})

RootLines(s) ==
    ScopeLines(s) \o IgnoreLines(s)
      \o LET order == GateOrder(s)
         IN FlattenSeq([k \in DOMAIN order |->
                Checks(order[k],
                       IF order[k] = "insertOrUpdate" THEN Clause(s, order[k]) \o s.uniques
                       ELSE Clause(s, order[k]))])

EntryLines(s) ==
    FlattenSeq([k \in DOMAIN Gates |-> Checks(Gates[k], Of(EntryRules(s), Gates[k]))])

\* The records a spec is resolved to. Only the fields of the request's body
\* have modes, those whose body carries them; bounds and values are integers.
ValueObject == [kind : {"none", "raw", "enum"},
                min : Int \cup {NoBound}, max : Int \cup {NoBound},
                matches : SUBSET Int,       \* the values its pattern matches
                members : SUBSET Int]

IsField(f) ==
    /\ f \in [type : {"text", "number", "flag", "time"},
              nullable : BOOLEAN,
              vo : ValueObject,
              source : {"stored", "body"},
              modes : SUBSET {"insert", "update"}]
    /\ f.source = "stored" <=> f.modes = {}

IsRule(r) ==
    /\ r.guard \in BOOLEAN /\ r.admin \in BOOLEAN    \* a barrier; an AdminField
    /\ r.skip \in {"", "null", "empty"}
    /\ {r.min, r.max} \subseteq Int \cup {NoBound}
    /\ r.cap \in Nat /\ r.only \subseteq Int
    /\ r.fact \in Fact
    /\ \A v \in DOMAIN r.moves : r.moves[v] \subseteq Int

\* A collection, edited one entry at a time or replaced as a whole.
IsCollection(c) ==
    /\ c.perChild \in BOOLEAN
    /\ \A n \in DOMAIN c.fields : IsField(c.fields[n])
    /\ c.identity \subseteq DOMAIN c.fields

IsResolved(s) ==
    /\ \A n \in DOMAIN s.fields : IsField(s.fields[n])
    /\ \A r \in ToSet(s.rules) \cup ToSet(s.uniques) \cup ToSet(s.child.rules) : IsRule(r)
    /\ IsCollection(s.child)

\* What the validator accepts, which is what gets a BuildRules at all: where a
\* rule may stand, what it names, and per kind the rest of its declaration.
HasBound(r) == r.min # NoBound \/ r.max # NoBound

Named(r, fs) ==
    /\ {"kind", "attach", "scope", "fields", "skip", "moves"} \subseteq DOMAIN r
    /\ r.fields \in Seq(ToSet(r.fields))
    /\ r.scope # {} /\ r.scope \subseteq ToSet(Gates)
    /\ r.fields = <<>> <=> r.kind = "factRange"
    /\ r.kind \in {"childDuplicate", "groupCap"} \/ Subjects(r) \subseteq DOMAIN fs

TransitionAccepted(r, fs) ==
    /\ "insert" \notin r.scope
    /\ Len(r.fields) = 1
    /\ LET f == fs[r.fields[1]]
       IN /\ f.vo.kind = "enum" /\ f.type = "text" /\ ~f.nullable
          /\ DOMAIN r.moves # {} /\ DOMAIN r.moves \subseteq f.vo.members
          /\ \A v \in DOMAIN r.moves : r.moves[v] \subseteq f.vo.members

\* A rule over a collection names it; without an identity nothing is the same
\* entry twice, and an absent key is in no group.
CollectionRuleAccepted(r, c) ==
    /\ r.fields = <<c.name>>
    /\ r.kind = "childDuplicate" => c.identity # {}
    /\ r.kind = "groupCap" => /\ r.cap > 0
                              /\ \A n \in r.groupBy : n \in DOMAIN c.fields /\ ~c.fields[n].nullable
                              /\ r.only # {} => c.fields[r.key].type = "text"

OwnerCheckAccepted(r, fs) ==
    /\ Len(r.fields) = 1
    /\ LET f == fs[r.fields[1]]
       IN f.source = "stored" /\ f.type = "text" /\ ~f.nullable

\* A fact is asked from the entity, which holds one value per field and no set.
FactRangeAccepted(r, fs) ==
    /\ HasBound(r) /\ r.attach \in DOMAIN fs
    /\ r.fact.kind \in {"count", "sum", "min", "max", "avg"} /\ FactAccepted(r.fact)
    /\ \A leaf \in UNION {n.leaves : n \in r.fact.filters} :
          leaf.op \in {"in", "nin"} => leaf.pinned # {}

ValueObjectRuleAccepted(r, fs) ==
    /\ r.skip = "" /\ r.other = "" /\ r.op = "" /\ ~HasBound(r)
    /\ \A n \in Subjects(r) : fs[n].vo.kind # "none"

UniqueAccepted(r, fs) ==
    /\ r.kind = "uniquePrecheck" /\ r.scope = {"insertOrUpdate"}
    /\ fs[r.fields[1]].type # "flag"
    /\ r.fact.kind = "exists" /\ FactAccepted(r.fact)

ShapeAccepted(r, fs, c) ==
    CASE r.kind = "valueObject" -> ValueObjectRuleAccepted(r, fs)
      [] r.kind = "factRange"   -> FactRangeAccepted(r, fs)
      [] r.kind = "requiredIf"  -> r.other \in DOMAIN fs
      [] r.kind = "transition"  -> TransitionAccepted(r, fs)
      [] r.kind \in {"childDuplicate", "groupCap"} -> CollectionRuleAccepted(r, c)
      [] r.kind = "comparison"  -> /\ r.other \in DOMAIN fs
                                   /\ r.op \in {"gte", "gt", "lte", "lt", "eq", "ne"}
      [] r.kind = "range"       -> HasBound(r)
      [] r.kind = "length"      -> HasBound(r) /\ \A n \in Subjects(r) : fs[n].type = "text"
      [] r.kind = "ownerCheck"  -> OwnerCheckAccepted(r, fs)
      [] r.kind = "immutable"   -> "insert" \notin r.scope
      [] r.kind = "required"    -> TRUE

AggregateWide == {"childDuplicate", "groupCap", "ownerCheck", "factRange"}

\* Text and numbers have value objects; a field no column holds is the root's,
\* and the verbs whose bodies carry it are the entity's.
FieldsAccepted(s) ==
    /\ IsFiniteSet(DOMAIN s.fields)
    /\ \A n \in DOMAIN s.fields : /\ s.fields[n].type = "flag" => s.fields[n].vo.kind = "none"
                                  /\ s.fields[n].source = "body" => s.fields[n].modes \subseteq s.modes
    /\ \A n \in DOMAIN s.child.fields : s.child.fields[n].source = "stored"

Accepted(s) ==
    /\ IsResolved(s)
    /\ s.modes \cup s.scoped \subseteq Modes
    /\ FieldsAccepted(s)
    /\ \A rules \in {s.rules, s.uniques, s.child.rules} : rules \in Seq(ToSet(rules))
    /\ \A r \in ToSet(s.rules) : Named(r, s.fields) /\ ShapeAccepted(r, s.fields, s.child)
    /\ \A r \in ToSet(s.uniques) : UniqueAccepted(r, s.fields)
    /\ \A r \in ToSet(s.child.rules) : /\ r.kind \notin AggregateWide
                                        /\ Named(r, s.child.fields)
                                        /\ ShapeAccepted(r, s.child.fields, s.child)

\* The two files, and what of one of them runs under the mode of a write.
Run(file, mode) == Only(file, {l \in ToSet(file) : Fires(l.gate, mode)})

RootFile == [s \in DOMAIN Specs |-> RootLines(Specs[s])]
EntryFile == [s \in DOMAIN Specs |-> EntryLines(Specs[s])]

Lines(w, n) == Run(IF n = 0 THEN RootFile[w.spec] ELSE EntryFile[w.spec], w.mode)

Owners(w) == 0..Len(w.entries)

\* A check that pulls value objects forward.
Pulls(l) == l.do = "check" /\ l.rule.kind = "valueObject"

\* The word of a value object, whoever asked it.
ByValueObject(s, by) ==
    \/ by = "value"
    \/ \E r \in ToSet(s.rules \o s.child.rules) : r.id = by /\ r.kind = "valueObject"

\* No two such rules of an owner name one field in one mode, and an id belongs
\* to one rule.
WellFormed(s, lines) ==
    /\ lines \in Seq(ToSet(lines))
    /\ \A k, j \in DOMAIN lines :
          (Pulls(lines[k]) /\ Pulls(lines[j]) /\ k # j)
             => Subjects(lines[k].rule) \cap Subjects(lines[j].rule) = {}
    /\ \A k \in DOMAIN lines :
          lines[k].do = "check" => (ByValueObject(s, lines[k].rule.id) <=> Pulls(lines[k]))

ASSUME SpecsAssumption ==
    \A name \in DOMAIN Specs :
        /\ Accepted(Specs[name])
        /\ ~ByValueObject(Specs[name], "scope")
        /\ \A mode \in Modes : /\ WellFormed(Specs[name], Run(RootFile[name], mode))
                               /\ WellFormed(Specs[name], Run(EntryFile[name], mode))

\* A write under a verb the entity mounts: what no body carries is empty, the
\* entries it leaves and those there were are records, and so is each row.
ASSUME WritesAssumption ==
    \A w \in Writes :
        /\ w.spec \in DOMAIN Specs /\ w.mode \in Specs[w.spec].modes
        /\ Len(w.entries) \in Nat
        /\ \A n \in DOMAIN w.were : w.were[n].data # None
        /\ \A n \in DOMAIN Specs[w.spec].fields :
              LET f == Specs[w.spec].fields[n]
              IN f.source # "stored" /\ f.nullable /\ ~CarriedBy(f, w.mode) => w.now[n] = Absent
        /\ \A r \in ToSet(Specs[w.spec].rules) :
              r.kind = "factRange" /\ ~r.fact.nullable => \A row \in w.rows : row.measure # Absent

FieldsOf(w, n) == IF n = 0 THEN SpecOf(w).fields ELSE SpecOf(w).child.fields
DataOf(w, n) == IF n = 0 THEN w.now ELSE w.entries[n].data
-----------------------------------------------------------------------------
\* The pass.

Init ==
    /\ write \in Writes
    /\ at = 0
    /\ todo = Lines(write, 0)
    /\ excluded = {} /\ told = {} /\ ended = FALSE

Running(do) == ~ended /\ todo # <<>> /\ Head(todo).do \in do

Tell(by, seats) == told' = told \cup {[by |-> by, at |-> at, seat |-> n] : n \in seats}

Scope ==
    /\ Running({"scope"})
    /\ Tell("scope", IF write.outside THEN {"ID"} ELSE {})
    /\ todo' = Tail(todo)
    /\ UNCHANGED <<write, at, excluded, ended>>

Exclude ==
    /\ Running({"exclude", "excludeEmpty"})
    /\ LET line == Head(todo)
           n == line.field
           out == line.do = "exclude" \/ Zero(SpecOf(write).fields[n], write.now[n])
       IN excluded' = IF out THEN excluded \cup {n} ELSE excluded
    /\ todo' = Tail(todo)
    /\ UNCHANGED <<write, at, told, ended>>

\* A rule that pulls value objects forward has them left out of the pass that
\* comes later; as it would be if it did not, or only the first of them.
LeftOutNone(r) == {}

LeftOutFirst(r) == IF r.kind = "valueObject" THEN {r.fields[1]} ELSE {}

LeftOut(r) == IF r.kind = "valueObject" THEN Subjects(r) ELSE {}

Check ==
    /\ Running({"check"})
    /\ LET r == Head(todo).rule
       IN /\ Tell(r.id, Refuses(at, r, write))
          /\ excluded' = excluded \cup LeftOut(r)
    /\ todo' = Tail(todo)
    /\ UNCHANGED <<write, at, ended>>

\* The barrier as it would be if it returned whatever was told.
StopBlindly ==
    /\ Running({"stop"})
    /\ ended' = TRUE /\ todo' = <<>>
    /\ UNCHANGED <<write, at, excluded, told>>

\* StopIfInvalid. Whether an entry's own rules count what was said of others
\* is the framework's to decide.
Stop ==
    /\ Running({"stop"})
    /\ \/ told # {} /\ ended' = TRUE /\ todo' = <<>>
       \/ ~(\E t \in told : t.at = at) /\ todo' = Tail(todo) /\ UNCHANGED ended
    /\ UNCHANGED <<write, at, excluded, told>>

\* The automatic pass over an owner's value objects, which skips a nil; then
\* the next entry.
Values ==
    /\ ~ended /\ todo = <<>>
    /\ LET fs == FieldsOf(write, at)
           e == DataOf(write, at)
       IN Tell("value", {n \in DOMAIN fs \ excluded :
                            fs[n].vo.kind # "none" /\ e[n] # Absent /\ ~Valid(fs[n], e[n])})
    /\ IF at < Len(write.entries)
       THEN at' = at + 1 /\ todo' = Lines(write, at + 1) /\ UNCHANGED ended
       ELSE ended' = TRUE /\ UNCHANGED <<at, todo>>
    /\ excluded' = {}
    /\ UNCHANGED write

Next == Scope \/ Exclude \/ Check \/ Stop \/ Values

Spec == Init /\ [][Next]_vars

-----------------------------------------------------------------------------
\* What the declarations say of a write, whatever the order they are checked in.

\* A field's value object has a say where the field has a value: always when
\* it is stored, otherwise on the writes that carry it, and on those that need
\* not, when it was sent; one that is nullable and not absent was.
Asked(w, n, name) ==
    LET f == FieldsOf(w, n)[name]
        v == DataOf(w, n)[name]
    IN /\ f.vo.kind # "none" /\ v # Absent
       /\ f.source # "stored" => /\ CarriedBy(f, w.mode)
                                 /\ w.mode = "insert" \/ f.nullable \/ ~Zero(f, v)

Rejected(w, n) ==
    {name \in DOMAIN FieldsOf(w, n) :
        Asked(w, n, name) /\ ~Valid(FieldsOf(w, n)[name], DataOf(w, n)[name])}

InForce(w, r) == \E g \in r.scope : Fires(g, w.mode)

RulesOf(w, n) ==
    {r \in ToSet(IF n = 0 THEN SpecOf(w).rules \o SpecOf(w).uniques ELSE EntryRules(SpecOf(w))) :
        InForce(w, r)}

\* An entry's history, as its rules see it from the entry.
HistoryKept(w, r) ==
    InForce(w, r) =>
        \A p \in Paired(w) :
            RecordRefuses(r, SpecOf(w).child.fields, w.were[p[2]].data,
                          w.entries[p[1]].data, w.who) = {}

\* A number there is nothing to compute from is none, and within any bounds.
HasNumber(f, rows) == f.kind \in {"count", "sum"} \/ Measured(rows) # {}

NumbersWithin(r, w) ==
    LET f == r.fact
        in == Admitted(f, w.rows, w.id, w.now[r.key])
        sets == IF f.grouped THEN {{x \in in : x.key = y.key} : y \in in} ELSE {in}
    IN \A rows \in sets :
          HasNumber(f, rows) => ~Below(r, Answer(f, rows)) /\ ~Above(r, Answer(f, rows))

Obeyed(n, r, w) == IF r.kind = "factRange" THEN NumbersWithin(r, w) ELSE Refuses(n, r, w) = {}

Acceptable(w) ==
    /\ w.mode \in SpecOf(w).scoped => ~w.outside
    /\ \A n \in Owners(w) : Rejected(w, n) = {}
    /\ \A n \in Owners(w) : \A r \in RulesOf(w, n) : Obeyed(n, r, w)
    /\ \A r \in ToSet(SpecOf(w).child.rules) : r.kind \in NeedsPrevious => HistoryKept(w, r)

-----------------------------------------------------------------------------
\* Properties.

\* Of a value object pulled forward, "asked here means not asked again" (emit/
\* domain.go:748): no field is told twice that its value is wrong.
ToldOnce ==
    \A t, u \in told :
        (/\ ByValueObject(SpecOf(write), t.by) /\ ByValueObject(SpecOf(write), u.by)
         /\ t.at = u.at /\ t.seat = u.seat)
        => t = u

TypeOK ==
    /\ at \in Owners(write)
    /\ WellFormed(SpecOf(write), todo)
    /\ ended \in BOOLEAN
    /\ \A t \in told : t.at \in 0..at

\* What a value object spoke of is left out of the automatic pass to come, and
\* no rule still to run asks it again.
SpokenFor ==
    \A t \in told :
        (ByValueObject(SpecOf(write), t.by) /\ t.at = at /\ ~ended)
          => /\ t.seat \in excluded
             /\ \A k \in DOMAIN todo : Pulls(todo[k]) => t.seat \notin Subjects(todo[k].rule)

\* Two kinds of declarations do not say what the code checks: an immutable rule
\* of a collection with several fields or a skip (emit/domain.go:1987), and a
\* negative maximum of a number there need not be (emit/domain.go:2182).
Regular(w) ==
    /\ \A r \in ToSet(SpecOf(w).child.rules) : r.kind = "immutable" => Len(r.fields) = 1 /\ r.skip = ""
    /\ \A r \in ToSet(SpecOf(w).rules) : r.kind = "factRange" /\ r.max # NoBound => r.max \in Nat

\* "It can never skip validation" (spec/spec.go:1466): where a check runs, what
\* ends the pass and what is left out of the automatic one never change which
\* writes are accepted; they are those every declaration in force allows.
VerdictUnmoved == ended /\ Regular(write) => (told = {} <=> Acceptable(write))

\* What a line of the n-th owner has told.
Source(line, t) ==
    \/ line.do = "check" /\ line.rule.id = t.by
    \/ line.do = "scope" /\ t.by = "scope"

\* A barrier before the k-th line of the n-th owner that found something told.
Tripped(n, k) ==
    \E m \in 0..n :
        LET lines == Lines(write, m)
        IN \E j \in DOMAIN lines :
              /\ m = n => j < k
              /\ lines[j].do = "stop"
              /\ \E t \in told :
                    \/ t.at < m
                    \/ t.at = m /\ \E i \in 1..(j - 1) : Source(lines[i], t)

\* All that a line refuses is told, and that a value object rejects a field.
Said(n, line) ==
    /\ line.do = "check" =>
          \A seat \in Refuses(n, line.rule, write) :
              [by |-> line.rule.id, at |-> n, seat |-> seat] \in told
    /\ line.do = "scope" /\ write.outside => [by |-> "scope", at |-> n, seat |-> "ID"] \in told

Voiced(n, name) ==
    \E t \in told : ByValueObject(SpecOf(write), t.by) /\ t.at = n /\ t.seat = name

\* Of a guard, "every rule declared above it has already had its say" (emit/
\* domain.go:651): what a rule or a value object refuses is told to the caller,
\* unless a barrier stands between it and something told before.
SaidUnlessBarred ==
    ended =>
        \A n \in Owners(write) :
            LET lines == Lines(write, n)
            IN /\ \A k \in DOMAIN lines : Tripped(n, k) \/ Said(n, lines[k])
               /\ \A name \in Rejected(write, n) :
                     Tripped(n, Len(lines) + 1) \/ Voiced(n, name)

\* "A rule that compares an entry against the way it WAS ... is declared on the
\* collection and enforced from the root" (SKILL.md:1344), and "Fields are the
\* subject fields" (spec/spec.go:1406): an accepted write changes no field that
\* an immutable rule of the collection names.
EntriesFixed ==
    (ended /\ told = {}) =>
        \A r \in ToSet(SpecOf(write).child.rules) :
            (r.kind = "immutable" /\ InForce(write, r)) =>
                \A p \in Paired(write), n \in Subjects(r) :
                    write.entries[p[1]].data[n] = write.were[p[2]].data[n]

-----------------------------------------------------------------------------
\* The inductive invariant: what is told and left out is what the lines that
\* have run account for.

\* How many lines of the owner have run.
Passed == Len(Lines(write, at)) - Len(todo)

InPlace ==
    ~ended => /\ Passed \in Nat
              /\ \A k \in DOMAIN todo : todo[k] = Lines(write, at)[Passed + k]

\* An owner the pass is through with has had all of its say, the one it is at
\* what its lines so far had to say.
SaidSoFar ==
    /\ \A n \in 0..(at - 1) :
          /\ \A k \in DOMAIN Lines(write, n) : Said(n, Lines(write, n)[k])
          /\ \A name \in Rejected(write, n) : Voiced(n, name)
    /\ ~ended => /\ \A k \in 1..Passed : Said(at, Lines(write, at)[k])
                 /\ \A name \in excluded \cap Rejected(write, at) : Voiced(at, name)

\* Nothing was told of the owner but by a line of it that has run.
Sourced ==
    ~ended =>
        \A t \in told : t.at < at \/ \E i \in 1..Passed : Source(Lines(write, at)[i], t)

\* What an exclusion that has run leaves out is out.
LeavesOut(line) ==
    \/ line.do = "exclude"
    \/ line.do = "excludeEmpty" /\ Zero(SpecOf(write).fields[line.field], write.now[line.field])

LeftOutSoFar ==
    ~ended => \A i \in 1..Passed :
                 LET line == Lines(write, at)[i]
                 IN LeavesOut(line) => line.field \in excluded

\* Nothing is told for no reason.
Reason(t) ==
    \/ t.at = 0 /\ write.outside /\ write.mode \in SpecOf(write).scoped
    \/ t.seat \in Rejected(write, t.at)
    \/ \E line \in ToSet(Lines(write, t.at)) :
          line.do = "check" /\ t.seat \in Refuses(t.at, line.rule, write)

Justified == \A t \in told : Reason(t)

\* Types, and why no value object is heard twice: what it was pulled forward
\* for is out of the automatic pass (emit/domain.go:755), in every state. And
\* why the caller is told what there is to tell and nothing else.
AnsweredOnce == TypeOK /\ SpokenFor /\ ToldOnce

Accounted ==
    InPlace /\ SaidSoFar /\ Sourced /\ SaidUnlessBarred /\ LeftOutSoFar /\ Justified

Inv == AnsweredOnce /\ Accounted
=============================================================================
