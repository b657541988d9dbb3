------------------------------- MODULE Schema -------------------------------
(***************************************************************************)
(* The migrations generated for a project's entities, run statement by     *)
(* statement against its database: the up and the down file of each        *)
(* entity, in the order of their numbers, by a migrator that may die       *)
(* anywhere and that an operator may ask to roll back. The migrator is the *)
(* framework's and the database an engine's; what they do of it is here    *)
(* only as far as the files depend on it.                                  *)
(***************************************************************************)
EXTENDS Integers, SequencesExt

CONSTANTS
    NoTable,             \* the base of an entity that is no role
    Plans,               \* projects: their entities, by migration number
    Engines,             \* the dialects a project may have
    MaxDies, MaxBacks    \* bounds on crashes and on rollbacks asked for

ASSUME SchemaAssumption ==
    /\ Engines \subseteq {"postgres", "oracle", "mysql", "sqlite", "sqlserver"}
    /\ MaxDies \in Nat /\ MaxBacks \in Nat

\* An entity:
\*   table      storage.table
\*   base       base.table, or NoTable
\*   reuse      base.reuse: another entity creates the base
\*   link       base.link, "shared-pk" or "separate-fk"
\*   again      base.rowUniqueness is active-only
\*   facets     tables of the root's 1:1 facets
\*   children   sequence of [table, ownedBy : {"role", "base"}, facets]
\*   uniques    sequence of [table, columns, activeOnly], those of the fields
\*              of the root and of its collections' entries
\* A statement is a record, a file a list of blocks of statements: one block for
\* each declaration that has some.

VARIABLES
    plan,      \* the project
    engine,    \* its dialect
    tables,    \* tables that exist
    refs,      \* foreign keys: pairs of a table and the one it points at
    parts,     \* pairs of a table and an index or mirror column of it
    applied,   \* migrations the migrator has on record as applied
    touched,   \* the one it started last, while it is dirty; 0 if none is
    heading,   \* which of its files is running: "up", "down" or "no"
    script,    \* statements of that file still to run
    dies, backs

db == <<tables, refs, parts>>
vars == <<plan, engine, db, applied, touched, heading, script, dies, backs>>

-----------------------------------------------------------------------------
\* The files.

Create(t, owners) == [op |-> "create", table |-> t, of |-> owners]
Add(t, part, over) == [op |-> "add", table |-> t, part |-> part, over |-> over]
Drop(t) == [op |-> "drop", table |-> t]

IsRole(s) == s.base # NoTable

\* The shared identity and its natural key.
BaseTable(s) ==
    <<Create(s.base, {}), Add(s.base, <<"key", <<"natural">>>>, {})>>

\* A role's table carries a key to the identity it is played over.
RootTable(s) == <<Create(s.table, IF IsRole(s) THEN {s.base} ELSE {})>>

FacetTables(owner, facets) == [n \in DOMAIN facets |-> Create(facets[n], {owner})]

\* A collection of the identity under a role that reuses the identity is only
\* mounted: the entity that declares the identity has it.
Mounted(s, c) == c.ownedBy = "base" /\ s.reuse

Own(s) == {n \in DOMAIN s.children : ~Mounted(s, s.children[n])}

ChildOwner(s, c) == IF c.ownedBy = "base" /\ IsRole(s) THEN s.base ELSE s.table

ChildTables(s, c) ==
    <<Create(c.table, {ChildOwner(s, c)}), Add(c.table, <<"index", <<"parent">>>>, {})>>
      \o FacetTables(c.table, c.facets)

\* A unique index. MySQL has an active-only one over columns that mirror its
\* own, each added by a statement of its own.
UniqueIndex(g, t, columns, activeOnly) ==
    IF g = "mysql" /\ activeOnly
    THEN LET mirrors == [n \in DOMAIN columns |-> <<"active", <<columns[n]>>>>]
         IN [n \in DOMAIN columns |-> Add(t, mirrors[n], {})]
              \o <<Add(t, <<"key", columns>>, ToSet(mirrors))>>
    ELSE <<Add(t, <<"key", columns>>, {})>>

RoleUniqueness(g, s) ==
    IF IsRole(s) /\ s.link = "separate-fk"
    THEN UniqueIndex(g, s.table, <<"identity">>, s.again) ELSE <<>>

\* Each table after those it points at.
Up(g, s) ==
    <<IF IsRole(s) /\ ~s.reuse THEN BaseTable(s) ELSE <<>>,
      RootTable(s),
      FacetTables(s.table, s.facets)>>
      \o [n \in DOMAIN s.children |->
            IF n \in Own(s) THEN ChildTables(s, s.children[n]) ELSE <<>>]
      \o <<RoleUniqueness(g, s)>>
      \o [n \in DOMAIN s.uniques |->
            UniqueIndex(g, s.uniques[n].table, s.uniques[n].columns, s.uniques[n].activeOnly)]

FacetDrops(facets) == [n \in DOMAIN facets |-> Drop(facets[n])]

ChildDrops(s, n) ==
    IF n \in Own(s)
    THEN FacetDrops(s.children[n].facets) \o <<Drop(s.children[n].table)>> ELSE <<>>

BaseDrop(s) == IF IsRole(s) /\ ~s.reuse THEN <<Drop(s.base)>> ELSE <<>>

\* Down with the identity first.
DownFromBase(s) ==
    <<BaseDrop(s)>> \o [n \in DOMAIN s.children |-> ChildDrops(s, n)]
      \o <<FacetDrops(s.facets), <<Drop(s.table)>>>>

\* Down as it would be if it left the identity to whoever else plays a role.
DownKeepingBase(s) ==
    [n \in DOMAIN s.children |-> ChildDrops(s, n)]
      \o <<FacetDrops(s.facets), <<Drop(s.table)>>>>

\* Down without the exception for mounted collections.
DownMounted(s) ==
    [n \in DOMAIN s.children |->
        FacetDrops(s.children[n].facets) \o <<Drop(s.children[n].table)>>]
      \o <<FacetDrops(s.facets), <<Drop(s.table)>>, BaseDrop(s)>>

\* Each table before those it points at. Indexes and columns go with theirs.
Down(s) ==
    [n \in DOMAIN s.children |-> ChildDrops(s, n)]
      \o <<FacetDrops(s.facets), <<Drop(s.table)>>, BaseDrop(s)>>

-----------------------------------------------------------------------------
\* The database.

Unreferenced(t) == \A r \in refs : r[2] = t => r[1] = t

\* Possible as it would be if the down said DROP TABLE alone.
PossibleDropIfPresent(st) ==
    CASE st.op = "create" -> st.table \notin tables /\ st.of \subseteq tables
      [] st.op = "add"    -> /\ st.table \in tables
                             /\ {<<st.table, p>> : p \in st.over} \subseteq parts
                             /\ <<st.table, st.part>> \notin parts
      [] st.op = "drop"   -> st.table \in tables /\ Unreferenced(st.table)

\* What an engine accepts: the down says DROP TABLE IF EXISTS.
Possible(st) ==
    CASE st.op = "create" -> st.table \notin tables /\ st.of \subseteq tables
      [] st.op = "add"    -> /\ st.table \in tables
                             /\ {<<st.table, p>> : p \in st.over} \subseteq parts
                             /\ <<st.table, st.part>> \notin parts
      [] st.op = "drop"   -> Unreferenced(st.table)

Perform(st) ==
    CASE st.op = "create" -> /\ tables' = tables \cup {st.table}
                             /\ refs' = refs \cup {<<st.table, t>> : t \in st.of}
                             /\ UNCHANGED parts
      [] st.op = "add"    -> /\ parts' = parts \cup {<<st.table, st.part>>}
                             /\ UNCHANGED <<tables, refs>>
      [] st.op = "drop"   -> /\ tables' = tables \ {st.table}
                             /\ refs' = {r \in refs : r[1] # st.table}
                             /\ parts' = {p \in parts : p[1] # st.table}

-----------------------------------------------------------------------------
\* The migrator.

Init ==
    /\ plan \in Plans /\ engine \in Engines
    /\ tables = {} /\ refs = {} /\ parts = {}
    /\ applied = 0 /\ touched = 0
    /\ heading = "no" /\ script = <<>>
    /\ dies = 0 /\ backs = 0

Start(n, which, file) ==
    /\ touched' = n /\ heading' = which /\ script' = file
    /\ UNCHANGED <<plan, engine, db, dies>>

\* Pending migrations are applied in the order of their numbers, as long as
\* none is dirty.
Forward ==
    /\ heading = "no" /\ touched = 0 /\ applied < Len(plan)
    /\ Start(applied + 1, "up", Up(engine, plan[applied + 1]))
    /\ UNCHANGED <<applied, backs>>

\* The last one is rolled back.
Back ==
    /\ heading = "no" /\ touched = 0 /\ applied > 0
    /\ backs < MaxBacks /\ backs' = backs + 1
    /\ applied' = applied - 1
    /\ Start(applied, "down", Down(plan[applied]))

\* A dirty one is cleared by its down file.
Recover ==
    /\ heading = "no" /\ touched # 0
    /\ Start(touched, "down", Down(plan[touched]))
    /\ UNCHANGED <<applied, backs>>

\* The i-th block has the file's next statement.
Due(i) == script[i] # <<>> /\ \A k \in 1..(i - 1) : script[k] = <<>>

Execute ==
    \E i \in DOMAIN script :
        /\ Due(i) /\ Possible(Head(script[i]))
        /\ Perform(Head(script[i]))
        /\ script' = [script EXCEPT ![i] = Tail(@)]
        /\ UNCHANGED <<plan, engine, applied, touched, heading, dies, backs>>

Finish ==
    /\ heading # "no" /\ \A i \in DOMAIN script : script[i] = <<>>
    /\ script' = <<>>
    /\ applied' = IF heading = "up" THEN touched ELSE touched - 1
    /\ touched' = 0 /\ heading' = "no"
    /\ UNCHANGED <<plan, engine, db, dies, backs>>

\* The process dies, or loses its connection, and the file stops where it is.
\* So it would where an engine refuses a statement, which has no action of its
\* own: NothingRefused says that none is.
Die ==
    /\ heading # "no" /\ dies < MaxDies /\ dies' = dies + 1
    /\ heading' = "no" /\ script' = <<>>
    /\ UNCHANGED <<plan, engine, db, applied, touched, backs>>

Next == Forward \/ Back \/ Recover \/ Execute \/ Finish \/ Die

\* The migrator runs what is pending, and an operator clears what is dirty.
Fairness == WF_vars(Forward) /\ WF_vars(Recover) /\ WF_vars(Execute) /\ WF_vars(Finish)

Spec == Init /\ [][Next]_vars /\ Fairness

-----------------------------------------------------------------------------
\* What the entities have in the database.

Branch(s, n) == {s.children[n].table} \cup ToSet(s.children[n].facets)

TablesOf(s) ==
    (UNION {Branch(s, n) : n \in Own(s)})
      \cup ToSet(s.facets) \cup {s.table}
      \cup (IF IsRole(s) /\ ~s.reuse THEN {s.base} ELSE {})

\* The tables an entity reads and writes, whoever made them.
Needs(s) ==
    TablesOf(s) \cup {s.children[n].table : n \in DOMAIN s.children}
      \cup (IF IsRole(s) THEN {s.base} ELSE {})

Statements(file) == UNION {ToSet(file[i]) : i \in DOMAIN file}

PartsOf(g, s) ==
    {<<st.table, st.part>> : st \in {x \in Statements(Up(g, s)) : x.op = "add"}}

-----------------------------------------------------------------------------
\* The projects. Nothing in the generator compares the names of two tables: that
\* they differ is the author's part.

IsList(l) == l \in Seq(ToSet(l))

Shape(s) ==
    /\ IsList(s.facets) /\ IsList(s.children) /\ IsList(s.uniques)
    /\ \A n \in DOMAIN s.children : IsList(s.children[n].facets)
    /\ \A n \in DOMAIN s.uniques : IsList(s.uniques[n].columns) /\ s.uniques[n].activeOnly \in BOOLEAN
    /\ s.again \in BOOLEAN /\ s.reuse \in BOOLEAN /\ (s.reuse => IsRole(s))

\* No two tables of an entity have one name.
NamesApart(s) ==
    LET trunk == {s.table} \cup (IF IsRole(s) THEN {s.base} ELSE {})
    IN /\ s.base # s.table
       /\ IsInjective(s.facets) /\ ToSet(s.facets) \cap trunk = {}
       /\ \A n \in Own(s) :
             /\ Branch(s, n) \cap (trunk \cup ToSet(s.facets)) = {}
             /\ IsInjective(s.children[n].facets)
             /\ s.children[n].table \notin ToSet(s.children[n].facets)
             /\ \A m \in Own(s) \ {n} : Branch(s, n) \cap Branch(s, m) = {}

\* A unique key is one of the root or of a collection of its own (ir.go:1720), and
\* as it ends with the column of its own field no other has the same columns. The
\* key to the identity is no declared field's.
KeysApart(s) ==
    \A n \in DOMAIN s.uniques :
        LET u == s.uniques[n]
        IN /\ u.table \in {s.table} \cup {s.children[k].table : k \in Own(s)}
           /\ "identity" \notin ToSet(u.columns)
           /\ \A m \in DOMAIN s.uniques \ {n} :
                 s.uniques[m].table = u.table => s.uniques[m].columns # u.columns

\* The owner of an identity is numbered before the roles that reuse it.
ASSUME PlansAssumption ==
    \A p \in Plans :
        /\ IsList(p)
        /\ \A n \in DOMAIN p : /\ Shape(p[n]) /\ NamesApart(p[n]) /\ KeysApart(p[n])
                              /\ Needs(p[n]) \subseteq UNION {TablesOf(p[m]) : m \in 1..n}
                              /\ \A m \in 1..(n - 1) : TablesOf(p[m]) \cap TablesOf(p[n]) = {}

\* No column of a table is mirrored twice.
MirrorsApart(s) ==
    \A n \in DOMAIN s.uniques :
        s.uniques[n].activeOnly
          => /\ IsInjective(s.uniques[n].columns)
             /\ \A m \in DOMAIN s.uniques \ {n} :
                   s.uniques[m].activeOnly /\ s.uniques[m].table = s.uniques[n].table
                     => ToSet(s.uniques[m].columns) \cap ToSet(s.uniques[n].columns) = {}

\* Every index finds its mirrors free: the theorems' condition for what MCTwice
\* of MCSchema breaks.
MirrorsFree == \A p \in Plans : "mysql" \in Engines => \A n \in DOMAIN p : MirrorsApart(p[n])

-----------------------------------------------------------------------------
\* Properties.

\* Whatever an earlier file left, half of it or all, no statement is refused
\* (emit/migrations.go:482, 613): an up finds what it points at and nothing of
\* its own, a down drops nothing that is still pointed at.
NothingRefused == \A i \in DOMAIN script : Due(i) => Possible(Head(script[i]))

\* With no migration under way or dirty, the database holds the tables of the
\* applied entities, every one with its indexes and nothing that was rolled back
\* (emit/migrations.go:596): a down takes out all that its up made.
Clean ==
    (heading = "no" /\ touched = 0)
      => /\ tables = UNION {TablesOf(plan[n]) : n \in 1..applied}
         /\ parts = UNION {PartsOf(engine, plan[n]) : n \in 1..applied}
         /\ \A r \in refs : r[1] \in tables /\ r[2] \in tables

\* A rollback never takes a table from an entity that stays (emit/migrations.go:
\* 492): neither one the two share nor one it only mounts.
SparesOthers ==
    [][\A n \in 1..applied : Needs(plan[n]) \cap tables \subseteq tables']_vars

\* However often it dies half way, the migrator gets to the last migration once
\* rollbacks stop (emit/migrations.go:599).
Deployed == <>[](applied = Len(plan) /\ touched = 0)
=============================================================================
