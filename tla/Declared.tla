------------------------------ MODULE Declared ------------------------------
(***************************************************************************)
(* What one entity's spec declares about the service generated from it,    *)
(* and what the resolver makes of the declaration: the verbs it mounts and *)
(* on which surface, the permission each asks for, where its row scope is  *)
(* enforced, and what its unique index refuses on each engine. A           *)
(* declaration is data; Contract says what it promises and Service what    *)
(* the generated code does.                                                *)
(***************************************************************************)
EXTENDS Naturals, FiniteSets

CONSTANTS
    Tenants, NoTenant,     \* values of the scope column, and the empty one
    Keys, Blank,           \* values of the unique column, and the empty one
    Phases,                \* states of the row's own lifecycle field
    Names,                 \* business identities of the collection's entries
    Slots,                 \* ids the collection's entries may get
    NoEntry, Removed,      \* an id not minted yet, an entry taken out
    Amounts, Zero,         \* values of a composite's parts, and the zero of Go's type
    Absent,                \* a nil pointer: a part not sent, a composite not there
    Nothing,               \* a value the spec does not declare
    NoLimit,
    Null                   \* NULL, where an index has it

ASSUME SentinelAssumption ==
    /\ NoTenant \notin Tenants /\ Blank \notin Keys
    /\ NoEntry # Removed /\ {NoEntry, Removed} \cap Names = {}
    /\ Nothing \notin Phases /\ NoLimit \notin Nat
    /\ Zero \notin Amounts /\ Absent \notin Amounts \cup {Zero}
    /\ Null \notin Tenants \cup {NoTenant, Blank} \cup Keys
ASSUME PhasesAssumption == Phases # {}
ASSUME SlotsAssumption == IsFiniteSet(Slots)

Modes == {"insert", "update", "archive", "unarchive", "delete"}
EntryOps == {"add", "change", "remove"}
RootVerbs == Modes \cup {"patch"}
ClearVerb == "clear"
EntryVerbs == EntryOps \cup {"patchEntry"}
Verbs == RootVerbs \cup EntryVerbs \cup {ClearVerb}
Places == {"read"} \cup Modes
Engines == {"postgres", "oracle", "mysql", "sqlite", "sqlserver"}

Declaration ==
    [modes : SUBSET Modes,                   \* modes
     shape : {"put", "patch", "both"},       \* update.shape
     patchExcludes : BOOLEAN,                \* the key is in update.patchExcludes
     rest : BOOLEAN,                         \* surfaces.rest
     graphql : BOOLEAN,                      \* surfaces.graphql.enabled
     mutations : SUBSET Modes,               \* surfaces.graphql.mutations
     perChild : BOOLEAN,                     \* children[].editStrategy
     operations : SUBSET EntryOps,           \* children[].operations
     changeShape : {"put", "patch", "both"}, \* children[].change.shape
     entryRest : BOOLEAN,                    \* children[].surfaces.rest
     entryMutations : SUBSET EntryOps,       \* children[].surfaces.graphql.mutations
     ownPermission : SUBSET EntryOps,        \* keys of children[].permissions
     guarded : BOOLEAN,                      \* children[].duplicateNotification
     distinct : BOOLEAN,                     \* a childDuplicate rule
     cap : Nat,                              \* a groupCap rule over the entries
     scoped : BOOLEAN,                       \* authz.dataAccess
     applies : SUBSET Places,                \* authz.scopes[].applies
     bypass : BOOLEAN,                       \* authz.bypass
     noIdentity : {"", "refuse", "stand-down"}, \* authz.noIdentity
     stated : BOOLEAN,                       \* bypassMaySet on the scope's field
     unique : {"no", "all", "active-only"},  \* unique.scope of the key
     precheck : BOOLEAN,                     \* unique.enforce
     within : BOOLEAN,                       \* unique.within the scope's field
     legal : SUBSET (Keys \cup {Blank}),     \* what the key's own rules accept
     fixed : BOOLEAN,                        \* an immutable rule on the key
     phases : SUBSET Phases,                 \* the members of the phase's enum
     moves : [Phases -> SUBSET Phases],      \* a transition rule on the phase
     closing : Phases \cup {Nothing},        \* removal.archiveWhen.equals
     becomes : Phases \cup {Nothing},        \* removal.archiveWhen.becomes
     span : {"no", "own", "facet"},          \* an optional composite, and its livesOn
     whole : BOOLEAN,                        \* the composite requires its mandatory part
     max : Nat \cup {NoLimit},               \* a factRange rule on insert
     engine : Engines]                       \* the project's dialect

-----------------------------------------------------------------------------
\* Verbs, surfaces and permissions.

\* The operations the root mounts: one update mode is a PUT, a PATCH or both.
RootOps(d) ==
    (d.modes \ {"update"})
      \cup {v \in {"update", "patch"} :
              /\ "update" \in d.modes
              /\ d.shape \in {"both", IF v = "patch" THEN "patch" ELSE "put"}}

\* The routes a collection serves: its operations, change in its own shapes.
EntryRoutes(d) ==
    IF ~d.perChild THEN {}
    ELSE (d.operations \ {"change"})
           \cup {v \in {"change", "patchEntry"} :
                   /\ "change" \in d.operations
                   /\ d.changeShape \in
                        {"both", IF v = "patchEntry" THEN "patch" ELSE "put"}}

\* The mode a verb is dispatched under: the rule gates know no PATCH.
GateModeOf(v) ==
    IF v \in EntryVerbs \cup {"patch", ClearVerb} THEN "update" ELSE v

\* The modes the aggregate advertises, which the framework refuses any other
\* of: those of the root's operations, so not update for a collection alone.
Advertised(d) == {GateModeOf(v) : v \in RootOps(d)}

\* The operation a collection's spec keys name a route by.
EntryOpOf(v) == IF v = "patchEntry" THEN "change" ELSE v

\* The root's mutations: absent narrows nothing.
GQLMutations(d) ==
    IF ~d.graphql THEN {}
    ELSE IF d.mutations = {} THEN Advertised(d)
    ELSE d.mutations

\* A collection follows its entity onto the schema, and may only narrow it.
GQLEntryMutations(d) ==
    IF ~d.graphql THEN {}
    ELSE IF d.entryMutations = {} THEN d.operations
    ELSE d.operations \cap d.entryMutations

OnREST(d, v) ==
    \/ v \in RootOps(d) /\ d.rest
    \/ v \in EntryRoutes(d) /\ d.rest /\ d.entryRest

\* One mutation for each of the root's operations that is not narrowed out.
RootOnGraphQL(d, v) == v \in RootOps(d) /\ GateModeOf(v) \in GQLMutations(d)

\* A collection's change and its patch are two mutations of one operation.
EntryOnGraphQL(d, v) == v \in EntryRoutes(d) /\ EntryOpOf(v) \in GQLEntryMutations(d)

\* What REST says with a null: it comes with the schema, whatever is narrowed.
ClearOnGraphQL(d, v) == v = ClearVerb /\ d.graphql /\ d.span = "facet"

OnGraphQL(d, v) ==
    \/ RootOnGraphQL(d, v)
    \/ EntryOnGraphQL(d, v)
    \/ ClearOnGraphQL(d, v)

Answers(d, v) == OnREST(d, v) \/ OnGraphQL(d, v)

\* Permissions are named after the operation that declares them. What edits
\* the root through a narrower door asks for the first of these it serves.
UpdatePermission(d) ==
    IF "update" \in RootOps(d) THEN "update"
    ELSE IF "patch" \in RootOps(d) THEN "patch"
    ELSE "insert"

EntryPermission(d, v) ==
    IF EntryOpOf(v) \in d.ownPermission THEN EntryOpOf(v)
    ELSE UpdatePermission(d)

PermissionFor(d, v) ==
    CASE v \in EntryVerbs -> EntryPermission(d, v)
      [] v = ClearVerb    -> UpdatePermission(d)
      [] OTHER            -> v

-----------------------------------------------------------------------------
\* The row scope.

\* Where the scope is enforced: what the spec says, of what is served; by
\* default the reads and every write.
ScopeApplies(d) ==
    LET served == {"read"} \cup Advertised(d)
    IN IF ~d.scoped THEN {}
       ELSE IF d.applies = {} THEN served
       ELSE d.applies \cap served

\* The gates the guard is registered under: never the display gate.
ScopeGates(d) == ScopeApplies(d) \ {"read"}

\* An undeclared policy for a request without identity is to stand down.
StandsDown(d) == d.noIdentity \in {"", "stand-down"}

\* Whether the aggregate learns that its caller crosses the scope: only for a
\* guard of a write to read.
BypassFed(d) == d.bypass /\ ScopeGates(d) # {}

\* Whether an insert may state the scope's value itself.
BypassSettable(d) == BypassFed(d) /\ d.stated

-----------------------------------------------------------------------------
\* Rows and the unique index.

Entry == Names \cup {NoEntry, Removed}

\* The composite in the domain: one value with a mandatory and an optional
\* part, or not there at all.
Folded == [must : Amounts \cup {Zero}, may : Amounts \cup {Absent}]
Span == {Absent} \cup Folded

ASSUME AbsentAssumption == Absent \notin Folded

\* What the aggregate holds.
Entity == [tenant : Tenants \cup {NoTenant},
           key : Keys \cup {Blank},
           phase : Phases,
           entries : [Slots -> Entry],
           span : Span]

\* The entities whose fields hold values a declaration knows.
Entities(d) ==
    [tenant : IF d.scoped THEN Tenants \cup {NoTenant} ELSE {NoTenant},
     key : d.legal,
     phase : d.phases,
     entries : [Slots -> IF d.cap = 0 THEN {NoEntry} ELSE Entry],
     span : IF d.span = "no" THEN {Absent} ELSE Span]

\* A record in the table: at is the lifecycle its archive column and its
\* presence make up.
Row == [at : {"unused", "active", "archived", "gone"}, e : Entity]

NoData == [tenant |-> NoTenant, key |-> Blank,
           phase |-> CHOOSE p \in Phases : TRUE,
           entries |-> [s \in Slots |-> NoEntry],
           span |-> Absent]

Live(e) == {s \in Slots : e.entries[s] \in Names}

NamesOf(e) == {e.entries[s] : s \in Live(e)}

\* The columns of the unique index: the scope's, when there is one, lead.
IndexColumns(d, e) == IF d.within THEN <<e.tenant, e.key>> ELSE <<e.key>>

Kept == {"active", "archived"}

\* ActiveOnlyEntry as it would be if only the leading column had its CASE.
ActiveOnlyEntryLeading(g, d, row) ==
    LET cols == IndexColumns(d, row.e)
    IN CASE g \in {"postgres", "sqlite", "sqlserver"} -> cols
         [] OTHER -> [n \in DOMAIN cols |->
                         IF row.at = "archived" /\ n = 1 THEN Null ELSE cols[n]]

\* What an active-only index holds of a row. PostgreSQL, SQLite and SQL
\* Server leave an archived row out; Oracle turns each column to NULL by a
\* CASE of its own, and MySQL by a virtual column.
ActiveOnlyEntry(g, d, row) ==
    LET cols == IndexColumns(d, row.e)
    IN CASE g \in {"postgres", "sqlite", "sqlserver"} -> cols
         [] OTHER -> [n \in DOMAIN cols |->
                         IF row.at = "archived" THEN Null ELSE cols[n]]

\* Whether two entries of such an index collide: an all-NULL entry is not in
\* Oracle's index, and in MySQL's a NULL differs from everything.
Collide(g, d, row, other) ==
    LET x == ActiveOnlyEntry(g, d, row)
        y == ActiveOnlyEntry(g, d, other)
    IN /\ x = y
       /\ CASE g \in {"postgres", "sqlite", "sqlserver"} ->
                 row.at = "active" /\ other.at = "active"
            [] g = "oracle" -> \E n \in DOMAIN x : x[n] # Null
            [] g = "mysql"  -> \A n \in DOMAIN x : x[n] # Null

\* Whether the database refuses to have both rows.
Clash(g, d, row, other) ==
    /\ row.at \in Kept /\ other.at \in Kept
    /\ \/ d.unique = "all" /\ IndexColumns(d, row.e) = IndexColumns(d, other.e)
       \/ d.unique = "active-only" /\ Collide(g, d, row, other)

-----------------------------------------------------------------------------
\* The declarations the validator accepts, as far as Service depends on it:
\* an insert states the scope's value only where the guard will judge it, and
\* an update can archive only what archives and updates.
Accepted(d) ==
    /\ d.stated => /\ d.scoped /\ d.bypass /\ "insert" \in d.modes
                   /\ "insert" \in ScopeApplies(d)
    /\ d.closing # Nothing => /\ {"update", "archive"} \subseteq d.modes
                               /\ d.closing \in d.phases
                               /\ d.becomes \in d.phases \cup {Nothing}
=============================================================================
