--------------------------- MODULE Service_proofs ---------------------------
(***************************************************************************)
(* Proofs about Service, for any declaration the validator accepts and any *)
(* number of rows, clients and callers.                                    *)
(***************************************************************************)
EXTENDS Service, FiniteSetTheorems, TLAPS

-----------------------------------------------------------------------------
\* The unique index.

\* What two rows have in common when the index holds both: the same columns,
\* in the scope of the constraint.
InScope(d, row, other) ==
    /\ d.unique # "no" /\ row.at \in Kept /\ other.at \in Kept
    /\ d.unique = "active-only" => row.at = "active" /\ other.at = "active"
    /\ IndexColumns(d, row.e) = IndexColumns(d, other.e)

\* The columns of the index are values, never NULL by themselves.
LEMMA ColumnsAreValues ==
    ASSUME NEW d \in Declaration, NEW e \in Entity
    PROVE  /\ DOMAIN IndexColumns(d, e) = IF d.within THEN 1..2 ELSE 1..1
           /\ DOMAIN IndexColumns(d, e) # {}
           /\ \A n \in DOMAIN IndexColumns(d, e) : IndexColumns(d, e)[n] # Null
           /\ [n \in DOMAIN IndexColumns(d, e) |-> IndexColumns(d, e)[n]] = IndexColumns(d, e)
<1>1. e.tenant # Null /\ e.key # Null
  BY SentinelAssumption DEF Entity
<1>2. CASE d.within
  <2>1. IndexColumns(d, e) = <<e.tenant, e.key>>
    BY <1>2 DEF IndexColumns
  <2> QED BY <1>1, <1>2, <2>1
<1>3. CASE ~d.within
  <2>1. IndexColumns(d, e) = <<e.key>>
    BY <1>3 DEF IndexColumns
  <2> QED BY <1>1, <1>3, <2>1
<1> QED BY <1>2, <1>3

\* Each engine's spelling of a unique index comes to the same.
LEMMA ClashIsInScope ==
    ASSUME NEW d \in Declaration, NEW g \in Engines,
           NEW row \in Row, NEW other \in Row
    PROVE  Clash(g, d, row, other) <=> InScope(d, row, other)
<1> DEFINE x == IndexColumns(d, row.e)
           y == IndexColumns(d, other.e)
           a == ActiveOnlyEntry(g, d, row)
           b == ActiveOnlyEntry(g, d, other)
<1>1. /\ row.e \in Entity /\ other.e \in Entity
      /\ row.at \in {"unused", "active", "archived", "gone"}
      /\ other.at \in {"unused", "active", "archived", "gone"}
      /\ d.unique \in {"no", "all", "active-only"}
  BY DEF Row, Declaration
<1>2. /\ DOMAIN x = DOMAIN y /\ DOMAIN x # {}
      /\ \A n \in DOMAIN x : x[n] # Null /\ y[n] # Null
      /\ x = [n \in DOMAIN x |-> x[n]] /\ y = [n \in DOMAIN y |-> y[n]]
  BY <1>1, ColumnsAreValues
<1> SUFFICES ASSUME row.at \in Kept, other.at \in Kept, d.unique = "active-only"
             PROVE  Collide(g, d, row, other) <=> (x = y /\ row.at = "active" /\ other.at = "active")
  BY <1>1 DEF Clash, InScope
<1>3. CASE g \in {"postgres", "sqlite", "sqlserver"}
  BY <1>3 DEF Collide, ActiveOnlyEntry
<1>4. CASE g \in {"oracle", "mysql"}
  <2>1. /\ a = [n \in DOMAIN x |-> IF row.at = "archived" THEN Null ELSE x[n]]
        /\ b = [n \in DOMAIN y |-> IF other.at = "archived" THEN Null ELSE y[n]]
    BY <1>4 DEF ActiveOnlyEntry
  <2>2. row.at = "active" => a = x
    BY <1>2, <2>1
  <2>3. other.at = "active" => b = y
    BY <1>2, <2>1
  <2>4. row.at = "archived" => \A n \in DOMAIN a : a[n] = Null
    BY <2>1
  <2>5. other.at = "archived" => \A n \in DOMAIN b : b[n] = Null
    BY <2>1
  <2>6. DOMAIN a = DOMAIN x /\ DOMAIN b = DOMAIN x
    BY <1>2, <2>1
  <2> HIDE DEF a, b, x, y
  <2>7. CASE g = "oracle"
    <3>1. Collide(g, d, row, other) <=> a = b /\ \E n \in DOMAIN a : a[n] # Null
      BY <2>7 DEF Collide, a, b
    <3> QED BY <3>1, <1>2, <2>2, <2>3, <2>4, <2>5, <2>6 DEF Kept
  <2>8. CASE g = "mysql"
    <3>1. Collide(g, d, row, other) <=> a = b /\ \A n \in DOMAIN a : a[n] # Null
      BY <2>8 DEF Collide, a, b
    <3> QED BY <3>1, <1>2, <2>2, <2>3, <2>4, <2>5, <2>6 DEF Kept
  <2> QED BY <1>4, <2>7, <2>8
<1> QED BY <1>3, <1>4 DEF Engines

-----------------------------------------------------------------------------
\* Contract reads Declared for itself: what it calls by these names is the
\* same.
LEMMA SameLive ==
    ASSUME NEW e
    PROVE  C!Live(e) = Live(e)
BY DEF C!Live, Live

LEMMA SameCardinality ==
    ASSUME NEW S
    PROVE  C!Cardinality(S) = Cardinality(S)
BY DEF C!Cardinality, Cardinality

LEMMA SameGateModeOf ==
    ASSUME NEW v
    PROVE  C!GateModeOf(v) = GateModeOf(v)
BY DEF C!GateModeOf, GateModeOf, C!EntryVerbs, EntryVerbs, C!EntryOps, EntryOps, C!ClearVerb, ClearVerb

LEMMA SameRootOps ==
    ASSUME NEW d
    PROVE  C!RootOps(d) = RootOps(d)
BY DEF C!RootOps, RootOps

LEMMA SameAdvertised ==
    ASSUME NEW d
    PROVE  C!Advertised(d) = Advertised(d)
BY SameRootOps, SameGateModeOf DEF C!Advertised, Advertised

LEMMA SameAnswers ==
    ASSUME NEW d, NEW v
    PROVE  C!Answers(d, v) = Answers(d, v)
<1>1. C!EntryRoutes(d) = EntryRoutes(d)
  BY DEF C!EntryRoutes, EntryRoutes
<1>2. C!EntryOpOf(v) = EntryOpOf(v)
  BY DEF C!EntryOpOf, EntryOpOf
<1>3. C!GQLMutations(d) = GQLMutations(d)
  BY SameAdvertised DEF C!GQLMutations, GQLMutations
<1>4. C!GQLEntryMutations(d) = GQLEntryMutations(d)
  BY DEF C!GQLEntryMutations, GQLEntryMutations
<1>5. C!OnREST(d, v) = OnREST(d, v)
  BY <1>1, SameRootOps DEF C!OnREST, OnREST
<1>6. C!OnGraphQL(d, v) = OnGraphQL(d, v)
  BY <1>1, <1>2, <1>3, <1>4, SameRootOps, SameGateModeOf
     DEF C!OnGraphQL, OnGraphQL, C!RootOnGraphQL, RootOnGraphQL,
         C!EntryOnGraphQL, EntryOnGraphQL, C!ClearOnGraphQL,
         ClearOnGraphQL, C!ClearVerb, ClearVerb
<1> QED BY <1>5, <1>6 DEF C!Answers, Answers

LEMMA SameIndexColumns ==
    ASSUME NEW d, NEW e
    PROVE  C!IndexColumns(d, e) = IndexColumns(d, e)
BY DEF C!IndexColumns, IndexColumns

LEMMA SameEntities ==
    ASSUME NEW d
    PROVE  C!Entities(d) = Entities(d)
BY DEF C!Entities, Entities, C!Entry, Entry, C!Span, Span, C!Folded, Folded

LEMMA SameLawful ==
    ASSUME NEW d, NEW e
    PROVE  C!Lawful(d, e) <=> GroupCap(d, e) /\ ChildDuplicate(d, e) /\ SpanIsValid(d, e)
BY SameLive, SameCardinality DEF C!Lawful, GroupCap, ChildDuplicate, SpanIsValid

LEMMA SameKeyWritable ==
    ASSUME NEW d
    PROVE  C!KeyWritable(d) <=> /\ ~d.fixed
                                /\ \/ Answers(d, "update")
                                   \/ Answers(d, "patch") /\ ~d.patchExcludes
BY SameAnswers DEF C!KeyWritable

LEMMA SameKeysUnique ==
    ASSUME NEW d, NEW table
    PROVE  C!KeysUnique(d, table)
             <=> \A i, j \in Ids : i # j => ~InScope(d, table[i], table[j])
BY SameIndexColumns DEF C!KeysUnique, InScope, C!Kept, Kept

-----------------------------------------------------------------------------
\* The mappers.

\* What no mapper does to a collection: bring back an entry that was taken
\* out, forget one that is there, or take out one that is not.
EntriesKept(old, new) ==
    \A s \in Slots : /\ old[s] = Removed => new[s] = Removed
                     /\ old[s] \in Names => new[s] # NoEntry
                     /\ old[s] = NoEntry => new[s] # Removed

LEMMA ReplacedKeeps ==
    ASSUME NEW old \in Entity, NEW names \in SUBSET Names, NEW f \in Replaced(old, names)
    PROVE  f \in [Slots -> Entry] /\ EntriesKept(old.entries, f)
<1>1. f \in [Slots -> names \cup {NoEntry, Removed}]
  BY DEF Replaced
<1>2. ASSUME NEW s \in Slots
      PROVE  /\ old.entries[s] \in names => f[s] = old.entries[s]
             /\ (old.entries[s] \notin names /\ old.entries[s] = NoEntry)
                  => f[s] \in {NoEntry} \cup (names \ NamesOf(old))
             /\ (old.entries[s] \notin names /\ old.entries[s] # NoEntry) => f[s] = Removed
  <2>1. (CASE old.entries[s] \in names -> f[s] = old.entries[s]
           [] old.entries[s] = NoEntry -> f[s] \in {NoEntry} \cup (names \ NamesOf(old))
           [] OTHER                    -> f[s] = Removed)
    BY <1>2 DEF Replaced
  <2>2. NoEntry \notin names
    BY SentinelAssumption
  <2> QED BY <2>1, <2>2
<1>3. NoEntry # Removed /\ NoEntry \notin Names /\ Removed \notin Names
  BY SentinelAssumption
<1>4. f \in [Slots -> Entry]
  BY <1>1 DEF Entry
<1>5. ASSUME NEW s \in Slots
      PROVE  /\ old.entries[s] = Removed => f[s] = Removed
             /\ old.entries[s] \in Names => f[s] # NoEntry
             /\ old.entries[s] = NoEntry => f[s] # Removed
  BY <1>2, <1>3
<1> QED BY <1>4, <1>5 DEF EntriesKept

LEMMA NoDataType == NoData \in Entity
<1>1. (CHOOSE p \in Phases : TRUE) \in Phases
  BY PhasesAssumption
<1> QED BY <1>1 DEF NoData, Entity, Entry, Span

LEMMA FoldType ==
    ASSUME NEW d \in Declaration, NEW target \in Span, NEW parts \in Parts(d)
    PROVE  /\ Fold(target, parts) \in Span
           /\ d.span = "no" => Fold(target, parts) = target
           /\ target # Absent => Fold(target, parts) # Absent
<1>1. /\ parts.must \in Amounts \cup {Zero, Absent}
      /\ parts.may \in Amounts \cup {Absent}
      /\ d.span = "no" => parts.must = Absent /\ parts.may = Absent
  BY DEF Parts
<1>2. Sent(parts) => Fold(target, parts) \in Folded
  BY <1>1 DEF Fold, Folded
<1>3. ~Sent(parts) => Fold(target, parts) = target
  BY DEF Fold
<1> QED BY <1>1, <1>2, <1>3, AbsentAssumption DEF Span, Sent

LEMMA FoldPartiallyType ==
    ASSUME NEW d \in Declaration, NEW target \in Span, NEW parts \in Parts(d)
    PROVE  /\ FoldPartially(target, parts) \in Span
           /\ d.span = "no" => FoldPartially(target, parts) = target
           /\ target # Absent => FoldPartially(target, parts) # Absent
<1>1. /\ parts.must \in Amounts \cup {Zero, Absent}
      /\ parts.may \in Amounts \cup {Absent}
      /\ d.span = "no" => parts.must = Absent /\ parts.may = Absent
  BY DEF Parts
<1> DEFINE old == IF target = Absent THEN [must |-> Zero, may |-> Absent] ELSE target
<1>2. old \in Folded
  BY DEF Span, Folded
<1>3. old.must \in Amounts \cup {Zero} /\ old.may \in Amounts \cup {Absent}
  BY <1>2 DEF Folded
<1>4. Sent(parts) => FoldPartially(target, parts)
                       = [must |-> IF parts.must = Absent THEN old.must ELSE parts.must,
                          may |-> IF parts.may = Absent THEN old.may ELSE parts.may]
  BY DEF FoldPartially
<1>5. Sent(parts) => FoldPartially(target, parts) \in Folded
  <2> HIDE DEF old
  <2> QED BY <1>1, <1>3, <1>4 DEF Folded
<1>6. ~Sent(parts) => FoldPartially(target, parts) = target
  BY DEF FoldPartially
<1> QED BY <1>1, <1>5, <1>6, AbsentAssumption DEF Span, Sent

\* What every mapper of an existing row leaves alone, by the verb it serves.
Mapped(d, v, old, e) ==
    /\ e \in Entity
    /\ e.tenant = old.tenant
    /\ e.key # old.key => v = "update" \/ (v = "patch" /\ ~d.patchExcludes)
    /\ EntriesKept(old.entries, e.entries)
    /\ d.span = "no" => e.span = old.span
    /\ (e.span = Absent /\ old.span # Absent) => v = ClearVerb

LEMMA EntityFields ==
    ASSUME NEW e \in Entity
    PROVE  /\ e.tenant \in Tenants \cup {NoTenant} /\ e.key \in Keys \cup {Blank}
           /\ e.phase \in Phases /\ e.entries \in [Slots -> Entry] /\ e.span \in Span
BY DEF Entity

LEMMA KeptAsIs ==
    ASSUME NEW f \in [Slots -> Entry]
    PROVE  EntriesKept(f, f)
<1>1. NoEntry # Removed /\ NoEntry \notin Names
  BY SentinelAssumption
<1> QED BY <1>1 DEF EntriesKept

LEMMA MapsAsIs ==
    ASSUME NEW d, NEW old \in Entity, NEW v
    PROVE  Mapped(d, v, old, old)
BY EntityFields, KeptAsIs DEF Mapped

LEMMA ApplyToMaps ==
    ASSUME NEW d \in Declaration, NEW old \in Entity, NEW body \in Bodies(d),
           NEW e \in ApplyTo(old, body)
    PROVE  Mapped(d, "update", old, e)
<1>1. /\ body.key \in Keys \cup {Blank} /\ body.phase \in Phases
      /\ body.names \in SUBSET Names /\ body.parts \in Parts(d)
  BY DEF Bodies
<1>2. PICK f \in Replaced(old, body.names) :
        e = [old EXCEPT !.key = body.key, !.phase = body.phase, !.entries = f,
                        !.span = Fold(@, body.parts)]
  BY DEF ApplyTo
<1>3. f \in [Slots -> Entry] /\ EntriesKept(old.entries, f)
  BY <1>1, ReplacedKeeps
<1>4. old.span \in Span
  BY EntityFields
<1>5. /\ Fold(old.span, body.parts) \in Span
      /\ d.span = "no" => Fold(old.span, body.parts) = old.span
      /\ old.span # Absent => Fold(old.span, body.parts) # Absent
  BY <1>1, <1>4, FoldType
<1>6. /\ e \in Entity /\ e.tenant = old.tenant
      /\ e.entries = f /\ e.span = Fold(old.span, body.parts)
  BY <1>1, <1>2, <1>3, <1>5 DEF Entity
<1> QED BY <1>3, <1>5, <1>6 DEF Mapped

LEMMA ApplyPartiallyMaps ==
    ASSUME NEW d \in Declaration, NEW old \in Entity,
           NEW key \in Keys \cup {Blank}, NEW phase \in Phases, NEW parts \in Parts(d),
           NEW e \in ApplyPartiallyTo(d, old, key, phase, parts)
    PROVE  Mapped(d, "patch", old, e)
<1> DEFINE k == IF d.patchExcludes THEN old.key ELSE key
<1>1. e = [old EXCEPT !.key = k, !.phase = phase, !.span = FoldPartially(@, parts)]
  BY DEF ApplyPartiallyTo
<1>2. k \in Keys \cup {Blank} /\ (k # old.key => ~d.patchExcludes)
  BY EntityFields
<1>3. old.span \in Span /\ old.entries \in [Slots -> Entry]
  BY EntityFields
<1>4. /\ FoldPartially(old.span, parts) \in Span
      /\ d.span = "no" => FoldPartially(old.span, parts) = old.span
      /\ old.span # Absent => FoldPartially(old.span, parts) # Absent
  BY <1>3, FoldPartiallyType
<1> HIDE DEF k
<1>5. /\ e \in Entity /\ e.tenant = old.tenant /\ e.key = k
      /\ e.entries = old.entries /\ e.span = FoldPartially(old.span, parts)
  BY <1>1, <1>2, <1>4 DEF Entity
<1> QED BY <1>2, <1>3, <1>4, <1>5, KeptAsIs DEF Mapped

LEMMA ClearMaps ==
    ASSUME NEW d \in Declaration, NEW old \in Entity, d.span # "no"
    PROVE  Mapped(d, ClearVerb, old, [old EXCEPT !.span = Absent])
<1>1. [old EXCEPT !.span = Absent] \in Entity
  BY DEF Entity, Span
<1>2. old.entries \in [Slots -> Entry]
  BY EntityFields
<1> QED BY <1>1, <1>2, KeptAsIs DEF Mapped, Entity

\* One entry of the collection is replaced by another.
LEMMA OneEntryMaps ==
    ASSUME NEW d, NEW old \in Entity, NEW v, NEW s \in Slots, NEW x \in Names \cup {Removed},
           old.entries[s] # Removed, old.entries[s] = NoEntry => x # Removed
    PROVE  Mapped(d, v, old, [old EXCEPT !.entries[s] = x])
<1> DEFINE f == [old.entries EXCEPT ![s] = x]
<1>1. old.entries \in [Slots -> Entry]
  BY EntityFields
<1>2. NoEntry # Removed /\ NoEntry \notin Names /\ Removed \notin Names
  BY SentinelAssumption
<1>3. f \in [Slots -> Entry] /\ EntriesKept(old.entries, f)
  BY <1>1, <1>2 DEF EntriesKept, Entry
<1>4. [old EXCEPT !.entries[s] = x] = [old EXCEPT !.entries = f]
  OBVIOUS
<1> HIDE DEF f
<1>5. [old EXCEPT !.entries = f] \in Entity
  BY <1>3 DEF Entity
<1> QED BY <1>3, <1>4, <1>5 DEF Mapped, Entity

LEMMA AddMaps ==
    ASSUME NEW d, NEW old \in Entity, NEW v, NEW n \in Names, NEW e \in AddOne(d, old, n)
    PROVE  Mapped(d, v, old, e)
<1>1. NoEntry # Removed /\ NoEntry \notin Names /\ Removed \notin Names
  BY SentinelAssumption
<1>2. CASE e = old
  BY <1>2, MapsAsIs
<1>3. CASE \E t \in Slots : old.entries[t] = NoEntry /\ e = [old EXCEPT !.entries[t] = n]
  BY <1>1, <1>3, OneEntryMaps
<1> QED BY <1>2, <1>3 DEF AddOne

LEMMA ByIDMaps ==
    ASSUME NEW d, NEW old \in Entity, NEW v, NEW s \in Slots, NEW e,
           \/ e \in PatchByID(old, s) \/ e \in RemoveByID(old, s)
           \/ \E n \in Names : e \in ChangeByID(old, s, n)
    PROVE  Mapped(d, v, old, e)
<1>1. NoEntry # Removed /\ NoEntry \notin Names /\ Removed \notin Names
  BY SentinelAssumption
<1>2. CASE e = old
  BY <1>2, MapsAsIs
<1>3. CASE /\ old.entries[s] \in Names
           /\ \E x \in Names \cup {Removed} : e = [old EXCEPT !.entries[s] = x]
  BY <1>1, <1>3, OneEntryMaps
<1> QED BY <1>2, <1>3 DEF ChangeByID, PatchByID, RemoveByID, Live

-----------------------------------------------------------------------------
\* The rules.

\* The guard and the filter of the read side agree: what the guard lets write,
\* the filter lets read.
LEMMA GuardedIsReadable ==
    ASSUME NEW d \in Declaration, NEW v, NEW who \in Caller, NEW e \in Entity,
           GateModeOf(v) \in ScopeGates(d), ScopeGuard(d, v, who, e)
    PROVE  e.tenant \in ReadFilter(d, who)
<1>1. e.tenant \in Tenants \cup {NoTenant}
  BY EntityFields
<1>2. \/ StandsDown(d) /\ ~who.present
      \/ d.bypass /\ who.present /\ who.crosses
      \/ e.tenant = IF who.present THEN who.tenant ELSE NoTenant
  BY DEF ScopeGuard, Fed, BypassFed
<1> QED BY <1>1, <1>2 DEF ReadFilter

\* An insert is readable even where nothing guards it: its value is then the
\* caller's own.
LEMMA InsertedIsReadable ==
    ASSUME NEW d \in Declaration, Accepted(d), NEW who \in Caller, NEW body \in Bodies(d),
           NEW e \in ToEntity(d, who, body), e \in Entity,
           ScopeGuard(d, "insert", who, e)
    PROVE  e.tenant \in ReadFilter(d, who)
<1>1. GateModeOf("insert") = "insert"
  BY DEF GateModeOf, EntryVerbs, EntryOps, ClearVerb
<1>2. CASE "insert" \in ScopeGates(d)
  BY <1>1, <1>2, GuardedIsReadable
<1>3. CASE "insert" \notin ScopeGates(d) /\ "read" \in ScopeApplies(d)
  <2>1. d.scoped
    BY <1>3 DEF ScopeApplies
  <2>2. ~d.stated
    BY <1>3 DEF Accepted, ScopeGates
  <2>3. body.stated = NoTenant
    BY <2>2 DEF Bodies, BypassSettable
  <2>4. e.tenant = IF who.present THEN who.tenant ELSE NoTenant
    BY <2>1, <2>3 DEF ToEntity, AssignedTenant, Overridden
  <2> QED BY <2>4, <1>3, EntityFields DEF ReadFilter
<1>4. CASE "read" \notin ScopeApplies(d)
  BY <1>4, EntityFields DEF ReadFilter
<1> QED BY <1>2, <1>3, <1>4

LEMMA LiveIsFinite ==
    ASSUME NEW e \in Entity
    PROVE  /\ IsFiniteSet(Live(e)) /\ Cardinality(Live(e)) \in Nat
           /\ Cardinality(Live(e)) = 0 <=> Live(e) = {}
<1>1. Live(e) \subseteq Slots
  BY DEF Live
<1>2. IsFiniteSet(Live(e))
  BY <1>1, SlotsAssumption, FS_Subset
<1> QED BY <1>2, FS_CardinalityType, FS_EmptySet

\* Entities(d) by its parts.
LEMMA KnownEntity ==
    ASSUME NEW d \in Declaration, NEW e \in Entity,
           d.scoped \/ e.tenant = NoTenant,
           e.key \in d.legal, e.phase \in d.phases,
           d.cap = 0 => \A s \in Slots : e.entries[s] = NoEntry,
           d.span = "no" => e.span = Absent
    PROVE  e \in Entities(d)
<1> DEFINE T == IF d.scoped THEN Tenants \cup {NoTenant} ELSE {NoTenant}
           F == [Slots -> IF d.cap = 0 THEN {NoEntry} ELSE Entry]
           P == IF d.span = "no" THEN {Absent} ELSE Span
<1>1. e.tenant \in T /\ e.span \in P
  BY EntityFields
<1>2. e.entries \in F
  BY EntityFields
<1>3. e = [tenant |-> e.tenant, key |-> e.key, phase |-> e.phase,
           entries |-> e.entries, span |-> e.span]
  BY DEF Entity
<1>4. Entities(d) = [tenant : T, key : d.legal, phase : d.phases, entries : F, span : P]
  BY DEF Entities
<1> HIDE DEF T, F, P
<1> QED BY <1>1, <1>2, <1>3, <1>4

LEMMA KnownEntityParts ==
    ASSUME NEW d \in Declaration, NEW e \in Entities(d)
    PROVE  /\ e \in Entity
           /\ d.scoped \/ e.tenant = NoTenant
           /\ e.key \in d.legal /\ e.phase \in d.phases
           /\ d.cap = 0 => \A s \in Slots : e.entries[s] = NoEntry
           /\ d.span = "no" => e.span = Absent
<1> DEFINE T == IF d.scoped THEN Tenants \cup {NoTenant} ELSE {NoTenant}
           F == [Slots -> IF d.cap = 0 THEN {NoEntry} ELSE Entry]
           P == IF d.span = "no" THEN {Absent} ELSE Span
<1>1. Entities(d) = [tenant : T, key : d.legal, phase : d.phases, entries : F, span : P]
  BY DEF Entities
<1>2. e.tenant \in T /\ e.entries \in F /\ e.span \in P /\ e.key \in d.legal /\ e.phase \in d.phases
  BY <1>1
<1>3. T \subseteq Tenants \cup {NoTenant} /\ P \subseteq Span
  BY DEF Span
<1>4. F \subseteq [Slots -> Entry]
  BY DEF Entry
<1>5. d.legal \subseteq Keys \cup {Blank} /\ d.phases \subseteq Phases
  BY DEF Declaration
<1>6. e \in Entity
  <2>1. e = [tenant |-> e.tenant, key |-> e.key, phase |-> e.phase,
             entries |-> e.entries, span |-> e.span]
    BY <1>1
  <2> HIDE DEF T, F, P
  <2> QED BY <1>2, <1>3, <1>4, <1>5, <2>1 DEF Entity
<1> QED BY <1>2, <1>6

\* An update that was mapped and passed the rules is one the spec allows.
LEMMA RuledUpdate ==
    ASSUME NEW d \in Declaration, NEW v \in Verbs, GateModeOf(v) = "update",
           Answers(d, v), NEW who, NEW old \in Entities(d), NEW e,
           Mapped(d, v, old, e), BuildRules(d, v, who, old, e)
    PROVE  e \in Entities(d) /\ C!Lawful(d, e) /\ C!MayBecome(d, old, e)
<1>1. /\ old \in Entity
      /\ d.scoped \/ old.tenant = NoTenant
      /\ d.cap = 0 => \A s \in Slots : old.entries[s] = NoEntry
      /\ d.span = "no" => old.span = Absent
  BY KnownEntityParts
<1>2. /\ e \in Entity /\ e.tenant = old.tenant /\ EntriesKept(old.entries, e.entries)
      /\ d.span = "no" => e.span = old.span
  BY DEF Mapped
<1>3. /\ e.key \in d.legal /\ e.phase \in d.phases
      /\ GroupCap(d, e) /\ ChildDuplicate(d, e) /\ SpanIsValid(d, e)
      /\ Immutable(d, old, e) /\ Transition(d, old, e)
  BY DEF BuildRules
<1>4. ASSUME d.cap = 0, NEW s \in Slots
      PROVE  e.entries[s] = NoEntry
  <2>1. Live(e) = {}
    BY <1>2, <1>3, <1>4, LiveIsFinite DEF GroupCap
  <2>2. e.entries[s] \notin Names
    BY <2>1 DEF Live
  <2>3. e.entries[s] # Removed
    BY <1>1, <1>2, <1>4 DEF EntriesKept
  <2>4. e.entries[s] \in Entry
    BY <1>2, EntityFields
  <2> QED BY <2>2, <2>3, <2>4 DEF Entry
<1>5. e \in Entities(d)
  BY <1>1, <1>2, <1>3, <1>4, KnownEntity
<1>6. C!Lawful(d, e)
  BY <1>3, SameLawful
<1>7. e.key # old.key => C!KeyWritable(d)
  BY <1>3, SameKeyWritable DEF Mapped, Immutable
<1>8. (e.span = Absent /\ old.span # Absent) => \E w \in {"update", ClearVerb} : Answers(d, w)
  BY DEF Mapped
<1>9. (\E w \in {"update", C!ClearVerb} : C!Answers(d, w))
        <=> (\E w \in {"update", ClearVerb} : Answers(d, w))
  BY SameAnswers DEF C!ClearVerb, ClearVerb
<1> QED BY <1>2, <1>3, <1>5, <1>6, <1>7, <1>8, <1>9 DEF C!MayBecome, EntriesKept, Transition

\* An insert that passed the rules is one the spec allows, and readable.
LEMMA RuledInsert ==
    ASSUME NEW d \in Declaration, Accepted(d), NEW who \in Caller, NEW body \in Bodies(d),
           NEW e \in ToEntity(d, who, body), BuildRules(d, "insert", who, NoData, e)
    PROVE  /\ e \in Entities(d) /\ C!Lawful(d, e)
           /\ \A s \in Slots : e.entries[s] # Removed
           /\ e.tenant \in ReadFilter(d, who)
<1>1. /\ body.stated \in Tenants \cup {NoTenant}
      /\ body.key \in Keys \cup {Blank} /\ body.phase \in Phases
      /\ body.names \in SUBSET Names /\ body.parts \in Parts(d)
      /\ d.cap = 0 => body.names = {}
  BY DEF Bodies
<1>2. PICK f \in Replaced(NoData, body.names) :
        e = [tenant |-> AssignedTenant(d, who, body.stated), key |-> body.key,
             phase |-> body.phase, entries |-> f, span |-> Fold(Absent, body.parts)]
  BY DEF ToEntity
<1>3. f \in [Slots -> Entry] /\ EntriesKept(NoData.entries, f)
  BY <1>1, NoDataType, ReplacedKeeps
<1>4. \A s \in Slots : f[s] # Removed
  BY <1>3 DEF EntriesKept, NoData
<1>5. /\ Fold(Absent, body.parts) \in Span
      /\ d.span = "no" => Fold(Absent, body.parts) = Absent
  BY <1>1, FoldType DEF Span
<1>6. /\ AssignedTenant(d, who, body.stated) \in Tenants \cup {NoTenant}
      /\ d.scoped \/ AssignedTenant(d, who, body.stated) = NoTenant
  BY <1>1 DEF AssignedTenant, Overridden, Caller
<1>7. e \in Entity
  BY <1>1, <1>2, <1>3, <1>5, <1>6 DEF Entity
<1>8. GateModeOf("insert") = "insert"
  BY DEF GateModeOf, EntryVerbs, EntryOps, ClearVerb
<1>9. /\ e.key \in d.legal /\ e.phase \in d.phases
      /\ GroupCap(d, e) /\ ChildDuplicate(d, e) /\ SpanIsValid(d, e)
      /\ ScopeGuard(d, "insert", who, e)
  BY <1>8 DEF BuildRules
<1>10. ASSUME d.cap = 0, NEW s \in Slots
       PROVE  e.entries[s] = NoEntry
  <2>1. Live(e) = {}
    BY <1>7, <1>9, <1>10, LiveIsFinite DEF GroupCap
  <2>2. e.entries[s] \notin Names
    BY <2>1 DEF Live
  <2>3. e.entries[s] # Removed /\ e.entries[s] \in Entry
    BY <1>2, <1>3, <1>4
  <2> QED BY <2>2, <2>3 DEF Entry
<1>11. e.tenant = AssignedTenant(d, who, body.stated) /\ e.span = Fold(Absent, body.parts)
  BY <1>2
<1>12. e \in Entities(d)
  BY <1>5, <1>6, <1>7, <1>9, <1>10, <1>11, KnownEntity
<1>13. e.tenant \in ReadFilter(d, who)
  BY <1>7, <1>9, InsertedIsReadable
<1> QED BY <1>2, <1>4, <1>9, <1>12, <1>13, SameLawful

-----------------------------------------------------------------------------
\* The inductive invariant.

\* A step that only changes what one client has in progress, to something fit.
LEMMA RequestFits ==
    ASSUME Inv, NEW c \in Clients, NEW r \in Request,
           Built(decl, r), Free(decl, rows, r),
           (r.mode # "insert" /\ r.current) => Fits(decl, r, rows[r.id]),
           req' = [req EXCEPT ![c] = r], UNCHANGED <<decl, rows>>
    PROVE  Inv'
<1>1. TypeOK'
  BY DEF Inv, TypeOK
<1>2. ASSUME NEW x \in Clients, req'[x] # Idle
      PROVE  /\ Built(decl, req'[x])
             /\ (req'[x].mode # "insert" /\ req'[x].current) => Fits(decl, req'[x], rows[req'[x].id])
             /\ Free(decl, rows, req'[x])
  <2>1. req'[x] = IF x = c THEN r ELSE req[x]
    BY DEF Inv, TypeOK
  <2> QED BY <1>2, <2>1 DEF Inv
<1> QED BY <1>1, <1>2 DEF Inv

LEMMA RefuseFits ==
    ASSUME Inv, NEW c \in Clients, Refuse(c), UNCHANGED <<decl, rows>>
    PROVE  Inv'
<1>1. TypeOK'
  BY DEF Inv, TypeOK, Refuse
<1>2. \A x \in Clients : req'[x] = IF x = c THEN Idle ELSE req[x]
  BY DEF Inv, TypeOK, Refuse
<1> QED BY <1>1, <1>2 DEF Inv

\* The modes requests are dispatched under are declared.
LEMMA AdvertisedModes ==
    ASSUME NEW d \in Declaration
    PROVE  Advertised(d) \subseteq d.modes
<1> SUFFICES ASSUME NEW v \in RootOps(d)
             PROVE  GateModeOf(v) \in d.modes
  BY DEF Advertised
<1>1. d.modes \subseteq Modes
  BY DEF Declaration
<1>2. CASE v \in d.modes \ {"update"}
  <2>1. v \notin EntryVerbs \cup {"patch", ClearVerb}
    BY <1>1, <1>2 DEF Modes, EntryVerbs, EntryOps, ClearVerb
  <2> QED BY <1>2, <2>1 DEF GateModeOf
<1>3. CASE v \in {"update", "patch"} /\ "update" \in d.modes
  BY <1>3 DEF GateModeOf, EntryVerbs, EntryOps, ClearVerb
<1> QED BY <1>2, <1>3 DEF RootOps

LEMMA InsertFits ==
    ASSUME Inv, NEW c \in Clients, NEW who \in Caller, Insert(c, who)
    PROVE  Inv'
<1>1. PICK body \in Bodies(decl) :
        Submit(c, "insert", who, NoId, NoData, ToEntity(decl, who, body))
  BY DEF Insert
<1>2. GateModeOf("insert") = "insert"
  BY DEF GateModeOf, EntryVerbs, EntryOps, ClearVerb
<1> DEFINE r(e) == [pc |-> IF AsksCount(decl, "insert") THEN "count"
                           ELSE AfterCount(decl, "insert", e),
                    mode |-> "insert", reach |-> ReadFilter(decl, who),
                    id |-> NoId, e |-> e, current |-> TRUE, raced |-> FALSE]
<1>3. PICK e \in ToEntity(decl, who, body) :
        /\ BuildRules(decl, "insert", who, NoData, e)
        /\ req' = [req EXCEPT ![c] = r(e)]
  BY <1>1, <1>2 DEF Submit
<1>4. decl \in Declaration /\ Accepted(decl)
  BY DEF Inv, TypeOK
<1>5. /\ e \in Entities(decl) /\ C!Lawful(decl, e)
      /\ \A s \in Slots : e.entries[s] # Removed
      /\ e.tenant \in ReadFilter(decl, who)
  BY <1>3, <1>4, RuledInsert
<1>6. e \in Entity
  BY <1>4, <1>5, KnownEntityParts
<1>7. ReadFilter(decl, who) \in SUBSET (Tenants \cup {NoTenant})
  BY DEF ReadFilter, Caller
<1>8. r(e) \in Request
  BY <1>6, <1>7 DEF Request, AfterCount, Modes
<1>9. "insert" \in decl.modes
  BY <1>2, <1>4, AdvertisedModes DEF Insert, Admits
<1>10. Built(decl, r(e))
  BY <1>5, <1>9 DEF Built
<1>11. Free(decl, rows, r(e))
  BY DEF Free, AfterCount
<1>12. r(e).mode = "insert"
  OBVIOUS
<1>13. UNCHANGED <<decl, rows>>
  BY <1>1 DEF Submit
<1> HIDE DEF r
<1> QED BY <1>3, <1>8, <1>10, <1>11, <1>12, <1>13, RequestFits

\* The other verbs, by what their mappers leave alone.
LEMMA SubmitFits ==
    ASSUME Inv, NEW c \in Clients, NEW v \in Verbs, v # "insert", NEW who \in Caller,
           NEW i \in Ids, Admits(c, v, who), Loads(i, v), NEW mapped,
           \A e \in mapped : /\ Mapped(decl, v, rows[i].e, e)
                             /\ GateModeOf(v) # "update" => e = rows[i].e,
           Submit(c, v, who, i, rows[i].e, mapped)
    PROVE  Inv'
<1> DEFINE m == GateModeOf(v)
           r(e) == [pc |-> IF AsksCount(decl, m) THEN "count" ELSE AfterCount(decl, m, e),
                    mode |-> m, reach |-> ReadFilter(decl, who),
                    id |-> i, e |-> e, current |-> TRUE, raced |-> FALSE]
<1>1. PICK e \in mapped : BuildRules(decl, v, who, rows[i].e, e) /\ req' = [req EXCEPT ![c] = r(e)]
  BY DEF Submit
<1>2. decl \in Declaration /\ rows[i] \in Row
  BY DEF Inv, TypeOK
<1>3. m \in decl.modes /\ m \in Modes
  BY <1>2, AdvertisedModes DEF Admits, Declaration
<1>4. m # "insert" /\ (m = "unarchive" <=> v = "unarchive")
  BY DEF GateModeOf, Verbs, RootVerbs, Modes, EntryVerbs, EntryOps, ClearVerb
<1>5. rows[i].at = IF m = "unarchive" THEN "archived" ELSE "active"
  BY <1>4 DEF Loads
<1>6. rows[i].e \in Entities(decl)
  BY <1>5 DEF Inv, Kept
<1>7. e \in Entity /\ e.tenant = rows[i].e.tenant
  BY DEF Mapped
<1>8. m = "update" => e \in Entities(decl) /\ C!Lawful(decl, e) /\ C!MayBecome(decl, rows[i].e, e)
  BY <1>1, <1>2, <1>6, RuledUpdate DEF Admits
<1>9. m # "update" => e = rows[i].e
  OBVIOUS
<1>10. m \in ScopeGates(decl) => rows[i].e.tenant \in ReadFilter(decl, who)
  BY <1>1, <1>2, <1>7, GuardedIsReadable DEF BuildRules
<1>11. ReadFilter(decl, who) \in SUBSET (Tenants \cup {NoTenant})
  BY DEF ReadFilter, Caller
<1>12. r(e) \in Request
  <2> HIDE DEF m
  <2> QED BY <1>3, <1>7, <1>11 DEF Request, AfterCount
<1>13. Built(decl, r(e))
  BY <1>3, <1>4 DEF Built
<1>14. Free(decl, rows, r(e))
  BY DEF Free, AfterCount
<1>15. Fits(decl, r(e), rows[r(e).id])
  <2> HIDE DEF m
  <2> QED BY <1>5, <1>8, <1>9, <1>10 DEF Fits
<1>16. UNCHANGED <<decl, rows>>
  BY DEF Submit
<1> HIDE DEF r
<1> QED BY <1>1, <1>12, <1>13, <1>14, <1>15, <1>16, RequestFits

\* Every way a request begins.
LEMMA BeginFits ==
    ASSUME Inv, NEW c \in Clients, Begin(c)
    PROVE  Inv'
<1>1. PICK who \in Callers :
        \/ Insert(c, who)
        \/ \E i \in Ids :
              \/ Update(c, who, i) \/ Patch(c, who, i) \/ Clear(c, who, i)
              \/ \E v \in {"archive", "unarchive", "delete"} : ByID(c, v, who, i)
              \/ Add(c, who, i) \/ Change(c, who, i)
              \/ PatchOne(c, who, i) \/ Remove(c, who, i)
  BY DEF Begin
<1>2. who \in Caller
  BY CallersAssumption
<1>3. decl \in Declaration
  BY DEF Inv, TypeOK
<1>4. \A i \in Ids : rows[i].e \in Entity
  BY DEF Inv, TypeOK, Row
<1>5. CASE Insert(c, who)
  BY <1>2, <1>5, InsertFits
<1>6. ASSUME NEW i \in Ids, Update(c, who, i)
      PROVE  Inv'
  <2>1. PICK body \in Bodies(decl) :
          /\ Admits(c, "update", who) /\ Loads(i, "update")
          /\ Submit(c, "update", who, i, rows[i].e, ApplyTo(rows[i].e, body))
    BY <1>6 DEF Update, UpdateWith
  <2>2. \A e \in ApplyTo(rows[i].e, body) : Mapped(decl, "update", rows[i].e, e)
    BY <1>3, <1>4, ApplyToMaps
  <2>3. "update" \in Verbs /\ GateModeOf("update") = "update"
    BY DEF Verbs, RootVerbs, Modes, GateModeOf, EntryVerbs, EntryOps, ClearVerb
  <2> QED BY <1>2, <2>1, <2>2, <2>3, SubmitFits
<1>7. ASSUME NEW i \in Ids, Patch(c, who, i)
      PROVE  Inv'
  <2>1. PICK key \in Keys \cup {Blank}, phase \in Phases, parts \in Parts(decl) :
          /\ Admits(c, "patch", who) /\ Loads(i, "patch")
          /\ Submit(c, "patch", who, i, rows[i].e,
                    ApplyPartiallyTo(decl, rows[i].e, key, phase, parts))
    BY <1>7 DEF Patch
  <2>2. \A e \in ApplyPartiallyTo(decl, rows[i].e, key, phase, parts) :
           Mapped(decl, "patch", rows[i].e, e)
    BY <1>3, <1>4, ApplyPartiallyMaps
  <2>3. "patch" \in Verbs /\ GateModeOf("patch") = "update"
    BY DEF Verbs, RootVerbs, GateModeOf
  <2> QED BY <1>2, <2>1, <2>2, <2>3, SubmitFits
<1>8. ASSUME NEW i \in Ids, Clear(c, who, i)
      PROVE  Inv'
  <2>1. /\ Admits(c, ClearVerb, who) /\ Loads(i, ClearVerb)
        /\ Submit(c, ClearVerb, who, i, rows[i].e, {[rows[i].e EXCEPT !.span = Absent]})
    BY <1>8 DEF Clear
  <2>2. decl.span = "facet"
    <3>1. ClearVerb \notin RootOps(decl)
      BY <1>3 DEF RootOps, ClearVerb, Declaration, Modes
    <3>2. ClearVerb \notin EntryRoutes(decl)
      <4>1. decl.operations \subseteq EntryOps
        BY <1>3 DEF Declaration
      <4> QED BY <4>1 DEF EntryRoutes, ClearVerb, EntryOps
    <3>3. OnREST(decl, ClearVerb) \/ OnGraphQL(decl, ClearVerb)
      BY <2>1 DEF Admits, Answers
    <3> QED BY <3>1, <3>2, <3>3
            DEF OnREST, OnGraphQL, RootOnGraphQL, EntryOnGraphQL, ClearOnGraphQL
  <2>3. Mapped(decl, ClearVerb, rows[i].e, [rows[i].e EXCEPT !.span = Absent])
    BY <1>3, <1>4, <2>2, ClearMaps
  <2>4. /\ ClearVerb \in Verbs /\ ClearVerb # "insert" /\ GateModeOf(ClearVerb) = "update"
    BY DEF Verbs, GateModeOf, ClearVerb
  <2> QED BY <1>2, <2>1, <2>3, <2>4, SubmitFits
<1>9. ASSUME NEW i \in Ids, NEW v \in {"archive", "unarchive", "delete"}, ByID(c, v, who, i)
      PROVE  Inv'
  <2>1. \A e \in {rows[i].e} : Mapped(decl, v, rows[i].e, e) /\ e = rows[i].e
    BY <1>4, MapsAsIs
  <2>2. v \in Verbs /\ v # "insert"
    BY DEF Verbs, RootVerbs, Modes
  <2> QED BY <1>2, <1>9, <2>1, <2>2, SubmitFits DEF ByID
<1>10. \A v \in EntryVerbs : v \in Verbs /\ v # "insert" /\ GateModeOf(v) = "update"
  BY DEF Verbs, EntryVerbs, EntryOps, GateModeOf
<1>11. {"add", "change", "patchEntry", "remove"} \subseteq EntryVerbs
  BY DEF EntryVerbs, EntryOps
<1>12. ASSUME NEW i \in Ids, Add(c, who, i)
       PROVE  Inv'
  <2>1. PICK n \in Names : Submit(c, "add", who, i, rows[i].e, AddOne(decl, rows[i].e, n))
    BY <1>12 DEF Add
  <2>2. \A e \in AddOne(decl, rows[i].e, n) : Mapped(decl, "add", rows[i].e, e)
    BY <1>4, AddMaps
  <2> QED BY <1>2, <1>10, <1>11, <1>12, <2>1, <2>2, SubmitFits DEF Add
<1>13. ASSUME NEW i \in Ids, Change(c, who, i)
       PROVE  Inv'
  <2>1. PICK s \in Slots, n \in Names :
          Submit(c, "change", who, i, rows[i].e, ChangeByID(rows[i].e, s, n))
    BY <1>13 DEF Change
  <2>2. \A e \in ChangeByID(rows[i].e, s, n) : Mapped(decl, "change", rows[i].e, e)
    BY <1>4, ByIDMaps
  <2> QED BY <1>2, <1>10, <1>11, <1>13, <2>1, <2>2, SubmitFits DEF Change
<1>14. ASSUME NEW i \in Ids, PatchOne(c, who, i)
       PROVE  Inv'
  <2>1. PICK s \in Slots : Submit(c, "patchEntry", who, i, rows[i].e, PatchByID(rows[i].e, s))
    BY <1>14 DEF PatchOne
  <2>2. \A e \in PatchByID(rows[i].e, s) : Mapped(decl, "patchEntry", rows[i].e, e)
    BY <1>4, ByIDMaps
  <2> QED BY <1>2, <1>10, <1>11, <1>14, <2>1, <2>2, SubmitFits DEF PatchOne
<1>15. ASSUME NEW i \in Ids, Remove(c, who, i)
       PROVE  Inv'
  <2>1. PICK s \in Slots : Submit(c, "remove", who, i, rows[i].e, RemoveByID(rows[i].e, s))
    BY <1>15 DEF Remove
  <2>2. \A e \in RemoveByID(rows[i].e, s) : Mapped(decl, "remove", rows[i].e, e)
    BY <1>4, ByIDMaps
  <2> QED BY <1>2, <1>10, <1>11, <1>15, <2>1, <2>2, SubmitFits DEF Remove
<1> QED BY <1>1, <1>5, <1>6, <1>7, <1>8, <1>9, <1>12, <1>13, <1>14, <1>15

LEMMA CountFits ==
    ASSUME Inv, NEW c \in Clients, Count(c)
    PROVE  Inv'
<1>1. CASE Refuse(c)
  BY <1>1, RefuseFits DEF Count
<1>2. CASE req' = [req EXCEPT ![c].pc = AfterCount(decl, req[c].mode, req[c].e)]
  <2> DEFINE r == [req[c] EXCEPT !.pc = AfterCount(decl, req[c].mode, req[c].e)]
  <2>1. req[c] \in Request /\ req[c] # Idle
    BY DEF Inv, TypeOK, Count
  <2>2. req' = [req EXCEPT ![c] = r]
    BY <1>2
  <2>3. AfterCount(decl, req[c].mode, req[c].e) \in {"probe", "commit"}
    BY DEF AfterCount
  <2>4. /\ r \in Request
        /\ r.mode = req[c].mode /\ r.id = req[c].id /\ r.e = req[c].e
        /\ r.reach = req[c].reach /\ r.current = req[c].current
        /\ r.pc = AfterCount(decl, req[c].mode, req[c].e)
    BY <2>1, <2>3 DEF Request
  <2> HIDE DEF r
  <2>5. /\ Built(decl, req[c])
        /\ (req[c].mode # "insert" /\ req[c].current) => Fits(decl, req[c], rows[req[c].id])
    BY <2>1 DEF Inv
  <2>6. Built(decl, r)
    BY <2>4, <2>5 DEF Built
  <2>7. (r.mode # "insert" /\ r.current) => Fits(decl, r, rows[r.id])
    BY <2>4, <2>5 DEF Fits
  <2>8. Free(decl, rows, r)
    BY <2>4 DEF Free, AfterCount
  <2>9. UNCHANGED <<decl, rows>>
    BY DEF Count
  <2> QED BY <2>2, <2>4, <2>6, <2>7, <2>8, <2>9, RequestFits
<1> QED BY <1>1, <1>2 DEF Count

LEMMA ProbeFits ==
    ASSUME Inv, NEW c \in Clients, Probe(c)
    PROVE  Inv'
<1>1. CASE Refuse(c)
  BY <1>1, RefuseFits DEF Probe
<1>2. CASE /\ ~Taken(decl, rows, req[c].id, req[c].e)
           /\ req' = [req EXCEPT ![c].pc = "commit", ![c].raced = FALSE]
  <2> DEFINE r == [req[c] EXCEPT !.pc = "commit", !.raced = FALSE]
  <2>1. req[c] \in Request /\ req[c] # Idle
    BY DEF Inv, TypeOK, Probe
  <2>2. req' = [req EXCEPT ![c] = r]
    BY <1>2, <2>1 DEF Inv, TypeOK
  <2>3. /\ r \in Request
        /\ r.mode = req[c].mode /\ r.id = req[c].id /\ r.e = req[c].e
        /\ r.reach = req[c].reach /\ r.current = req[c].current
    BY <2>1 DEF Request
  <2> HIDE DEF r
  <2>4. /\ Built(decl, req[c])
        /\ (req[c].mode # "insert" /\ req[c].current) => Fits(decl, req[c], rows[req[c].id])
    BY <2>1 DEF Inv
  <2>5. Built(decl, r)
    BY <2>3, <2>4 DEF Built
  <2>6. (r.mode # "insert" /\ r.current) => Fits(decl, r, rows[r.id])
    BY <2>3, <2>4 DEF Fits
  <2>7. Free(decl, rows, r)
    BY <1>2, <2>3 DEF Free
  <2>8. UNCHANGED <<decl, rows>>
    BY DEF Probe
  <2> QED BY <2>2, <2>3, <2>5, <2>6, <2>7, <2>8, RequestFits
<1> QED BY <1>1, <1>2 DEF Probe

\* What a commit writes is a row the spec knows.
LEMMA WrittenRow ==
    ASSUME NEW d \in Declaration, Accepted(d), NEW mode \in Modes, NEW e \in Entity
    PROVE  /\ Written(d, mode, e) \in Row
           /\ Written(d, mode, e).at # "unused"
           /\ Written(d, mode, e).at \in Kept =>
                /\ Written(d, mode, e).e.tenant = e.tenant
                /\ Written(d, mode, e).e.key = e.key
                /\ e \in Entities(d) => Written(d, mode, e).e \in Entities(d)
<1> DEFINE closed == [e EXCEPT !.phase = d.becomes]
<1>1. ASSUME d.closing # Nothing, d.becomes # Nothing
      PROVE  /\ closed \in Entity
             /\ closed.tenant = e.tenant /\ closed.key = e.key
             /\ e \in Entities(d) => closed \in Entities(d)
  <2>1. d.becomes \in d.phases /\ d.phases \subseteq Phases
    BY <1>1 DEF Accepted, Declaration
  <2>2. /\ closed \in Entity
        /\ closed.tenant = e.tenant /\ closed.key = e.key /\ closed.phase = d.becomes
        /\ closed.entries = e.entries /\ closed.span = e.span
    BY <2>1 DEF Entity
  <2> HIDE DEF closed
  <2>3. ASSUME e \in Entities(d)
        PROVE  closed \in Entities(d)
    <3>1. /\ d.scoped \/ e.tenant = NoTenant
          /\ e.key \in d.legal
          /\ d.cap = 0 => \A s \in Slots : e.entries[s] = NoEntry
          /\ d.span = "no" => e.span = Absent
      BY <2>3, KnownEntityParts
    <3> QED BY <2>1, <2>2, <3>1, KnownEntity
  <2> QED BY <2>2, <2>3
<1> DEFINE w == Written(d, mode, e)
<1>2. \/ w = [at |-> "active", e |-> e]
      \/ w = [at |-> "archived", e |-> e]
      \/ w = [at |-> "archived", e |-> closed] /\ d.closing # Nothing /\ d.becomes # Nothing
      \/ w = [at |-> "gone", e |-> NoData]
  BY DEF Written, Completed, Modes
<1> HIDE DEF w, closed
<1> QED BY <1>1, <1>2, NoDataType DEF Row, Kept, w

LEMMA CommitFits ==
    ASSUME Inv, NEW c \in Clients, Commit(c)
    PROVE  Inv'
<1>1. req[c] \in Request /\ req[c] # Idle
  BY DEF Inv, TypeOK, Commit
<1> DEFINE row == Written(decl, req[c].mode, req[c].e)
<1>2. PICK i \in Ids :
        /\ Target(c, i) /\ ~IndexRefuses(decl.engine, decl, rows, i, row)
        /\ rows' = [rows EXCEPT ![i] = row]
        /\ req' = Overtaken(c, i)
  BY DEF Commit
<1>3. decl' = decl /\ req[c].current
  BY DEF Commit
<1>4. decl \in Declaration /\ Accepted(decl) /\ decl.engine \in Engines
  BY DEF Inv, TypeOK, Declaration
<1>5. req[c].mode \in Modes /\ req[c].e \in Entity
  BY <1>1 DEF Request
<1>6. /\ row \in Row
      /\ row.at \in Kept => (req[c].e \in Entities(decl) => row.e \in Entities(decl))
  BY <1>4, <1>5, WrittenRow
<1>7. row.at \in Kept => req[c].e \in Entities(decl)
  <2>1. Built(decl, req[c])
    BY <1>1 DEF Inv
  <2>2. CASE req[c].mode = "insert"
    BY <2>1, <2>2 DEF Built
  <2>3. CASE req[c].mode # "insert"
    <3>1. req[c].id \in Ids /\ Fits(decl, req[c], rows[req[c].id])
      BY <1>1, <1>3, <2>1, <2>3 DEF Inv, Built
    <3>2. rows[req[c].id].at \in Kept
      BY <3>1 DEF Fits, Kept
    <3>3. rows[req[c].id].e \in Entities(decl)
      BY <3>1, <3>2 DEF Inv
    <3> QED BY <3>1, <3>3 DEF Fits
  <2> QED BY <2>2, <2>3
<1> HIDE DEF row
<1>8. rows \in [Ids -> Row] /\ req \in [Clients -> {Idle} \cup Request]
  BY DEF Inv, TypeOK
<1>9. \A j \in Ids : rows'[j] = IF j = i THEN row ELSE rows[j]
  BY <1>2, <1>8
<1>10. rows' \in [Ids -> Row]
  BY <1>2, <1>6, <1>8
<1>11. \A x \in Clients : req'[x] = IF x = c \/ req[x] = Idle THEN Idle
                                    ELSE [req[x] EXCEPT !.current = @ /\ req[x].id # i,
                                            !.raced = @ \/ (/\ req[x].pc = "commit"
                                                            /\ AsksProbe(decl, req[x].mode, req[x].e))]
  BY <1>2 DEF Overtaken
<1>12. ASSUME NEW x \in Clients, req'[x] # Idle
       PROVE  /\ req[x] \in Request /\ req[x] # Idle /\ req'[x] \in Request
              /\ req'[x].mode = req[x].mode /\ req'[x].id = req[x].id /\ req'[x].e = req[x].e
              /\ req'[x].reach = req[x].reach /\ req'[x].pc = req[x].pc
              /\ req'[x].current => req[x].current /\ req[x].id # i
              /\ (req[x].pc = "commit" /\ AsksProbe(decl, req[x].mode, req[x].e)) => req'[x].raced
  <2>1. req[x] \in Request /\ req[x] # Idle
    BY <1>8, <1>11, <1>12
  <2> DEFINE a == AsksProbe(decl, req[x].mode, req[x].e)
  <2>2. req'[x] = [req[x] EXCEPT !.current = req[x].current /\ req[x].id # i,
                                  !.raced = req[x].raced \/ (req[x].pc = "commit" /\ a)]
    BY <1>11, <1>12
  <2>3. a \in BOOLEAN
    BY DEF AsksProbe
  <2> HIDE DEF a
  <2>4. req'[x] \in Request
    BY <2>1, <2>2, <2>3 DEF Request
  <2> QED BY <2>1, <2>2, <2>4 DEF Request, a
<1>13. req' \in [Clients -> {Idle} \cup Request]
  BY <1>2, <1>12 DEF Overtaken
<1>14. TypeOK'
  BY <1>3, <1>10, <1>13, <1>4 DEF TypeOK
<1>15. \A j \in Ids : rows'[j].at \in Kept => rows'[j].e \in Entities(decl)
  BY <1>6, <1>7, <1>9 DEF Inv
<1>16. C!KeysUnique(decl, rows')
  <2>1. ASSUME NEW j \in Ids, NEW k \in Ids, j # k
        PROVE  ~InScope(decl, rows'[j], rows'[k])
    <3>1. \A l \in Ids \ {i} : ~InScope(decl, row, rows[l])
      BY <1>2, <1>4, <1>6, <1>8, ClashIsInScope DEF IndexRefuses
    <3>2. \A l \in Ids \ {i} : ~InScope(decl, rows[l], row)
      BY <3>1 DEF InScope
    <3>3. (j # i /\ k # i) => ~InScope(decl, rows[j], rows[k])
      BY <2>1, SameKeysUnique DEF Inv
    <3> QED BY <1>9, <2>1, <3>1, <3>2, <3>3
  <2> QED BY <2>1, SameKeysUnique
<1>17. ASSUME NEW x \in Clients, req'[x] # Idle
       PROVE  /\ Built(decl, req'[x])
              /\ (req'[x].mode # "insert" /\ req'[x].current) => Fits(decl, req'[x], rows'[req'[x].id])
              /\ Free(decl, rows', req'[x])
  <2>1. /\ Built(decl, req[x])
        /\ (req[x].mode # "insert" /\ req[x].current) => Fits(decl, req[x], rows[req[x].id])
    BY <1>12, <1>17 DEF Inv
  <2>2. Built(decl, req'[x])
    BY <1>12, <1>17, <2>1 DEF Built
  <2>3. ASSUME req'[x].mode # "insert", req'[x].current
        PROVE  Fits(decl, req'[x], rows'[req'[x].id])
    <3>1. req[x].id \in Ids /\ req[x].id # i /\ rows'[req'[x].id] = rows[req[x].id]
      BY <1>9, <1>12, <1>17, <2>1, <2>3 DEF Built
    <3>2. Fits(decl, req[x], rows[req[x].id])
      BY <1>12, <1>17, <2>1, <2>3
    <3> QED BY <1>12, <1>17, <3>1, <3>2 DEF Fits
  <2>4. Free(decl, rows', req'[x])
    BY <1>12, <1>17 DEF Free
  <2> QED BY <2>2, <2>3, <2>4
<1> QED BY <1>3, <1>4, <1>14, <1>15, <1>16, <1>17 DEF Inv

LEMMA InitFits == Init => Inv
<1> SUFFICES ASSUME Init PROVE Inv
  OBVIOUS
<1>1. NoData \in Entity
  BY NoDataType
<1>2. TypeOK
  BY <1>1, ServiceAssumption DEF Init, TypeOK, Row
<1>3. \A i \in Ids : rows[i].at \notin Kept
  BY DEF Init, Kept
<1>4. C!KeysUnique(decl, rows)
  BY <1>3, SameKeysUnique DEF InScope
<1>5. \A c \in Clients : req[c] = Idle
  BY DEF Init
<1> QED BY <1>2, <1>3, <1>4, <1>5 DEF Inv, Init

LEMMA NextFits == Inv /\ [Next]_vars => Inv'
<1> SUFFICES ASSUME Inv, [Next]_vars PROVE Inv'
  OBVIOUS
<1>1. ASSUME NEW c \in Clients, Begin(c)
      PROVE  Inv'
  BY <1>1, BeginFits
<1>2. ASSUME NEW c \in Clients, Count(c)
      PROVE  Inv'
  BY <1>2, CountFits
<1>3. ASSUME NEW c \in Clients, Probe(c)
      PROVE  Inv'
  BY <1>3, ProbeFits
<1>4. ASSUME NEW c \in Clients, Commit(c)
      PROVE  Inv'
  BY <1>4, CommitFits
<1>5. ASSUME NEW c \in Clients, Conflict(c)
      PROVE  Inv'
  BY <1>5, RefuseFits DEF Conflict
<1>6. ASSUME NEW c \in Clients, Fail(c)
      PROVE  Inv'
  BY <1>6, RefuseFits DEF Fail
<1>7. CASE UNCHANGED vars
  BY <1>7 DEF vars, Inv, TypeOK
<1> QED BY <1>1, <1>2, <1>3, <1>4, <1>5, <1>6, <1>7 DEF Next, Handle

\* Types hold, the table keeps what the spec promises of it, and every request
\* in progress is fit to be committed unless another commit has overtaken it
\* (emit/domain.go:228).
THEOREM Invariance == Spec => []Inv
<1> QED BY InitFits, NextFits, PTL DEF Spec

-----------------------------------------------------------------------------
\* What a commit is.

\* Every step but a commit leaves the table alone.
LEMMA OnlyCommitsWrite ==
    ASSUME [Next]_vars
    PROVE  (\E c \in Clients : Commit(c)) \/ UNCHANGED <<decl, rows>>
<1>1. ASSUME NEW c \in Clients, Begin(c)
      PROVE  UNCHANGED <<decl, rows>>
  <2>1. PICK who \in Callers :
          \/ Insert(c, who)
          \/ \E i \in Ids :
                \/ Update(c, who, i) \/ Patch(c, who, i) \/ Clear(c, who, i)
                \/ \E v \in {"archive", "unarchive", "delete"} : ByID(c, v, who, i)
                \/ Add(c, who, i) \/ Change(c, who, i)
                \/ PatchOne(c, who, i) \/ Remove(c, who, i)
    BY <1>1 DEF Begin
  <2>2. Insert(c, who) => UNCHANGED <<decl, rows>>
    BY DEF Insert, Submit
  <2>3. ASSUME NEW i \in Ids
        PROVE  /\ Update(c, who, i) => UNCHANGED <<decl, rows>>
               /\ Patch(c, who, i) => UNCHANGED <<decl, rows>>
               /\ Clear(c, who, i) => UNCHANGED <<decl, rows>>
               /\ Add(c, who, i) => UNCHANGED <<decl, rows>>
               /\ Change(c, who, i) => UNCHANGED <<decl, rows>>
               /\ PatchOne(c, who, i) => UNCHANGED <<decl, rows>>
               /\ Remove(c, who, i) => UNCHANGED <<decl, rows>>
    BY DEF Update, UpdateWith, Patch, Clear, Add, Change, PatchOne, Remove, Submit
  <2>4. \A i \in Ids, v \in {"archive", "unarchive", "delete"} : ByID(c, v, who, i) => UNCHANGED <<decl, rows>>
    BY DEF ByID, Submit
  <2> QED BY <2>1, <2>2, <2>3, <2>4
<1>2. ASSUME NEW c \in Clients, Count(c) \/ Probe(c) \/ Conflict(c) \/ Fail(c)
      PROVE  UNCHANGED <<decl, rows>>
  BY <1>2 DEF Count, Probe, Conflict, Fail
<1> QED BY <1>1, <1>2 DEF Next, Handle, vars

LEMMA CommitShape ==
    ASSUME Inv, NEW c \in Clients, Commit(c)
    PROVE  \E i \in Ids :
              LET r == req[c]
                  row == Written(decl, r.mode, r.e)
              IN /\ r \in Request /\ r # Idle /\ Built(decl, r) /\ decl' = decl
                 /\ r.mode = "insert" => rows[i].at = "unused"
                 /\ r.mode # "insert" => i = r.id /\ Fits(decl, r, rows[i])
                 /\ rows' = [rows EXCEPT ![i] = row]
                 /\ \A x \in Clients : (x # c /\ req[x] # Idle) => req'[x] # Idle
<1>1. req[c] \in Request /\ req[c] # Idle
  BY DEF Inv, TypeOK, Commit
<1>2. PICK i \in Ids :
        /\ Target(c, i)
        /\ rows' = [rows EXCEPT ![i] = Written(decl, req[c].mode, req[c].e)]
        /\ req' = Overtaken(c, i)
  BY DEF Commit
<1>3. Built(decl, req[c])
  BY <1>1 DEF Inv
<1>4. req[c].mode # "insert" => i = req[c].id /\ Fits(decl, req[c], rows[i])
  BY <1>1, <1>2 DEF Inv, Target, Commit
<1>5. req[c].mode = "insert" => rows[i].at = "unused"
  BY <1>2 DEF Target
<1>6. ASSUME NEW x \in Clients, x # c, req[x] # Idle
      PROVE  req'[x] # Idle
  <2>1. req[x] \in Request
    BY <1>6 DEF Inv, TypeOK
  <2> DEFINE a == AsksProbe(decl, req[x].mode, req[x].e)
  <2>2. req'[x] = [req[x] EXCEPT !.current = req[x].current /\ req[x].id # i,
                                  !.raced = req[x].raced \/ (req[x].pc = "commit" /\ a)]
    BY <1>2, <1>6 DEF Overtaken
  <2>3. a \in BOOLEAN
    BY DEF AsksProbe
  <2> HIDE DEF a
  <2>4. req'[x] \in Request
    BY <2>1, <2>2, <2>3 DEF Request
  <2> QED BY <2>4, IdleAssumption
<1> QED BY <1>1, <1>2, <1>3, <1>4, <1>5, <1>6 DEF Commit

\* The two halves of the row scope agree (emit/domain.go:498, emit/
\* application.go:782), whatever a spec declares of identity, bypass and verbs.
THEOREM ScopedWrites == Spec => WritesAreScoped
<1> DEFINE Scoped(c, i) ==
        (req[c] # Idle /\ req'[c] = Idle /\ rows'[i] # rows[i])
          => /\ req[c].mode = "insert" => rows'[i].e.tenant \in req[c].reach
             /\ (req[c].mode \in ScopeGates(decl) /\ req[c].mode # "insert")
                   => rows[i].e.tenant \in req[c].reach
<1>1. ASSUME Inv, [Next]_vars, NEW c \in Clients, NEW i \in Ids
      PROVE  Scoped(c, i)
  <2> SUFFICES ASSUME req[c] # Idle, req'[c] = Idle, rows'[i] # rows[i]
               PROVE  /\ req[c].mode = "insert" => rows'[i].e.tenant \in req[c].reach
                      /\ (req[c].mode \in ScopeGates(decl) /\ req[c].mode # "insert")
                            => rows[i].e.tenant \in req[c].reach
    OBVIOUS
  <2>1. PICK x \in Clients : Commit(x)
    BY <1>1, OnlyCommitsWrite
  <2>2. x = c
    BY <1>1, <2>1, CommitShape
  <2>3. PICK j \in Ids :
          /\ Built(decl, req[c]) /\ req[c] \in Request
          /\ req[c].mode # "insert" => j = req[c].id /\ Fits(decl, req[c], rows[j])
          /\ rows' = [rows EXCEPT ![j] = Written(decl, req[c].mode, req[c].e)]
    BY <1>1, <2>1, <2>2, CommitShape
  <2>4. rows \in [Ids -> Row]
    BY <1>1 DEF Inv, TypeOK
  <2>5. i = j /\ rows'[i] = Written(decl, req[c].mode, req[c].e)
    BY <2>3, <2>4
  <2>6. req[c].mode = "insert" => rows'[i].e = req[c].e
    BY <2>5 DEF Written
  <2> QED BY <2>3, <2>5, <2>6 DEF Built, Fits
<1>2. Inv /\ [Next]_vars => [\A c \in Clients, i \in Ids : Scoped(c, i)]_vars
  BY <1>1
<1> HIDE DEF Scoped
<1>3. WritesAreScoped <=> [][\A c \in Clients, i \in Ids : Scoped(c, i)]_vars
  BY DEF WritesAreScoped, Scoped
<1> QED BY <1>2, <1>3, Invariance, PTL DEF Spec

\* Every engine's spelling of the index refuses the same commits (emit/
\* migrations.go:919).
THEOREM SpellingsAreOne == Spec => []SpellingsAgree
<1>1. ASSUME Inv
      PROVE  SpellingsAgree
  <2> SUFFICES ASSUME NEW c \in Clients, req[c] # Idle, NEW i \in Ids, NEW g \in Engines
               PROVE  LET row == Written(decl, req[c].mode, req[c].e)
                      IN IndexRefuses(g, decl, rows, i, row)
                           = IndexRefuses(decl.engine, decl, rows, i, row)
    BY DEF SpellingsAgree
  <2> DEFINE row == Written(decl, req[c].mode, req[c].e)
  <2>1. decl \in Declaration /\ decl.engine \in Engines /\ Accepted(decl)
    BY <1>1 DEF Inv, TypeOK, Declaration
  <2>2. req[c].mode \in Modes /\ req[c].e \in Entity
    BY <1>1 DEF Inv, TypeOK, Request
  <2>3. row \in Row
    BY <2>1, <2>2, WrittenRow
  <2>4. rows \in [Ids -> Row]
    BY <1>1 DEF Inv, TypeOK
  <2> HIDE DEF row
  <2>5. \A j \in Ids : Clash(g, decl, row, rows[j]) <=> Clash(decl.engine, decl, row, rows[j])
    BY <2>1, <2>3, <2>4, ClashIsInScope
  <2> QED BY <2>5 DEF IndexRefuses, row
<1> QED BY <1>1, Invariance, PTL

\* The index refuses what the probe let through only after another commit
\* (emit/domain.go:1494).
THEOREM RacesAlone == Spec => []OnlyRacesConflict
<1>1. ASSUME Inv
      PROVE  OnlyRacesConflict
  <2> SUFFICES ASSUME NEW c \in Clients, req[c] # Idle, req[c].pc = "commit",
                      ~req[c].raced, AsksProbe(decl, req[c].mode, req[c].e),
                      NEW i \in Ids, Target(c, i),
                      IndexRefuses(decl.engine, decl, rows, i,
                                   Written(decl, req[c].mode, req[c].e))
               PROVE  FALSE
    BY DEF OnlyRacesConflict
  <2> DEFINE row == Written(decl, req[c].mode, req[c].e)
  <2>1. decl \in Declaration /\ decl.engine \in Engines /\ Accepted(decl)
    BY <1>1 DEF Inv, TypeOK, Declaration
  <2>2. req[c].mode \in Modes /\ req[c].e \in Entity
    BY <1>1 DEF Inv, TypeOK, Request
  <2>3. /\ row \in Row
        /\ row.at \in Kept => row.e.tenant = req[c].e.tenant /\ row.e.key = req[c].e.key
    BY <2>1, <2>2, WrittenRow
  <2>4. rows \in [Ids -> Row]
    BY <1>1 DEF Inv, TypeOK
  <2>5. PICK j \in Ids \ {i} : Clash(decl.engine, decl, row, rows[j])
    BY DEF IndexRefuses
  <2> HIDE DEF row
  <2>6. InScope(decl, row, rows[j])
    BY <2>1, <2>3, <2>4, <2>5, ClashIsInScope
  <2>7. IndexColumns(decl, row.e) = IndexColumns(decl, req[c].e)
    BY <2>3, <2>6 DEF IndexColumns, InScope
  <2>8. j # req[c].id
    <3>1. req[c].mode = "insert" => req[c].id = NoId
      BY <1>1 DEF Inv, Built
    <3> QED BY <2>5, <3>1, ServiceAssumption DEF Target
  <2>9. rows[j].at \in IF decl.unique = "all" THEN Kept ELSE {"active"}
    <3>1. decl.unique \in {"no", "all", "active-only"}
      BY <2>1 DEF Declaration
    <3> QED BY <2>6, <3>1 DEF InScope
  <2>10. Taken(decl, rows, req[c].id, req[c].e)
    BY <2>6, <2>7, <2>8, <2>9 DEF Taken, InScope
  <2>11. Free(decl, rows, req[c])
    BY <1>1 DEF Inv
  <2> QED BY <2>10, <2>11 DEF Free
<1> QED BY <1>1, Invariance, PTL

-----------------------------------------------------------------------------
\* The contract.

LEMMA SameInit == Init => C!Init
<1>1. C!NoData = NoData
  BY DEF C!NoData, NoData
<1>2. \A d : C!Accepted(d) <=> Accepted(d)
  <2>1. \A d : C!ScopeApplies(d) = ScopeApplies(d)
    BY SameAdvertised DEF C!ScopeApplies, ScopeApplies
  <2> QED BY <2>1 DEF C!Accepted, Accepted
<1> QED BY <1>1, <1>2 DEF Init, C!Init, C!Unwritten

LEMMA SameNoData == C!NoData = NoData
BY DEF C!NoData, NoData

\* A commit is the contract's write of the mode it is dispatched under.
LEMMA CommitIsWrite ==
    ASSUME Inv, NEW c \in Clients, Commit(c), Inv'
    PROVE  C!Next
<1> DEFINE r == req[c]
           row == Written(decl, r.mode, r.e)
<1>1. PICK i \in Ids :
        /\ r \in Request /\ r # Idle /\ Built(decl, r) /\ decl' = decl
        /\ r.mode = "insert" => rows[i].at = "unused"
        /\ r.mode # "insert" => i = r.id /\ Fits(decl, r, rows[i])
        /\ rows' = [rows EXCEPT ![i] = row]
  BY CommitShape
<1>2. C!Store(i, row)
  BY <1>1 DEF Inv, C!Store
<1>3. /\ decl \in Declaration /\ rows[i] \in Row
      /\ r.mode \in Modes /\ r.mode \in decl.modes /\ r.e \in Entity
  BY <1>1 DEF Inv, TypeOK, Request, Built
<1>4. CASE r.mode = "insert"
  <2>1. /\ r.e \in C!Entities(decl) /\ C!Lawful(decl, r.e)
        /\ \A s \in Slots : r.e.entries[s] # Removed
    BY <1>1, <1>4, SameEntities DEF Built
  <2>2. row = [at |-> "active", e |-> r.e]
    BY <1>4 DEF Written
  <2>3. C!Create(i)
    <3> HIDE DEF r, row
    <3> QED BY <1>1, <1>2, <1>3, <1>4, <2>1, <2>2 DEF C!Create
  <2> QED BY <2>3 DEF C!Next
<1>5. CASE r.mode = "update"
  <2>1. /\ r.e \in C!Entities(decl) /\ C!Lawful(decl, r.e)
        /\ C!MayBecome(decl, rows[i].e, r.e) /\ rows[i].at = "active"
    BY <1>1, <1>5, SameEntities DEF Fits
  <2>2. r.e.phase # Nothing
    BY <1>3, SentinelAssumption DEF Entity
  <2>3. row = C!Outcome(decl, r.e)
    BY <1>5, <2>2 DEF Written, Completed, C!Outcome
  <2>4. C!Edit(i)
    <3> HIDE DEF r, row
    <3> QED BY <1>2, <1>3, <1>5, <2>1, <2>3 DEF C!Edit
  <2> QED BY <2>4 DEF C!Next
<1>6. ASSUME r.mode \in {"archive", "unarchive", "delete"}
      PROVE  rows[i].at = (IF r.mode = "unarchive" THEN "archived" ELSE "active") /\ r.e = rows[i].e
  BY <1>1, <1>6 DEF Fits
<1>7. rows[i] = [at |-> rows[i].at, e |-> rows[i].e]
  BY <1>3 DEF Row
<1>8. CASE r.mode = "archive"
  <2>1. row = [rows[i] EXCEPT !.at = "archived"]
    BY <1>6, <1>7, <1>8 DEF Written
  <2>2. C!Archive(i)
    <3> HIDE DEF r, row
    <3> QED BY <1>2, <1>3, <1>6, <1>8, <2>1 DEF C!Archive
  <2> QED BY <2>2 DEF C!Next
<1>9. CASE r.mode = "unarchive"
  <2>1. row = [rows[i] EXCEPT !.at = "active"]
    BY <1>6, <1>7, <1>9 DEF Written
  <2>2. C!Unarchive(i)
    <3> HIDE DEF r, row
    <3> QED BY <1>2, <1>3, <1>6, <1>9, <2>1 DEF C!Unarchive
  <2> QED BY <2>2 DEF C!Next
<1>10. CASE r.mode = "delete"
  <2>1. row = C!Deleted
    BY <1>10, SameNoData DEF Written, C!Deleted
  <2>2. C!Delete(i)
    <3> HIDE DEF r, row
    <3> QED BY <1>2, <1>3, <1>6, <1>10, <2>1 DEF C!Delete
  <2> QED BY <2>2 DEF C!Next
<1> QED BY <1>3, <1>4, <1>5, <1>8, <1>9, <1>10 DEF Modes

\* The generated service implements the contract of its spec (emit/domain.go:
\* 228, emit/application.go:226), for any number of requests in progress.
THEOREM Implementation == Spec => KeepsContract
<1>1. ASSUME Inv, [Next]_vars, Inv'
      PROVE  [C!Next]_(C!vars)
  <2>1. CASE \E c \in Clients : Commit(c)
    BY <1>1, <2>1, CommitIsWrite
  <2>2. CASE ~\E c \in Clients : Commit(c)
    <3>1. UNCHANGED <<decl, rows>>
      BY <1>1, <2>2, OnlyCommitsWrite
    <3> QED BY <3>1 DEF C!vars
  <2> QED BY <2>1, <2>2
<1> QED BY <1>1, SameInit, Invariance, PTL DEF Spec, C!Spec, KeepsContract

-----------------------------------------------------------------------------
\* The quota.

Active == {i \in Ids : rows[i].at = "active"}

LEMMA QuotaCounts ==
    /\ IsFiniteSet(Active) /\ ActiveRows = Cardinality(Active) /\ ActiveRows \in Nat
    /\ IsFiniteSet(Counted) /\ Cardinality(Counted) \in Nat
    /\ Cardinality(Clients) \in Nat /\ Cardinality(Counted) <= Cardinality(Clients)
<1>1. Active \subseteq Ids /\ Counted \subseteq Clients
  BY DEF Active, Counted
<1>2. IsFiniteSet(Active) /\ IsFiniteSet(Counted)
  BY <1>1, ServiceAssumption, FS_Subset
<1> QED BY <1>1, <1>2, ServiceAssumption, FS_CardinalityType, FS_Subset DEF ActiveRows, Active

\* The counts at the end of a step.
LEMMA QuotaCountsNext ==
    /\ IsFiniteSet(Active') /\ ActiveRows' = Cardinality(Active') /\ ActiveRows' \in Nat
    /\ IsFiniteSet(Counted') /\ Cardinality(Counted') \in Nat
    /\ Cardinality(Counted') <= Cardinality(Clients)
<1>1. Active' \subseteq Ids /\ Counted' \subseteq Clients
  BY DEF Active, Counted
<1>2. IsFiniteSet(Active') /\ IsFiniteSet(Counted')
  BY <1>1, ServiceAssumption, FS_Subset
<1> QED BY <1>1, <1>2, ServiceAssumption, FS_CardinalityType, FS_Subset DEF ActiveRows, Active

\* A request that begins has not been counted.
LEMMA BeginsUncounted ==
    ASSUME Inv, NEW c \in Clients, Begin(c), decl.max # NoLimit
    PROVE  Counted' \subseteq Counted
<1> DEFINE Fresh == \E r : /\ req' = [req EXCEPT ![c] = r]
                           /\ r.mode = "insert" => r.pc = "count"
<1>1. ASSUME NEW v, NEW who, NEW i, NEW old, NEW mapped, Submit(c, v, who, i, old, mapped)
      PROVE  Fresh
  <2> DEFINE mode == GateModeOf(v)
             asked(e) == [pc |-> IF AsksCount(decl, mode) THEN "count" ELSE AfterCount(decl, mode, e),
                          mode |-> mode, reach |-> ReadFilter(decl, who),
                          id |-> i, e |-> e, current |-> TRUE, raced |-> FALSE]
  <2>1. PICK e \in mapped : req' = [req EXCEPT ![c] = asked(e)]
    BY <1>1 DEF Submit
  <2>2. asked(e).mode = "insert" => asked(e).pc = "count"
    <3> HIDE DEF mode
    <3> QED BY DEF AsksCount
  <2> HIDE DEF asked
  <2> QED BY <2>1, <2>2
<1>2. PICK who \in Callers :
        \/ Insert(c, who)
        \/ \E i \in Ids :
              \/ Update(c, who, i) \/ Patch(c, who, i) \/ Clear(c, who, i)
              \/ \E v \in {"archive", "unarchive", "delete"} : ByID(c, v, who, i)
              \/ Add(c, who, i) \/ Change(c, who, i)
              \/ PatchOne(c, who, i) \/ Remove(c, who, i)
  BY DEF Begin
<1>3. Fresh
  <2> HIDE DEF Fresh
  <2>1. Insert(c, who) => Fresh
    BY <1>1 DEF Insert
  <2>2. ASSUME NEW i \in Ids
        PROVE  /\ Update(c, who, i) => Fresh
               /\ Patch(c, who, i) => Fresh
               /\ Clear(c, who, i) => Fresh
               /\ Add(c, who, i) => Fresh
               /\ Change(c, who, i) => Fresh
               /\ PatchOne(c, who, i) => Fresh
               /\ Remove(c, who, i) => Fresh
    BY <1>1 DEF Update, UpdateWith, Patch, Clear, Add, Change, PatchOne, Remove
  <2>3. \A i \in Ids, v \in {"archive", "unarchive", "delete"} : ByID(c, v, who, i) => Fresh
    BY <1>1 DEF ByID
  <2> QED BY <1>2, <2>1, <2>2, <2>3
<1>4. PICK r : req' = [req EXCEPT ![c] = r] /\ (r.mode = "insert" => r.pc = "count")
  BY <1>3
<1>5. \A x \in Clients : req'[x] = IF x = c THEN r ELSE req[x]
  BY <1>4 DEF Inv, TypeOK
<1> QED BY <1>4, <1>5 DEF Counted

LEMMA QuotaNext ==
    ASSUME Inv, Inv', [Next]_vars, QuotaOvershoot
    PROVE  QuotaOvershoot'
<1> SUFFICES ASSUME decl'.max # NoLimit, "unarchive" \notin decl'.modes
             PROVE  ActiveRows' + Cardinality(Counted') <= decl'.max + Cardinality(Clients)
  BY DEF QuotaOvershoot
<1>1. decl' = decl
  BY OnlyCommitsWrite DEF Commit
<1>2. decl.max \in Nat /\ "unarchive" \notin decl.modes /\ decl.max # NoLimit
  BY <1>1 DEF Inv, TypeOK, Declaration
<1>3. ActiveRows + Cardinality(Counted) <= decl.max + Cardinality(Clients)
  BY <1>2 DEF QuotaOvershoot
<1>4. ASSUME rows' = rows, Counted' \subseteq Counted
      PROVE  ActiveRows' + Cardinality(Counted') <= decl'.max + Cardinality(Clients)
  <2>1. Cardinality(Counted') <= Cardinality(Counted)
    BY <1>4, QuotaCounts, FS_Subset
  <2>2. ActiveRows' = ActiveRows
    BY <1>4 DEF ActiveRows
  <2> QED BY <1>1, <1>2, <1>3, <2>1, <2>2, QuotaCounts, QuotaCountsNext
<1>5. ASSUME rows' = rows, ActiveRows <= decl.max
      PROVE  ActiveRows' + Cardinality(Counted') <= decl'.max + Cardinality(Clients)
  <2>1. ActiveRows' = ActiveRows
    BY <1>5 DEF ActiveRows
  <2> QED BY <1>1, <1>2, <1>5, <2>1, QuotaCounts, QuotaCountsNext
<1>6. ASSUME NEW c \in Clients, Refuse(c)
      PROVE  Counted' \subseteq Counted
  <2>1. \A x \in Clients : req'[x] = IF x = c THEN Idle ELSE req[x]
    BY <1>6 DEF Inv, TypeOK, Refuse
  <2> QED BY <2>1 DEF Counted
<1>7. ASSUME NEW c \in Clients, Begin(c)
      PROVE  rows' = rows \/ \E x \in Clients : Commit(x)
  BY OnlyCommitsWrite
<1>8. ASSUME NEW c \in Clients, Count(c)
      PROVE  ActiveRows' + Cardinality(Counted') <= decl'.max + Cardinality(Clients)
  BY <1>2, <1>4, <1>5, <1>6, <1>8 DEF Count, WithinQuota
<1>9. ASSUME NEW c \in Clients, Probe(c)
      PROVE  ActiveRows' + Cardinality(Counted') <= decl'.max + Cardinality(Clients)
  <2>1. CASE Refuse(c)
    BY <1>4, <1>6, <1>9, <2>1 DEF Probe
  <2>2. CASE req' = [req EXCEPT ![c].pc = "commit", ![c].raced = FALSE]
    <3>1. req[c] \in Request /\ req[c] # Idle /\ req[c].pc = "probe"
      BY <1>9 DEF Inv, TypeOK, Probe
    <3>2. \A x \in Clients : req'[x] = IF x = c THEN [req[c] EXCEPT !.pc = "commit", !.raced = FALSE]
                                       ELSE req[x]
      BY <2>2 DEF Inv, TypeOK
    <3>3. [req[c] EXCEPT !.pc = "commit", !.raced = FALSE].mode = req[c].mode
      BY <3>1 DEF Request
    <3>4. Counted' \subseteq Counted
      BY <3>1, <3>2, <3>3 DEF Counted
    <3> QED BY <1>4, <1>9, <3>4 DEF Probe
  <2> QED BY <1>9, <2>1, <2>2 DEF Probe
<1>10. ASSUME NEW c \in Clients, Conflict(c) \/ Fail(c)
       PROVE  ActiveRows' + Cardinality(Counted') <= decl'.max + Cardinality(Clients)
  BY <1>4, <1>6, <1>10 DEF Conflict, Fail
<1>11. ASSUME NEW c \in Clients, Commit(c)
       PROVE  ActiveRows' + Cardinality(Counted') <= decl'.max + Cardinality(Clients)
  <2>1. PICK i \in Ids :
          /\ req[c] \in Request /\ req[c] # Idle /\ Built(decl, req[c])
          /\ req[c].mode = "insert" => rows[i].at = "unused"
          /\ req[c].mode # "insert" => i = req[c].id /\ Fits(decl, req[c], rows[i])
          /\ rows' = [rows EXCEPT ![i] = Written(decl, req[c].mode, req[c].e)]
    BY <1>11, CommitShape
  <2>2. PICK j \in Ids : req' = Overtaken(c, j)
    BY <1>11 DEF Commit
  <2>3. ASSUME NEW x \in Clients, x \in Counted'
        PROVE  x # c /\ x \in Counted
    <3>1. req'[x] # Idle /\ req'[x].mode = "insert" /\ req'[x].pc # "count"
      BY <2>3 DEF Counted
    <3>2. x # c /\ req[x] # Idle
      BY <2>2, <3>1 DEF Overtaken
    <3>3. req[x] \in Request
      BY <3>2 DEF Inv, TypeOK
    <3> DEFINE a == req[x].current /\ req[x].id # j
               b == req[x].raced \/ (/\ req[x].pc = "commit"
                                     /\ AsksProbe(decl, req[x].mode, req[x].e))
    <3>4. req'[x] = [req[x] EXCEPT !.current = a, !.raced = b]
      BY <2>2, <3>2 DEF Overtaken
    <3> HIDE DEF a, b
    <3>5. req'[x].mode = req[x].mode /\ req'[x].pc = req[x].pc
      BY <3>3, <3>4 DEF Request
    <3> QED BY <3>1, <3>2, <3>5 DEF Counted
  <2>4. Counted' \subseteq Counted \ {c}
    BY <2>3 DEF Counted
  <2>5. rows \in [Ids -> Row]
    BY DEF Inv, TypeOK
  <2>6. CASE req[c].mode = "insert"
    <3>1. c \in Counted
      BY <1>11, <2>1, <2>6 DEF Counted, Commit
    <3>2. Cardinality(Counted \ {c}) = Cardinality(Counted) - 1
      BY <3>1, QuotaCounts, FS_RemoveElement
    <3>3. IsFiniteSet(Counted \ {c}) /\ Cardinality(Counted') <= Cardinality(Counted \ {c})
      BY <2>4, QuotaCounts, FS_Subset
    <3>4. Active' \subseteq Active \cup {i}
      BY <2>1, <2>5 DEF Active
    <3>5. /\ IsFiniteSet(Active \cup {i})
          /\ Cardinality(Active \cup {i}) <= Cardinality(Active) + 1
      <4>1. IsFiniteSet(Active) /\ Cardinality(Active) \in Nat
        BY QuotaCounts, FS_CardinalityType
      <4>2. /\ IsFiniteSet(Active \cup {i})
            /\ \/ Cardinality(Active \cup {i}) = Cardinality(Active)
               \/ Cardinality(Active \cup {i}) = Cardinality(Active) + 1
        BY <4>1, FS_AddElement
      <4> QED BY <4>1, <4>2
    <3>6. Cardinality(Active') <= Cardinality(Active \cup {i}) /\ Cardinality(Active \cup {i}) \in Nat
      BY <3>4, <3>5, FS_Subset, FS_CardinalityType
    <3> QED BY <1>1, <1>2, <1>3, <3>2, <3>3, <3>5, <3>6, QuotaCounts, QuotaCountsNext
  <2>7. CASE req[c].mode # "insert"
    <3>1. rows[i].at = "active"
      BY <1>2, <2>1, <2>7 DEF Fits, Built
    <3>2. Active' \subseteq Active
      BY <2>1, <2>5, <3>1 DEF Active
    <3>3. Cardinality(Active') <= Cardinality(Active) /\ Cardinality(Counted') <= Cardinality(Counted)
      BY <2>4, <3>2, QuotaCounts, FS_Subset
    <3> QED BY <1>1, <1>2, <1>3, <3>3, QuotaCounts, QuotaCountsNext
  <2> QED BY <2>6, <2>7
<1>12. CASE UNCHANGED vars
  BY <1>4, <1>12 DEF vars, Counted
<1>13. ASSUME NEW c \in Clients, Begin(c)
       PROVE  ActiveRows' + Cardinality(Counted') <= decl'.max + Cardinality(Clients)
  <2>1. Counted' \subseteq Counted
    BY <1>2, <1>13, BeginsUncounted
  <2> QED BY <1>4, <1>7, <1>11, <1>13, <2>1
<1> QED BY <1>8, <1>9, <1>10, <1>11, <1>12, <1>13 DEF Next, Handle

\* A quota is overshot by at most the number of requests that can overlap
\* (emit/domain.go:2052).
THEOREM QuotaOvershotByOverlap == Spec => []QuotaOvershoot
<1>1. Init => QuotaOvershoot
  <2> SUFFICES ASSUME Init, decl.max # NoLimit
               PROVE  ActiveRows + Cardinality(Counted) <= decl.max + Cardinality(Clients)
    BY DEF QuotaOvershoot
  <2>1. Active = {} /\ Counted = {}
    BY DEF Init, Active, Counted
  <2>2. decl.max \in Nat
    BY ServiceAssumption DEF Init, Declaration
  <2>3. Cardinality(Active) = 0 /\ Cardinality(Counted) = 0
    <3> HIDE DEF Active, Counted
    <3> QED BY <2>1, FS_EmptySet
  <2>4. ActiveRows = 0
    BY <2>3, QuotaCounts
  <2> QED BY <2>2, <2>3, <2>4, QuotaCounts
<1>2. Inv /\ Inv' /\ [Next]_vars /\ QuotaOvershoot => QuotaOvershoot'
  BY QuotaNext
<1> QED BY <1>1, <1>2, Invariance, PTL DEF Spec
=============================================================================
