------------------------------ MODULE Service ------------------------------
(***************************************************************************)
(* The generated write side of one entity at run time. A request is not    *)
(* one step: the handler loads the row and its revision, the mapper        *)
(* applies the body and the identity, the rules run and ask the service    *)
(* for facts one query at a time, and the framework commits under the      *)
(* revision it loaded. Requests of several clients interleave between any  *)
(* two of those. A request that is refused, or whose query fails, leaves   *)
(* the table alone.                                                        *)
(***************************************************************************)
EXTENDS Declared

CONSTANTS
    Ids,            \* ids the table may get
    NoId,           \* the row an insert has not made yet
    Declarations,   \* the declarations to generate from
    Clients,        \* requests that may be in progress
    Callers,        \* who may send one
    Idle            \* no request

\* What a request's identity says: the tenant claim or none, whether it holds
\* the bypass, and the permissions granted. present is FALSE where
\* authentication is switched off; nothing else is read then.
Caller == [present : BOOLEAN, tenant : Tenants \cup {NoTenant},
           crosses : BOOLEAN, grants : SUBSET Verbs]

ASSUME CallersAssumption == Callers \subseteq Caller
ASSUME ServiceAssumption ==
    /\ Declarations \subseteq Declaration
    /\ NoId \notin Ids
    /\ IsFiniteSet(Clients) /\ IsFiniteSet(Ids)

VARIABLES
    decl,   \* the declaration the service was generated from
    rows,   \* the entity's table
    req     \* the request each client has in progress

vars == <<decl, rows, req>>

C == INSTANCE Contract

Request ==
    [pc : {"count", "probe", "commit"},    \* what it does next
     mode : Modes,                         \* the mode it is dispatched under
     reach : SUBSET (Tenants \cup {NoTenant}), \* the scopes its caller can read
     id : Ids \cup {NoId},                 \* the row it loaded
     e : Entity,                           \* the aggregate as the rules left it
     current : BOOLEAN,                    \* the revision it loaded still stands
     raced : BOOLEAN]                      \* a commit fell between its probe and now

ASSUME IdleAssumption == Idle \notin Request

TypeOK ==
    /\ decl \in Declaration
    /\ rows \in [Ids -> Row]
    /\ req \in [Clients -> {Idle} \cup Request]

Init ==
    /\ decl \in {d \in Declarations : Accepted(d)}
    /\ rows = [i \in Ids |-> [at |-> "unused", e |-> NoData]]
    /\ req = [c \in Clients |-> Idle]

-----------------------------------------------------------------------------
\* The mappers: what a body makes of a row. Each is the set of entities the
\* aggregate may be left as, empty when the mapper itself refuses.

\* What the request states of the scope goes over what the identity says,
\* whoever asks and with no identity too: the guard is to judge it.
Overridden(mine, stated) == IF stated # NoTenant THEN stated ELSE mine

\* The scope's field on an insert.
AssignedTenant(d, who, stated) ==
    IF ~d.scoped THEN NoTenant
    ELSE Overridden(IF who.present THEN who.tenant ELSE NoTenant, stated)

\* Every live entry the body names keeps its id, the others leave, and what
\* is new gets an id of its own.
Replaced(old, names) ==
    {f \in [Slots -> names \cup {NoEntry, Removed}] :
       /\ \A s \in Slots :
             CASE old.entries[s] \in names   -> f[s] = old.entries[s]
               [] old.entries[s] = NoEntry   -> f[s] \in {NoEntry} \cup (names \ NamesOf(old))
               [] OTHER                      -> f[s] = Removed
       /\ \A n \in names \ NamesOf(old) : Cardinality({s \in Slots : f[s] = n}) = 1}

\* The composite on the wire: its parts, flat, each of them sent or not.
Parts(d) ==
    IF d.span = "no" THEN {[must |-> Absent, may |-> Absent]}
    ELSE [must : Amounts \cup {Zero, Absent}, may : Amounts \cup {Absent}]

Sent(parts) == parts.must # Absent \/ parts.may # Absent

\* The fold of a full write into an optional composite: with nothing sent,
\* nothing is assigned; with anything sent, a value is built from nothing.
Fold(target, parts) ==
    IF ~Sent(parts) THEN target
    ELSE [must |-> IF parts.must = Absent THEN Zero ELSE parts.must,
          may |-> parts.may]

\* The fold of a partial write: part by part, into the value that is there or
\* into an empty one.
FoldPartially(target, parts) ==
    LET old == IF target = Absent THEN [must |-> Zero, may |-> Absent] ELSE target
    IN IF ~Sent(parts) THEN target
       ELSE [must |-> IF parts.must = Absent THEN old.must ELSE parts.must,
             may |-> IF parts.may = Absent THEN old.may ELSE parts.may]

\* The bodies the routes take. The scope's field is on the insert's alone, and
\* only where a bypass may set it; a cap of 0 stands for no collection.
Bodies(d) ==
    [stated : IF BypassSettable(d) THEN Tenants \cup {NoTenant} ELSE {NoTenant},
     key : Keys \cup {Blank},
     phase : Phases,
     names : IF d.cap = 0 THEN {{}} ELSE SUBSET Names,
     parts : Parts(d)]

ToEntity(d, who, body) ==
    {[tenant |-> AssignedTenant(d, who, body.stated), key |-> body.key,
      phase |-> body.phase, entries |-> f, span |-> Fold(Absent, body.parts)] :
       f \in Replaced(NoData, body.names)}

\* A full replacement never touches what the server assigned.
ApplyTo(old, body) ==
    {[old EXCEPT !.key = body.key, !.phase = body.phase, !.entries = f,
                 !.span = Fold(@, body.parts)] :
       f \in Replaced(old, body.names)}

\* A partial update assigns what was sent; an excluded field cannot be.
ApplyPartiallyTo(d, old, key, phase, parts) ==
    {[old EXCEPT !.key = IF d.patchExcludes THEN @ ELSE key, !.phase = phase,
                 !.span = FoldPartially(@, parts)]}

\* Adding one entry: a duplicate is refused where the collection has a
\* notification for it, and otherwise updated in place.
AddOne(d, old, n) ==
    IF n \in NamesOf(old) THEN IF d.guarded THEN {} ELSE {old}
    ELSE {[old EXCEPT !.entries[s] = n] : s \in {t \in Slots : old.entries[t] = NoEntry}}

\* Replacing one entry by id, which it keeps.
ChangeByID(old, s, n) ==
    IF s \in Live(old) THEN {[old EXCEPT !.entries[s] = n]} ELSE {}

\* A partial change starts from the stored entry, identity and all.
PatchByID(old, s) == IF s \in Live(old) THEN {old} ELSE {}

RemoveByID(old, s) ==
    IF s \in Live(old) THEN {[old EXCEPT !.entries[s] = Removed]} ELSE {}

-----------------------------------------------------------------------------
\* The rules.

\* What the mapper feeds onto the aggregate for the rules to read: nothing,
\* unless there was an identity.
Fed(d, who) ==
    [present |-> who.present,
     tenant |-> IF who.present THEN who.tenant ELSE NoTenant,
     crosses |-> BypassFed(d) /\ who.present /\ who.crosses]

\* Standing down when the caller's scope is empty rather than when there is
\* no caller.
ScopeGuardEmptiness(d, v, who, e) ==
    GateModeOf(v) \in ScopeGates(d)
      => \/ StandsDown(d) /\ Fed(d, who).tenant = NoTenant
         \/ Fed(d, who).crosses
         \/ e.tenant = Fed(d, who).tenant

\* The write half of the scope. It asks whether there was an identity, never
\* whether the scope came out empty.
ScopeGuard(d, v, who, e) ==
    GateModeOf(v) \in ScopeGates(d)
      => \/ StandsDown(d) /\ ~Fed(d, who).present
         \/ Fed(d, who).crosses
         \/ e.tenant = Fed(d, who).tenant

\* The read half: the tenants whose rows the query's filter lets through.
ReadFilter(d, who) ==
    IF "read" \notin ScopeApplies(d) THEN Tenants \cup {NoTenant}
    ELSE IF who.present
         THEN IF d.bypass /\ who.crosses THEN Tenants \cup {NoTenant} ELSE {who.tenant}
         ELSE IF StandsDown(d) THEN Tenants \cup {NoTenant} ELSE {NoTenant}

Immutable(d, old, e) == d.fixed => e.key = old.key

\* The declared moves; staying is always allowed.
Transition(d, old, e) == e.phase = old.phase \/ e.phase \in d.moves[old.phase]

ChildDuplicate(d, e) ==
    d.distinct => \A s, t \in Live(e) : e.entries[s] = e.entries[t] => s = t

GroupCap(d, e) == Cardinality(Live(e)) <= d.cap

\* The composite checks itself whenever it is there.
SpanIsValid(d, e) == (d.whole /\ e.span # Absent) => e.span.must # Zero

\* The rules of one gate, all of which must hold. domain.Old is nil on insert.
BuildRules(d, v, who, old, e) ==
    /\ ScopeGuard(d, v, who, e)
    /\ GateModeOf(v) \in {"insert", "update"} =>
          /\ e.key \in d.legal /\ e.phase \in d.phases
          /\ GroupCap(d, e)
          /\ ChildDuplicate(d, e)
          /\ SpanIsValid(d, e)
    /\ GateModeOf(v) = "update" =>
          /\ Immutable(d, old, e)
          /\ Transition(d, old, e)

\* Completed as it would be if the phase were left as asked.
CompletedAsAsked(d, e) ==
    IF d.closing = Nothing \/ e.phase # d.closing THEN [at |-> "active", e |-> e]
    ELSE [at |-> "archived", e |-> e]

\* An update whose phase says so is completed as an archive, in the phase it
\* becomes; the rules of IfArchive do not run.
Completed(d, e) ==
    IF d.closing = Nothing \/ e.phase # d.closing THEN [at |-> "active", e |-> e]
    ELSE [at |-> "archived",
          e |-> IF d.becomes = Nothing THEN e ELSE [e EXCEPT !.phase = d.becomes]]

\* What the request writes.
Written(d, mode, e) ==
    CASE mode \in {"insert", "unarchive"} -> [at |-> "active", e |-> e]
      [] mode = "update"                  -> Completed(d, e)
      [] mode = "archive"                 -> [at |-> "archived", e |-> e]
      [] mode = "delete"                  -> [at |-> "gone", e |-> NoData]

-----------------------------------------------------------------------------
\* The facts, and the database.

\* The query of a count: the rows in the table now, so not the new one.
ActiveRows == Cardinality({i \in Ids : rows[i].at = "active"})

\* Whether the rules of this write ask for the count, and for the probe. The
\* probe stands down for an empty key.
AsksCount(d, mode) == mode = "insert" /\ d.max # NoLimit

AsksProbe(d, mode, e) ==
    /\ d.unique # "no" /\ d.precheck
    /\ mode \in {"insert", "update"}
    /\ e.key # Blank

\* The probe as it would be if it did not ask about archived rows.
TakenActive(d, table, id, e) ==
    \E j \in Ids \ {id} :
        /\ table[j].at = "active"
        /\ IndexColumns(d, table[j].e) = IndexColumns(d, e)

\* The answer of the probe: another row in the index's scope holds the key.
Taken(d, table, id, e) ==
    \E j \in Ids \ {id} :
        /\ table[j].at \in IF d.unique = "all" THEN Kept ELSE {"active"}
        /\ IndexColumns(d, table[j].e) = IndexColumns(d, e)

\* The unique index under an engine refuses this row beside the others.
IndexRefuses(g, d, table, i, row) ==
    \E j \in Ids \ {i} : Clash(g, d, row, table[j])

-----------------------------------------------------------------------------
\* Requests.

AfterCount(d, mode, e) == IF AsksProbe(d, mode, e) THEN "probe" ELSE "commit"

\* The route answers, and the permission middleware lets the caller through:
\* it is off where authentication is.
Admits(c, v, who) ==
    /\ req[c] = Idle
    /\ Answers(decl, v) /\ GateModeOf(v) \in Advertised(decl)
    /\ who.present => PermissionFor(decl, v) \in who.grants

\* The write path loads a row through the repository, which the read side's
\* filter never touches, and which only knows archived rows on unarchive.
Loads(i, v) == rows[i].at = IF v = "unarchive" THEN "archived" ELSE "active"

\* The mapped aggregate passes the rules that ask nothing, and goes on to
\* those that do.
Submit(c, v, who, i, old, mapped) ==
    /\ \E e \in mapped :
          /\ BuildRules(decl, v, who, old, e)
          /\ req' = [req EXCEPT ![c] =
                [pc |-> IF AsksCount(decl, GateModeOf(v)) THEN "count"
                       ELSE AfterCount(decl, GateModeOf(v), e),
                 mode |-> GateModeOf(v), reach |-> ReadFilter(decl, who),
                 id |-> i, e |-> e, current |-> TRUE, raced |-> FALSE]]
    /\ UNCHANGED <<decl, rows>>

Insert(c, who) ==
    /\ Admits(c, "insert", who)
    /\ \E body \in Bodies(decl) :
          Submit(c, "insert", who, NoId, NoData, ToEntity(decl, who, body))

UpdateWith(c, who, i, body) ==
    /\ Admits(c, "update", who) /\ Loads(i, "update")
    /\ Submit(c, "update", who, i, rows[i].e, ApplyTo(rows[i].e, body))

Update(c, who, i) == \E body \in Bodies(decl) : UpdateWith(c, who, i, body)

Patch(c, who, i) ==
    /\ Admits(c, "patch", who) /\ Loads(i, "patch")
    /\ \E key \in Keys \cup {Blank}, phase \in Phases, parts \in Parts(decl) :
          Submit(c, "patch", who, i, rows[i].e,
                 ApplyPartiallyTo(decl, rows[i].e, key, phase, parts))

\* GraphQL's way of taking a facet out.
Clear(c, who, i) ==
    /\ Admits(c, ClearVerb, who) /\ Loads(i, ClearVerb)
    /\ Submit(c, ClearVerb, who, i, rows[i].e, {[rows[i].e EXCEPT !.span = Absent]})

\* The bodyless verbs feed the identity and change no field.
ByID(c, v, who, i) ==
    /\ Admits(c, v, who) /\ Loads(i, v)
    /\ Submit(c, v, who, i, rows[i].e, {rows[i].e})

Add(c, who, i) ==
    /\ Admits(c, "add", who) /\ Loads(i, "add")
    /\ \E n \in Names : Submit(c, "add", who, i, rows[i].e, AddOne(decl, rows[i].e, n))

Change(c, who, i) ==
    /\ Admits(c, "change", who) /\ Loads(i, "change")
    /\ \E s \in Slots, n \in Names :
          Submit(c, "change", who, i, rows[i].e, ChangeByID(rows[i].e, s, n))

PatchOne(c, who, i) ==
    /\ Admits(c, "patchEntry", who) /\ Loads(i, "patchEntry")
    /\ \E s \in Slots : Submit(c, "patchEntry", who, i, rows[i].e, PatchByID(rows[i].e, s))

Remove(c, who, i) ==
    /\ Admits(c, "remove", who) /\ Loads(i, "remove")
    /\ \E s \in Slots : Submit(c, "remove", who, i, rows[i].e, RemoveByID(rows[i].e, s))

\* The bound as it would be if it made up for a row the query does not see.
WithinQuotaAfter(d, n) == d.max = NoLimit \/ n <= d.max + 1

\* The bound of a fact's range, on the rows that are there.
WithinQuota(d, n) == d.max = NoLimit \/ n <= d.max

Refuse(c) == req' = [req EXCEPT ![c] = Idle]

Count(c) ==
    /\ req[c] # Idle /\ req[c].pc = "count"
    /\ IF WithinQuota(decl, ActiveRows)
       THEN req' = [req EXCEPT ![c].pc = AfterCount(decl, req[c].mode, req[c].e)]
       ELSE Refuse(c)
    /\ UNCHANGED <<decl, rows>>

Probe(c) ==
    /\ req[c] # Idle /\ req[c].pc = "probe"
    /\ IF Taken(decl, rows, req[c].id, req[c].e) THEN Refuse(c)
       ELSE req' = [req EXCEPT ![c].pc = "commit", ![c].raced = FALSE]
    /\ UNCHANGED <<decl, rows>>

\* What a commit of a row does to the other requests: one that loaded the same
\* row is out of date.
Overtaken(c, i) ==
    [x \in Clients |->
        IF x = c \/ req[x] = Idle THEN Idle
        ELSE [req[x] EXCEPT !.current = @ /\ req[x].id # i,
                            !.raced = @ \/ (/\ req[x].pc = "commit"
                                            /\ AsksProbe(decl, req[x].mode, req[x].e))]]

\* The row a commit writes: the one it loaded, or a new one.
Target(c, i) ==
    IF req[c].mode = "insert" THEN rows[i].at = "unused" ELSE i = req[c].id

Commit(c) ==
    /\ req[c] # Idle /\ req[c].pc = "commit"
    /\ req[c].current
    /\ \E i \in Ids :
          LET row == Written(decl, req[c].mode, req[c].e)
          IN /\ Target(c, i)
             /\ ~IndexRefuses(decl.engine, decl, rows, i, row)
             /\ rows' = [rows EXCEPT ![i] = row]
             /\ req' = Overtaken(c, i)
    /\ UNCHANGED decl

\* The revision moved on, or the index answers with the constraint the
\* repository binds to a notification.
Conflict(c) ==
    /\ req[c] # Idle /\ req[c].pc = "commit"
    /\ \/ ~req[c].current
       \/ \E i \in Ids : /\ Target(c, i)
                         /\ IndexRefuses(decl.engine, decl, rows, i,
                                         Written(decl, req[c].mode, req[c].e))
    /\ Refuse(c)
    /\ UNCHANGED <<decl, rows>>

\* A query panics, or the process dies, before the commit.
Fail(c) ==
    /\ req[c] # Idle
    /\ Refuse(c)
    /\ UNCHANGED <<decl, rows>>

Begin(c) ==
    \E who \in Callers :
        \/ Insert(c, who)
        \/ \E i \in Ids :
              \/ Update(c, who, i) \/ Patch(c, who, i) \/ Clear(c, who, i)
              \/ \E v \in {"archive", "unarchive", "delete"} : ByID(c, v, who, i)
              \/ Add(c, who, i) \/ Change(c, who, i)
              \/ PatchOne(c, who, i) \/ Remove(c, who, i)

Handle(c) == Count(c) \/ Probe(c) \/ Commit(c) \/ Conflict(c) \/ Fail(c)

Next == \E c \in Clients : Begin(c) \/ Handle(c)

Spec == Init /\ [][Next]_vars

-----------------------------------------------------------------------------
\* The inductive invariant.

\* What a request was built as, which later commits cannot change.
Built(d, r) ==
    /\ r.mode \in d.modes
    /\ r.mode = "insert" =>
          /\ r.id = NoId
          /\ r.e \in Entities(d) /\ C!Lawful(d, r.e)
          /\ \A s \in Slots : r.e.entries[s] # Removed
          /\ r.e.tenant \in r.reach
    /\ r.mode # "insert" => r.id \in Ids

\* What holds between it and the row it loaded, while that is the row as it is.
Fits(d, r, row) ==
    /\ row.at = IF r.mode = "unarchive" THEN "archived" ELSE "active"
    /\ r.mode \in ScopeGates(d) => row.e.tenant \in r.reach
    /\ IF r.mode = "update"
       THEN r.e \in Entities(d) /\ C!Lawful(d, r.e) /\ C!MayBecome(d, row.e, r.e)
       ELSE r.e = row.e

\* What the probe answered, until another commit.
Free(d, table, r) ==
    (r.pc = "commit" /\ ~r.raced /\ AsksProbe(d, r.mode, r.e))
      => ~Taken(d, table, r.id, r.e)

\* Types, a table the contract allows, and every request in progress fit to be
\* committed to it unless another commit has overtaken it.
Inv ==
    /\ TypeOK
    /\ Accepted(decl)
    /\ \A i \in Ids : rows[i].at \in Kept => rows[i].e \in Entities(decl)
    /\ C!KeysUnique(decl, rows)
    /\ \A c \in Clients :
          req[c] # Idle =>
            /\ Built(decl, req[c])
            /\ (req[c].mode # "insert" /\ req[c].current) => Fits(decl, req[c], rows[req[c].id])
            /\ Free(decl, rows, req[c])

-----------------------------------------------------------------------------
\* Properties.

\* Every commit is a write the spec promised, from one lawful table to another
\* (emit/domain.go:228, emit/application.go:226): requests that overlap,
\* mappers, rules, facts and the index together never let through what the
\* declaration rules out.
KeepsContract == C!Spec

\* The two halves of the row scope agree (emit/domain.go:498, emit/
\* application.go:782): a write where the scope is enforced is of a row its
\* caller could read before, if it was there, and can read back after; and a
\* caller can always read back what it inserted.
WritesAreScoped ==
    [][\A c \in Clients, i \in Ids :
          (req[c] # Idle /\ req'[c] = Idle /\ rows'[i] # rows[i])
            => /\ req[c].mode = "insert" => rows'[i].e.tenant \in req[c].reach
               /\ (req[c].mode \in ScopeGates(decl) /\ req[c].mode # "insert")
                     => rows[i].e.tenant \in req[c].reach]_vars

\* The index is the backstop for a race and for nothing else (emit/domain.go:
\* 1494): a write the probe let through is refused by the index only when
\* another write was committed in between.
OnlyRacesConflict ==
    \A c \in Clients :
        LET r == req[c]
        IN (r # Idle /\ r.pc = "commit" /\ r.current /\ ~r.raced
              /\ AsksProbe(decl, r.mode, r.e))
           => \A i \in Ids : Target(c, i)
                => ~IndexRefuses(decl.engine, decl, rows, i, Written(decl, r.mode, r.e))

\* A quota has no index behind it (emit/domain.go:2052), so what overlapping
\* inserts can overshoot it by is their number: the rows there plus those let
\* through stay within the bound plus one for each request that can overlap.
Counted == {c \in Clients : req[c] # Idle /\ req[c].mode = "insert" /\ req[c].pc # "count"}

QuotaOvershoot ==
    (decl.max # NoLimit /\ "unarchive" \notin decl.modes)
      => ActiveRows + Cardinality(Counted) <= decl.max + Cardinality(Clients)

\* The spellings of an active-only index on the five engines (emit/
\* migrations.go:919) are one constraint: they refuse the same commits.
SpellingsAgree ==
    \A c \in Clients :
        (req[c] # Idle /\ req[c].pc = "commit")
          => \A i \in Ids, g \in Engines :
                Target(c, i)
                  => LET row == Written(decl, req[c].mode, req[c].e)
                     IN IndexRefuses(g, decl, rows, i, row) = IndexRefuses(decl.engine, decl, rows, i, row)
=============================================================================
