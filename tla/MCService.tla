----------------------------- MODULE MCService -----------------------------
(***************************************************************************)
(* Services for TLC, generated from declarations that each turn on what    *)
(* one group of rules needs, so that the groups add up and do not          *)
(* multiply.                                                               *)
(***************************************************************************)
EXTENDS Service, TLC

CONSTANTS t1, k1, k2, open, closing, closed

Plain ==
    [modes |-> {"insert", "update", "archive"}, shape |-> "put",
     patchExcludes |-> FALSE, rest |-> TRUE, graphql |-> FALSE, mutations |-> {},
     perChild |-> FALSE, operations |-> {}, changeShape |-> "put",
     entryRest |-> TRUE, entryMutations |-> {}, ownPermission |-> {},
     guarded |-> FALSE, distinct |-> FALSE, cap |-> 0,
     scoped |-> FALSE, applies |-> {}, bypass |-> FALSE, noIdentity |-> "",
     stated |-> FALSE,
     unique |-> "no", precheck |-> FALSE, within |-> FALSE,
     legal |-> {k1}, fixed |-> FALSE,
     phases |-> {open}, moves |-> [p \in Phases |-> {}],
     closing |-> Nothing, becomes |-> Nothing,
     span |-> "no", whole |-> FALSE,
     max |-> NoLimit, engine |-> "postgres"]

\* A row scope, with a bypass that may state it, edited by PATCH alone.
Tenancy ==
    [Plain EXCEPT !.scoped = TRUE, !.bypass = TRUE, !.stated = TRUE, !.shape = "patch"]

MCTenancies ==
    {[Tenancy EXCEPT !.noIdentity = p] : p \in {"", "refuse"}}
      \cup {[Tenancy EXCEPT !.applies = {"read", "update", "archive"}],
            [Tenancy EXCEPT !.stated = FALSE, !.applies = {"read", "update"}],
            [Tenancy EXCEPT !.stated = FALSE, !.applies = {"insert", "archive"}]}

\* A unique key, prechecked, in each of its scopes.
MCUniques ==
    {[Plain EXCEPT !.legal = {k1, k2, Blank}, !.unique = u, !.precheck = TRUE,
                   !.modes = {"insert", "update", "archive", "unarchive", "delete"},
                   !.shape = "patch", !.engine = "oracle"] :
        u \in {"all", "active-only"}}

\* A key unique within the scope, on an entity that is never edited.
MCWithin ==
    {[Plain EXCEPT !.scoped = TRUE, !.noIdentity = "refuse", !.within = TRUE,
                   !.unique = "active-only", !.precheck = TRUE, !.engine = "mysql",
                   !.legal = {k1, k2}, !.modes = {"insert", "archive"}]}

\* A lifecycle decided by an update, and a quota on creation.
MCLifecycles ==
    {[Plain EXCEPT !.phases = {open, closing, closed}, !.closing = closing,
                   !.becomes = b, !.max = 0, !.graphql = TRUE, !.rest = FALSE,
                   !.legal = IF b = Nothing THEN {k1, k2} ELSE {k1}, !.fixed = TRUE,
                   !.moves = [p \in Phases |-> IF p = open THEN {closing} ELSE {}]] :
        b \in {Nothing, closed}}

\* A collection edited one entry at a time, and as a whole by PUT.
MCCollections ==
    {[Plain EXCEPT !.perChild = TRUE, !.operations = {"add", "change", "remove"},
                   !.changeShape = "both", !.guarded = TRUE, !.distinct = TRUE,
                   !.cap = 2, !.modes = {"insert", "update"}, !.ownPermission = {"remove"},
                   !.graphql = TRUE, !.mutations = {"insert"}]}

\* An optional composite: on the root's own table and only patched, and on a
\* facet that a PUT, a PATCH and a mutation of its own write.
MCSpans ==
    {[Plain EXCEPT !.span = "own", !.shape = "patch", !.modes = {"insert", "update"}],
     [Plain EXCEPT !.span = "facet", !.whole = TRUE, !.shape = "both", !.graphql = TRUE,
                   !.mutations = {"insert"}, !.modes = {"insert", "update"}]}

MCDeclarations ==
    MCTenancies \cup MCUniques \cup MCWithin \cup MCLifecycles \cup MCCollections
      \cup MCSpans

\* What the tenancies ask for: who comes without a tenant or with the bypass
\* is let at nothing else.
Editing == {"insert", "patch", "archive"}

MCCallers ==
    {[present |-> TRUE, tenant |-> t1, crosses |-> FALSE, grants |-> Verbs],
     [present |-> TRUE, tenant |-> NoTenant, crosses |-> FALSE, grants |-> Editing],
     [present |-> TRUE, tenant |-> t1, crosses |-> TRUE, grants |-> Editing],
     [present |-> FALSE, tenant |-> NoTenant, crosses |-> FALSE, grants |-> {}]}

\* Clients are interchangeable, and so are ids.
Symmetric == Permutations(Clients) \cup Permutations(Ids)
=============================================================================
