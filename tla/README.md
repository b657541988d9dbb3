# omnicore-gen: TLA+ specifications and proofs

`omnicore-gen` turns a YAML spec of one entity into the Go files, migrations and
registrations of a service, and is meant to be run again whenever the spec
changes. What makes it safe to run again is not the emitters but a small amount
of state: what is on disk, what `.omnicore/lock.json` remembers, what each spec
asks for, and what each command may do about the differences. And what it is
worth running for is the service that comes out: what a spec declares, the
generated code must do, whatever requests overlap. This directory models both:
the commands and the state they keep, and the generated write side with its
validation pass and its migrations, as the resolver and the emitters write them.

Paths below are relative to `src/plugins/omnicore/gen/internal/`.

## The system

| component | state | operations | talks to |
|---|---|---|---|
| write planner `fsplan/` | lock: per entity the files with class, hash, adoption; ordinals; view pair; registrations | `Plan`, `ApplyWith`, `PlanPrune`, `ApplyPrune`, `Adopt`, `LoadLock`, `Save` | disk, seal |
| file seal `gofile/header.go` | checksum and date in each owned file | `ApplyHeaderWith`, `VerifyHeader` | disk |
| registration files `emit/registration.go`, `emit/notifications.go`, `emit/wire.go` | declarations, catalog keys and the composition root, shared by all entities | merge, remove | lock's registrations |
| migrations `emit/migrations.go` | numbered SQL pairs per dialect | create once | ordinals, `discover.nextOrdinal` |
| read views `emit/infra.go`, `emit/emit.go` | schema file and view file | emit; fingerprint | view pair of the lock; the framework's boot |
| value objects `emit/vos.go`, `discover` | one file per type, an owner in its header | declare, reuse, prune | validator, sibling specs |
| validator `spec/` | none | `Parse`, `Validate`, `CheckCoverage` | `discover`'s inventory |
| resolver `ir/`, emitters `emit/` | none | `Resolve`, `All` | validator |
| generated service `emit/domain.go`, `children.go`, `service.go`, `application.go`, `composite.go`, `infra.go`, `web.go`, `surfaces.go` | the entity's table; per request the loaded row, its revision, the body, the facts asked | insert, update, patch, facet clear, the bodyless verbs, entries added, changed, patched, removed | framework, database |
| its validation pass `emit/domain.go`, `children.go` | the notifications raised, the value objects left out | `BuildRules`, `StopIfInvalid`, the automatic pass | facts of the service |
| its migrations `emit/migrations.go` | tables, indexes, foreign keys; the migrator's place | up, down, rollback, recovery | five engines |
| commands `cli/` | none of their own | `check`, `generate`, `prune`, `adopt`, `doctor`, `init`, `explain`, `keys` | everything above |
| launcher `bin/omnicore-gen` | cached binaries | build, exec, delete old | file system |

A command reads disk and lock once, decides everything, then writes or removes
file by file in path order and saves the lock, whole, as its last act. There is
no lock file, no rename, no fsync, no rollback. So the hard behaviours are:

* **crash between any two writes**: files without a record, records without
  files, a file or the lock cut short;
* **stale records**: what one entity's entry says about a file, an entry of a
  shared file or a number, after another entity, the author or version control
  has moved on;
* **long legal sequences**: edit, refuse, change the spec, prune, adopt, force,
  generate for another entity;
* **convergence**: entities that share a file must not rewrite it in turn for
  ever;
* **overlap**: an edit, or another command, while a command runs.

In the generated service:

* **requests that overlap** between load, fact and commit: what a rule compared
  with, or a fact counted, may be gone by the commit;
* **one declaration, many seats**: a row scope is a read filter and a write guard, a
  unique key is a probe and five spellings of an index, a verb is a mode, a
  route, a permission and a mutation, each emitted somewhere else;
* **one pass, many exits**: guards, gates, rules that stand down and value objects
  asked early decide what is never asked at all;
* **migrations that die half way**, are rolled back over half of what they made, and
  share tables with other entities.

`PROJECT.json` lists each of these under "hazards" at the line where it bites.

What makes each component correct:

* planner: the author's work is never overwritten or deleted without `-force`; a
  refusal and an adoption last; what the generator wrote stays removable;
  regenerating an unchanged spec changes nothing.
* registration files: entries the author reworded are kept; entries of other
  entities are left alone; what the generator wrote stays on record.
* migrations: one pair per entity and dialect, distinct numbers, never an up
  without its down.
* views: a tree `generate` agreed to write boots.
* value objects: no command of one entity breaks another entity's spec.
* generated service: each commit is one write the spec promised, of a row its
  caller may read; a constraint answers only where a race lost.
* validation pass: what is accepted is what the declarations allow, whatever ends
  the pass early; nothing is said twice, and what goes unsaid is behind a barrier.
* migrations: no statement is refused, a down takes out what its up made and
  nothing of another entity.
* validator and emitters: what `check` accepts, `generate` writes, and it
  compiles (not modelled, see the plan).

## The modules

| module | models | extends |
|---|---|---|
| `Fsplan` | what may be done to one file: `Decide` (Plan), `RecordAfter` (ApplyWith), `PruneKind` (PlanPrune), `Sealed` (sealFiles) | |
| `Project` | disk, lock, specs and running commands: generate, prune -apply, adopt, crashes, the author | `Fsplan` |
| `AuthorsWork` | the promise: who wrote what is at each path and when that may change; implemented by `Project` | |
| `Registrations` | notification declarations and catalog keys, their merge and removal | |
| `Numbering` | migration pairs, their numbers and names | |
| `ViewGuard` | schema and view files, the recorded pair, the boot | |
| `ValueObjects` | ownership of the types in `internal/domain/vos` | |
| `Declared` | what a spec declares of the write side and what the resolver makes of it: verbs, surfaces, permissions, scopes, the index | |
| `Contract` | the promise: one write a step, from a lawful row to a lawful row; implemented by `Service` | `Declared` |
| `Service` | the generated write side at run time, requests of several clients interleaved | `Declared` |
| `Facts` | which rows a fact's query admits and the numbers over them; the facts the validator accepts | |
| `Rules` | the BuildRules the emitters write, which specs the validator gives one to, and one validation pass | `Facts` |
| `Schema` | the migrations as statements, the migrator that runs them, dies and rolls back | |
| `*_proofs` | theorems about the module of that name | it and `TLAPS` |
| `MC*` | small instances | |

**Fsplan / Project.** A file is the text it holds, how its header's checksum
stands to it (`sealed`, `broken`, `bare`) and the entity the header names: this is
what `VerifyHeader` and `Hash` can tell apart. `Hash` is taken to be collision
free. `run[r]` is a command that has planned: `todo` holds what its plan decided and is
carried out in path order, `mem` is the lock it read and is going to save. `StartGenerate` is
everything up to and including `Plan`, `ApplyDecision` one turn of the loop in
`ApplyWith`, `StartPrune` and `PruneNext` the same for `prune -apply`,
`SaveLock` the save at the end, `Adopt` the whole of `adopt`. `Crash` and
`CrashWriting` end a command between two steps or inside `os.WriteFile`,
`CrashSaving` leaves a lock that does not parse. The author edits specs and
files, writes and deletes files, checks out generated ones and restores or
deletes the lock, and does so between commands. With `Overlap = FALSE` a command
also waits for the other commands to end, with `Overlap = TRUE` it does not:
nothing in the program makes it (there is no lock file), so several commands
may have planned from one reading and save over each other.

**AuthorsWork** has one variable per path, who holds it (`nobody`, `author`,
`generator`). A command may take a path from the generator or from
nobody, and from the author only if it was named with -force; a hook, once
there, may only be removed. `Project` implements it under the mapping in
`KeepsContract`.

**Registrations.** An entry is a declaration or a key in one of several shared
files. `ReadsBack` is the difference between the two kinds: a declaration is
read by parsing the file, a catalog value by a pattern on its line. A catalog may also be `open`: the
merge does not find where its map ends (it was cut short, or is written another way) and
leaves the whole file alone, though its entries can be read (`Considers`). The five
cases of the merge are `Adds`, `Confirms`, `Moves`, `Drifted` and
"cannot be read". `run.next` is what the command is about to write.

**Numbering.** `ordinals` is the lock's record per entity and dialect, `Used` the
numbers in a folder, `NumberFor` the number a generation uses. `StyleOf` is the
name with and without `_manual`; the initial states include a project generated
before that suffix existed. `happened` is a history variable: whether a pair was
ever deleted, and whether a record was ever lost (a generation that died, a
lock that was). Two of the promises hold only without the one or the other, and
say so.

**ViewGuard.** The shape is in the schema file, the version in the view file;
the lock holds a pair. `Boot` is the framework's, external, as the generator's
comments describe it: it aborts when the stored shape differs under the same
version. `astray` is a history variable: a view went back to an older version or
stopped being projected, a file was held back by an edit or an adoption, a
generation died or the lock was lost. The record is then of no use, until a
generation from which it is good again (`SetsRight`).

**ValueObjects.** Each type has one file and an owner in its header. A spec
`makes`, `asks` for (hand-written), `reuses` or does not use a type. `Valid` is
the part of the validator that looks at the package.

**Declared / Contract / Service.** A declaration is a record of everything the
write side turns on; `Accepted` is the part of the validator that relates its
fields. `RootOps`, `Advertised`, `GQLMutations`, `OnREST`, `Answers`,
`PermissionFor` and `ScopeApplies` are the resolver's and the routers' decisions.
A `Service` request is idle, or has been let in by a surface and its permission
(`Begin` and the verb's action: the mapper, the identity, the rules that look at
the loaded row), then asks its facts one query at a time (`Probe`, `Count`; a query
may `Fail`), then commits under the revision it loaded (`Commit`, `Overtaken`,
`Conflict`). `Contract` knows nothing of requests: its one action is a
promised write. Row scope, the collection with its duplicates and cap, the optional
composite, the lifecycle with its closing move, a unique key in each scope and a
quota on a fact are in; queries and results are not. A scope column is filled
from the identity.

**Facts / Rules.** A value is an integer: what is compared of a text is its length,
or its order among the texts. `RootFile` and `EntryFile` are the two generated
bodies as lists of lines, each under its gate: the scope's guard, the value
objects left out, then clause by clause the rules, with collections' rules that
read history hoisted to the root and the uniqueness probes at the end of theirs.
A behaviour is one pass over one write: `Scope`, `Exclude`, `Check` and `Stop` run a
line each, and `Values` is the automatic pass over an owner, after which the
next entry's own rules run. What each rule kind refuses (`Required`, `Transition`,
`GroupCap`, `FactRange`, ...) is its emitter's condition, operator for operator. What an
accepted write must satisfy (`Acceptable`) is stated without any order, from the
declarations. Specs are as the resolver leaves them (`IsResolved`). `Accepted` is the
validator's word on rules, facts and uniqueness, and an assumption on the specs that TLC
evaluates. `Regular` leaves out the two declarations whose code is known not to say what
they say: a collection's immutable rule with several fields or a skip, and a negative
maximum of a fact. What is accepted is stated of every other spec.

**Schema.** A plan is a sequence of entities in the order of their numbers; `Up`
and `Down` give each one's file, a list of blocks of statements, one block per
declaration that needs any. `PlansAssumption` is what a project has to be: names of
tables are apart (which is the author's to see to: nothing in the generator compares
those of two entities), the owner of an identity is numbered first, unique keys are on
the entity's own tables and end with a column of theirs (`ir/ir.go:1720`).
That the columns a key names are columns of its table is the
resolver's doing and is not modelled: a key wants its table, and the MySQL mirrors it names. `MirrorsFree` says that active-only keys of one table share no column, and is kept apart
because the validator does not ask for it. `Forward`, `Back` and `Recover` are the
migrator starting a file and an operator clearing a dirty one, `Execute` one
statement, `Die` the process ending between two. What a file did until then stays
done: no transaction around it is assumed.

## Runs

Passing runs:

| run | instance | shows |
|---|---|---|
| solo | 1 entity; an owned file, a hook, a migration; 3 shapes | the safety properties of `Project` that one entity's commands can break, and that it implements `AuthorsWork` |
| shared | 2 entities, a shared file and one of the first's own | refusals and adoptions outlast the other entity's commands, what one entity finished the other leaves finished, and regeneration settles |
| together | 2 entities, a shared file, 2 commands at once, -force | the author's work is kept however commands overlap |
| registrations | 2 entities, a declaration and a catalog key, shapes that disagree, files may not parse and catalogs be open | registrations, with torn and half-edited files, and that regeneration settles |
| numbers | 2 entities, 2 dialects, 3 numbers, crashes, a lost lock or deletions | distinct numbers, one pair per entity, no up without its down |
| views | 2 shapes, 4 versions, everything that leads astray | no boot aborts, and the guard is right again afterwards |
| neighbours | 2 specs, 2 types, specs that stop parsing | no spec is invalidated by a neighbour's command |
| writes | 2 rows, 2 clients, 4 callers, 13 declarations on 5 engines' spellings | `Service` implements `Contract`; writes stay in scope; races cost what they must |
| migrations | 2 projects of 2 and 3 entities, 2 engines, 2 deaths, 2 rollbacks | nothing is refused, nothing is left behind or taken from others, the end is reached |
| rules | 10 specs, 13 000 writes | order, gates and barriers change only what is said, and only behind a barrier |

Bounds. Two entities are enough for every property checked: records of other
entities are only ever asked "is there one". Two generated texts and one of the
author's are what edits and spec changes can tell apart. Three migration numbers
are a pair of each entity and one of the author's; `MaxKinds = 1` keeps losses
and deletions apart, since each property is about executions without one of them.
Four versions are two bumps past the first and one more. `MaxForce` bounds the
paths one run forces: what is forced is decided path by path. It is 0 in `shared`, whose
`AdoptionOutlasts` has an exception for -force that the run does not reach; the theorem
covers every value. Entities in
`Numbering` and entities and types in `ValueObjects` are symmetric: neither
module names or orders one. `Project` orders entities (adopt takes the first by
name) and paths, so it uses numbers there; its commands are interchangeable, and
`together` uses that symmetry (it checks no liveness). Two commands at once are
enough to lose and to revive a record.

`writes` takes its declarations in groups that each turn on what one group of rules needs,
so that the groups add up rather than multiply; two clients are what one race
takes, and ids and clients are interchangeable (the run has no liveness). In
`rules` the same holds of the specs: every rule kind is in one, with a guard, without
one, and next to what it might end; lists have at most two entries, so a
duplicate, a cap of one and a pair are all there; tables have two rows, so an
average differs from its ends; values go one past each bound on both sides.
The writes are all there are over those values, so no state of a pass is missed.
`migrations` has an identity with two roles, a collection they share, and an entity
that shares nothing; two deaths reach a down over half an up, and a second
death in it. Passes end and plans are carried out, and requests may all be done:
these three do not check deadlock. Neither do the runs of `fixed` and `mirrors`.

Fairness, in `FairSpec` of `Project` and `Registrations`: a command that has started
goes on (its loop does not wait for anything) and every entity keeps being
generated, strongly, because a command of another entity may be in progress each
time. Nothing is assumed of the author. `Settles` speaks of
executions in which, from some point on, only commands happen. In `Schema` the
migrator goes on with a file it has begun, starts the next one while there is one,
and a dirty migration is cleared in the end by someone; rollbacks and deaths are
bounded, and nothing else is assumed of them.

Two runs find a disagreement between the code and what the repository says of
it; each is a finding in `PROJECT.json`, with the sentence it contradicts:

| run | shows |
|---|---|
| mirrors | two active-only unique keys of one table that share a column give MySQL the same mirror column twice, and the up is refused |
| fixed | an immutable rule of a collection compares the first field it names; a write may change the others |

`rules` therefore has collections whose immutable rules name one field, and
`migrations` has plans for which `MirrorsFree` holds, the others being what `mirrors`
is about.

Every property of a passing run has a mutant, an operator next to the one it
replaces, named after the mistake (`DecideForceFirst`, `PruneKindUnclaimed`,
`PrecedesEmitted`, ...).

Known divergences that are not runs, because the properties above already state
where they stop, or because the sentence they contradict is a general one:

* a generation that dies while writing an owned file leaves one that every later
  run reports as edited by hand (`fsplan.go:347-352`);
* an edit saved between `Plan`'s reading and `ApplyWith`'s write is overwritten
  (`fsplan.go:308`, `415`): the author waits for commands in every run;
* an adoption is recorded under one entity (`fsplan.go:508`); another that produces the
  same shared file keeps refusing it (`fsplan.go:342`) and, generated with -force,
  overwrites it. The last is the one exception in `AdoptionOutlasts`;
* two entities that stopped producing a file keep it for each other's sake, for
  a stale record counts as a claim (`fsplan.go:235`), and an entity that produces a file
  without a record of it does not protect it. `PruneSparesNeighbours` speaks of what is
  both produced and on record. The same holds of registration entries (`prune.go:232`):
  one that another spec declares but has not recorded is removed;
* prune forgets a declaration it cannot read because the file does not parse
  (`prune.go:226`): `NothingGoesUnknown` of `Registrations` excepts declarations in
  such files, and nothing else;
* a catalog whose end the merge does not find is skipped without counting its keys as
  written (`emit/registration.go:269`), so `prune -apply` removes from it the entity's own
  keys that the spec still declares, as ones "the spec no longer declares"
  (`prune.go:236`). They are generated text that the next generation would not put back;
* a run that merely confirms an entry another entity wrote may later replace it
  (`registration.go:88`);
* after a pair is deleted its number goes to another entity although the lock still
  records it (`discover.go:408`): `NumbersDistinct` excepts deletions;
* a view that stops being projected and comes back, and a held schema or view
  file, get past the version guard: `BootNeverAborts` excepts them until a
  generation sets the record right;
* a type a spec used to declare and now reuses is pruned from under it
  (`prune.go:145`), and so is one that a sibling spec names while it does not
  parse (`prune.go:154`);
* of several other entities' records of an entry one is compared, whichever the
  map yields first: with three entities the generator's own text may be reported as a
  hand edit (`fsplan.go:214`);
* a generation that dies between writing a pair and saving the lock leads to a
  second pair for the same tables (`fsplan.go:386`): `NoSecondMigration` excepts lost records;
* a spec that stops serving reads is refused for not bumping its version, because
  the empty fingerprint is hashed before it is tested for emptiness
  (`generate.go:102`);
* a PUT that sends no part of an optional composite leaves the stored one there
  (`emit/composite.go:282`), although "Every field is assigned unconditionally"
  (`emit/application.go:212`);
* a `valueObject` rule that names a field no column holds asks it on writes whose
  body does not carry it (`emit/domain.go:704` against `802`): no spec of `rules`
  has one;
* the clause of the uniqueness probes is appended when no rule has one under
  `insertOrUpdate` (`ir/ir.go:2838`), and then stands after update's and archive's,
  though "the GATES are emitted in a fixed order" (`spec/spec.go:1473`). `GateOrder`
  has it where the code has it;
* the row scope's guard stands above every rule (`emit/domain.go:228`), so above a
  `valueObject` rule over the scope's own field with `guard: true`;
* a guard on a collection's rule that reads history ends the root's pass, since the
  rule is the root's by then (`ir/ir.go:3295`); a `skipWhen` on an immutable one is
  dropped (`emit/domain.go:1987`), and `Regular` leaves such rules out;
* a bound on a fact reads `found && v < min || v > max` (`emit/domain.go:2182`): what
  was not found is zero and passes, unless the maximum is negative. `Regular` leaves
  that out;
* a comparison that names several fields checks the first (`emit/domain.go:1062`);
* a group cap joins its keys with a bar (`emit/domain.go:2332`), so keys that hold one
  may fall together; in `Rules` they are compared one by one (`GroupKey`);
* a collection's unique key may name a field twice in `within` (`spec/validate.go:6294`
  against `6345` for the root's): its index names a column twice;
* an entity whose base is numbered after it finds no table to point at: that the owner
  comes first is part of `PlansAssumption`.

## Proofs

All theorems hold for every value of the constants that satisfies the named
assumptions, and TLC evaluates the assumptions in every run.

**Project_proofs.** `Typing`. `Invariance`: `Inv` adds to the types that an
intact seal is on generated text only, that records which are not adoptions hold
generated text (in the lock and in a running command's copy), and that a plan
still describes the disk: what is to be written over is not the author's unless
forced, what is to be removed is not the author's. Without the last part a write
in `ApplyDecision` could hit anything; with it, there is one lemma per action, and
`FrameLemma` for the commands that take no part in a step. This needs no
assumption about how commands overlap one another, and `AuthorsWorkIsKept` follows.
When commands take turns (`~Overlap`), `Inv` also says that one command runs at most,
that a hook to be created is still not there, and that what is to be removed is whole.
`HooksAreWrittenOnce` and `Implementation` (that `Project` implements
`AuthorsWork`) follow from that, and do need it: two generations that both found
a hook missing both write it. The other seven that need turns are `RefusalsStand`,
`RegenerationIsNoOp`, `AdoptionsAreKept`, `AdoptionsOutlast`, `NeighboursAreSpared`,
`NeighboursAreKept` and `KnownStaysKnown`. Their
argument is one more part of the invariant, `PlansAreCurrent`: a plan that has not got to
a path yet would decide the same from the file, the spec and the lock's records as they now
are, what it is done with it would not write again, and what it has yet to save still has
the record of every adopted edit. An overlapping command saves a
lock it read before another's and undoes the records of that.

**Registrations_proofs.** `Invariance`: a record holds generated text only, and
what is about to be written leaves every entry of the author's as it is.
`AuthorsEntriesAreKept` follows. No assumption about crashes or parsing. `RunIsCurrent`
says what a running command read is what there is; `KnownStaysKnown` and
`NeighboursAreSpared` follow from it.

**Numbering_proofs.** `Invariance` and `NumbersAreDistinct`, as long as no pair is
deleted: a recorded number is its entity's and visibly taken in the folder, so is
the number in use by a running generation as soon as anything of it is written.
Crashes and a lost lock are allowed. `PairsStayWhole`: an up still to be written has
its down on disk or ahead of it in the plan, and the order of paths does the rest;
nothing else is assumed. `OnePairIsKept`, while no record is lost: all of an entity's
files in a folder, those to come included, have the number on record, or in use, and
one style, and files with the older name always show the up that `StyleOf` looks for.
Pairs may be deleted.

**ValueObjects_proofs.** `Invariance` and `NeighboursStayValid`. What a command read
before it began is still true of each file when it gets there, since the author and
other commands wait; for a removal that includes that no other spec that parses names
the type (`Unneeded`), which is what keeps the neighbours' specs valid.

**ViewGuard_proofs.** `Invariance` and `BootsNeverAbort`: while nothing has gone
astray, what is deployed is what is on record, or an older version of it, and the
tree is what is on record except where a generation has overtaken it. A
generation for which `SetsRight` holds re-establishes all of it from nothing, so
the invariant about a running generation does not depend on `astray`.

**Service_proofs.** For every declaration the validator accepts, and any number of
rows, clients and callers. `Invariance`: a request in progress holds a row built
lawfully from the one it loaded, and as long as its revision is current the table
still holds that one; the index is obeyed. The map from request to promise is
then `CommitIsWrite`, one lemma per way a commit can be built, and
`Implementation` is the refinement of `Contract`. `ScopedWrites`, `RacesAlone`,
`SpellingsAreOne` follow from the same invariant; `QuotaOvershotByOverlap` needs one of
its own, that a row counted before a commit is charged to the client that is about to
add one (`QuotaNext`).

**Rules_proofs.** For every collection of specs the validator accepts and every write.
`Inv` is in two parts. `AnsweredOnce`: what a value object spoke of is out of the
automatic pass to come and of the rules still to run; `ValueObjectsAnswerOnce` follows,
and rests on no two rules of a mode naming one field, which the validator sees to.
`Accounted` follows the pass through its files: where it stands (`InPlace`), that the lines
behind it have said what they had to (`SaidSoFar`), that what was said has a
declaration behind it (`Sourced`), and that what was left out was left out by
one (`LeftOutSoFar`, `Justified`). At the end every declaration is behind the pass
or behind the barrier that ended it: `RefusalsAreSaid` is that, and
`TheVerdictIsUnmoved` that a pass over a regular spec tells nothing if and only if the
write is `Acceptable`. Sums and averages stand on both sides and are not opened. What is
opened is where the lines of a file come from: that concatenating lists and listing a set
keep the members is proved at the head of the module, by an induction made with a
set in the place of a predicate.

**Schema_proofs.** For every collection of plans that satisfies `PlansAssumption`. Each
statement is taken to be what it gives (a table, an index, a key), what it wants in
place, and what must not be there yet; `Ready` and `FileReady` carry that through
a list and a file, so that one lemma per block of `Up` makes the lemma about the whole
(`TrunkLemma` and those after it). A down is `InOrder` when nothing it drops is pointed at by
what is still standing. The invariant is what the migrator may find: the files
applied are those of an initial part of the plan (`Recorded`), the database holds all
that these gave and else only what the one file that is dirty gives (`Between`), what an
up has not made and a down has not dropped is still in its script (`Rising`, `Falling`),
and what an up has left finds what it wants (`Fits`). Deaths and recoveries make
`Falling` the hard part: a down may start from any initial part of its up. `TheDatabaseIsClean` and `OthersAreSpared` need nothing more;
`NothingIsRefused` has `MirrorsFree` as its condition, without which it is false
(`mirrors`).

Only model-checked: liveness (`Settles` twice, `Deployed`), which is out of the prover's reach.

## Not modelled

* Of the generated service: queries, joins, computed fields, results, exports,
  redaction and the read side of the surfaces; what is generated is text over the
  framework's engine, which is outside this repository. Permissions of an
  entity's own entries are those of `Declared`. Per-entry and manual facts: the one
  is asked from hand-written code, the other is it.
* Of the validator: names, types, reads, joins, texts and documentation, the
  larger part of its lines: conditions on one declaration at a time that no state
  or order enters.
* The composition root, generated tests, the report and other printed text, `init`,
  `explain`, `keys`, naming, dates in headers, the framework-compatibility verdict:
  rendering and string functions, or one comparison.
* The launcher and `doctor`: shell and printing around what is modelled.
* Commands that overlap lose each other's lock updates by construction (read, then
  write whole); nothing in the repository promises otherwise, so only what the
  loss must not lead to is stated.

`PROJECT.json` gives the reason component by component.

## Plan

The runs are kept few, one for each question, each within five minutes. Done: the
commands and their state (`Fsplan`, `Project`, `Registrations`, `Numbering`,
`ViewGuard`, `ValueObjects`), the generated write side with its contract
(`Declared`, `Contract`, `Service`), its validation pass (`Facts`, `Rules`) and its
migrations (`Schema`); every safety property a passing run checks is proved.

What would come next:

1. `Verdict`: `check` and `generate` as two verdicts on one state, with their
   different orders of refusal and the refusals only `emit.All` makes; `doctor`'s
   announcements against `Decide`.
2. `Launcher`: sessions sharing the cache; `Wire`: the insertion into the composition
   root; the date in headers that is kept when nothing else changed.
3. Reads: row scope, joins and redaction as what a caller may learn from a row.
4. Proofs of whatever of these is modelled; and what of `Project`'s five theorems about
   commands that take turns is left when they overlap but concern different entities.
