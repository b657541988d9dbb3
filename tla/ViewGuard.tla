----------------------------- MODULE ViewGuard -----------------------------
(***************************************************************************)
(* The read view of one entity and the version its spec declares.          *)
(*                                                                         *)
(* The framework refuses to boot a projected view whose shape differs from *)
(* what is stored under the same version. generate and check refuse such a *)
(* spec beforehand, by comparing it with what the lock recorded at the     *)
(* last generation. The shape reaches the tree in the schema file and the  *)
(* version in the view file, written in that order, with the lock last.    *)
(* Shapes here are shapes of a view of one name.                           *)
(***************************************************************************)
EXTENDS Naturals

CONSTANTS
    Shapes,        \* what a view may project
    MaxVersion,    \* bound on read.view.version
    NoShape,       \* the fingerprint of a spec that projects nothing
    Nothing,       \* no entry in the lock, nothing stored
    Idle           \* no command

ASSUME ShapesAssumption == NoShape \notin Shapes
ASSUME VersionAssumption == MaxVersion \in Nat

VARIABLES
    spec,          \* the read side the spec describes
    recorded,      \* the lock's viewShape and viewVersion
    schema,        \* the shape in the schema file on disk
    view,          \* the version in the view file, 0 if it projects nothing
    held,          \* files a generation refuses or keeps: edited or adopted
    stored,        \* the shape and version the deployed service last built
    run,           \* the generation in progress
    astray         \* history: something the record says nothing of has happened

vars == <<spec, recorded, schema, view, held, stored, run, astray>>

Versions == 0..MaxVersion

\* What the validator accepts: a relational view declares no version, and a
\* spec that serves no read may have one left over.
Reads == {r \in [backing : {"mongo", "relational", "off"}, shape : Shapes,
                 version : Versions] :
            /\ r.backing = "mongo" => r.version # 0
            /\ r.backing = "relational" => r.version = 0}

Pairs == [shape : Shapes \cup {NoShape}, version : Versions]

Files == {"schema", "view"}

ASSUME NothingAssumption == Nothing \notin Pairs
ASSUME IdleAssumption == Idle \notin [read : Reads, todo : SUBSET Files]

TypeOK ==
    /\ spec \in Reads
    /\ recorded \in Pairs \cup {Nothing}
    /\ schema \in Shapes \cup {NoShape}
    /\ view \in Versions
    /\ held \subseteq Files
    /\ stored \in Pairs \cup {Nothing}
    /\ run \in [read : Reads, todo : SUBSET Files] \cup {Idle}
    /\ astray \in BOOLEAN

Init ==
    /\ spec \in Reads
    /\ recorded = Nothing
    /\ schema = NoShape /\ view = 0
    /\ held = {}
    /\ stored = Nothing
    /\ run = Idle
    /\ astray = FALSE

-----------------------------------------------------------------------------
(* The hash of an empty fingerprint is a hash like any other.              *)

ViewState(r) ==
    [shape |-> IF r.backing = "mongo" THEN r.shape ELSE NoShape, version |-> r.version]

\* ChangedWithoutBump as it would be if only a version that goes down counted.
ChangedWithoutBumpDown(was, now) ==
    /\ was # Nothing /\ was.shape # now.shape
    /\ was.version > now.version

\* ViewShapeChangedWithoutBump.
ChangedWithoutBump(was, now) ==
    /\ was # Nothing /\ was.shape # now.shape
    /\ was.version = now.version

\* The verdict of check, and of generate before it writes anything.
Refused == ChangedWithoutBump(recorded, ViewState(spec))

StartGenerate ==
    /\ run = Idle /\ ~Refused
    /\ run' = [read |-> spec, todo |-> Files]
    /\ UNCHANGED <<spec, recorded, schema, view, held, stored, astray>>

WriteSchema ==
    /\ run # Idle /\ "schema" \in run.todo
    /\ schema' = IF "schema" \in held THEN schema ELSE run.read.shape
    /\ run' = [run EXCEPT !.todo = @ \ {"schema"}]
    /\ UNCHANGED <<spec, recorded, view, held, stored, astray>>

WriteView ==
    /\ run # Idle /\ run.todo = {"view"}
    /\ view' = IF "view" \in held THEN view
               ELSE IF run.read.backing = "mongo" THEN run.read.version ELSE 0
    /\ run' = [run EXCEPT !.todo = {}]
    /\ UNCHANGED <<spec, recorded, schema, held, stored, astray>>

\* Above whatever is deployed, with no file held back: whatever happened before,
\* the record describes the tree again.
SetsRight ==
    /\ held = {}
    /\ stored # Nothing => run.read.backing = "mongo" /\ run.read.version > stored.version

\* The pair is recorded whatever was decided about the two files.
SaveLock ==
    /\ run # Idle /\ run.todo = {}
    /\ recorded' = ViewState(run.read)
    /\ run' = Idle
    /\ astray' = (astray /\ ~SetsRight)
    /\ UNCHANGED <<spec, schema, view, held, stored>>

\* The generation dies between two writes, or before it saves.
Crash ==
    /\ run # Idle
    /\ run' = Idle
    /\ astray' = TRUE
    /\ UNCHANGED <<spec, recorded, schema, view, held, stored>>

-----------------------------------------------------------------------------
(* The framework, as the generator's comments describe it.                 *)

BootAborts ==
    /\ view # 0 /\ stored # Nothing
    /\ stored.version = view /\ stored.shape # schema

\* A version that moved triggers the rebuild.
Boot ==
    /\ run = Idle /\ view # 0 /\ ~BootAborts
    /\ stored' = [shape |-> schema, version |-> view]
    /\ stored' # stored
    /\ UNCHANGED <<spec, recorded, schema, view, held, run, astray>>

-----------------------------------------------------------------------------
(* The author.                                                             *)

\* The view stops being projected, or its version goes down.
GoesBack(r) ==
    spec.backing = "mongo" /\ (r.backing # "mongo" \/ r.version < spec.version)

\* A view file is not left edited across a change of backing: that tree does
\* not build.
EditSpec(r) ==
    /\ run = Idle /\ r # spec
    /\ r.backing # spec.backing => "view" \notin held
    /\ spec' = r
    /\ astray' = (astray \/ GoesBack(r))
    /\ UNCHANGED <<recorded, schema, view, held, stored, run>>

\* A hand edit of the file, or its adoption: generations leave it as it is.
Hold(f) ==
    /\ run = Idle /\ spec.backing = "mongo"
    /\ f \notin held /\ schema # NoShape /\ view # 0
    /\ held' = held \cup {f}
    /\ astray' = TRUE
    /\ UNCHANGED <<spec, recorded, schema, view, stored, run>>

\* The edit is taken back, or the next run is told to -force it.
Release(f) ==
    /\ run = Idle /\ f \in held
    /\ held' = held \ {f}
    /\ UNCHANGED <<spec, recorded, schema, view, stored, run, astray>>

LoseLock ==
    /\ run = Idle /\ recorded # Nothing
    /\ recorded' = Nothing
    /\ astray' = TRUE
    /\ UNCHANGED <<spec, schema, view, held, stored, run>>

-----------------------------------------------------------------------------
Generate == StartGenerate \/ WriteSchema \/ WriteView \/ SaveLock

Next ==
    \/ Generate \/ Crash \/ Boot \/ LoseLock
    \/ \E r \in Reads : EditSpec(r)
    \/ \E f \in Files : Hold(f) \/ Release(f)

Spec == Init /\ [][Next]_vars

-----------------------------------------------------------------------------
(* Properties.                                                             *)

\* "A boot trap is a static error": what a generation that finished leaves
\* behind boots, however many were generated and booted before it. After a view
\* that went back, a file held, a generation that died or a lost lock, that is
\* so again from the next generation above the deployed version on. (Generate,
\* ViewShapeChangedWithoutBump)
BootNeverAborts == run = Idle /\ ~astray => ~BootAborts

-----------------------------------------------------------------------------
(* Why boots never abort while nothing has gone astray.                    *)

Projects(p) == p # Nothing /\ p.shape # NoShape

\* A projected view on record is the one the spec grew from; what is deployed
\* is that one, or one of an older version.
RecordHolds ==
    /\ held = {}
    /\ Projects(recorded) => spec.backing = "mongo" /\ spec.version >= recorded.version
    /\ stored # Nothing =>
         /\ Projects(recorded)
         /\ stored.version <= recorded.version
         /\ stored.version = recorded.version => stored.shape = recorded.shape

\* Between generations the tree is what is on record.
TreeHolds ==
    run = Idle =>
       IF Projects(recorded) THEN schema = recorded.shape /\ view = recorded.version
       ELSE view = 0

\* A generation that has written a file has made it what the spec asks for,
\* unless the file is held.
RunHolds ==
    run # Idle =>
       /\ run.read = spec /\ ~Refused
       /\ run.todo \in {Files, {"view"}, {}}
       /\ "schema" \notin run.todo \cup held => schema = spec.shape
       /\ run.todo = {} /\ "view" \notin held =>
             view = IF spec.backing = "mongo" THEN spec.version ELSE 0

Inv == TypeOK /\ RunHolds /\ (~astray => RecordHolds /\ TreeHolds)
=============================================================================
