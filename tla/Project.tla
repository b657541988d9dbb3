------------------------------ MODULE Project ------------------------------
(***************************************************************************)
(* A service's tree under omnicore-gen: the files on disk, the lock, what  *)
(* each entity's spec asks for, and the commands in progress.              *)
(*                                                                         *)
(* generate and prune -apply are not one step: each plans from one reading *)
(* of disk and lock, then writes or removes file by file in path order,    *)
(* and saves the lock last. A crash may end them between any two of those  *)
(* steps, and during a write. adopt reads one file and saves at once.      *)
(* Registration files, which are merged into, are module Registrations.    *)
(***************************************************************************)
EXTENDS Fsplan

CONSTANTS
    Shapes,        \* what an entity's spec may ask for
    Emits,         \* the files emit.All plans for an entity and a shape
    Runs,          \* commands that may be in progress
    Idle,          \* no command
    Overlap,       \* may commands overlap one another
    MaxForce       \* bound: paths one run may name with -force

ASSUME EmitsAssumption ==
    /\ Emits \in [Entities -> [Shapes -> SUBSET File]]
    /\ \A e \in Entities, s \in Shapes : \A f, g \in Emits[e][s] :
          f.path = g.path => f = g
ASSUME OverlapAssumption == Overlap \in BOOLEAN
ASSUME MaxForceAssumption == MaxForce \in Nat

VARIABLES
    disk,      \* the content at each path
    lock,      \* .omnicore/lock.json as last saved whole
    readable,  \* whether it parses as it stands on disk
    spec,      \* the shape each entity's spec describes
    run        \* the commands in progress

vars == <<disk, lock, readable, spec, run>>

Generation == [cmd : {"generate"}, entity : Entities, mem : Lock,
               todo : SUBSET [file : File, action : Actions],
               force : SUBSET Paths]

Pruning == [cmd : {"prune"}, entity : Entities, mem : Lock,
            todo : SUBSET [path : Paths, kind : {"delete", "forget"}]]

ASSUME IdleAssumption == Idle \notin Generation \cup Pruning

TypeOK ==
    /\ disk \in [Paths -> Content \cup {Gone}]
    /\ lock \in Lock
    /\ readable \in BOOLEAN
    /\ spec \in [Entities -> Shapes]
    /\ run \in [Runs -> {Idle} \cup Generation \cup Pruning]

Init ==
    /\ disk = [p \in Paths |-> Gone]
    /\ lock = EmptyLock
    /\ readable = TRUE
    /\ spec \in [Entities -> Shapes]
    /\ run = [r \in Runs |-> Idle]

-----------------------------------------------------------------------------
Files(e) == Emits[e][spec[e]]

Produces(e, p) == \E f \in Files(e) : f.path = p

\* The author waits for commands to end; whether commands wait for one another
\* is nobody's rule.
Quiet == \A r \in Runs : run[r] = Idle

MayStart == Overlap \/ Quiet

Running(r, cmd) == run[r] # Idle /\ run[r].cmd = cmd

PathOf(r, d) == IF run[r].cmd = "generate" THEN d.file.path ELSE d.path

\* Decisions are carried out in the order of their paths.
IsNext(r, d) ==
    /\ d \in run[r].todo
    /\ \A o \in run[r].todo : PathOf(r, d) <= PathOf(r, o)

-----------------------------------------------------------------------------
(* generate                                                                *)

StartGenerate(r, e, force) ==
    /\ MayStart /\ run[r] = Idle /\ readable
    /\ run' = [run EXCEPT ![r] =
         [cmd |-> "generate", entity |-> e, mem |-> lock, force |-> force,
          todo |-> {[file |-> f,
                     action |-> Decide(e, f, disk[f.path], lock[e][f.path],
                                       f.path \in force)] : f \in Files(e)}]]
    /\ UNCHANGED <<disk, lock, readable, spec>>

ApplyDecision(r, d) ==
    LET e == run[r].entity
        f == d.file
    IN  /\ Running(r, "generate") /\ IsNext(r, d)
        /\ disk' = IF Writes(d.action)
                   THEN [disk EXCEPT ![f.path] = Sealed(e, f)] ELSE disk
        /\ run' = [run EXCEPT ![r] =
             [cmd |-> "generate", entity |-> e, force |-> run[r].force,
              todo |-> run[r].todo \ {d},
              mem |-> WithRecord(run[r].mem, e, f.path,
                         RecordAfter(e, f, d.action, run[r].mem[e][f.path]))]]
        /\ UNCHANGED <<lock, readable, spec>>

(* prune -apply                                                            *)

Leftovers(e) ==
    {p \in Paths : /\ Recorded(lock, e, p)
                   /\ ~Produces(e, p) /\ p \notin Migrations}

StartPrune(r, e) ==
    LET kind(p) == PruneKind(lock, e, p, disk[p])
        doomed == {p \in Leftovers(e) : kind(p) # "keep"}
    IN  /\ MayStart /\ run[r] = Idle /\ readable
        /\ doomed # {}
        /\ run' = [run EXCEPT ![r] =
             [cmd |-> "prune", entity |-> e, mem |-> lock,
              todo |-> {[path |-> p, kind |-> kind(p)] : p \in doomed}]]
        /\ UNCHANGED <<disk, lock, readable, spec>>

PruneNext(r, d) ==
    /\ Running(r, "prune") /\ IsNext(r, d)
    /\ disk' = IF d.kind = "delete" THEN [disk EXCEPT ![d.path] = Gone] ELSE disk
    /\ run' = [run EXCEPT ![r] =
         [cmd |-> "prune", entity |-> run[r].entity,
          todo |-> run[r].todo \ {d},
          mem |-> WithRecord(run[r].mem, run[r].entity, d.path, NoRecord)]]
    /\ UNCHANGED <<lock, readable, spec>>

(* Both end by writing the lock they read at the start back, whole, with   *)
(* this entity's entry changed.                                            *)

SaveLock(r) ==
    /\ run[r] # Idle /\ run[r].todo = {}
    /\ lock' = run[r].mem
    /\ readable' = TRUE
    /\ run' = [run EXCEPT ![r] = Idle]
    /\ UNCHANGED <<disk, spec>>

(* adopt                                                                   *)

Adopt(p) ==
    /\ MayStart /\ readable /\ disk[p] # Gone
    /\ \E e \in Entities :
          /\ IsAdopter(lock, e, p)
          /\ lock[e][p].class # "hook"
          /\ lock' = WithRecord(lock, e, p, [class |-> lock[e][p].class,
                                            hash |-> disk[p], adopted |-> TRUE])
    /\ UNCHANGED <<disk, readable, spec, run>>

-----------------------------------------------------------------------------
(* A command that dies, or returns an error before it saves.               *)

Crash(r) ==
    /\ run[r] # Idle
    /\ run' = [run EXCEPT ![r] = Idle]
    /\ UNCHANGED <<disk, lock, readable, spec>>

\* os.WriteFile truncates, then writes: what is left has lost its header or
\* its tail.
CrashWriting(r, d) ==
    /\ Running(r, "generate") /\ IsNext(r, d) /\ Writes(d.action)
    /\ \E seal \in {"bare", IF d.file.class = "owned" THEN "broken" ELSE "bare"} :
          disk' = [disk EXCEPT ![d.file.path] =
                     [seal |-> seal, text |-> Torn,
                      by |-> Sealed(run[r].entity, d.file).by]]
    /\ run' = [run EXCEPT ![r] = Idle]
    /\ UNCHANGED <<lock, readable, spec>>

CrashSaving(r) ==
    /\ run[r] # Idle /\ run[r].todo = {}
    /\ readable' = FALSE
    /\ run' = [run EXCEPT ![r] = Idle]
    /\ UNCHANGED <<disk, lock, spec>>

-----------------------------------------------------------------------------
(* The author.                                                             *)

EditSpec(e, s) ==
    /\ Quiet /\ spec[e] # s
    /\ spec' = [spec EXCEPT ![e] = s]
    /\ UNCHANGED <<disk, lock, readable, run>>

\* A hand edit that leaves the header's checksum line alone, if there is one.
EditFile(p, t) ==
    /\ Quiet /\ disk[p] # Gone
    /\ disk' = [disk EXCEPT ![p] =
         [seal |-> IF disk[p].seal = "sealed" THEN "broken" ELSE disk[p].seal,
          text |-> t, by |-> disk[p].by]]
    /\ UNCHANGED <<lock, readable, spec, run>>

\* A file written by hand, where there was none or over what was there.
HandWrite(p, t) ==
    /\ Quiet
    /\ disk' = [disk EXCEPT ![p] = [seal |-> "bare", text |-> t, by |-> Everyone]]
    /\ UNCHANGED <<lock, readable, spec, run>>

DeleteFile(p) ==
    /\ Quiet /\ disk[p] # Gone
    /\ disk' = [disk EXCEPT ![p] = Gone]
    /\ UNCHANGED <<lock, readable, spec, run>>

\* Version control brings back a file as some shape generated it.
CheckOut(e, s, f) ==
    /\ Quiet /\ f \in Emits[e][s]
    /\ disk' = [disk EXCEPT ![f.path] = Sealed(e, f)]
    /\ UNCHANGED <<lock, readable, spec, run>>

\* The lock as last saved, from version control.
RestoreLock ==
    /\ Quiet /\ ~readable
    /\ readable' = TRUE
    /\ UNCHANGED <<disk, lock, spec, run>>

DeleteLock ==
    /\ Quiet
    /\ lock' = EmptyLock /\ readable' = TRUE
    /\ UNCHANGED <<disk, spec, run>>

-----------------------------------------------------------------------------
Generate ==
    \/ \E r \in Runs, e \in Entities :
          \E force \in {s \in SUBSET Paths : Cardinality(s) <= MaxForce} :
             StartGenerate(r, e, force)
    \/ \E r \in Runs : Running(r, "generate")
          /\ \E d \in run[r].todo : ApplyDecision(r, d)

Prune ==
    \/ \E r \in Runs, e \in Entities : StartPrune(r, e)
    \/ \E r \in Runs : Running(r, "prune")
          /\ \E d \in run[r].todo : PruneNext(r, d)

Command == Generate \/ Prune \/ (\E r \in Runs : SaveLock(r))
           \/ (\E p \in Paths : Adopt(p))

Failure ==
    \E r \in Runs :
       \/ Crash(r)
       \/ CrashSaving(r)
       \/ Running(r, "generate") /\ \E d \in run[r].todo : CrashWriting(r, d)

Author ==
    \/ \E e \in Entities, s \in Shapes : EditSpec(e, s)
    \/ \E p \in Paths, t \in AuthorTexts : EditFile(p, t) \/ HandWrite(p, t)
    \/ \E p \in Paths : DeleteFile(p)
    \/ \E e \in Entities, s \in Shapes : \E f \in Emits[e][s] : CheckOut(e, s, f)
    \/ RestoreLock
    \/ DeleteLock

Next == Command \/ Failure \/ Author

Spec == Init /\ [][Next]_vars

\* A command that is running goes on, unless it dies; and whoever keeps the
\* project, a person or a pipeline, keeps regenerating every entity.
Fairness ==
    /\ \A r \in Runs :
          /\ WF_vars(Running(r, "generate") /\ \E d \in run[r].todo : ApplyDecision(r, d))
          /\ WF_vars(Running(r, "prune") /\ \E d \in run[r].todo : PruneNext(r, d))
          /\ WF_vars(SaveLock(r))
    /\ \A e \in Entities : SF_vars(\E r \in Runs : StartGenerate(r, e, {}))

FairSpec == Spec /\ Fairness

-----------------------------------------------------------------------------
(* Properties.                                                             *)

Forced(p) == \E r \in Runs : Running(r, "generate") /\ p \in run[r].force

\* "The generator NEVER clobbers a file a human changed": no command, and no
\* command that dies, changes or removes what a person wrote, unless the path
\* was named with -force; not even commands that overlap one another, as long
\* as the author waits for them. (fsplan.Plan, fsplan.PlanPrune)
AuthorsWorkKept ==
    [][Author \/ \A p \in Paths :
          Authored(disk[p]) /\ disk'[p] # disk[p] => Forced(p)]_vars

HookPaths == {p \in Paths : /\ \E e \in Entities, s \in Shapes : \E f \in Emits[e][s] :
                                   f.path = p
                            /\ \A e \in Entities, s \in Shapes : \A f \in Emits[e][s] :
                                   f.path = p => f.class = "hook"}

\* A hook is written once: once it exists a command may at most remove it, and
\* then only while it still is, byte for byte, what the generator created; not
\* even -force rewrites it. (fsplan.Plan, the KeptHook case of ApplyWith)
HooksWrittenOnce ==
    [][Author \/ \A p \in HookPaths :
          disk[p] # Gone /\ disk'[p] # disk[p] => disk'[p] = Gone /\ Generated(disk[p])]_vars

\* Paths no spec ever wants a hook at, and paths of one entity only.
OwnedPaths == {p \in Paths : \A e \in Entities, s \in Shapes : \A f \in Emits[e][s] :
                                 f.path = p => f.class = "owned"}

MayProduce(e, p) == \E s \in Shapes : \E f \in Emits[e][s] : f.path = p

SolePaths == {p \in Paths : \A e, o \in Entities :
                               MayProduce(e, p) /\ MayProduce(o, p) => e = o}

RefusedFor(e, p) ==
    \E f \in Files(e) : /\ f.path = p
                        /\ Decide(e, f, disk[p], lock[e][p], FALSE) = "refused"

\* A refusal does not wear off: the file "keeps being recognised as edited and
\* keeps being refused until it is adopted or explicitly forced", whatever
\* commands, crashes and prunes of any entity come between. (ApplyWith)
RefusalStands ==
    [][Author \/ \A e \in Entities, p \in OwnedPaths :
          RefusedFor(e, p) => RefusedFor(e, p)' \/ Forced(p) \/ Adopt(p)]_vars

\* A record that is not an adoption holds the hash of what the generator wrote,
\* "never of what it merely found on disk": it is the licence prune deletes
\* under. (LockFile.Hash, RecordAfter)
HoldsWritten(l) ==
    \A e \in Entities, p \in Paths :
       Recorded(l, e, p) /\ ~l[e][p].adopted => Generated(l[e][p].hash)

RecordsAreWritten == HoldsWritten(lock)

\* "Regenerating an unchanged spec really does change nothing": once a
\* generation has saved, planning it again finds nothing to write. (Plan,
\* ApplyWith, ApplyHeaderWith)
NoOpRegeneration ==
    [][\A r \in Runs : Running(r, "generate") /\ SaveLock(r) =>
          LET e == run[r].entity
          IN  \A f \in Files(e) :
                 ~Writes(Decide(e, f, disk'[f.path], lock'[e][f.path], FALSE))]_vars

\* A generated file some entity's lock entry, or the command now at work, knows
\* of. Migrations are left out of the lock on purpose.
Known(p) == \/ p \in Migrations \/ ~Generated(disk[p]) \/ Claimants(lock, p) # {}
            \/ \E r \in Runs : run[r] # Idle /\ Claimants(run[r].mem, p) # {}

\* No command leaves behind a file "invisible to every command this generator
\* has": what it writes it records, and it forgets only what is gone. Commands
\* that die are another matter. (tracksAsHook, ApplyWith, ApplyPrune)
NothingGoesUnknown ==
    [][Command => \A p \in Paths : Known(p) => Known(p)']_vars

AdoptedAsIs(e, p) == Adopted(lock[e][p]) /\ disk[p] = lock[e][p].hash

\* "regeneration KEEPS your edit": an adopted file stays as it was adopted
\* until the author changes it, and -force does not outrank the adoption.
\* (Plan's first case, PlanPrune)
AdoptionKept ==
    [][Author \/ \A e \in Entities, p \in SolePaths :
          AdoptedAsIs(e, p) => disk'[p] = disk[p]]_vars

ForcedByAnother(e, p) ==
    \E r \in Runs : Running(r, "generate") /\ run[r].entity # e /\ p \in run[r].force

\* "Regeneration will now preserve it": an adopted edit and the record that
\* says so outlast the commands of every entity that produces the file or still
\* records it, their crashes and a torn lock. The one way round it is -force
\* for another entity, whose entry knows nothing of the adoption. (cli.Adopt,
\* Plan, ApplyWith, PlanPrune, Save)
AdoptionOutlasts ==
    [][Author \/ \A e \in Entities, p \in OwnedPaths :
          Authored(disk[p]) /\ AdoptedAsIs(e, p)
             => AdoptedAsIs(e, p)' \/ ForcedByAnother(e, p)]_vars

\* Paths at which the specs that want a file all want the same shared one.
AgreedPaths ==
    {p \in Paths : \A e, o \in Entities, s, t \in Shapes :
                      \A f \in Emits[e][s], g \in Emits[o][t] :
                         f.path = p /\ g.path = p /\ e # o => f = g /\ f.shared}

\* Entity e generated f and regenerating it would leave f alone.
StandsFor(e, f) ==
    /\ Recorded(lock, e, f.path)
    /\ ~Writes(Decide(e, f, disk[f.path], lock[e][f.path], FALSE))

AtRest(e) == \A r \in Runs : run[r] # Idle => run[r].entity # e

\* What one entity generated stays generated while others are at work: no
\* generation, prune or adoption of another entity, nor its death at any point,
\* gives an entity at rest a file to write again. (File.Shared, sealFiles,
\* claimedByOther, Save)
NeighboursStayCurrent ==
    [][Author \/ \A e \in Entities : AtRest(e) =>
          \A f \in Files(e) : f.path \in AgreedPaths /\ StandsFor(e, f)
             => StandsFor(e, f)']_vars

\* Prune removes nothing that another entity's spec still produces and has
\* generated. (claimedByOther)
PruneSparesNeighbours ==
    [][Prune => \A p \in Paths, e \in Entities :
          /\ disk[p] # Gone /\ disk'[p] = Gone
          /\ Recorded(lock, e, p)
          => ~Produces(e, p)]_vars

\* Once nothing but commands happens and the lock can be read, the project
\* reaches a state where regenerating any entity changes nothing: two entities
\* that produce one file do not rewrite it in turn for ever. (File.Shared,
\* sealFiles)
Settles ==
    (<>[][Command]_vars /\ <>[]readable)
       => <>[](\A e \in Entities : \A f \in Files(e) :
                 ~Writes(Decide(e, f, disk[f.path], lock[e][f.path], FALSE)))

-----------------------------------------------------------------------------
(* What the commands promise, and how this module keeps it.                *)

Holder(c) == IF c = Gone THEN "nobody" ELSE IF Authored(c) THEN "author" ELSE "generator"

Contract == INSTANCE AuthorsWork WITH
    Hooks  <- HookPaths,
    holder <- [p \in Paths |-> Holder(disk[p])],
    working <- \E r \in Runs : run[r] # Idle,
    waived <- {p \in Paths : Forced(p)}

\* Planning from a snapshot, writing file by file, recording and saving last
\* keep the author's work as AuthorsWork states it. (fsplan, cli/generate.go,
\* cli/prune.go)
KeepsContract == Contract!Spec

-----------------------------------------------------------------------------
(* Why it holds: an inductive invariant.                                   *)

OneCommand ==
    Overlap \/ \A r, q \in Runs : run[r] # Idle /\ run[q] # Idle => r = q

\* An intact seal is the generator's: a hand edit breaks or drops it.
SealsAreGenerated ==
    \A p \in Paths : disk[p] # Gone /\ Intact(disk[p]) => Generated(disk[p])

MemoryIsWritten == \A r \in Runs : run[r] # Idle => HoldsWritten(run[r].mem)

\* What is still to be written may be written as disk stands now; but another
\* command may have created the same hook.
GenerationHolds(r) ==
    /\ \A d, o \in run[r].todo : d.file.path = o.file.path => d = o
    /\ \A d \in run[r].todo :
          /\ \E s \in Shapes : d.file \in Emits[run[r].entity][s]
          /\ Writes(d.action) =>
                /\ Authored(disk[d.file.path]) => d.file.path \in run[r].force
                /\ d.file.class = "hook" => Overlap \/ disk[d.file.path] = Gone

\* What is still to be removed is the generator's as disk stands now; but
\* another command may have removed it, or died writing it.
PruningHolds(r) ==
    /\ \A d, o \in run[r].todo : d.path = o.path => d = o
    /\ \A d \in run[r].todo : d.kind = "delete" =>
          /\ ~Authored(disk[d.path])
          /\ Overlap \/ Generated(disk[d.path])

PlansHold ==
    \A r \in Runs : /\ Running(r, "generate") => GenerationHolds(r)
                    /\ Running(r, "prune") => PruningHolds(r)

\* A plan still describes the disk it was made from, as far as the author's
\* work goes; and only the generator's own text is on record as removable.
\* (Plan and ApplyWith, PlanPrune and ApplyPrune)
Safe == /\ TypeOK
        /\ OneCommand
        /\ SealsAreGenerated
        /\ RecordsAreWritten
        /\ MemoryIsWritten
        /\ PlansHold

\* A record is of a file its entity may produce, and unless it is an adoption
\* holds what was written there.
Attributed(l) ==
    \A e \in Entities, p \in Paths : Recorded(l, e, p) =>
       \E s \in Shapes : \E g \in Emits[e][s] :
          /\ g.path = p /\ l[e][p].class = g.class
          /\ l[e][p].adopted \/ l[e][p].hash = Sealed(e, g)

RecordsAreAttributed ==
    /\ Attributed(lock)
    /\ \A r \in Runs : run[r] # Idle => Attributed(run[r].mem)

\* What a command carries differs from the lock in its own entity's records
\* only; it makes no adoption, keeps the record of an adopted edit, and drops a
\* record only of what is not there.
MemoryIsCurrent(r) ==
    \A o \in Entities, p \in Paths :
       /\ o # run[r].entity => run[r].mem[o][p] = lock[o][p]
       /\ Adopted(run[r].mem[o][p]) => Adopted(lock[o][p])
       /\ p \in OwnedPaths /\ Authored(disk[p]) /\ Adopted(lock[o][p])
             => run[r].mem[o][p] = lock[o][p]
       /\ Recorded(lock, o, p) =>
             p \in Migrations \/ Recorded(run[r].mem, o, p) \/ ~Generated(disk[p])

\* What is still to be done is what would be decided now; what is done would
\* not be done again.
GenerationIsCurrent(r) ==
    /\ \A d \in run[r].todo :
          LET e == run[r].entity
              p == d.file.path
          IN  /\ d.file \in Files(e)
              /\ run[r].mem[e][p] = lock[e][p]
              /\ d.action = Decide(e, d.file, disk[p], lock[e][p], p \in run[r].force)
    /\ \A f \in Files(run[r].entity) :
          \/ \E d \in run[r].todo : d.file = f
          \/ ~Writes(Decide(run[r].entity, f, disk[f.path],
                            run[r].mem[run[r].entity][f.path], FALSE))

PruningIsCurrent(r) ==
    \A d \in run[r].todo :
       /\ d.path \in Leftovers(run[r].entity)
       /\ d.kind = PruneKind(lock, run[r].entity, d.path, disk[d.path])

PlansAreCurrent ==
    \A r \in Runs : /\ run[r] # Idle => MemoryIsCurrent(r)
                    /\ Running(r, "generate") => GenerationIsCurrent(r)
                    /\ Running(r, "prune") => PruningIsCurrent(r)

\* Plans and records are safe whatever overlaps; and while commands take turns a
\* plan is also current: what a command has still to do is what it would decide
\* from disk and lock as they now stand. (Plan and ApplyWith, PlanPrune and
\* ApplyPrune, LoadLock and Save)
Inv == /\ Safe
       /\ RecordsAreAttributed
       /\ Overlap \/ PlansAreCurrent
=============================================================================
