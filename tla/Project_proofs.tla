--------------------------- MODULE Project_proofs ---------------------------
(***************************************************************************)
(* Proofs about module Project, for every set of entities, paths, shapes   *)
(* and runs. What protects the author's work rests on Safe: a plan still   *)
(* describes the disk it was made from, as far as that work goes, and a    *)
(* record that could license a deletion holds the generator's own text.    *)
(* That much, and that a record is of a file its entity may produce, holds *)
(* even when commands overlap one another. That hooks are written once, the *)
(* contract AuthorsWork, that refusals and adoptions last, that nothing goes *)
(* unknown and that regenerating changes nothing need commands to take     *)
(* turns, for a plan is current then: PlansAreCurrent.                     *)
(***************************************************************************)
EXTENDS Project, TLAPS

-----------------------------------------------------------------------------
(* Lemmas about the operators of Fsplan.                                   *)

\* Replacing one record of a lock leaves every other record as it was.
LEMMA WithRecordLemma ==
    ASSUME NEW l \in Lock, NEW e \in Entities, NEW p \in Paths,
           NEW rec \in Record \cup {NoRecord}
    PROVE  /\ WithRecord(l, e, p, rec) \in Lock
           /\ \A o \in Entities, q \in Paths :
                 WithRecord(l, e, p, rec)[o][q] =
                    IF o = e /\ q = p THEN rec ELSE l[o][q]
BY DEF WithRecord, Lock

\* What the generator writes is a content, its own, and sealed if it is owned.
LEMMA SealedLemma ==
    ASSUME NEW e \in Entities, NEW f \in File
    PROVE  /\ Sealed(e, f) \in Content
           /\ Generated(Sealed(e, f)) /\ ~Authored(Sealed(e, f))
           /\ Sealed(e, f) # Gone
           /\ Sealed(e, f).text \in GenTexts
<1>1. Sealed(e, f) \in Content
  BY DEF Sealed, Content, File, Classes, Seals
<1>2. Sealed(e, f) # Gone
  BY <1>1, GoneAssumption
<1>3. Sealed(e, f).text \in GenTexts
  BY DEF Sealed, File
<1> QED
  BY <1>1, <1>2, <1>3, TextsAssumption DEF Generated, Authored

\* Apply leaves a record, or none; one that is not an adoption holds what the
\* generator wrote, if the one it replaces did.
LEMMA RecordAfterLemma ==
    ASSUME NEW e \in Entities, NEW f \in File, NEW a \in Actions,
           NEW rec \in Record \cup {NoRecord}
    PROVE  /\ RecordAfter(e, f, a, rec) \in Record \cup {NoRecord}
           /\ \/ RecordAfter(e, f, a, rec) = rec
              \/ RecordAfter(e, f, a, rec) = NoRecord
              \/ /\ RecordAfter(e, f, a, rec) \in Record
                 /\ RecordAfter(e, f, a, rec).hash = Sealed(e, f)
                 /\ RecordAfter(e, f, a, rec).class = f.class
<1> DEFINE fresh == [class |-> f.class, hash |-> Sealed(e, f), adopted |-> FALSE]
<1>1. fresh \in Record /\ fresh.hash = Sealed(e, f) /\ fresh.class = f.class
  BY SealedLemma DEF Record, File
<1>2. RecordAfter(e, f, a, rec) \in {rec, NoRecord, fresh}
  BY Zenon DEF RecordAfter
<1> QED
  BY <1>1, <1>2

\* Every decision is one of the actions.
LEMMA DecideLemma ==
    ASSUME NEW e, NEW f, NEW c, NEW rec, NEW forced
    PROVE  Decide(e, f, c, rec, forced) \in Actions
BY DEF Decide, Actions

\* A path is written only when it is free, waived or holds an intact seal, and
\* a hook only when it is free.
LEMMA WritesLemma ==
    ASSUME NEW e, NEW f, NEW c, NEW rec, NEW forced \in BOOLEAN,
           Writes(Decide(e, f, c, rec, forced))
    PROVE  /\ c = Gone \/ forced \/ Intact(c)
           /\ f.class = "hook" => c = Gone
BY DEF Writes, Decide

-----------------------------------------------------------------------------
(* Type correctness.                                                       *)

LEMMA TypingInit == Init => TypeOK
BY DEF Init, TypeOK, EmptyLock, Lock

\* Carrying out a decision keeps the command a generation, with what it was
\* given to force.
LEMMA ApplyTyping ==
    ASSUME TypeOK, NEW r \in Runs, Running(r, "generate"), NEW d \in run[r].todo,
           ApplyDecision(r, d)
    PROVE  /\ TypeOK'
           /\ run'[r] \in Generation /\ run'[r].force = run[r].force
           /\ \A q \in Runs : q # r => run'[q] = run[q]
<1> USE DEF TypeOK
<1>1. run[r] \in Generation
  BY DEF TypeOK, Running, Pruning
<1>2. d.file \in File /\ d.action \in Actions /\ run[r].entity \in Entities
  BY <1>1 DEF Generation
<1>3. d.file.path \in Paths
  BY <1>2 DEF File
<1>4. disk' \in [Paths -> Content \cup {Gone}]
  BY <1>2, <1>3, SealedLemma DEF ApplyDecision
<1> DEFINE old == run[r].mem[run[r].entity][d.file.path]
           new == RecordAfter(run[r].entity, d.file, d.action, old)
           mem == WithRecord(run[r].mem, run[r].entity, d.file.path, new)
<1>5. old \in Record \cup {NoRecord}
  BY <1>1, <1>2, <1>3 DEF Generation, Lock
<1>6. new \in Record \cup {NoRecord}
  BY <1>2, <1>5, RecordAfterLemma
<1>7. mem \in Lock
  <2> HIDE DEF new
  <2> QED BY <1>1, <1>2, <1>3, <1>6, WithRecordLemma DEF Generation
<1> HIDE DEF mem
<1> DEFINE next == [cmd |-> "generate", entity |-> run[r].entity,
                    force |-> run[r].force, todo |-> run[r].todo \ {d}, mem |-> mem]
<1>8. next \in Generation
  BY <1>1, <1>7 DEF Generation
<1>9. next.force = run[r].force
  OBVIOUS
<1>10. run' = [run EXCEPT ![r] = next]
  BY DEF ApplyDecision, mem
<1> HIDE DEF next
<1>11. TypeOK'
  BY <1>4, <1>8, <1>10 DEF ApplyDecision
<1>12. run'[r] = next /\ \A q \in Runs : q # r => run'[q] = run[q]
  BY <1>10
<1> QED
  BY <1>8, <1>9, <1>11, <1>12

\* A generation begins as one, with what it was given to force.
LEMMA StartTyping ==
    ASSUME TypeOK, NEW r \in Runs, NEW e \in Entities, NEW force \in SUBSET Paths,
           StartGenerate(r, e, force)
    PROVE  /\ TypeOK'
           /\ run'[r] \in Generation
<1> USE DEF TypeOK
<1>1. \A f \in Files(e) : f \in File
  BY EmitsAssumption DEF Files
<1> DEFINE todo == {[file |-> f,
                     action |-> Decide(e, f, disk[f.path], lock[e][f.path],
                                       f.path \in force)] : f \in Files(e)}
           first == [cmd |-> "generate", entity |-> e, mem |-> lock, force |-> force,
                     todo |-> todo]
<1>2. todo \in SUBSET [file : File, action : Actions]
  BY <1>1, DecideLemma
<1> HIDE DEF todo
<1>3. first \in Generation
  BY <1>2 DEF Generation
<1>4. run' = [run EXCEPT ![r] = first]
  BY DEF StartGenerate, todo
<1> HIDE DEF first
<1> QED
  BY <1>3, <1>4 DEF StartGenerate

\* A prune begins as one.
LEMMA StartPruneTyping ==
    ASSUME TypeOK, NEW r \in Runs, NEW e \in Entities, StartPrune(r, e)
    PROVE  /\ TypeOK'
           /\ run'[r] \in Pruning
<1> USE DEF TypeOK
<1> DEFINE kind(p) == PruneKind(lock, e, p, disk[p])
           doomed == {p \in Leftovers(e) : kind(p) # "keep"}
           todo == {[path |-> p, kind |-> kind(p)] : p \in doomed}
           first == [cmd |-> "prune", entity |-> e, mem |-> lock, todo |-> todo]
<1>1. \A p \in doomed : p \in Paths /\ kind(p) \in {"delete", "forget"}
  BY DEF Leftovers, PruneKind
<1>2. todo \in SUBSET [path : Paths, kind : {"delete", "forget"}]
  BY <1>1
<1>3. first \in Pruning
  BY <1>2 DEF Pruning
<1>4. run' = [run EXCEPT ![r] = first]
  BY DEF StartPrune
<1> HIDE DEF first
<1> QED
  BY <1>3, <1>4 DEF StartPrune

\* Removing or forgetting a leftover keeps the command a prune.
LEMMA PruneTyping ==
    ASSUME TypeOK, NEW r \in Runs, Running(r, "prune"), NEW d \in run[r].todo,
           PruneNext(r, d)
    PROVE  /\ TypeOK'
           /\ run'[r] \in Pruning
           /\ \A q \in Runs : q # r => run'[q] = run[q]
<1> USE DEF TypeOK
<1>1. run[r] \in Pruning
  BY DEF Running, Generation
<1>2. d.path \in Paths /\ run[r].entity \in Entities
  BY <1>1 DEF Pruning
<1>3. disk' \in [Paths -> Content \cup {Gone}]
  BY <1>2 DEF PruneNext
<1> DEFINE mem == WithRecord(run[r].mem, run[r].entity, d.path, NoRecord)
<1>4. mem \in Lock
  BY <1>1, <1>2, WithRecordLemma DEF Pruning
<1> HIDE DEF mem
<1> DEFINE next == [cmd |-> "prune", entity |-> run[r].entity,
                    todo |-> run[r].todo \ {d}, mem |-> mem]
<1>5. next \in Pruning
  BY <1>1, <1>4 DEF Pruning
<1>6. run' = [run EXCEPT ![r] = next]
  BY DEF PruneNext, mem
<1> HIDE DEF next
<1> QED
  BY <1>3, <1>5, <1>6 DEF PruneNext

LEMMA TypingStep == TypeOK /\ [Next]_vars => TypeOK'
<1> SUFFICES ASSUME TypeOK, [Next]_vars PROVE TypeOK'
  OBVIOUS
<1> USE DEF TypeOK
<1>1. ASSUME NEW r \in Runs, NEW e \in Entities, NEW force \in SUBSET Paths,
             StartGenerate(r, e, force)
      PROVE  TypeOK'
  BY <1>1, StartTyping
<1>2. ASSUME NEW r \in Runs, Running(r, "generate"), NEW d \in run[r].todo,
             ApplyDecision(r, d)
      PROVE  TypeOK'
  BY <1>2, ApplyTyping
<1>3. ASSUME NEW r \in Runs, NEW e \in Entities, StartPrune(r, e)
      PROVE  TypeOK'
  BY <1>3, StartPruneTyping
<1>4. ASSUME NEW r \in Runs, Running(r, "prune"), NEW d \in run[r].todo,
             PruneNext(r, d)
      PROVE  TypeOK'
  BY <1>4, PruneTyping
<1>5. ASSUME NEW r \in Runs, SaveLock(r) PROVE TypeOK'
  <2>1. run[r].mem \in Lock
    BY <1>5 DEF SaveLock, Generation, Pruning
  <2> QED
    BY <1>5, <2>1 DEF SaveLock
<1>6. ASSUME NEW p \in Paths, Adopt(p) PROVE TypeOK'
  <2>1. PICK e \in Entities :
           /\ IsAdopter(lock, e, p)
           /\ lock' = WithRecord(lock, e, p, [class |-> lock[e][p].class,
                                             hash |-> disk[p], adopted |-> TRUE])
    BY <1>6 DEF Adopt
  <2>2. lock[e][p] \in Record
    BY <2>1 DEF IsAdopter, Claimants, Recorded, Lock
  <2>3. [class |-> lock[e][p].class, hash |-> disk[p], adopted |-> TRUE] \in Record
    BY <1>6, <2>2 DEF Adopt, Record
  <2>4. lock' \in Lock
    BY <2>1, <2>3, WithRecordLemma
  <2> QED
    BY <1>6, <2>4 DEF Adopt
<1>7. ASSUME NEW r \in Runs, Crash(r) \/ CrashSaving(r) PROVE TypeOK'
  BY <1>7 DEF Crash, CrashSaving
<1>8. ASSUME NEW r \in Runs, Running(r, "generate"), NEW d \in run[r].todo,
             CrashWriting(r, d)
      PROVE  TypeOK'
  <2>1. run[r] \in Generation
    BY <1>8 DEF Running, Pruning
  <2>2. d.file \in File /\ run[r].entity \in Entities
    BY <2>1 DEF Generation
  <2>3. Sealed(run[r].entity, d.file).by \in Entities \cup {Everyone}
    BY <2>2 DEF Sealed
  <2>4. PICK seal \in {"bare", "broken"} :
           disk' = [disk EXCEPT ![d.file.path] =
                      [seal |-> seal, text |-> Torn,
                       by |-> Sealed(run[r].entity, d.file).by]]
    BY <1>8 DEF CrashWriting
  <2>5. [seal |-> seal, text |-> Torn, by |-> Sealed(run[r].entity, d.file).by] \in Content
    BY <2>3, <2>4 DEF Content, Seals
  <2> QED
    BY <1>8, <2>4, <2>5 DEF CrashWriting
<1>9. ASSUME NEW e \in Entities, NEW s \in Shapes, EditSpec(e, s) PROVE TypeOK'
  BY <1>9 DEF EditSpec
<1>10. ASSUME NEW p \in Paths, NEW t \in AuthorTexts, EditFile(p, t) PROVE TypeOK'
  BY <1>10 DEF EditFile, Content, Seals
<1>11. ASSUME NEW p \in Paths, NEW t \in AuthorTexts, HandWrite(p, t) PROVE TypeOK'
  BY <1>11 DEF HandWrite, Content, Seals
<1>12. ASSUME NEW p \in Paths, DeleteFile(p) PROVE TypeOK'
  BY <1>12 DEF DeleteFile
<1>13. ASSUME NEW e \in Entities, NEW s \in Shapes, NEW f \in Emits[e][s],
              CheckOut(e, s, f)
       PROVE  TypeOK'
  <2>1. f \in File
    BY EmitsAssumption
  <2> QED
    BY <1>13, <2>1, SealedLemma DEF CheckOut, File
<1>14. ASSUME RestoreLock \/ DeleteLock PROVE TypeOK'
  <2>1. EmptyLock \in Lock
    BY DEF EmptyLock, Lock
  <2> QED
    BY <1>14, <2>1 DEF RestoreLock, DeleteLock
<1>15. CASE UNCHANGED vars
  BY <1>15 DEF vars
<1> QED
  BY <1>1, <1>2, <1>3, <1>4, <1>5, <1>6, <1>7, <1>8, <1>9, <1>10, <1>11, <1>12,
     <1>13, <1>14, <1>15
  DEF Next, Command, Generate, Prune, Failure, Author
\* Every variable keeps its type through every command, failure and edit.
THEOREM Typing == Spec => []TypeOK
BY TypingInit, TypingStep, PTL DEF Spec

-----------------------------------------------------------------------------
(* The invariant.                                                          *)

\* A lock whose records are written stays so when one record is dropped,
\* or replaced by an adoption or by a record of what the generator wrote.
LEMMA HoldsWrittenLemma ==
    ASSUME NEW l \in Lock, HoldsWritten(l), NEW e \in Entities, NEW p \in Paths,
           NEW rec \in Record \cup {NoRecord},
           \/ rec = l[e][p]
           \/ rec = NoRecord
           \/ rec.adopted
           \/ Generated(rec.hash)
    PROVE  HoldsWritten(WithRecord(l, e, p, rec))
BY WithRecordLemma DEF HoldsWritten, Recorded

LEMMA SafeInit == Init => Safe
<1> SUFFICES ASSUME Init PROVE Safe
  OBVIOUS
<1>1. TypeOK
  BY TypingInit
<1>2. OneCommand /\ SealsAreGenerated /\ MemoryIsWritten
  BY DEF Init, OneCommand, SealsAreGenerated, MemoryIsWritten
<1>3. RecordsAreWritten
  BY DEF Init, RecordsAreWritten, HoldsWritten, Recorded, EmptyLock
<1>4. PlansHold
  BY DEF Init, PlansHold, Running
<1> QED
  BY <1>1, <1>2, <1>3, <1>4 DEF Safe

PlanHolds(r) == /\ Running(r, "generate") => GenerationHolds(r)
                /\ Running(r, "prune") => PruningHolds(r)

\* A command that takes no part in a step keeps its plan, if the step makes
\* nothing the author's; and when commands do not overlap, it is not there.
LEMMA FrameLemma ==
    ASSUME Safe, NEW q \in Runs, run'[q] = run[q],
           \A x \in Paths : Authored(disk'[x]) => Authored(disk[x]),
           disk' = disk \/ Overlap \/ run[q] = Idle
    PROVE  PlanHolds(q)'
<1> USE DEF Safe
<1>1. PlanHolds(q)
  BY DEF PlansHold, PlanHolds
<1>2. ASSUME Running(q, "generate")
      PROVE  GenerationHolds(q)'
  <2>1. \A d \in run[q].todo : d.file.path \in Paths
    BY <1>2 DEF TypeOK, Running, Generation, Pruning, File
  <2>2. \A d \in run[q].todo :
           Overlap \/ disk'[d.file.path] = disk[d.file.path]
    BY <1>2 DEF Running
  <2> QED
    BY <1>1, <1>2, <2>1, <2>2 DEF PlanHolds, GenerationHolds
<1>3. ASSUME Running(q, "prune")
      PROVE  PruningHolds(q)'
  <2>1. \A d \in run[q].todo : d.path \in Paths
    BY <1>3 DEF TypeOK, Running, Generation, Pruning
  <2>2. \A d \in run[q].todo : Overlap \/ disk'[d.path] = disk[d.path]
    BY <1>3 DEF Running
  <2> QED
    BY <1>1, <1>3, <2>1, <2>2 DEF PlanHolds, PruningHolds
<1> QED
  BY <1>2, <1>3 DEF PlanHolds, Running

LEMMA StartGenerateLemma ==
    ASSUME Safe, NEW r \in Runs, NEW e \in Entities, NEW force \in SUBSET Paths,
           StartGenerate(r, e, force)
    PROVE  Safe'
<1> USE DEF Safe
<1>0. TypeOK'
  BY StartTyping
<1>1. /\ Overlap \/ \A q \in Runs : run[q] = Idle
      /\ UNCHANGED <<disk, lock, readable, spec>>
  BY DEF StartGenerate, MayStart, Quiet
<1> DEFINE action(f) == Decide(e, f, disk[f.path], lock[e][f.path], f.path \in force)
           todo == {[file |-> f, action |-> action(f)] : f \in Files(e)}
           new == [cmd |-> "generate", entity |-> e, mem |-> lock, force |-> force,
                   todo |-> todo]
<1>2. /\ run' = [run EXCEPT ![r] = new]
      /\ run'[r] = new
      /\ \A q \in Runs : q # r => run'[q] = run[q]
  BY DEF StartGenerate, TypeOK
<1>3. OneCommand'
  BY <1>1, <1>2 DEF OneCommand
<1>4. SealsAreGenerated' /\ RecordsAreWritten'
  BY <1>1 DEF SealsAreGenerated, RecordsAreWritten
<1>5. MemoryIsWritten'
  <2>1. new.mem = lock
    OBVIOUS
  <2> QED
    BY <1>2, <2>1 DEF MemoryIsWritten, RecordsAreWritten
<1>6. PlanHolds(r)'
  <2> SUFFICES
        /\ \A d, o \in todo : d.file.path = o.file.path => d = o
        /\ \A d \in todo :
              /\ \E s \in Shapes : d.file \in Emits[e][s]
              /\ Writes(d.action) =>
                    /\ Authored(disk[d.file.path]) => d.file.path \in force
                    /\ d.file.class = "hook" => disk[d.file.path] = Gone
    <3> HIDE DEF todo
    <3>1. new.entity = e /\ new.todo = todo /\ new.force = force /\ new.cmd = "generate"
      OBVIOUS
    <3> QED BY <1>1, <1>2, <3>1 DEF PlanHolds, GenerationHolds, Running
  <2>1. spec[e] \in Shapes /\ Files(e) = Emits[e][spec[e]] /\ Files(e) \subseteq File
    BY EmitsAssumption DEF TypeOK, Files
  <2>2. \A f, g \in Files(e) : f.path = g.path => f = g
    BY <2>1, EmitsAssumption
  <2>3. ASSUME NEW f \in Files(e), Writes(action(f))
        PROVE  /\ Authored(disk[f.path]) => f.path \in force
               /\ f.class = "hook" => disk[f.path] = Gone
    <3>1. f.path \in Paths
      BY <2>1 DEF File
    <3> DEFINE forced == f.path \in force
    <3>2. forced \in BOOLEAN
      OBVIOUS
    <3>3. Writes(Decide(e, f, disk[f.path], lock[e][f.path], forced))
      BY <2>3
    <3> HIDE DEF action
    <3>4. /\ disk[f.path] = Gone \/ forced \/ Intact(disk[f.path])
          /\ f.class = "hook" => disk[f.path] = Gone
      <4> HIDE DEF forced
      <4> QED BY <3>2, <3>3, WritesLemma
    <3>5. disk[f.path] # Gone /\ Intact(disk[f.path]) => ~Authored(disk[f.path])
      BY <3>1, TextsAssumption DEF SealsAreGenerated, Generated, Authored
    <3> QED
      BY <3>4, <3>5 DEF Authored
  <2>4. \A d \in todo : d.file \in Files(e) /\ d = [file |-> d.file, action |-> action(d.file)]
    <3> HIDE DEF action
    <3> QED OBVIOUS
  <2> QED
    <3> HIDE DEF action, todo
    <3> QED BY <2>1, <2>2, <2>3, <2>4
<1>7. \A q \in Runs : q # r => PlanHolds(q)'
  BY <1>1, <1>2, FrameLemma
<1>8. PlansHold'
  BY <1>6, <1>7 DEF PlansHold, PlanHolds
<1> QED
  BY <1>0, <1>3, <1>4, <1>5, <1>8

LEMMA ApplyLemma ==
    ASSUME Safe, NEW r \in Runs, Running(r, "generate"), NEW d \in run[r].todo,
           ApplyDecision(r, d)
    PROVE  Safe'
<1> USE DEF Safe
<1>0. TypeOK'
  BY ApplyTyping
<1> DEFINE e == run[r].entity
           p == d.file.path
           rec == RecordAfter(e, d.file, d.action, run[r].mem[e][p])
           mem == WithRecord(run[r].mem, e, p, rec)
           new == [cmd |-> "generate", entity |-> e, force |-> run[r].force,
                   todo |-> run[r].todo \ {d}, mem |-> mem]
<1>1. /\ run[r] \in Generation /\ e \in Entities /\ p \in Paths
      /\ d.file \in File /\ d.action \in Actions
  BY DEF TypeOK, Running, Generation, Pruning, File
<1>2. /\ run' = [run EXCEPT ![r] = new]
      /\ run'[r] = new
      /\ \A q \in Runs : q # r => run'[q] = run[q]
      /\ \A q \in Runs : q # r => Overlap \/ run[q] = Idle
  BY DEF ApplyDecision, TypeOK, OneCommand, Running
<1>3. OneCommand'
  BY <1>2 DEF OneCommand
<1>4. /\ \A q \in Paths : q # p => disk'[q] = disk[q]
      /\ disk'[p] = disk[p] \/ disk'[p] = Sealed(e, d.file)
  BY <1>1 DEF ApplyDecision, TypeOK
<1>5. SealsAreGenerated'
  BY <1>1, <1>4, SealedLemma DEF SealsAreGenerated
<1>6. RecordsAreWritten'
  BY DEF ApplyDecision, RecordsAreWritten
<1>7. MemoryIsWritten'
  <2>1. run[r].mem \in Lock /\ HoldsWritten(run[r].mem)
    BY <1>1 DEF Generation, MemoryIsWritten, Running
  <2>2. run[r].mem[e][p] \in Record \cup {NoRecord}
    BY <1>1, <2>1 DEF Lock
  <2>3. /\ rec \in Record \cup {NoRecord}
        /\ rec = run[r].mem[e][p] \/ rec = NoRecord \/ rec.hash = Sealed(e, d.file)
    BY <1>1, <2>2, RecordAfterLemma
  <2>4. Generated(Sealed(e, d.file))
    BY <1>1, SealedLemma
  <2> HIDE DEF rec
  <2>5. HoldsWritten(mem)
    BY <1>1, <2>1, <2>3, <2>4, HoldsWrittenLemma
  <2> HIDE DEF mem
  <2> QED
    BY <1>2, <2>5 DEF MemoryIsWritten
<1>8. PlanHolds(r)'
  <2>1. \A o \in run[r].todo \ {d} : o.file.path # p /\ o.file.path \in Paths
    BY <1>1 DEF PlansHold, GenerationHolds, Generation, File
  <2> HIDE DEF mem
  <2>2. /\ new.todo = run[r].todo \ {d} /\ new.entity = e
        /\ new.force = run[r].force /\ new.cmd = "generate"
    OBVIOUS
  <2> HIDE DEF new
  <2> QED
    BY <1>2, <1>4, <2>1, <2>2 DEF PlanHolds, PlansHold, GenerationHolds, Running
<1>9. \A q \in Runs : q # r => PlanHolds(q)'
  <2>1. \A x \in Paths : Authored(disk'[x]) => Authored(disk[x])
    BY <1>1, <1>4, SealedLemma
  <2> QED
    BY <1>2, <2>1, FrameLemma
<1>10. PlansHold'
  BY <1>8, <1>9 DEF PlansHold, PlanHolds
<1> QED
  BY <1>0, <1>3, <1>5, <1>6, <1>7, <1>10

LEMMA StartPruneLemma ==
    ASSUME Safe, NEW r \in Runs, NEW e \in Entities, StartPrune(r, e)
    PROVE  Safe'
<1> USE DEF Safe
<1>0. TypeOK'
  BY StartPruneTyping
<1>1. /\ Overlap \/ \A q \in Runs : run[q] = Idle
      /\ UNCHANGED <<disk, lock, readable, spec>>
  BY DEF StartPrune, MayStart, Quiet
<1> DEFINE kind(p) == PruneKind(lock, e, p, disk[p])
           doomed == {p \in Leftovers(e) : kind(p) # "keep"}
           todo == {[path |-> p, kind |-> kind(p)] : p \in doomed}
           new == [cmd |-> "prune", entity |-> e, mem |-> lock, todo |-> todo]
<1>2. /\ run' = [run EXCEPT ![r] = new]
      /\ run'[r] = new
      /\ \A q \in Runs : q # r => run'[q] = run[q]
  BY DEF StartPrune, TypeOK
<1>3. OneCommand'
  BY <1>1, <1>2 DEF OneCommand
<1>4. SealsAreGenerated' /\ RecordsAreWritten'
  BY <1>1 DEF SealsAreGenerated, RecordsAreWritten
<1>5. MemoryIsWritten'
  <2>1. new.mem = lock
    OBVIOUS
  <2> QED
    BY <1>2, <2>1 DEF MemoryIsWritten, RecordsAreWritten
<1>6. PlanHolds(r)'
  <2>1. \A p \in doomed : kind(p) = "delete" => Generated(disk[p]) /\ ~Authored(disk[p])
    BY TextsAssumption
    DEF PruneKind, Leftovers, RecordsAreWritten, HoldsWritten, Generated, Authored
  <2>2. \A d \in todo : d.path \in doomed /\ d = [path |-> d.path, kind |-> kind(d.path)]
    <3> HIDE DEF kind, doomed
    <3> QED OBVIOUS
  <2>3. new.todo = todo /\ new.cmd = "prune"
    OBVIOUS
  <2> HIDE DEF todo, kind, new, doomed
  <2>4. \A d, o \in todo : d.path = o.path => d = o
    BY <2>2
  <2>5. \A d \in todo : d.kind = "delete" => Generated(disk[d.path]) /\ ~Authored(disk[d.path])
    BY <2>1, <2>2
  <2> QED
    BY <1>1, <1>2, <2>3, <2>4, <2>5 DEF PlanHolds, PruningHolds, Running
<1>7. \A q \in Runs : q # r => PlanHolds(q)'
  BY <1>1, <1>2, FrameLemma
<1>8. PlansHold'
  BY <1>6, <1>7 DEF PlansHold, PlanHolds
<1> QED
  BY <1>0, <1>3, <1>4, <1>5, <1>8

LEMMA PruneNextLemma ==
    ASSUME Safe, NEW r \in Runs, Running(r, "prune"), NEW d \in run[r].todo,
           PruneNext(r, d)
    PROVE  Safe'
<1> USE DEF Safe
<1>0. TypeOK'
  BY PruneTyping
<1> DEFINE e == run[r].entity
           mem == WithRecord(run[r].mem, e, d.path, NoRecord)
           new == [cmd |-> "prune", entity |-> e, todo |-> run[r].todo \ {d},
                   mem |-> mem]
<1>1. run[r] \in Pruning /\ e \in Entities /\ d.path \in Paths
  BY DEF TypeOK, Running, Generation, Pruning
<1>2. /\ run' = [run EXCEPT ![r] = new]
      /\ run'[r] = new
      /\ \A q \in Runs : q # r => run'[q] = run[q]
      /\ \A q \in Runs : q # r => Overlap \/ run[q] = Idle
  BY DEF PruneNext, TypeOK, OneCommand, Running
<1>3. OneCommand'
  BY <1>2 DEF OneCommand
<1>4. /\ \A q \in Paths : q # d.path => disk'[q] = disk[q]
      /\ disk'[d.path] \in {disk[d.path], Gone}
  BY <1>1 DEF PruneNext, TypeOK
<1>5. SealsAreGenerated'
  BY <1>1, <1>4 DEF SealsAreGenerated
<1>6. RecordsAreWritten'
  BY DEF PruneNext, RecordsAreWritten
<1>7. MemoryIsWritten'
  <2>1. run[r].mem \in Lock /\ HoldsWritten(run[r].mem)
    BY <1>1 DEF Pruning, MemoryIsWritten, Running
  <2>2. HoldsWritten(mem)
    BY <1>1, <2>1, HoldsWrittenLemma
  <2> HIDE DEF mem
  <2> QED
    BY <1>2, <2>2 DEF MemoryIsWritten
<1>8. PlanHolds(r)'
  <2>1. \A o \in run[r].todo \ {d} : o.path # d.path /\ o.path \in Paths
    BY <1>1 DEF PlansHold, PruningHolds, Pruning
  <2> HIDE DEF mem
  <2>2. new.todo = run[r].todo \ {d} /\ new.cmd = "prune"
    OBVIOUS
  <2> HIDE DEF new
  <2> QED
    BY <1>2, <1>4, <2>1, <2>2 DEF PlanHolds, PlansHold, PruningHolds, Running
<1>9. \A q \in Runs : q # r => PlanHolds(q)'
  <2>1. \A x \in Paths : Authored(disk'[x]) => Authored(disk[x])
    BY <1>1, <1>4 DEF Authored
  <2> QED
    BY <1>2, <2>1, FrameLemma
<1>10. PlansHold'
  BY <1>8, <1>9 DEF PlansHold, PlanHolds
<1> QED
  BY <1>0, <1>3, <1>5, <1>6, <1>7, <1>10

\* Saving, or dying between two steps.
LEMMA EndingLemma ==
    ASSUME Safe, NEW r \in Runs, SaveLock(r) \/ Crash(r) \/ CrashSaving(r)
    PROVE  Safe'
<1> USE DEF Safe
<1>1. TypeOK'
  BY TypingStep DEF Next, Command, Failure
<1>2. run' = [run EXCEPT ![r] = Idle] /\ disk' = disk
  BY DEF SaveLock, Crash, CrashSaving
<1>3. lock' = lock \/ (run[r] # Idle /\ lock' = run[r].mem)
  BY DEF SaveLock, Crash, CrashSaving
<1>4. RecordsAreWritten'
  BY <1>3 DEF RecordsAreWritten, MemoryIsWritten
<1>5. run'[r] = Idle /\ \A q \in Runs : q # r => run'[q] = run[q]
  BY <1>2 DEF TypeOK
<1>6. PlansHold'
  <2>1. \A q \in Runs : q # r => PlanHolds(q)'
    BY <1>2, <1>5, FrameLemma
  <2>2. PlanHolds(r)'
    BY <1>5 DEF PlanHolds, Running
  <2> QED
    BY <2>1, <2>2 DEF PlansHold, PlanHolds
<1> QED
  BY <1>1, <1>2, <1>4, <1>5, <1>6 DEF OneCommand, SealsAreGenerated, MemoryIsWritten

LEMMA AdoptLemma ==
    ASSUME Safe, NEW p \in Paths, Adopt(p)
    PROVE  Safe'
<1> USE DEF Safe
<1>1. TypeOK'
  BY TypingStep DEF Next, Command
<1>2. PICK e \in Entities :
         /\ IsAdopter(lock, e, p)
         /\ lock' = WithRecord(lock, e, p, [class |-> lock[e][p].class,
                                           hash |-> disk[p], adopted |-> TRUE])
  BY DEF Adopt
<1> DEFINE rec == [class |-> lock[e][p].class, hash |-> disk[p], adopted |-> TRUE]
<1>3. rec \in Record /\ rec.adopted
  BY <1>2 DEF Adopt, IsAdopter, Claimants, Recorded, TypeOK, Lock, Record
<1> HIDE DEF rec
<1>4. lock \in Lock /\ HoldsWritten(lock) /\ lock' = WithRecord(lock, e, p, rec)
  BY <1>2 DEF TypeOK, RecordsAreWritten, rec
<1>5. RecordsAreWritten'
  BY <1>3, <1>4, HoldsWrittenLemma DEF RecordsAreWritten
<1>6. run' = run /\ disk' = disk
  BY DEF Adopt
<1>7. PlansHold'
  BY <1>6, FrameLemma DEF PlansHold, PlanHolds
<1> QED
  BY <1>1, <1>5, <1>6, <1>7 DEF OneCommand, SealsAreGenerated, MemoryIsWritten

LEMMA CrashWritingLemma ==
    ASSUME Safe, NEW r \in Runs, Running(r, "generate"), NEW d \in run[r].todo,
           CrashWriting(r, d)
    PROVE  Safe'
<1> USE DEF Safe
<1>0. TypeOK'
  <2>1. Next
    BY DEF Next, Failure
  <2> QED BY <2>1, TypingStep
<1>1. /\ run' = [run EXCEPT ![r] = Idle] /\ lock' = lock
      /\ run'[r] = Idle /\ \A q \in Runs : q # r => run'[q] = run[q]
      /\ \A q \in Runs : q # r => Overlap \/ run[q] = Idle
  BY DEF CrashWriting, OneCommand, TypeOK, Running
<1>2. \A q \in Paths : \/ disk'[q] = disk[q]
                       \/ disk'[q].seal \in {"bare", "broken"} /\ disk'[q].text = Torn
  BY DEF CrashWriting, TypeOK
<1>3. SealsAreGenerated'
  BY <1>2 DEF SealsAreGenerated, Intact
<1>4. PlansHold'
  <2>1. \A x \in Paths : Authored(disk'[x]) => Authored(disk[x])
    BY <1>2, TextsAssumption DEF Authored
  <2>2. \A q \in Runs : q # r => PlanHolds(q)'
    BY <1>1, <2>1, FrameLemma
  <2>3. PlanHolds(r)'
    BY <1>1 DEF PlanHolds, Running
  <2> QED
    BY <2>2, <2>3 DEF PlansHold, PlanHolds
<1> QED
  BY <1>0, <1>1, <1>3, <1>4 DEF OneCommand, RecordsAreWritten, MemoryIsWritten

\* What the author does meets no plan.
LEMMA AuthorStepLemma ==
    ASSUME Safe, Author
    PROVE  Safe'
<1> USE DEF Safe
<1>0. TypeOK'
  BY TypingStep DEF Next
<1>1. (\A r \in Runs : run[r] = Idle) /\ run' = run
  BY DEF Author, EditSpec, EditFile, HandWrite, DeleteFile, CheckOut,
     RestoreLock, DeleteLock, Quiet
<1>2. lock' = lock \/ lock' = EmptyLock
  BY DEF Author, EditSpec, EditFile, HandWrite, DeleteFile, CheckOut,
     RestoreLock, DeleteLock
<1>3. RecordsAreWritten'
  BY <1>2 DEF RecordsAreWritten, HoldsWritten, Recorded, EmptyLock
<1>4. SealsAreGenerated'
  <2>1. ASSUME NEW e \in Entities, NEW s \in Shapes, NEW f \in Emits[e][s],
               CheckOut(e, s, f)
        PROVE  SealsAreGenerated'
    <3>1. f \in File /\ Generated(Sealed(e, f))
      BY EmitsAssumption, SealedLemma
    <3>2. \A q \in Paths : disk'[q] = disk[q] \/ disk'[q] = Sealed(e, f)
      BY <2>1 DEF CheckOut, TypeOK
    <3> QED
      BY <3>1, <3>2 DEF SealsAreGenerated
  <2>2. ASSUME NEW p \in Paths,
               (\E t \in AuthorTexts : EditFile(p, t) \/ HandWrite(p, t))
               \/ DeleteFile(p)
        PROVE  SealsAreGenerated'
    <3>1. \A q \in Paths : \/ disk'[q] = disk[q]
                           \/ disk'[q] = Gone
                           \/ disk'[q].seal # "sealed"
      BY <2>2 DEF EditFile, HandWrite, DeleteFile, TypeOK
    <3> QED
      BY <3>1 DEF SealsAreGenerated, Intact
  <2>3. ASSUME disk' = disk PROVE SealsAreGenerated'
    BY <2>3 DEF SealsAreGenerated
  <2>4. ASSUME (\E e \in Entities, s \in Shapes : EditSpec(e, s))
               \/ RestoreLock \/ DeleteLock
        PROVE  disk' = disk
    BY <2>4 DEF EditSpec, RestoreLock, DeleteLock
  <2> QED
    BY <2>1, <2>2, <2>3, <2>4, Zenon DEF Author
<1> QED
  BY <1>0, <1>1, <1>3, <1>4 DEF OneCommand, MemoryIsWritten, PlansHold, Running

LEMMA SafeStep ==
    ASSUME Safe, [Next]_vars
    PROVE  Safe'
<1>1. CASE UNCHANGED vars
  <2>1. TypeOK'
    BY TypingStep DEF Safe
  <2> QED
    BY <1>1, <2>1 DEF Safe, vars, OneCommand, SealsAreGenerated, RecordsAreWritten,
       MemoryIsWritten, PlansHold, GenerationHolds, PruningHolds, Running
<1> QED
  BY <1>1, StartGenerateLemma, ApplyLemma, StartPruneLemma, PruneNextLemma,
     EndingLemma, AdoptLemma, CrashWritingLemma, AuthorStepLemma
  DEF Next, Command, Generate, Prune, Failure

\* Plans and records are safe, whether or not commands overlap one another.
LEMMA Safety == Spec => []Safe
<1>1. Safe /\ [Next]_vars => Safe'
  BY SafeStep
<1> QED
  BY <1>1, SafeInit, PTL DEF Spec

-----------------------------------------------------------------------------
(* What follows for the author's work.                                     *)

\* What one step that is not the author's may do to the disk.
LEMMA DiskStep ==
    ASSUME Command \/ Failure
    PROVE  \/ disk' = disk
           \/ \E r \in Runs : \E d \in run[r].todo :
                /\ Running(r, "generate") /\ Writes(d.action)
                /\ ApplyDecision(r, d) \/ CrashWriting(r, d)
           \/ \E r \in Runs : \E d \in run[r].todo :
                /\ Running(r, "prune") /\ d.kind = "delete"
                /\ PruneNext(r, d)
<1>1. ASSUME NEW r \in Runs, NEW e \in Entities, NEW force, StartGenerate(r, e, force)
      PROVE  disk' = disk
  BY <1>1 DEF StartGenerate
<1>2. ASSUME NEW r \in Runs, NEW e \in Entities, StartPrune(r, e)
      PROVE  disk' = disk
  BY <1>2 DEF StartPrune
<1>3. ASSUME NEW r \in Runs, SaveLock(r) \/ Crash(r) \/ CrashSaving(r)
      PROVE  disk' = disk
  BY <1>3 DEF SaveLock, Crash, CrashSaving
<1>4. ASSUME NEW p \in Paths, Adopt(p) PROVE disk' = disk
  BY <1>4 DEF Adopt
<1>5. ASSUME NEW r \in Runs, NEW d \in run[r].todo, ApplyDecision(r, d), ~Writes(d.action)
      PROVE  disk' = disk
  BY <1>5 DEF ApplyDecision
<1>6. ASSUME NEW r \in Runs, NEW d \in run[r].todo, PruneNext(r, d), d.kind # "delete"
      PROVE  disk' = disk
  BY <1>6 DEF PruneNext
<1>7. ASSUME NEW r \in Runs, NEW d \in run[r].todo, CrashWriting(r, d)
      PROVE  Writes(d.action)
  BY <1>7 DEF CrashWriting
<1> QED
  BY <1>1, <1>2, <1>3, <1>4, <1>5, <1>6, <1>7, Zenon
  DEF Command, Failure, Generate, Prune

\* A written path becomes the generator's, whole or torn, and was free, waived
\* or the generator's; a hook was free, if commands take turns.
LEMMA WriteStep ==
    ASSUME Safe, NEW r \in Runs, NEW d \in run[r].todo,
           Running(r, "generate"), Writes(d.action),
           ApplyDecision(r, d) \/ CrashWriting(r, d)
    PROVE  /\ d.file.path \in Paths
           /\ \E c \in Content : /\ disk' = [disk EXCEPT ![d.file.path] = c]
                                 /\ c # Gone /\ ~Authored(c)
           /\ Authored(disk[d.file.path]) => d.file.path \in run[r].force
           /\ d.file.path \in HookPaths => Overlap \/ disk[d.file.path] = Gone
<1>1. /\ run[r] \in Generation /\ run[r].entity \in Entities
      /\ d.file \in File /\ d.file.path \in Paths
  BY DEF Safe, TypeOK, Running, Generation, Pruning, File
<1>2. PICK s \in Shapes : d.file \in Emits[run[r].entity][s]
  BY DEF Safe, PlansHold, GenerationHolds
<1>3. d.file.path \in HookPaths => d.file.class = "hook"
  BY <1>1, <1>2 DEF HookPaths
<1>4. /\ Authored(disk[d.file.path]) => d.file.path \in run[r].force
      /\ d.file.class = "hook" => Overlap \/ disk[d.file.path] = Gone
  BY DEF Safe, PlansHold, GenerationHolds
<1>5. ASSUME ApplyDecision(r, d)
      PROVE  \E c \in Content : /\ disk' = [disk EXCEPT ![d.file.path] = c]
                               /\ c # Gone /\ ~Authored(c)
  BY <1>1, <1>5, SealedLemma DEF ApplyDecision
<1>6. ASSUME CrashWriting(r, d)
      PROVE  \E c \in Content : /\ disk' = [disk EXCEPT ![d.file.path] = c]
                               /\ c # Gone /\ ~Authored(c)
  <2>1. PICK seal \in {"bare", "broken"} :
           disk' = [disk EXCEPT ![d.file.path] =
                      [seal |-> seal, text |-> Torn,
                       by |-> Sealed(run[r].entity, d.file).by]]
    BY <1>6 DEF CrashWriting
  <2> DEFINE c == [seal |-> seal, text |-> Torn,
                   by |-> Sealed(run[r].entity, d.file).by]
  <2>2. c \in Content /\ c.text = Torn
    BY <1>1, <2>1 DEF Content, Seals, Sealed
  <2>3. c # Gone /\ ~Authored(c)
    BY <2>2, GoneAssumption, TextsAssumption DEF Authored
  <2> QED
    BY <2>1, <2>2, <2>3
<1> QED
  BY <1>1, <1>3, <1>4, <1>5, <1>6

\* A removed path was not the author's, and was whole if commands take turns.
LEMMA RemoveStep ==
    ASSUME Safe, NEW r \in Runs, NEW d \in run[r].todo,
           Running(r, "prune"), d.kind = "delete", PruneNext(r, d)
    PROVE  /\ d.path \in Paths
           /\ disk' = [disk EXCEPT ![d.path] = Gone]
           /\ ~Authored(disk[d.path])
           /\ Overlap \/ Generated(disk[d.path])
BY DEF Safe, TypeOK, Running, Generation, Pruning, PlansHold, PruningHolds, PruneNext

\* No command, and no command that dies, changes what a person wrote unless its
\* path was forced, whether or not commands overlap one another.
THEOREM AuthorsWorkIsKept == Spec => AuthorsWorkKept
<1> DEFINE Kept == Author \/ \A p \in Paths :
                     Authored(disk[p]) /\ disk'[p] # disk[p] => Forced(p)
<1>1. ASSUME Safe, [Next]_vars PROVE [Kept]_vars
  <2>1. SUFFICES ASSUME Command \/ Failure, NEW p \in Paths,
                        Authored(disk[p]), disk'[p] # disk[p]
                 PROVE  Forced(p)
    BY <1>1 DEF Next
  <2>2. ASSUME NEW r \in Runs, NEW d \in run[r].todo,
               Running(r, "generate"), Writes(d.action),
               ApplyDecision(r, d) \/ CrashWriting(r, d)
        PROVE  Forced(p)
    <3>1. d.file.path = p
      BY <1>1, <2>1, <2>2, WriteStep DEF Safe, TypeOK
    <3> QED
      BY <1>1, <2>1, <2>2, <3>1, WriteStep DEF Forced
  <2>3. ASSUME NEW r \in Runs, NEW d \in run[r].todo,
               Running(r, "prune"), d.kind = "delete", PruneNext(r, d)
        PROVE  FALSE
    <3>1. d.path = p
      BY <1>1, <2>1, <2>3, RemoveStep DEF Safe, TypeOK
    <3> QED
      BY <1>1, <2>1, <2>3, <3>1, RemoveStep
  <2> QED
    BY <1>1, <2>1, <2>2, <2>3, DiskStep
<1>2. Spec => []Safe
  BY Safety
<1> QED
  BY <1>1, <1>2, PTL DEF Spec, AuthorsWorkKept

\* A hook that exists is never rewritten, and is removed only while it is what
\* the generator created.
THEOREM HooksAreWrittenOnce == ~Overlap => (Spec => HooksWrittenOnce)
<1> SUFFICES ASSUME ~Overlap PROVE Spec => HooksWrittenOnce
  OBVIOUS
<1> DEFINE Once == Author \/ \A p \in HookPaths :
                     disk[p] # Gone /\ disk'[p] # disk[p]
                        => disk'[p] = Gone /\ Generated(disk[p])
<1>1. ASSUME Safe, [Next]_vars PROVE [Once]_vars
  <2>1. SUFFICES ASSUME Command \/ Failure, NEW p \in HookPaths,
                        disk[p] # Gone, disk'[p] # disk[p]
                 PROVE  disk'[p] = Gone /\ Generated(disk[p])
    BY <1>1 DEF Next
  <2>2. p \in Paths
    BY DEF HookPaths
  <2>3. ASSUME NEW r \in Runs, NEW d \in run[r].todo,
               Running(r, "generate"), Writes(d.action),
               ApplyDecision(r, d) \/ CrashWriting(r, d)
        PROVE  FALSE
    BY <1>1, <2>1, <2>2, <2>3, WriteStep DEF Safe, TypeOK
  <2>4. ASSUME NEW r \in Runs, NEW d \in run[r].todo,
               Running(r, "prune"), d.kind = "delete", PruneNext(r, d)
        PROVE  disk'[p] = Gone /\ Generated(disk[p])
    BY <1>1, <2>1, <2>2, <2>4, RemoveStep DEF Safe, TypeOK
  <2> QED
    BY <1>1, <2>1, <2>3, <2>4, DiskStep
<1>2. Spec => []Safe
  BY Safety
<1> QED
  BY <1>1, <1>2, PTL DEF Spec, HooksWrittenOnce

-----------------------------------------------------------------------------
(* The commands implement AuthorsWork.                                     *)

\* Replacing the content of one path changes its holder and no other.
LEMMA HolderLemma ==
    ASSUME TypeOK, NEW p \in Paths, NEW c, disk' = [disk EXCEPT ![p] = c]
    PROVE  [q \in Paths |-> Holder(disk[q])]' =
              [[q \in Paths |-> Holder(disk[q])] EXCEPT ![p] = Holder(c)]
BY DEF TypeOK, Holder, Authored

\* The abstract state a project stands for.
Held == [p \in Paths |-> Holder(disk[p])]
Busy == \E r \in Runs : run[r] # Idle
Waived == {p \in Paths : Forced(p)}

\* A command starting is the contract's Begin.
LEMMA BeginLemma ==
    ASSUME ~Overlap, Safe,
           NEW r \in Runs, NEW e \in Entities,
           (\E force \in SUBSET Paths : StartGenerate(r, e, force)) \/ StartPrune(r, e)
    PROVE  ~Busy /\ Busy' /\ Waived' \in SUBSET Paths /\ Held' = Held
<1>1. ~Busy
  BY DEF StartGenerate, StartPrune, MayStart, Quiet, Busy
<1>2. run'[r] # Idle
  BY StartTyping, StartPruneTyping, IdleAssumption DEF Safe
<1>3. disk' = disk
  BY DEF StartGenerate, StartPrune
<1> QED
  BY <1>1, <1>2, <1>3 DEF Busy, Waived, Held

\* A command that saves, or dies between two writes, is the contract's End.
LEMMA EndLemma ==
    ASSUME ~Overlap, Safe, NEW r \in Runs, SaveLock(r) \/ Crash(r) \/ CrashSaving(r)
    PROVE  Busy /\ ~Busy' /\ Waived' = {} /\ Held' = Held
<1>1. run[r] # Idle /\ run' = [run EXCEPT ![r] = Idle] /\ disk' = disk
  BY DEF SaveLock, Crash, CrashSaving
<1>2. \A q \in Runs : run'[q] = Idle
  BY <1>1 DEF Safe, TypeOK, OneCommand
<1> QED
  BY <1>1, <1>2 DEF Busy, Waived, Held, Forced, Running

\* Carrying out a decision, or a step of a prune, leaves the command at work
\* with what it was given to force.
LEMMA WorkingLemma ==
    ASSUME Safe, NEW r \in Runs, NEW d \in run[r].todo,
           \/ Running(r, "generate") /\ ApplyDecision(r, d)
           \/ Running(r, "prune") /\ PruneNext(r, d)
    PROVE  Busy /\ Busy' /\ Waived' = Waived
<1>1. TypeOK /\ run[r] # Idle
  BY DEF Safe, Running
<1>2. ASSUME Running(r, "generate"), ApplyDecision(r, d)
      PROVE  Busy' /\ Waived' = Waived
  <2>1. /\ run'[r] \in Generation /\ run'[r].force = run[r].force
        /\ \A q \in Runs : q # r => run'[q] = run[q]
    BY <1>1, <1>2, ApplyTyping
  <2>2. run'[r] # Idle /\ run'[r].cmd = "generate"
    BY <2>1, IdleAssumption DEF Generation
  <2> QED
    BY <1>2, <2>1, <2>2 DEF Busy, Waived, Forced, Running
<1>3. ASSUME Running(r, "prune"), PruneNext(r, d)
      PROVE  Busy' /\ Waived' = Waived
  <2>1. /\ run'[r] \in Pruning
        /\ \A q \in Runs : q # r => run'[q] = run[q]
    BY <1>1, <1>3, PruneTyping
  <2>2. run'[r] # Idle /\ run'[r].cmd = "prune"
    BY <2>1, IdleAssumption DEF Pruning
  <2> QED
    BY <1>3, <2>1, <2>2 DEF Busy, Waived, Forced, Running
<1> QED
  BY <1>1, <1>2, <1>3 DEF Busy

\* A file a generation writes, or dies writing, is the contract's Write.
LEMMA WriteLemma ==
    ASSUME ~Overlap, Safe, NEW r \in Runs, NEW d \in run[r].todo,
           Running(r, "generate"), Writes(d.action),
           ApplyDecision(r, d) \/ CrashWriting(r, d)
    PROVE  \E p \in Paths : /\ Busy
                            /\ Held[p] = "author" => p \in Waived
                            /\ p \in HookPaths => Held[p] = "nobody"
                            /\ Held' = [Held EXCEPT ![p] = "generator"]
                            /\ \/ Busy' = Busy /\ Waived' = Waived
                               \/ Busy' = FALSE /\ Waived' = {}
<1> DEFINE p == d.file.path
<1>1. PICK c \in Content : /\ disk' = [disk EXCEPT ![p] = c]
                          /\ c # Gone /\ ~Authored(c)
  BY WriteStep
<1>2. p \in Paths
  BY WriteStep
<1>3. Holder(c) = "generator"
  BY <1>1 DEF Holder
<1>4. Held' = [Held EXCEPT ![p] = "generator"]
  BY <1>1, <1>2, <1>3, HolderLemma DEF Safe, Held
<1>5. Held[p] = "author" => p \in Waived
  BY <1>2, WriteStep DEF Held, Holder, Waived, Forced
<1>6. p \in HookPaths => Held[p] = "nobody"
  BY <1>2, WriteStep DEF Held, Holder
<1>7. Busy
  BY DEF Busy, Running
<1>8. \/ (Busy' <=> Busy) /\ Waived' = Waived
      \/ ~Busy' /\ Waived' = {}
  <2>1. CASE ApplyDecision(r, d)
    BY <2>1, WorkingLemma
  <2>2. CASE CrashWriting(r, d)
    <3>1. \A q \in Runs : run'[q] = Idle
      BY <2>2 DEF CrashWriting, Running, Safe, TypeOK, OneCommand
    <3> QED
      BY <3>1 DEF Busy, Waived, Forced, Running
  <2> QED
    BY <2>1, <2>2
<1>9. \/ Busy' = Busy /\ Waived' = Waived
      \/ Busy' = FALSE /\ Waived' = {}
  BY <1>8 DEF Busy
<1> QED
  BY <1>2, <1>4, <1>5, <1>6, <1>7, <1>9

\* A leftover a prune deletes is the contract's Remove.
LEMMA RemoveLemma ==
    ASSUME ~Overlap, Safe, NEW r \in Runs, NEW d \in run[r].todo,
           Running(r, "prune"), d.kind = "delete", PruneNext(r, d)
    PROVE  \E p \in Paths : /\ Busy
                            /\ Held[p] = "generator"
                            /\ Held' = [Held EXCEPT ![p] = "nobody"]
                            /\ Busy' /\ Waived' = Waived
<1> DEFINE p == d.path
<1>1. p \in Paths /\ disk' = [disk EXCEPT ![p] = Gone] /\ Generated(disk[p])
  BY RemoveStep
<1>2. Held' = [Held EXCEPT ![p] = "nobody"]
  BY <1>1, HolderLemma DEF Safe, Held, Holder
<1>3. Held[p] = "generator"
  BY <1>1, TextsAssumption DEF Held, Holder, Generated, Authored
<1> QED
  BY <1>1, <1>2, <1>3, WorkingLemma

\* What the author does is the contract's AuthorTakes, or touches no file.
LEMMA AuthorLemma ==
    ASSUME Safe, Author
    PROVE  /\ ~Busy /\ ~Busy' /\ Waived' = Waived
           /\ \/ Held' = Held
              \/ \E p \in Paths : \E h \in Contract!Holders :
                    Held' = [Held EXCEPT ![p] = h]
<1>1. run' = run /\ Quiet
  BY DEF Author, EditSpec, EditFile, HandWrite, DeleteFile, CheckOut,
     RestoreLock, DeleteLock
<1>2. ~Busy /\ ~Busy' /\ Waived' = Waived
  BY <1>1 DEF Quiet, Busy, Waived, Forced, Running
<1>3. \/ disk' = disk
      \/ \E p \in Paths : \E c : disk' = [disk EXCEPT ![p] = c]
  <2>1. ASSUME NEW e \in Entities, NEW s \in Shapes, NEW f \in Emits[e][s],
               CheckOut(e, s, f)
        PROVE  \E p \in Paths : \E c : disk' = [disk EXCEPT ![p] = c]
    <3>1. f.path \in Paths
      BY EmitsAssumption DEF File
    <3> QED
      BY <2>1, <3>1 DEF CheckOut
  <2>2. ASSUME NEW p \in Paths,
               (\E t \in AuthorTexts : EditFile(p, t) \/ HandWrite(p, t))
               \/ DeleteFile(p)
        PROVE  \E c : disk' = [disk EXCEPT ![p] = c]
    BY <2>2 DEF EditFile, HandWrite, DeleteFile
  <2>3. ASSUME (\E e \in Entities, s \in Shapes : EditSpec(e, s))
               \/ RestoreLock \/ DeleteLock
        PROVE  disk' = disk
    BY <2>3 DEF EditSpec, RestoreLock, DeleteLock
  <2> QED
    BY <2>1, <2>2, <2>3, Zenon DEF Author
<1>4. ASSUME NEW p \in Paths, NEW c, disk' = [disk EXCEPT ![p] = c]
      PROVE  \E h \in Contract!Holders : Held' = [Held EXCEPT ![p] = h]
  <2>1. Holder(c) \in Contract!Holders
    BY DEF Holder, Contract!Holders
  <2>2. Held' = [Held EXCEPT ![p] = Holder(c)]
    BY <1>4, HolderLemma DEF Safe, Held
  <2> QED
    BY <2>1, <2>2
<1> QED
  BY <1>2, <1>3, <1>4 DEF Held

\* The commands keep the contract AuthorsWork states, turn by turn.
THEOREM Implementation == ~Overlap => (Spec => KeepsContract)
<1> SUFFICES ASSUME ~Overlap PROVE Spec => Contract!Spec
  BY DEF KeepsContract
<1>1. Init => Contract!Init
  BY DEF Init, Contract!Init, Holder, Forced, Running
<1>2. ASSUME Safe, [Next]_vars
      PROVE  Contract!Next \/ UNCHANGED <<Held, Busy, Waived>>
  <2>1. ASSUME NEW r \in Runs, NEW e \in Entities,
               (\E force \in SUBSET Paths : StartGenerate(r, e, force)) \/ StartPrune(r, e)
        PROVE  Contract!Next
    BY <1>2, <2>1, BeginLemma DEF Contract!Next, Contract!Begin, Held, Busy, Waived
  <2>2. ASSUME NEW r \in Runs, SaveLock(r) \/ Crash(r) \/ CrashSaving(r)
        PROVE  Contract!Next
    BY <1>2, <2>2, EndLemma DEF Contract!Next, Contract!End, Held, Busy, Waived
  <2>3. ASSUME NEW r \in Runs, NEW d \in run[r].todo,
               Running(r, "generate"), Writes(d.action),
               ApplyDecision(r, d) \/ CrashWriting(r, d)
        PROVE  Contract!Next
    BY <1>2, <2>3, WriteLemma DEF Contract!Next, Contract!Write, Held, Busy, Waived
  <2>4. ASSUME NEW r \in Runs, NEW d \in run[r].todo,
               Running(r, "prune"), d.kind = "delete", PruneNext(r, d)
        PROVE  Contract!Next
    BY <1>2, <2>4, RemoveLemma DEF Contract!Next, Contract!Remove, Held, Busy, Waived
  <2>5. ASSUME NEW r \in Runs, NEW d \in run[r].todo,
               \/ Running(r, "generate") /\ ApplyDecision(r, d) /\ ~Writes(d.action)
               \/ Running(r, "prune") /\ PruneNext(r, d) /\ d.kind # "delete"
        PROVE  UNCHANGED <<Held, Busy, Waived>>
    <3>1. disk' = disk
      BY <2>5 DEF ApplyDecision, PruneNext
    <3>2. Busy /\ Busy' /\ Waived' = Waived
      BY <1>2, <2>5, WorkingLemma
    <3> QED
      BY <3>1, <3>2 DEF Held, Busy
  <2>6. ASSUME NEW p \in Paths, Adopt(p)
        PROVE  UNCHANGED <<Held, Busy, Waived>>
    BY <2>6 DEF Adopt, Held, Busy, Waived, Forced, Running
  <2>7. ASSUME Author PROVE Contract!Next \/ UNCHANGED <<Held, Busy, Waived>>
    BY <1>2, <2>7, AuthorLemma
    DEF Contract!Next, Contract!AuthorTakes, Held, Busy, Waived
  <2>8. CASE UNCHANGED vars
    BY <2>8 DEF vars, Held, Busy, Waived, Forced, Running
  <2>9. ASSUME NEW r \in Runs, NEW d \in run[r].todo, CrashWriting(r, d)
        PROVE  Writes(d.action)
    BY <2>9 DEF CrashWriting
  <2>10. ASSUME Generate \/ Prune
         PROVE  Contract!Next \/ UNCHANGED <<Held, Busy, Waived>>
    BY <2>1, <2>3, <2>4, <2>5, <2>10, Zenon DEF Generate, Prune
  <2>11. ASSUME Failure PROVE Contract!Next
    BY <2>2, <2>3, <2>9, <2>11, Zenon DEF Failure
  <2> QED
    BY <1>2, <2>2, <2>6, <2>7, <2>8, <2>10, <2>11, Zenon DEF Next, Command
<1>3. Spec => []Safe
  BY Safety
<1> QED
  BY <1>1, <1>2, <1>3, PTL DEF Spec, Contract!Spec, Held, Busy, Waived

-----------------------------------------------------------------------------
(* Where records come from.                                                *)

\* Replacing a record by one of a file its entity emits, or by none, or by
\* the same, leaves every record attributed.
LEMMA AttributedLemma ==
    ASSUME NEW l \in Lock, Attributed(l), NEW e \in Entities, NEW p \in Paths,
           NEW rec \in Record \cup {NoRecord},
           \/ rec = l[e][p]
           \/ rec = NoRecord
           \/ \E s \in Shapes : \E g \in Emits[e][s] :
                 /\ g.path = p /\ rec.class = g.class
                 /\ rec.adopted \/ rec.hash = Sealed(e, g)
    PROVE  Attributed(WithRecord(l, e, p, rec))
<1> DEFINE new == WithRecord(l, e, p, rec)
<1>1. \A o \in Entities, q \in Paths :
         new[o][q] = IF o = e /\ q = p THEN rec ELSE l[o][q]
  BY WithRecordLemma
<1> HIDE DEF new
<1>2. Attributed(new)
  BY <1>1 DEF Attributed, Recorded
<1> QED
  BY <1>2 DEF new

LEMMA AttributionInit == Init => RecordsAreAttributed
BY DEF Init, RecordsAreAttributed, Attributed, Recorded, EmptyLock

\* A command's own lock changes by the records of the files it deals with.
LEMMA ApplyAttribution ==
    ASSUME Safe, RecordsAreAttributed, NEW r \in Runs, NEW d \in run[r].todo,
           \/ Running(r, "generate") /\ ApplyDecision(r, d)
           \/ Running(r, "prune") /\ PruneNext(r, d)
    PROVE  RecordsAreAttributed'
<1> DEFINE e == run[r].entity
           mem == run[r].mem
<1>1. /\ run[r] # Idle /\ e \in Entities /\ mem \in Lock /\ Attributed(mem)
      /\ lock' = lock
      /\ \A q \in Runs : q # r => run'[q] = run[q]
  BY DEF Safe, TypeOK, Running, Generation, Pruning, RecordsAreAttributed,
     ApplyDecision, PruneNext
<1>2. ASSUME Running(r, "generate"), ApplyDecision(r, d)
      PROVE  Attributed(run'[r].mem)
  <2> DEFINE p == d.file.path
             old == mem[e][p]
             rec == RecordAfter(e, d.file, d.action, old)
  <2>1. /\ d.file \in File /\ d.action \in Actions /\ p \in Paths
        /\ \E s \in Shapes : d.file \in Emits[e][s]
    BY <1>2 DEF Safe, TypeOK, PlansHold, GenerationHolds, Running, Generation,
       Pruning, File
  <2>2. old \in Record \cup {NoRecord}
    BY <1>1, <2>1 DEF Lock
  <2>3. /\ rec \in Record \cup {NoRecord}
        /\ \/ rec = old
           \/ rec = NoRecord
           \/ rec.hash = Sealed(e, d.file) /\ rec.class = d.file.class
    <3> HIDE DEF e, old
    <3> QED BY <1>1, <2>1, <2>2, RecordAfterLemma
  <2>4. run'[r].mem = WithRecord(mem, e, p, rec)
    BY <1>2 DEF ApplyDecision, Safe, TypeOK
  <2> HIDE DEF rec, e, mem
  <2>5. Attributed(WithRecord(mem, e, p, rec))
    BY <1>1, <2>1, <2>3, AttributedLemma
  <2> QED
    BY <2>4, <2>5
<1>3. ASSUME Running(r, "prune"), PruneNext(r, d)
      PROVE  Attributed(run'[r].mem)
  <2>1. d.path \in Paths
    BY <1>3 DEF Safe, TypeOK, Running, Generation, Pruning
  <2>2. run'[r].mem = WithRecord(mem, e, d.path, NoRecord)
    BY <1>3 DEF PruneNext, Safe, TypeOK
  <2> QED
    BY <1>1, <2>1, <2>2, AttributedLemma
<1>4. Attributed(run'[r].mem) /\ Attributed(lock)
  BY <1>2, <1>3 DEF RecordsAreAttributed
<1>5. \A q \in Runs : run'[q] # Idle => Attributed(run'[q].mem)
  <2> HIDE DEF e, mem
  <2> QED BY <1>1, <1>4 DEF RecordsAreAttributed
<1> QED
  BY <1>1, <1>4, <1>5 DEF RecordsAreAttributed, Attributed

\* An adoption keeps the record's class.
LEMMA AdoptAttribution ==
    ASSUME Safe, RecordsAreAttributed, NEW p \in Paths, Adopt(p)
    PROVE  Attributed(lock)'
<1>1. PICK e \in Entities :
         /\ IsAdopter(lock, e, p)
         /\ lock' = WithRecord(lock, e, p, [class |-> lock[e][p].class,
                                           hash |-> disk[p], adopted |-> TRUE])
  BY DEF Adopt
<1> DEFINE rec == [class |-> lock[e][p].class, hash |-> disk[p], adopted |-> TRUE]
<1>2. lock \in Lock /\ Recorded(lock, e, p)
  BY <1>1 DEF IsAdopter, Claimants, Safe, TypeOK
<1>3. rec \in Record /\ rec.adopted /\ rec.class = lock[e][p].class
  BY <1>2 DEF Adopt, Recorded, Lock, Record, Safe, TypeOK
<1>4. PICK s \in Shapes : \E g \in Emits[e][s] :
         g.path = p /\ lock[e][p].class = g.class
  BY <1>2 DEF RecordsAreAttributed, Attributed
<1>5. \E x \in Shapes : \E g \in Emits[e][x] :
         /\ g.path = p /\ rec.class = g.class
         /\ rec.adopted \/ rec.hash = Sealed(e, g)
  BY <1>3, <1>4
<1> HIDE DEF rec
<1>6. Attributed(WithRecord(lock, e, p, rec))
  BY <1>2, <1>3, <1>5, AttributedLemma DEF RecordsAreAttributed
<1>7. lock' = WithRecord(lock, e, p, rec)
  BY <1>1 DEF rec
<1> QED
  BY <1>6, <1>7 DEF Attributed

LEMMA AttributionStep ==
    ASSUME Safe, RecordsAreAttributed, [Next]_vars
    PROVE  RecordsAreAttributed'
<1>1. CASE UNCHANGED vars
  BY <1>1 DEF vars, RecordsAreAttributed, Attributed
<1>2. ASSUME NEW r \in Runs, NEW e \in Entities, NEW force,
             StartGenerate(r, e, force) \/ StartPrune(r, e)
      PROVE  RecordsAreAttributed'
  <2>1. lock' = lock /\ run'[r].mem = lock
    BY <1>2 DEF StartGenerate, StartPrune, Safe, TypeOK
  <2>2. \A q \in Runs : q # r => run'[q] = run[q]
    BY <1>2 DEF StartGenerate, StartPrune, Safe, TypeOK
  <2> QED
    BY <2>1, <2>2 DEF RecordsAreAttributed, Attributed
<1>3. ASSUME NEW r \in Runs, NEW d \in run[r].todo,
             \/ Running(r, "generate") /\ ApplyDecision(r, d)
             \/ Running(r, "prune") /\ PruneNext(r, d)
      PROVE  RecordsAreAttributed'
  BY <1>3, ApplyAttribution
<1>4. ASSUME NEW r \in Runs,
             \/ SaveLock(r) \/ Crash(r) \/ CrashSaving(r)
             \/ \E d \in run[r].todo : CrashWriting(r, d)
      PROVE  RecordsAreAttributed'
  <2>1. run[r] # Idle /\ run' = [run EXCEPT ![r] = Idle]
    BY <1>4 DEF SaveLock, Crash, CrashSaving, CrashWriting, Running
  <2>2. lock' = lock \/ lock' = run[r].mem
    BY <1>4 DEF SaveLock, Crash, CrashSaving, CrashWriting
  <2>3. \A q \in Runs : run'[q] # Idle => run'[q] = run[q]
    BY <2>1 DEF Safe, TypeOK
  <2> QED
    BY <2>1, <2>2, <2>3 DEF RecordsAreAttributed, Attributed
<1>5. ASSUME NEW p \in Paths, Adopt(p)
      PROVE  RecordsAreAttributed'
  <2>1. run' = run
    BY <1>5 DEF Adopt
  <2> QED
    BY <1>5, <2>1, AdoptAttribution DEF RecordsAreAttributed, Attributed
<1>6. ASSUME Author
      PROVE  RecordsAreAttributed'
  <2>1. run' = run /\ (lock' = lock \/ lock' = EmptyLock)
    BY <1>6 DEF Author, EditSpec, EditFile, HandWrite, DeleteFile, CheckOut,
       RestoreLock, DeleteLock
  <2> QED
    BY <2>1 DEF RecordsAreAttributed, Attributed, Recorded, EmptyLock
<1>7. CASE Generate
  <2>1. CASE \E r \in Runs, e \in Entities :
                \E force \in {s \in SUBSET Paths : Cardinality(s) <= MaxForce} :
                   StartGenerate(r, e, force)
    BY <2>1, <1>2
  <2>2. CASE \E r \in Runs : Running(r, "generate")
                /\ \E d \in run[r].todo : ApplyDecision(r, d)
    BY <2>2, <1>3
  <2> QED
    BY <1>7, <2>1, <2>2 DEF Generate
<1>9. CASE Prune
  BY <1>9, <1>2, <1>3, Zenon DEF Prune
<1>8. CASE Failure \/ \E r \in Runs : SaveLock(r)
  BY <1>8, <1>4 DEF Failure
<1> QED
  BY <1>1, <1>5, <1>6, <1>7, <1>8, <1>9 DEF Next, Command

\* Records are of files their entities may produce, whatever overlaps.
LEMMA Attribution == Spec => []RecordsAreAttributed
<1>1. Safe /\ RecordsAreAttributed /\ [Next]_vars => RecordsAreAttributed'
  BY AttributionStep
<1> QED
  BY <1>1, AttributionInit, Safety, PTL DEF Spec

-----------------------------------------------------------------------------
(* When commands take turns, plans are current.                            *)

\* Apply drops a record of migrations only, makes no adoption, and records
\* whatever it writes.
LEMMA RecordKeptLemma ==
    ASSUME NEW e \in Entities, NEW f \in File, NEW a \in Actions,
           NEW rec \in Record \cup {NoRecord},
           f.class = "hook" => a # "unchanged"
    PROVE  /\ Adopted(RecordAfter(e, f, a, rec)) => Adopted(rec)
           /\ \/ f.path \in Migrations
              \/ RecordAfter(e, f, a, rec) # NoRecord
              \/ rec = NoRecord /\ ~Writes(a)
<1> DEFINE fresh == [class |-> f.class, hash |-> Sealed(e, f), adopted |-> FALSE]
           new == RecordAfter(e, f, a, rec)
<1>1. fresh \in Record /\ ~fresh.adopted
  BY SealedLemma DEF Record, File
<1>2. fresh # NoRecord /\ ~Adopted(fresh)
  BY <1>1, NoRecordAssumption DEF Adopted
<1>3. f.class \in {"owned", "hook"}
  BY DEF File, Classes
<1> HIDE DEF fresh
<1>4. new \in {rec, NoRecord, fresh}
  BY Zenon DEF RecordAfter, fresh
<1>5. Adopted(new) => Adopted(rec)
  BY <1>2, <1>4 DEF Adopted
<1>6. Writes(a) => f.path \in Migrations \/ new = fresh
  BY <1>3 DEF RecordAfter, TracksAsHook, fresh
<1>7. ~Writes(a) => f.path \in Migrations \/ new = rec \/ new = fresh
  BY <1>3 DEF RecordAfter, TracksAsHook, fresh
<1> QED
  BY <1>2, <1>4, <1>5, <1>6, <1>7

\* A file that has been dealt with would not be written again.
LEMMA SettledLemma ==
    ASSUME NEW e \in Entities, NEW f \in File, NEW c \in Content \cup {Gone},
           NEW rec \in Record \cup {NoRecord}, NEW forced \in BOOLEAN,
           NEW a, a = Decide(e, f, c, rec, forced),
           NEW now, now = IF Writes(a) THEN Sealed(e, f) ELSE c
    PROVE  ~Writes(Decide(e, f, now, RecordAfter(e, f, a, rec), FALSE))
<1> DEFINE new == RecordAfter(e, f, a, rec)
<1>1. f.class \in {"owned", "hook"}
  BY DEF File, Classes
<1>2. Sealed(e, f) # Gone
  BY SealedLemma
<1>3. f.class = "owned" => Tracked(Sealed(e, f)) /\ Intact(Sealed(e, f))
  BY DEF Sealed, Tracked, Intact
<1>4. now # Gone
  BY <1>2 DEF Decide, Writes
<1>5. CASE f.class = "hook"
  BY <1>4, <1>5 DEF Decide, Writes
<1>6. CASE f.class = "owned" /\ a \in {"create", "update", "unchanged"}
  <2>1. now = Sealed(e, f)
    BY <1>6, <1>1 DEF Decide, Writes
  <2> HIDE DEF new
  <2>2. Decide(e, f, Sealed(e, f), new, FALSE) \in {"kept", "unchanged"}
    BY <1>2, <1>3, <1>6 DEF Decide
  <2>3. Decide(e, f, now, new, FALSE) \in {"kept", "unchanged"}
    BY <2>1, <2>2, Zenon
  <2>4. ~Writes(Decide(e, f, now, new, FALSE))
    BY <2>3 DEF Writes
  <2> QED
    BY <2>4 DEF new
<1>7. CASE f.class = "owned" /\ a \in {"kept", "refused"}
  <2>1. now = c /\ new = rec
    BY <1>7 DEF Writes, RecordAfter
  <2>2. Adopted(rec) \/ ~Tracked(c) \/ ~Intact(c)
    BY <1>7 DEF Decide
  <2> HIDE DEF new
  <2> QED
    BY <1>4, <1>7, <2>1, <2>2 DEF Decide, Writes, new
<1>8. a \in Actions
  BY DecideLemma
<1> QED
  BY <1>1, <1>5, <1>6, <1>7, <1>8 DEF Actions

\* An adopted file is kept.
LEMMA AdoptionLemma ==
    ASSUME NEW e, NEW f, NEW c, NEW rec, NEW forced, Adopted(rec), c # Gone
    PROVE  Decide(e, f, c, rec, forced) = "kept"
BY DEF Decide

LEMMA StartGenerateTurn ==
    ASSUME ~Overlap, Safe, PlansAreCurrent, NEW r \in Runs, NEW e \in Entities,
           NEW force \in SUBSET Paths, StartGenerate(r, e, force)
    PROVE  PlansAreCurrent'
<1> DEFINE action(f) == Decide(e, f, disk[f.path], lock[e][f.path], f.path \in force)
           todo == {[file |-> f, action |-> action(f)] : f \in Files(e)}
           new == [cmd |-> "generate", entity |-> e, mem |-> lock, force |-> force,
                   todo |-> todo]
<1>1. /\ run' = [run EXCEPT ![r] = new]
      /\ \A q \in Runs : run[q] = Idle
      /\ UNCHANGED <<disk, lock, readable, spec>>
  BY DEF StartGenerate, MayStart, Quiet
<1>2. /\ run'[r] = new
      /\ \A q \in Runs : q # r => run'[q] = Idle
  BY <1>1 DEF Safe, TypeOK
<1>3. /\ new.cmd = "generate" /\ new.entity = e /\ new.mem = lock
      /\ new.force = force /\ new.todo = todo
  OBVIOUS
<1>4. \A d \in todo : d.file \in Files(e) /\ d.action = action(d.file)
  <2> HIDE DEF action
  <2> QED OBVIOUS
<1>5. \A f \in Files(e) : \E d \in todo : d.file = f
  <2> HIDE DEF action
  <2> SUFFICES ASSUME NEW f \in Files(e) PROVE \E d \in todo : d.file = f
    OBVIOUS
  <2>1. [file |-> f, action |-> action(f)] \in todo
    OBVIOUS
  <2> QED BY <2>1
<1>6. Files(e)' = Files(e)
  BY <1>1 DEF Files
<1> HIDE DEF todo, new
<1>7. MemoryIsCurrent(r)'
  BY <1>1, <1>2, <1>3 DEF PlansAreCurrent, MemoryIsCurrent
<1>8. GenerationIsCurrent(r)'
  BY <1>1, <1>2, <1>3, <1>4, <1>5, <1>6, ZenonT(40) DEF GenerationIsCurrent
<1> QED
  BY <1>1, <1>2, <1>3, <1>7, <1>8 DEF PlansAreCurrent, Running

LEMMA StartPruneTurn ==
    ASSUME ~Overlap, Safe, PlansAreCurrent, NEW r \in Runs, NEW e \in Entities, StartPrune(r, e)
    PROVE  PlansAreCurrent'
<1> DEFINE kind(p) == PruneKind(lock, e, p, disk[p])
           doomed == {p \in Leftovers(e) : kind(p) # "keep"}
           todo == {[path |-> p, kind |-> kind(p)] : p \in doomed}
           new == [cmd |-> "prune", entity |-> e, mem |-> lock, todo |-> todo]
<1>1. /\ run' = [run EXCEPT ![r] = new]
      /\ \A q \in Runs : run[q] = Idle
      /\ UNCHANGED <<disk, lock, readable, spec>>
  BY DEF StartPrune, MayStart, Quiet
<1>2. /\ run'[r] = new
      /\ \A q \in Runs : q # r => run'[q] = Idle
  BY <1>1 DEF Safe, TypeOK
<1>3. /\ new.cmd = "prune" /\ new.entity = e /\ new.mem = lock /\ new.todo = todo
  OBVIOUS
<1>4. \A d \in todo : d.path \in Leftovers(e) /\ d.kind = kind(d.path)
  <2> HIDE DEF kind
  <2> QED OBVIOUS
<1>5. Leftovers(e)' = Leftovers(e)
  BY <1>1 DEF Leftovers, Recorded, Produces, Files
<1> HIDE DEF todo, new
<1>6. MemoryIsCurrent(r)'
  BY <1>1, <1>2, <1>3 DEF PlansAreCurrent, MemoryIsCurrent
<1>7. PruningIsCurrent(r)'
  <2>1. \A p : (PruneKind(lock, e, p, disk[p]))' = PruneKind(lock, e, p, disk[p])
    BY <1>1 DEF PruneKind, ClaimedByOther, Claimants, Recorded
  <2> QED
    BY <1>1, <1>2, <1>3, <1>4, <1>5, <2>1 DEF PruningIsCurrent
<1> QED
  BY <1>1, <1>2, <1>3, <1>6, <1>7 DEF PlansAreCurrent, Running

LEMMA ApplyTurn ==
    ASSUME ~Overlap, Safe, PlansAreCurrent, NEW r \in Runs, Running(r, "generate"),
           NEW d \in run[r].todo, ApplyDecision(r, d)
    PROVE  PlansAreCurrent'
<1> DEFINE e == run[r].entity
           p == d.file.path
           old == run[r].mem[e][p]
           rec == RecordAfter(e, d.file, d.action, old)
           mem == WithRecord(run[r].mem, e, p, rec)
           new == [cmd |-> "generate", entity |-> e, force |-> run[r].force,
                   todo |-> run[r].todo \ {d}, mem |-> mem]
<1>1. /\ run[r] \in Generation /\ e \in Entities /\ p \in Paths
      /\ d.file \in File /\ d.action \in Actions
      /\ run[r].mem \in Lock /\ old \in Record \cup {NoRecord}
      /\ disk[p] \in Content \cup {Gone} /\ spec[e] \in Shapes
  BY DEF Safe, TypeOK, Running, Generation, Pruning, File, Lock
<1>2. /\ run' = [run EXCEPT ![r] = new]
      /\ run'[r] = new
      /\ \A q \in Runs : q # r => run[q] = Idle /\ run'[q] = Idle
      /\ UNCHANGED <<lock, readable, spec>>
  BY DEF ApplyDecision, Safe, TypeOK, OneCommand, Running
<1>3. /\ new.cmd = "generate" /\ new.entity = e /\ new.mem = mem
      /\ new.force = run[r].force /\ new.todo = run[r].todo \ {d}
  OBVIOUS
<1>4. /\ \A q \in Paths : q # p => disk'[q] = disk[q]
      /\ disk'[p] = IF Writes(d.action) THEN Sealed(e, d.file) ELSE disk[p]
  BY <1>1 DEF ApplyDecision, Safe, TypeOK
<1>5. /\ MemoryIsCurrent(r) /\ GenerationIsCurrent(r)
      /\ d.file \in Files(e) /\ old = lock[e][p]
      /\ d.action = Decide(e, d.file, disk[p], old, p \in run[r].force)
  BY DEF PlansAreCurrent, GenerationIsCurrent, Running
<1>6. d.file.class = "hook" => d.action # "unchanged"
  BY <1>5 DEF Decide
<1>7. /\ Adopted(rec) => Adopted(old)
      /\ p \in Migrations \/ rec # NoRecord \/ (old = NoRecord /\ ~Writes(d.action))
  <2> HIDE DEF e, old
  <2> QED
    BY <1>1, <1>6, RecordKeptLemma
<1>8. rec \in Record \cup {NoRecord}
  BY <1>1, RecordAfterLemma
<1>9. ~Writes(Decide(e, d.file, disk'[p], rec, FALSE))
  <2> DEFINE forced == p \in run[r].force
  <2>1. forced \in BOOLEAN /\ d.action = Decide(e, d.file, disk[p], old, forced)
    BY <1>5
  <2> HIDE DEF forced, e, old
  <2> QED
    BY <1>1, <1>4, <2>1, SettledLemma
<1>10. \A o \in Entities, q \in Paths :
          mem[o][q] = IF o = e /\ q = p THEN rec ELSE run[r].mem[o][q]
  <2> DEFINE l == run[r].mem
  <2>1. /\ l \in Lock /\ e \in Entities /\ p \in Paths /\ rec \in Record \cup {NoRecord}
        /\ mem = WithRecord(l, e, p, rec)
    BY <1>1, <1>8
  <2> HIDE DEF rec, e, p, l, mem
  <2>2. \A o \in Entities, q \in Paths : mem[o][q] = IF o = e /\ q = p THEN rec ELSE l[o][q]
    BY <2>1, WithRecordLemma
  <2> QED BY <2>2 DEF l
<1>12. \A o \in run[r].todo : /\ o.file.path \in Paths
                              /\ o # d => o.file.path # p
  BY <1>1 DEF Safe, PlansHold, GenerationHolds, Generation, File
<1>13. /\ Files(e)' = Files(e)
       /\ \A f \in Files(e) : f.path \in Paths /\ (f.path = p => f = d.file)
  <2>1. Files(e)' = Files(e)
    BY <1>2 DEF Files
  <2>2. /\ Files(e) \subseteq File
        /\ \A f, g \in Files(e) : f.path = g.path => f = g
    <3> HIDE DEF e
    <3> QED BY <1>1, EmitsAssumption DEF Files
  <2>3. \A f \in Files(e) : f.path \in Paths
    BY <2>2 DEF File
  <2> QED BY <1>5, <2>1, <2>2, <2>3
\* An adopted edit is kept, and so is its record.
<1>16. p \in OwnedPaths /\ Authored(disk'[p]) /\ Adopted(old) => rec = old
  <2>1. SUFFICES ASSUME p \in OwnedPaths, Authored(disk'[p]), Adopted(old)
                 PROVE  rec = old
    OBVIOUS
  <2>2. d.file.class = "owned"
    BY <1>1, <1>5, <2>1 DEF OwnedPaths, Files
  <2>3. disk[p] # Gone
    BY <1>1, <1>4, <2>1, SealedLemma DEF Authored
  <2>4. d.action = "kept"
    BY <1>5, <2>1, <2>3 DEF Decide
  <2> QED
    BY <2>2, <2>4 DEF RecordAfter, Writes
<1> HIDE DEF mem, new, rec
<1>14. MemoryIsCurrent(r)'
  <2>1. ASSUME NEW o \in Entities, NEW q \in Paths
        PROVE  /\ o # e => mem[o][q] = lock[o][q]
               /\ Adopted(mem[o][q]) => Adopted(lock[o][q])
               /\ q \in OwnedPaths /\ Authored(disk'[q]) /\ Adopted(lock[o][q])
                     => mem[o][q] = lock[o][q]
               /\ Recorded(lock, o, q) =>
                     q \in Migrations \/ Recorded(mem, o, q) \/ ~Generated(disk'[q])
    <3>1. CASE o = e /\ q = p
      BY <1>5, <1>7, <1>10, <1>16, <3>1 DEF Recorded
    <3>2. CASE q # p
      BY <1>4, <1>5, <1>10, <3>2 DEF MemoryIsCurrent, Recorded
    <3>3. CASE o # e
      BY <1>4, <1>5, <1>10, <3>3 DEF MemoryIsCurrent, Recorded
    <3> QED
      BY <3>1, <3>2, <3>3
  <2> QED
    BY <1>2, <1>3, <2>1 DEF MemoryIsCurrent, Recorded
<1>15. GenerationIsCurrent(r)'
  <2>1. ASSUME NEW o \in run[r].todo \ {d}
        PROVE  LET x == o.file.path
               IN  /\ o.file \in Files(e)
                   /\ mem[e][x] = lock[e][x]
                   /\ o.action = Decide(e, o.file, disk'[x], lock[e][x],
                                        x \in run[r].force)
    <3>1. o.file.path \in Paths /\ o.file.path # p
      BY <1>12
    <3>2. /\ disk'[o.file.path] = disk[o.file.path]
          /\ mem[e][o.file.path] = run[r].mem[e][o.file.path]
      <4> HIDE DEF e, p
      <4> QED BY <1>1, <1>4, <1>10, <3>1
    <3> QED
      BY <1>5, <3>2 DEF GenerationIsCurrent
  <2>2. ASSUME NEW f \in Files(e)
        PROVE  \/ \E o \in run[r].todo \ {d} : o.file = f
               \/ ~Writes(Decide(e, f, disk'[f.path], mem[e][f.path], FALSE))
    <3>1. CASE f = d.file
      BY <1>1, <1>9, <1>10, <3>1
    <3>2. CASE f # d.file
      <4>1. f.path \in Paths /\ f.path # p
        BY <1>13, <3>2
      <4>2. disk'[f.path] = disk[f.path] /\ mem[e][f.path] = run[r].mem[e][f.path]
        BY <1>1, <1>4, <1>10, <4>1
      <4>3. \/ \E o \in run[r].todo : o.file = f
            \/ ~Writes(Decide(e, f, disk[f.path], run[r].mem[e][f.path], FALSE))
        BY <1>5 DEF GenerationIsCurrent
      <4>4. CASE \E o \in run[r].todo : o.file = f
        BY <3>2, <4>4
      <4>5. CASE ~Writes(Decide(e, f, disk[f.path], run[r].mem[e][f.path], FALSE))
        BY <4>2, <4>5
      <4> QED
        BY <4>3, <4>4, <4>5
    <3> QED
      BY <3>1, <3>2
  <2> QED
    BY <1>2, <1>3, <1>13, <2>1, <2>2, ZenonT(40) DEF GenerationIsCurrent
<1> QED
  BY <1>2, <1>3, <1>14, <1>15 DEF PlansAreCurrent, Running

LEMMA PruneTurn ==
    ASSUME ~Overlap, Safe, PlansAreCurrent, NEW r \in Runs, Running(r, "prune"),
           NEW d \in run[r].todo, PruneNext(r, d)
    PROVE  PlansAreCurrent'
<1> DEFINE e == run[r].entity
           p == d.path
           mem == WithRecord(run[r].mem, e, p, NoRecord)
           new == [cmd |-> "prune", entity |-> e, todo |-> run[r].todo \ {d},
                   mem |-> mem]
<1>1. /\ run[r] \in Pruning /\ e \in Entities /\ p \in Paths
      /\ run[r].mem \in Lock
      /\ d.kind \in {"delete", "forget"}
  BY DEF Safe, TypeOK, Running, Generation, Pruning
<1>2. /\ run' = [run EXCEPT ![r] = new]
      /\ run'[r] = new
      /\ \A q \in Runs : q # r => run[q] = Idle /\ run'[q] = Idle
      /\ UNCHANGED <<lock, readable, spec>>
  BY DEF PruneNext, Safe, TypeOK, OneCommand, Running
<1>3. new.cmd = "prune" /\ new.entity = e /\ new.mem = mem /\ new.todo = run[r].todo \ {d}
  OBVIOUS
<1>4. /\ \A q \in Paths : q # p => disk'[q] = disk[q]
      /\ disk'[p] = IF d.kind = "delete" THEN Gone ELSE disk[p]
  BY <1>1 DEF PruneNext, Safe, TypeOK
<1>5. MemoryIsCurrent(r) /\ PruningIsCurrent(r)
  BY DEF PlansAreCurrent, Running
<1>6. disk'[p] = Gone
  <2>1. d.kind = PruneKind(lock, e, p, disk[p])
    BY <1>5 DEF PruningIsCurrent
  <2> QED
    BY <1>1, <1>4, <2>1 DEF PruneKind
<1>7. \A o \in Entities, q \in Paths :
         mem[o][q] = IF o = e /\ q = p THEN NoRecord ELSE run[r].mem[o][q]
  BY <1>1, WithRecordLemma
<1>9. \A o \in run[r].todo : /\ o.path \in Paths
                             /\ o # d => o.path # p
  BY <1>1 DEF Safe, PlansHold, PruningHolds, Pruning
<1> HIDE DEF mem, new
<1>10. MemoryIsCurrent(r)'
  <2>1. ASSUME NEW o \in Entities, NEW q \in Paths
        PROVE  /\ o # e => mem[o][q] = lock[o][q]
               /\ Adopted(mem[o][q]) => Adopted(lock[o][q])
               /\ q \in OwnedPaths /\ Authored(disk'[q]) /\ Adopted(lock[o][q])
                     => mem[o][q] = lock[o][q]
               /\ Recorded(lock, o, q) =>
                     q \in Migrations \/ Recorded(mem, o, q) \/ ~Generated(disk'[q])
    <3>1. CASE o = e /\ q = p
      BY <1>6, <1>7, <3>1 DEF Adopted, Authored, Generated
    <3>2. CASE q # p
      BY <1>4, <1>5, <1>7, <3>2 DEF MemoryIsCurrent, Recorded
    <3>3. CASE o # e /\ q = p
      BY <1>5, <1>7, <3>3 DEF MemoryIsCurrent, Recorded
    <3> QED
      BY <3>1, <3>2, <3>3
  <2> QED
    BY <1>2, <1>3, <2>1 DEF MemoryIsCurrent, Recorded
<1>11. PruningIsCurrent(r)'
  <2>1. \A x \in Entities : Leftovers(x)' = Leftovers(x)
    BY <1>2 DEF Leftovers, Recorded, Produces, Files
  <2>2. ASSUME NEW o \in run[r].todo \ {d}
        PROVE  /\ o.path \in Leftovers(e)
               /\ o.kind = PruneKind(lock, e, o.path, disk'[o.path])
    <3>1. o.path \in Paths /\ o.path # p
      BY <1>9
    <3>2. disk'[o.path] = disk[o.path]
      <4> HIDE DEF p
      <4> QED BY <1>4, <3>1
    <3> QED
      BY <1>5, <3>2 DEF PruningIsCurrent
  <2> QED
    BY <1>1, <1>2, <1>3, <2>1, <2>2 DEF PruningIsCurrent
<1> QED
  BY <1>2, <1>3, <1>10, <1>11 DEF PlansAreCurrent, Running

\* A command that ends, or dies, leaves none; and adopt and the author meet none.
LEMMA IdleTurn ==
    ASSUME ~Overlap, Safe, PlansAreCurrent,
           \/ \E r \in Runs :
                 \/ SaveLock(r) \/ Crash(r) \/ CrashSaving(r)
                 \/ \E d \in run[r].todo : CrashWriting(r, d)
           \/ \E p \in Paths : Adopt(p)
           \/ Author
    PROVE  PlansAreCurrent'
<1>1. ASSUME NEW r \in Runs,
             \/ SaveLock(r) \/ Crash(r) \/ CrashSaving(r)
             \/ \E d \in run[r].todo : CrashWriting(r, d)
      PROVE  \A q \in Runs : run'[q] = Idle
  <2>1. run[r] # Idle /\ run' = [run EXCEPT ![r] = Idle]
    BY <1>1 DEF SaveLock, Crash, CrashSaving, CrashWriting, Running
  <2> QED
    BY <2>1 DEF Safe, TypeOK, OneCommand
<1>2. ASSUME Author \/ \E p \in Paths : Adopt(p)
      PROVE  \A q \in Runs : run'[q] = Idle
  BY <1>2 DEF Author, EditSpec, EditFile, HandWrite, DeleteFile, CheckOut,
     RestoreLock, DeleteLock, Adopt, MayStart, Quiet
<1> QED
  BY <1>1, <1>2 DEF PlansAreCurrent, Running

LEMMA TurnInit == Init => PlansAreCurrent
BY DEF Init, PlansAreCurrent, Running

LEMMA TurnStep ==
    ASSUME ~Overlap, Safe, PlansAreCurrent, [Next]_vars
    PROVE  PlansAreCurrent'
<1>1. CASE UNCHANGED vars
  <2>1. UNCHANGED <<disk, lock, spec, run>>
    BY <1>1 DEF vars
  <2>2. \A e \in Entities : Files(e)' = Files(e) /\ Leftovers(e)' = Leftovers(e)
    BY <2>1 DEF Files, Leftovers, Recorded, Produces
  <2>3. ASSUME NEW r \in Runs, run[r] # Idle
        PROVE  /\ MemoryIsCurrent(r)'
               /\ Running(r, "generate") => GenerationIsCurrent(r)'
               /\ Running(r, "prune") => PruningIsCurrent(r)'
    <3>1. run[r].entity \in Entities
      BY <2>3 DEF Safe, TypeOK, Generation, Pruning
    <3>2. MemoryIsCurrent(r)'
      BY <2>1, <2>3 DEF PlansAreCurrent, MemoryIsCurrent, Recorded
    <3>3. Running(r, "generate") => GenerationIsCurrent(r)'
      BY <2>1, <2>2, <3>1 DEF PlansAreCurrent, GenerationIsCurrent
    <3>4. Running(r, "prune") => PruningIsCurrent(r)'
      BY <2>1, <2>2, <3>1 DEF PlansAreCurrent, PruningIsCurrent
    <3> QED
      BY <3>2, <3>3, <3>4
  <2> QED
    BY <2>1, <2>3 DEF PlansAreCurrent, Running
<1>2. CASE Generate \/ Prune
  BY <1>2, StartGenerateTurn, ApplyTurn, StartPruneTurn, PruneTurn DEF Generate, Prune
<1>3. CASE Failure \/ \E r \in Runs : SaveLock(r)
  BY <1>3, IdleTurn DEF Failure
<1>4. CASE Author \/ \E p \in Paths : Adopt(p)
  BY <1>4, IdleTurn
<1> QED
  BY <1>1, <1>2, <1>3, <1>4 DEF Next, Command

\* When commands take turns, a plan is current until it is carried out.
LEMMA Turns == ~Overlap => (Spec => []PlansAreCurrent)
<1> SUFFICES ASSUME ~Overlap PROVE Spec => []PlansAreCurrent
  OBVIOUS
<1>1. Safe /\ PlansAreCurrent /\ [Next]_vars => PlansAreCurrent'
  BY TurnStep
<1> QED
  BY <1>1, TurnInit, Safety, PTL DEF Spec

\* Inv holds throughout.
THEOREM Invariance == Spec => []Inv
<1>1. CASE Overlap
  <2>1. Safe /\ RecordsAreAttributed => Inv
    BY <1>1 DEF Inv
  <2> QED
    BY <2>1, Safety, Attribution, PTL
<1>2. CASE ~Overlap
  <2>1. Safe /\ RecordsAreAttributed /\ PlansAreCurrent => Inv
    BY DEF Inv
  <2>2. Spec => []PlansAreCurrent
    BY <1>2, Turns
  <2> QED
    BY <2>1, <2>2, Safety, Attribution, PTL
<1> QED
  BY <1>1, <1>2

-----------------------------------------------------------------------------
(* What records say, whatever overlaps.                                    *)

\* A record names an entity that may produce the path.
LEMMA RecordedMayProduce ==
    ASSUME RecordsAreAttributed, NEW e \in Entities, NEW p \in Paths, Recorded(lock, e, p)
    PROVE  MayProduce(e, p)
BY DEF RecordsAreAttributed, Attributed, MayProduce

\* What is on record was a file.
LEMMA RecordedContent ==
    ASSUME TypeOK, NEW e \in Entities, NEW p \in Paths, Recorded(lock, e, p)
    PROVE  lock[e][p] \in Record /\ lock[e][p].hash # Gone
<1>1. lock[e][p] \in Record
  BY DEF TypeOK, Lock, Recorded
<1> QED
  BY <1>1, GoneAssumption DEF Record

-----------------------------------------------------------------------------
(* What follows when commands take turns.                                  *)

\* What a command writes it would decide to write now.
LEMMA WriteIsCurrent ==
    ASSUME ~Overlap, Inv, NEW r \in Runs, NEW d \in run[r].todo,
           Running(r, "generate"), Writes(d.action)
    PROVE  /\ run[r].entity \in Entities
           /\ d.file \in Files(run[r].entity)
           /\ LET e == run[r].entity
                  p == d.file.path
              IN  Writes(Decide(e, d.file, disk[p], lock[e][p], p \in run[r].force))
BY DEF Inv, Safe, TypeOK, PlansAreCurrent, GenerationIsCurrent, Running, Generation, Pruning

\* What a command removes is what its entity alone has on record as written.
LEMMA RemovalIsCurrent ==
    ASSUME ~Overlap, Inv, NEW r \in Runs, NEW d \in run[r].todo,
           Running(r, "prune"), d.kind = "delete"
    PROVE  LET e == run[r].entity
               p == d.path
           IN  /\ e \in Entities /\ p \in Paths
               /\ Recorded(lock, e, p) /\ ~Produces(e, p)
               /\ ~lock[e][p].adopted /\ disk[p] = lock[e][p].hash
               /\ \A o \in Claimants(lock, p) : o = e
<1> DEFINE e == run[r].entity
           p == d.path
<1>1. e \in Entities /\ p \in Leftovers(e) /\ PruneKind(lock, e, p, disk[p]) = "delete"
  BY DEF Inv, Safe, TypeOK, PlansAreCurrent, PruningIsCurrent, Running, Generation, Pruning
<1>2. p \in Paths /\ Recorded(lock, e, p) /\ ~Produces(e, p)
  BY <1>1 DEF Leftovers
<1> HIDE DEF e, p
<1>3. ~ClaimedByOther(lock, e, p) /\ ~lock[e][p].adopted /\ disk[p] = lock[e][p].hash
  BY <1>1 DEF PruneKind
<1>4. \A o \in Claimants(lock, p) : o = e
  BY <1>3 DEF ClaimedByOther
<1> QED
  BY <1>1, <1>2, <1>3, <1>4 DEF e, p

\* A step that is not the author's leaves the lock, or replaces it by what a
\* command carries, or adopts.
LEMMA LockStep ==
    ASSUME Command \/ Failure
    PROVE  /\ spec' = spec
           /\ \/ lock' = lock
              \/ \E r \in Runs : run[r] # Idle /\ lock' = run[r].mem
              \/ \E p \in Paths : Adopt(p)
BY DEF Command, Failure, Generate, Prune, StartGenerate, ApplyDecision, StartPrune,
   PruneNext, SaveLock, Adopt, Crash, CrashSaving, CrashWriting

\* A path changes only by a write or a removal at that path.
LEMMA ChangeLemma ==
    ASSUME Inv, Command \/ Failure, NEW p \in Paths, disk'[p] # disk[p]
    PROVE  \/ \E r \in Runs : \E d \in run[r].todo :
                Running(r, "generate") /\ Writes(d.action) /\ d.file.path = p
           \/ \E r \in Runs : \E d \in run[r].todo :
                Running(r, "prune") /\ d.kind = "delete" /\ d.path = p
<1>1. ASSUME NEW r \in Runs, NEW d \in run[r].todo,
             Running(r, "generate"), Writes(d.action),
             ApplyDecision(r, d) \/ CrashWriting(r, d)
      PROVE  d.file.path = p
  BY <1>1, WriteStep DEF Inv, Safe, TypeOK
<1>2. ASSUME NEW r \in Runs, NEW d \in run[r].todo,
             Running(r, "prune"), d.kind = "delete", PruneNext(r, d)
      PROVE  d.path = p
  BY <1>2, RemoveStep DEF Inv, Safe, TypeOK
<1> QED
  BY <1>1, <1>2, DiskStep

\* A refusal does not wear off: it ends when the path is forced, or adopted, or
\* the author does something about it.
THEOREM RefusalsStand == ~Overlap => (Spec => RefusalStands)
<1> SUFFICES ASSUME ~Overlap PROVE Spec => RefusalStands
  OBVIOUS
<1> DEFINE Stands == Author \/ \A e \in Entities, p \in OwnedPaths :
                       RefusedFor(e, p) => RefusedFor(e, p)' \/ Forced(p) \/ Adopt(p)
<1>1. ASSUME Inv, [Next]_vars PROVE [Stands]_vars
  <2>1. SUFFICES ASSUME Command \/ Failure, NEW e \in Entities, NEW p \in OwnedPaths,
                        RefusedFor(e, p), ~Forced(p), ~Adopt(p)
                 PROVE  RefusedFor(e, p)'
    BY <1>1 DEF Next
  <2>2. PICK f \in Files(e) :
           f.path = p /\ Decide(e, f, disk[p], lock[e][p], FALSE) = "refused"
    BY <2>1 DEF RefusedFor
  <2>3. /\ p \in Paths /\ disk[p] # Gone /\ f.class # "hook"
        /\ ~Adopted(lock[e][p]) /\ ~Intact(disk[p])
    BY <2>2 DEF OwnedPaths, Decide, Intact, Tracked
  <2>4. disk'[p] = disk[p]
    <3>1. ASSUME NEW r \in Runs, NEW d \in run[r].todo,
                 Running(r, "generate"), Writes(d.action), d.file.path = p
          PROVE  FALSE
      <4> DEFINE o == run[r].entity
                 forced == p \in run[r].force
      <4>1. forced = FALSE
        BY <2>1, <3>1 DEF Forced
      <4>2. Writes(Decide(o, d.file, disk[p], lock[o][p], forced))
        BY <1>1, <3>1, WriteIsCurrent
      <4> HIDE DEF o, forced
      <4> QED
        BY <2>3, <4>1, <4>2, WritesLemma
    <3>2. ASSUME NEW r \in Runs, NEW d \in run[r].todo,
                 Running(r, "prune"), d.kind = "delete", d.path = p
          PROVE  FALSE
      <4> DEFINE o == run[r].entity
      <4>1. /\ o \in Entities /\ Recorded(lock, o, p)
            /\ ~lock[o][p].adopted /\ disk[p] = lock[o][p].hash
        BY <1>1, <3>2, RemovalIsCurrent
      <4> HIDE DEF o
      <4>2. PICK s \in Shapes : \E x \in Emits[o][s] :
                                   x.path = p /\ disk[p] = Sealed(o, x)
        BY <1>1, <2>3, <4>1 DEF Inv, RecordsAreAttributed, Attributed
      <4>3. PICK g \in Emits[o][s] : g.path = p /\ disk[p] = Sealed(o, g)
        BY <4>2
      <4>4. g.class = "owned"
        BY <4>1, <4>3 DEF OwnedPaths
      <4> QED
        BY <2>3, <4>3, <4>4 DEF Intact, Sealed
    <3> QED
      BY <1>1, <2>1, <2>3, <3>1, <3>2, ChangeLemma
  <2>5. ~Adopted(lock'[e][p])
    <3>1. CASE lock' = lock
      BY <2>3, <3>1
    <3>2. ASSUME NEW r \in Runs, run[r] # Idle, lock' = run[r].mem
          PROVE  ~Adopted(lock'[e][p])
      BY <1>1, <2>3, <3>2 DEF Inv, PlansAreCurrent, MemoryIsCurrent
    <3>3. ASSUME NEW q \in Paths, Adopt(q)
          PROVE  ~Adopted(lock'[e][p])
      <4>1. q # p
        BY <2>1, <3>3
      <4>2. lock'[e][p] = lock[e][p]
        BY <1>1, <2>3, <3>3, <4>1 DEF Adopt, WithRecord, Inv, Safe, TypeOK, Lock
      <4> QED
        BY <2>3, <4>2
    <3> QED
      BY <2>1, <3>1, <3>2, <3>3, LockStep
  <2>6. f \in Files(e)'
    BY <2>1, LockStep DEF Files
  <2>7. Decide(e, f, disk'[p], lock'[e][p], FALSE) = "refused"
    BY <2>3, <2>4, <2>5 DEF Decide
  <2> QED
    BY <2>2, <2>6, <2>7 DEF RefusedFor
<1>2. Spec => []Inv
  BY Invariance
<1> QED
  BY <1>1, <1>2, PTL DEF Spec, RefusalStands

\* Once a generation has saved, planning it again finds nothing to write.
THEOREM RegenerationIsNoOp == ~Overlap => (Spec => NoOpRegeneration)
<1> SUFFICES ASSUME ~Overlap PROVE Spec => NoOpRegeneration
  OBVIOUS
<1> DEFINE NoOp == \A r \in Runs : Running(r, "generate") /\ SaveLock(r) =>
                      LET e == run[r].entity
                      IN  \A f \in Files(e) :
                             ~Writes(Decide(e, f, disk'[f.path], lock'[e][f.path], FALSE))
<1>1. ASSUME Inv, [Next]_vars PROVE [NoOp]_vars
  <2>1. SUFFICES ASSUME NEW r \in Runs, Running(r, "generate"), SaveLock(r),
                        NEW f \in Files(run[r].entity)
                 PROVE  LET e == run[r].entity
                        IN  ~Writes(Decide(e, f, disk'[f.path], lock'[e][f.path], FALSE))
    BY Zenon
  <2>2. run[r].todo = {} /\ disk' = disk /\ lock' = run[r].mem
    BY <2>1 DEF SaveLock
  <2> QED
    BY <1>1, <2>1, <2>2 DEF Inv, PlansAreCurrent, GenerationIsCurrent
<1>2. Spec => []Inv
  BY Invariance
<1> QED
  BY <1>1, <1>2, PTL DEF Spec, NoOpRegeneration

\* A file of one entity's stays as it was adopted until the author changes it,
\* forced or not.
THEOREM AdoptionsAreKept == ~Overlap => (Spec => AdoptionKept)
<1> SUFFICES ASSUME ~Overlap PROVE Spec => AdoptionKept
  OBVIOUS
<1> DEFINE Kept == Author \/ \A e \in Entities, p \in SolePaths :
                     AdoptedAsIs(e, p) => disk'[p] = disk[p]
<1>1. ASSUME Inv, [Next]_vars PROVE [Kept]_vars
  <2>1. SUFFICES ASSUME Command \/ Failure, NEW e \in Entities, NEW p \in SolePaths,
                        AdoptedAsIs(e, p), disk'[p] # disk[p]
                 PROVE  FALSE
    BY <1>1 DEF Next
  <2>2. /\ p \in Paths /\ Recorded(lock, e, p) /\ Adopted(lock[e][p])
        /\ disk[p] = lock[e][p].hash
    BY <2>1 DEF SolePaths, AdoptedAsIs, Adopted, Recorded
  <2>3. disk[p] # Gone /\ MayProduce(e, p)
    BY <1>1, <2>2, RecordedContent, RecordedMayProduce DEF Inv, Safe
  <2>4. ASSUME NEW r \in Runs, NEW d \in run[r].todo,
               Running(r, "generate"), Writes(d.action), d.file.path = p
        PROVE  FALSE
    <3> DEFINE o == run[r].entity
               forced == p \in run[r].force
    <3>1. /\ o \in Entities /\ d.file \in Files(o)
          /\ Writes(Decide(o, d.file, disk[p], lock[o][p], forced))
      BY <1>1, <2>4, WriteIsCurrent
    <3> HIDE DEF o, forced
    <3>2. MayProduce(o, p)
      BY <1>1, <2>4, <3>1 DEF MayProduce, Files, Inv, Safe, TypeOK
    <3>3. o = e
      BY <2>3, <3>1, <3>2 DEF SolePaths
    <3> QED
      BY <2>2, <2>3, <3>1, <3>3, AdoptionLemma DEF Writes
  <2>5. ASSUME NEW r \in Runs, NEW d \in run[r].todo,
               Running(r, "prune"), d.kind = "delete", d.path = p
        PROVE  FALSE
    <3>1. e \in Claimants(lock, p)
      BY <2>2 DEF Claimants
    <3>2. e = run[r].entity /\ ~lock[e][p].adopted
      BY <1>1, <2>5, <3>1, RemovalIsCurrent
    <3> QED
      BY <2>2, <3>2 DEF Adopted
  <2> QED
    BY <1>1, <2>1, <2>2, <2>4, <2>5, ChangeLemma
<1>2. Spec => []Inv
  BY Invariance
<1> QED
  BY <1>1, <1>2, PTL DEF Spec, AdoptionKept

\* What regenerating leaves alone: a hook, an adopted file, one that was edited,
\* and one that is what would be written.
LEMMA LeftAloneLemma ==
    ASSUME NEW e, NEW f, NEW c, NEW rec
    PROVE  ~Writes(Decide(e, f, c, rec, FALSE)) <=>
              /\ c # Gone
              /\ f.class = "hook" \/ Adopted(rec) \/ ~Intact(c) \/ c = Sealed(e, f)
BY DEF Writes, Decide, Intact, Tracked

\* An adopted edit and its record outlast every command of every entity, unless
\* the path is forced for an entity that did not adopt it.
THEOREM AdoptionsOutlast == ~Overlap => (Spec => AdoptionOutlasts)
<1> SUFFICES ASSUME ~Overlap PROVE Spec => AdoptionOutlasts
  OBVIOUS
<1> DEFINE Outlasts == Author \/ \A e \in Entities, p \in OwnedPaths :
                         Authored(disk[p]) /\ AdoptedAsIs(e, p)
                            => AdoptedAsIs(e, p)' \/ ForcedByAnother(e, p)
<1>1. ASSUME Inv, [Next]_vars PROVE [Outlasts]_vars
  <2>1. SUFFICES ASSUME Command \/ Failure, NEW e \in Entities, NEW p \in OwnedPaths,
                        Authored(disk[p]), AdoptedAsIs(e, p), ~ForcedByAnother(e, p)
                 PROVE  AdoptedAsIs(e, p)'
    BY <1>1 DEF Next
  <2>2. /\ p \in Paths /\ disk[p] # Gone /\ ~Intact(disk[p])
        /\ Adopted(lock[e][p]) /\ lock[e][p].hash = disk[p]
    BY <1>1, <2>1, TextsAssumption
    DEF OwnedPaths, Authored, AdoptedAsIs, Inv, Safe, SealsAreGenerated, Generated
  <2>3. ASSUME NEW r \in Runs, NEW d \in run[r].todo,
               Running(r, "generate"), Writes(d.action), d.file.path = p
        PROVE  FALSE
    <3> DEFINE o == run[r].entity
               forced == p \in run[r].force
    <3>1. Writes(Decide(o, d.file, disk[p], lock[o][p], forced))
      BY <1>1, <2>3, WriteIsCurrent
    <3>2. o # e => forced = FALSE
      BY <2>1, <2>3 DEF ForcedByAnother
    <3> HIDE DEF o, forced
    <3>3. CASE o = e
      BY <2>2, <3>1, <3>3, AdoptionLemma DEF Writes
    <3>4. CASE o # e
      BY <2>2, <3>1, <3>2, <3>4, WritesLemma
    <3> QED
      BY <3>3, <3>4
  <2>4. ASSUME NEW r \in Runs, NEW d \in run[r].todo,
               Running(r, "prune"), d.kind = "delete", d.path = p
        PROVE  FALSE
    BY <1>1, <2>1, <2>4 DEF Inv, Safe, PlansHold, PruningHolds
  <2>5. disk'[p] = disk[p]
    BY <1>1, <2>1, <2>2, <2>3, <2>4, ChangeLemma
  <2>6. Adopted(lock'[e][p]) /\ lock'[e][p].hash = disk[p]
    <3>1. CASE lock' = lock
      BY <2>2, <3>1
    <3>2. ASSUME NEW r \in Runs, run[r] # Idle, lock' = run[r].mem
          PROVE  lock'[e][p] = lock[e][p]
      BY <1>1, <2>1, <2>2, <3>2 DEF Inv, PlansAreCurrent, MemoryIsCurrent
    <3>3. ASSUME NEW q \in Paths, Adopt(q)
          PROVE  Adopted(lock'[e][p]) /\ lock'[e][p].hash = disk[p]
      <4>1. PICK o \in Entities :
               /\ Recorded(lock, o, q)
               /\ lock' = WithRecord(lock, o, q, [class |-> lock[o][q].class,
                                                 hash |-> disk[q], adopted |-> TRUE])
        BY <3>3 DEF Adopt, IsAdopter, Claimants
      <4> DEFINE rec == [class |-> lock[o][q].class, hash |-> disk[q], adopted |-> TRUE]
      <4>2. lock \in Lock /\ rec \in Record
        BY <1>1, <3>3, <4>1 DEF Adopt, Recorded, Inv, Safe, TypeOK, Lock, Record
      <4>3. rec.hash = disk[q] /\ rec.adopted
        OBVIOUS
      <4>4. lock' = WithRecord(lock, o, q, rec)
        BY <4>1
      <4> HIDE DEF rec
      <4>5. lock'[e][p] = IF e = o /\ p = q THEN rec ELSE lock[e][p]
        BY <2>2, <4>2, <4>4, WithRecordLemma
      <4> QED
        BY <2>2, <4>2, <4>3, <4>5, NoRecordAssumption DEF Adopted
    <3> QED
      BY <2>1, <2>2, <3>1, <3>2, <3>3, LockStep
  <2> QED
    BY <2>5, <2>6 DEF AdoptedAsIs
<1>2. Spec => []Inv
  BY Invariance
<1> QED
  BY <1>1, <1>2, PTL DEF Spec, AdoptionOutlasts

\* What other entities do to a file they and an entity at rest agree on: leave
\* it, write what that entity would, or die writing it.
LEMMA AgreedLemma ==
    ASSUME ~Overlap, Inv, Command \/ Failure, NEW e \in Entities, AtRest(e),
           NEW f \in Files(e), f.path \in AgreedPaths, StandsFor(e, f)
    PROVE  \/ disk'[f.path] = disk[f.path]
           \/ disk'[f.path] = Sealed(e, f)
           \/ (disk'[f.path] # Gone /\ ~Intact(disk'[f.path]))
<1> DEFINE p == f.path
<1>1. p \in Paths
  BY DEF AgreedPaths
<1>2. ASSUME NEW r \in Runs, NEW d \in run[r].todo, Running(r, "generate"),
             Writes(d.action), ApplyDecision(r, d) \/ CrashWriting(r, d), d.file.path = p
      PROVE  disk'[p] = Sealed(e, f) \/ (disk'[p] # Gone /\ ~Intact(disk'[p]))
  <2>1. run[r].entity \in Entities /\ d.file \in Files(run[r].entity) /\ run[r].entity # e
    BY <1>2, WriteIsCurrent DEF AtRest, Running
  <2>2. d.file = f /\ f.shared
    BY <1>2, <2>1 DEF AgreedPaths, Files, Inv, Safe, TypeOK
  <2>3. CASE ApplyDecision(r, d)
    BY <1>1, <1>2, <2>2, <2>3 DEF ApplyDecision, Sealed, Inv, Safe, TypeOK
  <2>4. CASE CrashWriting(r, d)
    <3>1. PICK c \in Content : /\ disk' = [disk EXCEPT ![p] = c]
                               /\ c # Gone /\ ~Authored(c)
      BY <1>2, WriteStep DEF Inv
    <3>2. PICK seal \in {"bare", "broken"} :
             disk' = [disk EXCEPT ![p] =
                        [seal |-> seal, text |-> Torn,
                         by |-> Sealed(run[r].entity, d.file).by]]
      BY <1>2, <2>4 DEF CrashWriting
    <3> QED
      BY <1>1, <3>1, <3>2 DEF Intact, Inv, Safe, TypeOK
  <2> QED
    BY <1>2, <2>3, <2>4
<1>3. ASSUME NEW r \in Runs, NEW d \in run[r].todo, Running(r, "generate"),
             Writes(d.action), ApplyDecision(r, d) \/ CrashWriting(r, d), d.file.path # p
      PROVE  disk'[p] = disk[p]
  BY <1>1, <1>3, WriteStep DEF Inv, Safe, TypeOK
<1>4. ASSUME NEW r \in Runs, NEW d \in run[r].todo, Running(r, "prune"),
             d.kind = "delete", PruneNext(r, d)
      PROVE  disk'[p] = disk[p]
  <2>1. e \in Claimants(lock, p) /\ run[r].entity # e
    BY <1>4 DEF StandsFor, Claimants, AtRest, Running
  <2>2. d.path # p
    BY <1>4, <2>1, RemovalIsCurrent
  <2> QED
    BY <1>1, <1>4, <2>2, RemoveStep DEF Inv, Safe, TypeOK
<1> QED
  BY <1>2, <1>3, <1>4, DiskStep

\* What an entity generated stays generated while others are at work.
THEOREM NeighboursAreKept == ~Overlap => (Spec => NeighboursStayCurrent)
<1> SUFFICES ASSUME ~Overlap PROVE Spec => NeighboursStayCurrent
  OBVIOUS
<1> DEFINE Stay == Author \/ \A e \in Entities : AtRest(e) =>
                     \A f \in Files(e) : f.path \in AgreedPaths /\ StandsFor(e, f)
                        => StandsFor(e, f)'
<1>1. ASSUME Inv, [Next]_vars PROVE [Stay]_vars
  <2>1. SUFFICES ASSUME Command \/ Failure, NEW e \in Entities, AtRest(e),
                        NEW f \in Files(e), f.path \in AgreedPaths, StandsFor(e, f)
                 PROVE  StandsFor(e, f)'
    BY <1>1 DEF Next
  <2> DEFINE p == f.path
  <2>2. p \in Paths /\ f \in File
    BY <1>1, <2>1, EmitsAssumption DEF AgreedPaths, Files, Inv, Safe, TypeOK
  <2>3. /\ Recorded(lock, e, p) /\ disk[p] # Gone
        /\ f.class = "hook" \/ Adopted(lock[e][p]) \/ ~Intact(disk[p])
              \/ disk[p] = Sealed(e, f)
    BY <2>1, LeftAloneLemma DEF StandsFor
  <2>4. /\ disk'[p] # Gone
        /\ disk'[p] = disk[p] \/ disk'[p] = Sealed(e, f) \/ ~Intact(disk'[p])
    BY <1>1, <2>1, <2>2, <2>3, AgreedLemma, SealedLemma
  <2>5. Recorded(lock', e, p) /\ (Adopted(lock[e][p]) => Adopted(lock'[e][p]))
    <3>1. CASE lock' = lock
      BY <2>3, <3>1
    <3>2. ASSUME NEW r \in Runs, run[r] # Idle, lock' = run[r].mem
          PROVE  lock'[e][p] = lock[e][p]
      BY <1>1, <2>1, <2>2, <3>2 DEF AtRest, Inv, PlansAreCurrent, MemoryIsCurrent
    <3>3. ASSUME NEW q \in Paths, Adopt(q)
          PROVE  Recorded(lock', e, p) /\ (Adopted(lock[e][p]) => Adopted(lock'[e][p]))
      <4>1. PICK o \in Entities :
               /\ Recorded(lock, o, q)
               /\ lock' = WithRecord(lock, o, q, [class |-> lock[o][q].class,
                                                 hash |-> disk[q], adopted |-> TRUE])
        BY <3>3 DEF Adopt, IsAdopter, Claimants
      <4> DEFINE rec == [class |-> lock[o][q].class, hash |-> disk[q], adopted |-> TRUE]
      <4>2. lock \in Lock /\ rec \in Record /\ rec.adopted
        BY <1>1, <3>3, <4>1 DEF Adopt, Recorded, Inv, Safe, TypeOK, Lock, Record
      <4>3. lock' = WithRecord(lock, o, q, rec)
        BY <4>1
      <4> HIDE DEF rec
      <4>4. lock'[e][p] = IF e = o /\ p = q THEN rec ELSE lock[e][p]
        BY <2>2, <4>2, <4>3, WithRecordLemma
      <4> QED
        BY <2>3, <4>2, <4>4, NoRecordAssumption DEF Adopted, Recorded
    <3> QED
      BY <2>1, <2>3, <3>1, <3>2, <3>3, LockStep DEF Recorded
  <2>6. ~Writes(Decide(e, f, disk'[p], lock'[e][p], FALSE))
    BY <2>3, <2>4, <2>5, LeftAloneLemma
  <2> QED
    BY <2>5, <2>6 DEF StandsFor, Recorded
<1>2. Spec => []Inv
  BY Invariance
<1> QED
  BY <1>1, <1>2, PTL DEF Spec, NeighboursStayCurrent

\* Prune removes nothing another entity's spec still produces and has on record.
THEOREM NeighboursAreSpared == ~Overlap => (Spec => PruneSparesNeighbours)
<1> SUFFICES ASSUME ~Overlap PROVE Spec => PruneSparesNeighbours
  OBVIOUS
<1> DEFINE Spares == Prune => \A p \in Paths, e \in Entities :
                       /\ disk[p] # Gone /\ disk'[p] = Gone
                       /\ Recorded(lock, e, p)
                       => ~Produces(e, p)
<1>1. ASSUME Inv, [Next]_vars PROVE [Spares]_vars
  <2>1. SUFFICES ASSUME Prune, NEW p \in Paths, NEW e \in Entities,
                        disk[p] # Gone, disk'[p] = Gone, Recorded(lock, e, p)
                 PROVE  ~Produces(e, p)
    BY Zenon
  <2>2. PICK r \in Runs : Running(r, "prune") /\ \E d \in run[r].todo : PruneNext(r, d)
    BY <2>1 DEF Prune, StartPrune
  <2>3. PICK d \in run[r].todo : PruneNext(r, d)
    BY <2>2
  <2>4. d.kind = "delete" /\ d.path = p
    BY <1>1, <2>1, <2>2, <2>3 DEF PruneNext, Inv, Safe, TypeOK, Running, Pruning, Generation
  <2>5. e \in Claimants(lock, p)
    BY <2>1 DEF Claimants
  <2> QED
    BY <1>1, <2>2, <2>3, <2>4, <2>5, RemovalIsCurrent
<1>2. Spec => []Inv
  BY Invariance
<1> QED
  BY <1>1, <1>2, PTL DEF Spec, PruneSparesNeighbours

\* The commands' steps one by one, each keeping what is known known. A command
\* that starts carries the lock; there was none before it.
LEMMA StartKnows ==
    ASSUME ~Overlap, Inv, NEW r \in Runs, NEW e \in Entities, NEW force,
           StartGenerate(r, e, force) \/ StartPrune(r, e),
           NEW p \in Paths, Known(p)
    PROVE  Known(p)'
<1>1. UNCHANGED <<disk, lock>> /\ \A q \in Runs : run[q] = Idle
  BY DEF StartGenerate, StartPrune, MayStart, Quiet
<1> QED
  BY <1>1 DEF Known, Claimants, Recorded

\* What is written is recorded, and a record is dropped of migrations only.
LEMMA ApplyKnows ==
    ASSUME ~Overlap, Inv, NEW r \in Runs, NEW d \in run[r].todo,
           Running(r, "generate"), ApplyDecision(r, d),
           NEW p \in Paths, Known(p)
    PROVE  Known(p)'
<1> DEFINE e == run[r].entity
           x == d.file.path
           old == run[r].mem[e][x]
           rec == RecordAfter(e, d.file, d.action, old)
<1>1. /\ run[r] \in Generation /\ e \in Entities /\ x \in Paths
      /\ d.file \in File /\ d.action \in Actions
      /\ run[r].mem \in Lock /\ old \in Record \cup {NoRecord}
  BY DEF Inv, Safe, TypeOK, Running, Generation, Pruning, File, Lock
<1>2. lock' = lock /\ run'[r].mem = WithRecord(run[r].mem, e, x, rec)
      /\ run'[r] # Idle /\ run[r] # Idle
  BY ApplyTyping, IdleAssumption DEF ApplyDecision, Inv, Safe, TypeOK, Running
<1>3. \A q \in Paths : q # x \/ ~Writes(d.action) => disk'[q] = disk[q]
  BY <1>1 DEF ApplyDecision, Inv, Safe, TypeOK
<1>4. d.file.class = "hook" => d.action # "unchanged"
  BY DEF Inv, PlansAreCurrent, GenerationIsCurrent, Decide
<1>5. \/ x \in Migrations
      \/ rec # NoRecord
      \/ old = NoRecord /\ ~Writes(d.action)
  <2> HIDE DEF e, old
  <2> QED
    BY <1>1, <1>4, RecordKeptLemma
<1>6. rec \in Record \cup {NoRecord}
  BY <1>1, RecordAfterLemma
<1>7. \A o \in Entities, q \in Paths :
         run'[r].mem[o][q] = IF o = e /\ q = x THEN rec ELSE run[r].mem[o][q]
  <2> DEFINE mem == WithRecord(run[r].mem, e, x, rec)
  <2>1. \A o \in Entities, q \in Paths :
           mem[o][q] = IF o = e /\ q = x THEN rec ELSE run[r].mem[o][q]
    <3> DEFINE l == run[r].mem
    <3>1. l \in Lock /\ e \in Entities /\ x \in Paths /\ rec \in Record \cup {NoRecord}
      BY <1>1, <1>6
    <3>2. mem = WithRecord(l, e, x, rec)
      OBVIOUS
    <3> HIDE DEF rec, e, x, old, mem, l
    <3>3. \A o \in Entities, q \in Paths : mem[o][q] = IF o = e /\ q = x THEN rec ELSE l[o][q]
      BY <3>1, <3>2, WithRecordLemma
    <3> QED
      BY <3>3 DEF l
  <2>2. run'[r].mem = mem
    BY <1>2
  <2> HIDE DEF mem
  <2> QED
    BY <2>1, <2>2
<1>8. \A q \in Runs : q # r => run[q] = Idle
  BY <1>2 DEF Inv, Safe, OneCommand
<1> HIDE DEF rec
<1>9. CASE x # p \/ rec # NoRecord
  <2>1. \A o \in Entities : Recorded(run[r].mem, o, p) => Recorded(run'[r].mem, o, p)
    BY <1>7, <1>9 DEF Recorded
  <2>2. x = p => Recorded(run'[r].mem, e, p)
    BY <1>1, <1>7, <1>9 DEF Recorded
  <2>3. x # p => disk'[p] = disk[p]
    BY <1>3
  <2> HIDE DEF e, x
  <2> QED
    BY <1>1, <1>2, <1>8, <2>1, <2>2, <2>3 DEF Known, Claimants, Recorded
<1>10. CASE x = p /\ old = NoRecord /\ ~Writes(d.action)
  <2>1. \A o \in Entities : Recorded(run[r].mem, o, p) => Recorded(run'[r].mem, o, p)
    BY <1>7, <1>10 DEF Recorded
  <2>2. disk'[p] = disk[p]
    BY <1>3, <1>10
  <2> HIDE DEF e, x
  <2> QED
    BY <1>2, <1>8, <2>1, <2>2 DEF Known, Claimants, Recorded
<1>11. CASE x = p /\ x \in Migrations
  BY <1>11 DEF Known
<1> QED
  BY <1>5, <1>9, <1>10, <1>11

\* Prune forgets only what is gone.
LEMMA PruneKnows ==
    ASSUME ~Overlap, Inv, NEW r \in Runs, NEW d \in run[r].todo,
           Running(r, "prune"), PruneNext(r, d),
           NEW p \in Paths, Known(p)
    PROVE  Known(p)'
<1> DEFINE e == run[r].entity
<1>1. /\ e \in Entities /\ d.path \in Paths /\ run[r].mem \in Lock
      /\ d.kind = PruneKind(lock, e, d.path, disk[d.path])
      /\ d.kind \in {"delete", "forget"}
  BY DEF Inv, Safe, TypeOK, Running, Generation, Pruning, PlansAreCurrent,
     PruningIsCurrent
<1>2. /\ lock' = lock /\ run'[r].mem = WithRecord(run[r].mem, e, d.path, NoRecord)
      /\ run[r] # Idle
  BY DEF PruneNext, Inv, Safe, TypeOK, Running
<1>3. run'[r] # Idle
  BY PruneTyping, IdleAssumption DEF Inv, Safe
<1>4. disk'[d.path] = Gone /\ \A q \in Paths : q # d.path => disk'[q] = disk[q]
  BY <1>1 DEF PruneNext, PruneKind, Inv, Safe, TypeOK
<1>5. \A q \in Runs : q # r => run[q] = Idle
  BY <1>2 DEF Inv, Safe, OneCommand
<1>6. CASE d.path = p
  BY <1>4, <1>6 DEF Known, Generated
<1>7. CASE d.path # p
  <2>1. \A o \in Entities : Recorded(run[r].mem, o, p) => Recorded(run'[r].mem, o, p)
    BY <1>1, <1>2, <1>7, WithRecordLemma DEF Recorded
  <2>2. disk'[p] = disk[p]
    BY <1>4, <1>7
  <2> QED
    BY <1>2, <1>3, <1>5, <2>1, <2>2 DEF Known, Claimants, Recorded
<1> QED
  BY <1>6, <1>7

\* The lock a command saves knows what the lock it replaces knew.
LEMMA SaveKnows ==
    ASSUME ~Overlap, Inv, NEW r \in Runs, SaveLock(r), NEW p \in Paths, Known(p)
    PROVE  Known(p)'
<1>1. run[r] # Idle /\ lock' = run[r].mem /\ disk' = disk
  BY DEF SaveLock
<1>2. \A q \in Runs : q # r => run[q] = Idle
  BY <1>1 DEF Inv, Safe, OneCommand
<1>3. \A o \in Entities : Recorded(lock, o, p) =>
         p \in Migrations \/ Recorded(lock', o, p) \/ ~Generated(disk[p])
  BY <1>1 DEF Inv, PlansAreCurrent, MemoryIsCurrent
<1> QED
  BY <1>1, <1>2, <1>3 DEF Known, Claimants, Recorded

\* An adoption replaces a record.
LEMMA AdoptKnows ==
    ASSUME Inv, NEW x \in Paths, Adopt(x), NEW p \in Paths, Known(p)
    PROVE  Known(p)'
<1>1. PICK e \in Entities :
         /\ IsAdopter(lock, e, x)
         /\ lock' = WithRecord(lock, e, x, [class |-> lock[e][x].class,
                                           hash |-> disk[x], adopted |-> TRUE])
  BY DEF Adopt
<1> DEFINE rec == [class |-> lock[e][x].class, hash |-> disk[x], adopted |-> TRUE]
<1>2. lock \in Lock /\ rec \in Record
  BY <1>1 DEF Adopt, IsAdopter, Claimants, Recorded, Inv, Safe, TypeOK, Lock, Record
<1>3. rec # NoRecord
  BY <1>2, NoRecordAssumption
<1>4. lock' = WithRecord(lock, e, x, rec)
  BY <1>1
<1> HIDE DEF rec
<1>5. \A o \in Entities : Recorded(lock, o, p) => Recorded(lock', o, p)
  BY <1>2, <1>3, <1>4, WithRecordLemma DEF Recorded
<1>6. disk' = disk /\ run' = run
  BY DEF Adopt
<1> QED
  BY <1>5, <1>6 DEF Known, Claimants, Recorded

\* No command leaves behind what nothing knows of: what it writes it records, and
\* it forgets only what is gone.
THEOREM KnownStaysKnown == ~Overlap => (Spec => NothingGoesUnknown)
<1> SUFFICES ASSUME ~Overlap PROVE Spec => NothingGoesUnknown
  OBVIOUS
<1> DEFINE Keeps == Command => \A p \in Paths : Known(p) => Known(p)'
<1>1. ASSUME Inv, [Next]_vars PROVE [Keeps]_vars
  <2>1. SUFFICES ASSUME Command, NEW p \in Paths, Known(p) PROVE Known(p)'
    BY Zenon
  <2>2. CASE Generate
    <3>1. CASE \E r \in Runs, e \in Entities :
                  \E force \in {s \in SUBSET Paths : Cardinality(s) <= MaxForce} :
                     StartGenerate(r, e, force)
      BY <1>1, <2>1, <3>1, StartKnows
    <3>2. CASE \E r \in Runs : /\ Running(r, "generate")
                               /\ \E d \in run[r].todo : ApplyDecision(r, d)
      BY <1>1, <2>1, <3>2, ApplyKnows
    <3> QED
      BY <2>2, <3>1, <3>2 DEF Generate
  <2>3. CASE Prune
    <3>1. CASE \E r \in Runs, e \in Entities : StartPrune(r, e)
      BY <1>1, <2>1, <3>1, StartKnows
    <3>2. CASE \E r \in Runs : /\ Running(r, "prune")
                               /\ \E d \in run[r].todo : PruneNext(r, d)
      BY <1>1, <2>1, <3>2, PruneKnows
    <3> QED
      BY <2>3, <3>1, <3>2 DEF Prune
  <2>4. CASE \E r \in Runs : SaveLock(r)
    BY <1>1, <2>1, <2>4, SaveKnows
  <2>5. CASE \E x \in Paths : Adopt(x)
    BY <1>1, <2>1, <2>5, AdoptKnows
  <2> QED
    BY <2>1, <2>2, <2>3, <2>4, <2>5 DEF Command
<1>2. Spec => []Inv
  BY Invariance
<1> QED
  BY <1>1, <1>2, PTL DEF Spec, NothingGoesUnknown
=============================================================================
