------------------------ MODULE ValueObjects_proofs -------------------------
(***************************************************************************)
(* Proofs about module ValueObjects, for every set of entities and types:  *)
(* what a command in progress holds is still true of every file it has yet *)
(* to touch, and no command breaks the spec of another entity. The second  *)
(* needs to know, file by file, what prune read before it began: that no   *)
(* spec it could parse names the type.                                     *)
(***************************************************************************)
EXTENDS ValueObjects, TLAPS

\* What a prune in progress removes is named by no other spec that parses.
Unneeded ==
    run # Idle /\ run.cmd = "prune" =>
       \A t \in run.todo, e \in parses \ {run.entity} : spec[e][t] = "unused"

IInv == TypeOK /\ RunHolds /\ Unneeded

\* The two that own a file without being an entity are no entity.
LEMMA OwnersLemma ==
    Gone \notin Entities /\ Person \notin Entities /\ Person # Gone
BY OwnersAssumption

\* What generate is about to write is there to write, and its own.
LEMMA GenerateStarts ==
    ASSUME TypeOK, NEW e \in Entities, StartGenerate(e)
    PROVE  IInv'
<1> DEFINE todo == {t \in Makes(e) : owner[t] = Gone}
           claimed == claims[e] \cup (Makes(e) \ edited)
<1>1. todo \in SUBSET Types /\ claimed \in SUBSET Types
  BY DEF Makes, TypeOK
<1>2. /\ run' = [cmd |-> "generate", entity |-> e, todo |-> todo,
                 claimed |-> claimed]
      /\ UNCHANGED <<spec, parses, owner, edited, claims>>
  BY DEF StartGenerate
<1>3. run' \in Run
  BY <1>1, <1>2 DEF Run
<1>4. TypeOK'
  BY <1>2, <1>3 DEF TypeOK
<1>5. RunHolds'
  <2> SUFFICES ASSUME NEW t \in run'.todo
               PROVE  owner'[t] = Gone /\ spec'[run'.entity][t] = "makes"
    BY <1>2 DEF RunHolds
  <2> QED BY <1>2 DEF Makes
<1>6. Unneeded'
  BY <1>2 DEF Unneeded
<1> QED BY <1>4, <1>5, <1>6 DEF IInv

\* What prune is about to remove is its own, untouched, claimed by no other
\* entity, and named by no other spec that parses.
LEMMA PruneStarts ==
    ASSUME TypeOK, NEW e \in Entities, StartPrune(e)
    PROVE  IInv'
<1> DEFINE todo == Removable(e)
           claimed == claims[e] \ (Removable(e)
                         \cup {t \in Leftovers(e) : owner[t] = Gone})
<1>1. todo \in SUBSET Types /\ claimed \in SUBSET Types
  BY DEF Removable, Leftovers, TypeOK
<1>2. /\ run' = [cmd |-> "prune", entity |-> e, todo |-> todo,
                 claimed |-> claimed]
      /\ UNCHANGED <<spec, parses, owner, edited, claims>>
  BY DEF StartPrune
<1>3. run' \in Run
  BY <1>1, <1>2 DEF Run
<1>4. TypeOK'
  BY <1>2, <1>3 DEF TypeOK
<1>5. RunHolds'
  <2> SUFFICES ASSUME NEW t \in todo
               PROVE  /\ owner[t] = e /\ t \notin edited
                      /\ spec[e][t] # "makes"
                      /\ \A o \in Entities \ {e} : t \notin claims[o]
    BY <1>2 DEF RunHolds
  <2>1. t \in Types /\ t \notin Makes(e)
    BY <1>1 DEF Removable, Leftovers
  <2> QED BY <2>1 DEF Removable, Makes
<1>6. Unneeded'
  <2> SUFFICES ASSUME NEW t \in todo, NEW o \in parses \ {e}
               PROVE  spec[o][t] = "unused"
    BY <1>2 DEF Unneeded
  <2>1. o \in (Entities \cap parses) \ {e} /\ t \in Types
    BY <1>1 DEF TypeOK
  <2>2. t \notin Names(o)
    BY <2>1 DEF Removable, Needed
  <2> QED BY <2>1, <2>2 DEF Names
<1> QED BY <1>4, <1>5, <1>6 DEF IInv

\* One file written or removed leaves the others as they were.
LEMMA NextFileKeeps ==
    ASSUME IInv, NEW t \in Types, NextFile(t)
    PROVE  IInv'
<1>1. run \in Run /\ t \in run.todo
  BY DEF IInv, TypeOK, NextFile
<1>2. /\ run' \in Run /\ run'.cmd = run.cmd /\ run'.entity = run.entity
      /\ run'.todo = run.todo \ {t}
  BY <1>1 DEF NextFile, Run
<1>3. \A s \in run'.todo : owner'[s] = owner[s]
  BY <1>1, <1>2 DEF NextFile, Run, IInv, TypeOK
<1>4. TypeOK'
  <2>1. owner' \in [Types -> Entities \cup {Person, Gone}]
    BY <1>1 DEF NextFile, IInv, TypeOK, Run
  <2> QED BY <1>2, <2>1 DEF NextFile, IInv, TypeOK
<1>5. RunHolds'
  <2> SUFFICES ASSUME NEW s \in run'.todo
               PROVE  IF run.cmd = "generate"
                      THEN owner[s] = Gone /\ spec[run.entity][s] = "makes"
                      ELSE /\ owner[s] = run.entity /\ s \notin edited
                           /\ spec[run.entity][s] # "makes"
                           /\ \A e \in Entities \ {run.entity} : s \notin claims[e]
    BY <1>2, <1>3 DEF RunHolds, NextFile
  <2> QED BY <1>2 DEF IInv, RunHolds, NextFile
<1>6. Unneeded'
  BY <1>2 DEF IInv, Unneeded, NextFile
<1> QED BY <1>4, <1>5, <1>6 DEF IInv

\* Nothing else moves while a command is under way; a command that ends or is
\* cut short holds nothing any more.
LEMMA EndKeeps ==
    ASSUME IInv, SaveLock \/ Crash
    PROVE  IInv'
<1>1. run' = Idle /\ RunHolds' /\ Unneeded'
  BY DEF SaveLock, Crash, RunHolds, Unneeded
<1>2. CASE SaveLock
  <2>1. run \in Run
    BY <1>2 DEF SaveLock, IInv, TypeOK
  <2>2. claims' \in [Entities -> SUBSET Types]
    BY <1>2, <2>1 DEF SaveLock, IInv, TypeOK, Run
  <2> QED BY <1>1, <1>2, <2>2 DEF SaveLock, IInv, TypeOK
<1>3. CASE Crash
  BY <1>1, <1>3 DEF Crash, IInv, TypeOK
<1> QED BY <1>2, <1>3

\* The author writes between commands.
LEMMA AuthorKeeps ==
    ASSUME IInv, Author
    PROVE  IInv'
<1>1. run = Idle /\ run' = Idle
  BY DEF Author, EditSpec, BreakSpec, EditType, HandWrite, DeleteType
<1>2. RunHolds' /\ Unneeded'
  BY <1>1 DEF RunHolds, Unneeded
<1>3. TypeOK'
  <2>1. ASSUME NEW e \in Entities, NEW t \in Types, NEW use \in Uses,
               EditSpec(e, t, use)
        PROVE  TypeOK'
    BY <2>1 DEF EditSpec, IInv, TypeOK
  <2>2. ASSUME NEW e \in Entities, BreakSpec(e)
        PROVE  TypeOK'
    BY <2>2 DEF BreakSpec, IInv, TypeOK
  <2>3. ASSUME NEW t \in Types, EditType(t)
        PROVE  TypeOK'
    BY <2>3 DEF EditType, IInv, TypeOK
  <2>4. ASSUME NEW t \in Types, HandWrite(t) \/ DeleteType(t)
        PROVE  TypeOK'
    BY <2>4 DEF HandWrite, DeleteType, IInv, TypeOK
  <2> QED BY <2>1, <2>2, <2>3, <2>4 DEF Author
<1> QED BY <1>2, <1>3 DEF IInv

LEMMA InitHolds == Init => IInv
BY DEF Init, IInv, TypeOK, RunHolds, Unneeded

LEMMA NextKeeps == IInv /\ [Next]_vars => IInv'
<1> SUFFICES ASSUME IInv, [Next]_vars
             PROVE  IInv'
  OBVIOUS
<1>1. CASE UNCHANGED vars
  BY <1>1 DEF vars, IInv, TypeOK, RunHolds, Unneeded
<1>2. CASE Command
  <2>1. ASSUME NEW e \in Entities, StartGenerate(e) \/ StartPrune(e)
        PROVE  IInv'
    BY <2>1, GenerateStarts, PruneStarts DEF IInv
  <2> QED BY <1>2, <2>1, NextFileKeeps, EndKeeps DEF Command
<1>3. CASE Crash \/ Author
  BY <1>3, EndKeeps, AuthorKeeps
<1> QED BY <1>1, <1>2, <1>3 DEF Next

LEMMA Strengthened == Spec => []IInv
BY InitHolds, NextKeeps, PTL DEF Spec

\* Whatever is being written is not there, and what is being removed is its
\* owner's, untouched, and on record as nobody else's, at every step of every
\* command. (discoverVOs, validateValueObjects, PlanPrune)
THEOREM Invariance == Spec => []Inv
<1>1. IInv => Inv
  BY DEF IInv, Inv
<1> QED BY <1>1, Strengthened, PTL

\* A spec that is valid before another entity's command writes or removes a
\* file is valid after it, unless both declare a type.
LEMMA StepStaysValid ==
    ASSUME IInv, Command, run # Idle,
           NEW e \in parses \ {run.entity}, Valid(e)
    PROVE  Valid(e)' \/ Makes(e) \cap Makes(run.entity) # {}
<1>1. CASE SaveLock
  BY <1>1 DEF SaveLock, Valid
<1>2. ASSUME NEW t \in Types, NextFile(t)
      PROVE  Valid(e)' \/ Makes(e) \cap Makes(run.entity) # {}
  <2> DEFINE new == IF run.cmd = "generate" THEN run.entity ELSE Gone
  <2>1. run \in Run /\ t \in run.todo /\ run.entity \in Entities
    BY <1>2 DEF NextFile, IInv, TypeOK, Run
  <2>2. spec' = spec /\ owner' = [owner EXCEPT ![t] = new]
    BY <1>2 DEF NextFile
  <2>3. \A s \in Types : owner'[s] = IF s = t THEN new ELSE owner[s]
    BY <2>2 DEF IInv, TypeOK
  <2>4. CASE run.cmd = "generate" /\ spec[e][t] = "makes"
    <3>1. t \in Makes(e) /\ t \in Makes(run.entity)
      BY <1>2, <2>1, <2>4 DEF Makes, IInv, RunHolds
    <3> QED BY <3>1
  <2>5. CASE run.cmd = "generate" /\ spec[e][t] # "makes"
    BY <2>1, <2>2, <2>3, <2>5, OwnersLemma DEF Valid
  <2>6. CASE run.cmd # "generate"
    <3>1. run.cmd = "prune"
      BY <2>1, <2>6 DEF Run
    <3>2. spec[e][t] = "unused"
      BY <2>1, <3>1 DEF IInv, Unneeded
    <3> QED BY <2>2, <2>3, <2>6, <3>2 DEF Valid
  <2> QED BY <2>4, <2>5, <2>6
<1> QED BY <1>1, <1>2 DEF Command, StartGenerate, StartPrune

\* No entity's command turns another entity's spec into one that generate and
\* prune refuse. (validateValueObjects, keepWhatNeighboursStillNeed)
THEOREM NeighboursStayValid == Spec => ValidStaysValid
<1>1. IInv => [Command /\ run # Idle => \A e \in parses \ {run.entity} :
          Valid(e) => Valid(e)' \/ Makes(e) \cap Makes(run.entity) # {}]_vars
  BY StepStaysValid
<1> QED BY <1>1, Strengthened, PTL DEF ValidStaysValid
=============================================================================
