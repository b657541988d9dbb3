-------------------------- MODULE Numbering_proofs --------------------------
(***************************************************************************)
(* Proofs about module Numbering, for every set of entities and dialects   *)
(* and every bound: while no pair is deleted, no two pairs of one folder   *)
(* share a number, although generations may die and the lock may be lost.  *)
(* The invariant says why: a number on record is its entity's, and the     *)
(* folder the next number is read from shows that it is taken. Then, that  *)
(* no up is left without its down, and that an entity has one pair in each *)
(* folder as long as no record is lost.                                    *)
(***************************************************************************)
EXTENDS Numbering, TLAPS

\* What holds while no pair has been deleted.
Sound == TypeOK /\ OneOwnerEach /\ RecordsHold /\ RunHolds

\* A number is in use where a file carries it.
LEMMA UsedLemma ==
    ASSUME NEW d, NEW n
    PROVE  n \in Used(d) <=> \E f \in files : f.dialect = d /\ f.number = n
BY DEF Used

\* The two files of a pair, and nothing else, are its files.
LEMMA PairLemma ==
    ASSUME NEW d \in Dialects, NEW n \in 1..MaxNumber, NEW e \in Entities \cup {Person},
           NEW s \in Styles
    PROVE  /\ Pair(d, n, e, s) \subseteq File
           /\ Pair(d, n, e, s) # {}
           /\ \A f \in Pair(d, n, e, s) : f.dialect = d /\ f.number = n /\ f.entity = e
<1> DEFINE half(h) == [dialect |-> d, number |-> n, entity |-> e, style |-> s, half |-> h]
<1>1. \A h \in Halves : half(h) \in File
  BY DEF File
<1>2. \A h \in Halves : half(h).dialect = d /\ half(h).number = n /\ half(h).entity = e
  OBVIOUS
<1>3. Pair(d, n, e, s) = {half(h) : h \in Halves}
  BY DEF Pair
<1>4. half("up") \in Pair(d, n, e, s)
  BY <1>3 DEF Halves
<1> HIDE DEF half
<1> QED
  BY <1>1, <1>2, <1>3, <1>4

LEMMA StyleOfLemma ==
    ASSUME NEW e, NEW d, NEW n
    PROVE  StyleOf(e, d, n) \in Styles
BY DEF StyleOf, Styles

\* A number above every number in the folder is nobody's yet.
LEMMA NextIsFree ==
    ASSUME TypeOK, NEW d \in Dialects, NEW n \in 1..MaxNumber, IsNextOrdinal(d, n)
    PROVE  \A f \in files : f.dialect = d => f.number # n
<1> SUFFICES ASSUME NEW f \in files, f.dialect = d, f.number = n
             PROVE  FALSE
  OBVIOUS
<1>1. n \in Used(d)
  BY UsedLemma
<1>2. n < n
  BY <1>1 DEF IsNextOrdinal
<1> QED
  BY <1>2, BoundAssumption

-----------------------------------------------------------------------------
LEMMA InvInit == Init => Sound
<1> SUFFICES ASSUME Init PROVE Sound
  OBVIOUS
<1>1. CASE files = {} /\ ordinals = NoOrdinals
  BY <1>1, BoundAssumption
  DEF Init, Sound, TypeOK, OneOwnerEach, RecordsHold, RunHolds, NoOrdinals, Ordinals, File
<1>2. CASE \E e \in Entities, d \in Dialects :
             /\ 1 <= MaxNumber
             /\ files = Pair(d, 1, e, "plain")
             /\ ordinals = [NoOrdinals EXCEPT ![e] = [@ EXCEPT ![d] = 1]]
  <2> PICK e \in Entities, d \in Dialects :
             /\ 1 <= MaxNumber
             /\ files = Pair(d, 1, e, "plain")
             /\ ordinals = [NoOrdinals EXCEPT ![e] = [@ EXCEPT ![d] = 1]]
    BY <1>2
  <2>1. 1 \in 1..MaxNumber /\ "plain" \in Styles /\ 0 \in 0..MaxNumber /\ 1 \in 0..MaxNumber
    BY BoundAssumption DEF Styles
  <2>2. /\ files \subseteq File /\ files # {}
        /\ \A f \in files : f.dialect = d /\ f.number = 1 /\ f.entity = e
    BY <2>1, PairLemma
  <2>3. /\ ordinals \in [Entities -> Ordinals]
        /\ \A o \in Entities, x \in Dialects :
              ordinals[o][x] = IF o = e /\ x = d THEN 1 ELSE 0
    BY <2>1 DEF NoOrdinals, Ordinals
  <2>4. TypeOK
    BY <2>2, <2>3 DEF Init, TypeOK
  <2>5. OneOwnerEach
    BY <2>2 DEF OneOwnerEach
  <2>6. RecordsHold
    BY <2>2, <2>3, UsedLemma DEF RecordsHold, Owns
  <2> QED
    BY <2>4, <2>5, <2>6 DEF Init, Sound, RunHolds
<1> QED
  BY <1>1, <1>2 DEF Init

\* The files a generation is about to write are its entity's, under its numbers.
LEMMA PlanLemma ==
    ASSUME TypeOK, NEW e \in Entities, NEW number \in Ordinals, StartGenerate(e, number)
    PROVE  /\ Missing(e, number) \subseteq File
           /\ \A f \in Missing(e, number) : f.entity = e /\ f.number = number[f.dialect]
<1>1. \A d \in Targets : d \in Dialects /\ number[d] \in 1..MaxNumber
  <2> SUFFICES ASSUME NEW d \in Targets
               PROVE  d \in Dialects /\ number[d] \in 1..MaxNumber
    OBVIOUS
  <2>1. d \in Dialects
    BY DEF Targets, TypeOK
  <2>2. NumberFor(e, d, number[d])
    BY <2>1 DEF StartGenerate
  <2>3. CASE ordinals[e][d] # 0
    <3>1. ordinals[e][d] \in 0..MaxNumber
      BY <2>1 DEF TypeOK, Ordinals
    <3>2. number[d] = ordinals[e][d]
      BY <2>2, <2>3 DEF NumberFor
    <3> QED
      BY <2>1, <2>3, <3>1, <3>2, BoundAssumption
  <2>4. CASE ordinals[e][d] = 0
    BY <2>1, <2>2, <2>4 DEF NumberFor
  <2> QED
    BY <2>1, <2>3, <2>4
<1>2. /\ Missing(e, number) \subseteq File
      /\ \A f \in Missing(e, number) : f.entity = e /\ f.number = number[f.dialect]
  <2> SUFFICES ASSUME NEW f \in Missing(e, number)
               PROVE  f \in File /\ f.entity = e /\ f.number = number[f.dialect]
    OBVIOUS
  <2>1. PICK d \in Targets : f \in Pair(d, number[d], e, StyleOf(e, d, number[d]))
    BY DEF Missing
  <2> QED
    BY <1>1, <2>1, PairLemma, StyleOfLemma
<1> QED
  BY <1>2

\* What a generation is about to write is the entity's, under a number that is
\* its own or free.
LEMMA StartLemma ==
    ASSUME Sound, NEW e \in Entities, NEW number \in Ordinals, StartGenerate(e, number)
    PROVE  Sound'
<1> USE DEF Sound
<1>2. /\ Missing(e, number) \subseteq File
      /\ \A f \in Missing(e, number) : f.entity = e /\ f.number = number[f.dialect]
  BY PlanLemma
<1> DEFINE first == [entity |-> e, todo |-> Missing(e, number), number |-> number]
<1>3. run' = first /\ UNCHANGED <<files, ordinals, configured, happened>>
  BY DEF StartGenerate
<1>4. first \in Run
  BY <1>2 DEF Run
<1>5. first # Idle
  BY <1>4, IdleAssumption
<1>6. TypeOK'
  BY <1>3, <1>4 DEF TypeOK
<1>7. OneOwnerEach' /\ RecordsHold'
  BY <1>3 DEF OneOwnerEach, RecordsHold, Owns, Used
<1>8. ASSUME NEW d \in Dialects, number[d] # 0
      PROVE  /\ Owns(e, d, number[d])
             /\ number[d] \in Used(d) \/ \E f \in Missing(e, number) : f.dialect = d
             /\ \A o \in Entities \ {e} : ordinals[o][d] # number[d]
  <2>1. NumberFor(e, d, number[d])
    BY DEF StartGenerate
  <2>2. CASE ordinals[e][d] # 0
    <3>1. number[d] = ordinals[e][d]
      BY <2>1, <2>2 DEF NumberFor
    <3>2. Owns(e, d, number[d]) /\ number[d] \in Used(d)
      BY <2>2, <3>1 DEF RecordsHold
    <3>3. ASSUME NEW o \in Entities \ {e}, ordinals[o][d] = number[d]
          PROVE  FALSE
      BY <1>8, <3>2, <3>3, UsedLemma DEF RecordsHold, Owns
    <3> QED
      BY <3>2, <3>3
  <2>3. CASE ordinals[e][d] = 0
    <3>1. d \in Targets /\ number[d] \in 1..MaxNumber /\ IsNextOrdinal(d, number[d])
      BY <1>8, <2>1, <2>3 DEF NumberFor
    <3>2. \A f \in files : f.dialect = d => f.number # number[d]
      BY <3>1, NextIsFree
    <3>3. Owns(e, d, number[d])
      BY <3>2 DEF Owns
    <3>4. PICK f \in Pair(d, number[d], e, StyleOf(e, d, number[d])) : f.dialect = d /\ f.number = number[d]
      BY <3>1, PairLemma, StyleOfLemma
    <3>5. f \in Missing(e, number)
      <4>1. f \notin files
        BY <3>2, <3>4
      <4> DEFINE pair(x) == Pair(x, number[x], e, StyleOf(e, x, number[x]))
      <4>2. f \in pair(d) /\ d \in Targets
        BY <3>1, <3>4
      <4>3. Missing(e, number) = (UNION {pair(x) : x \in Targets}) \ files
        BY DEF Missing
      <4> HIDE DEF pair
      <4> QED
        BY <4>1, <4>2, <4>3
    <3>6. ASSUME NEW o \in Entities \ {e}, ordinals[o][d] = number[d]
          PROVE  FALSE
      BY <1>8, <3>2, <3>6, UsedLemma DEF RecordsHold
    <3> QED
      BY <3>3, <3>4, <3>5, <3>6
  <2> QED
    BY <2>2, <2>3
<1>9. RunHolds'
  <2>1. /\ first.entity = e /\ first.todo = Missing(e, number) /\ first.number = number
    OBVIOUS
  <2> HIDE DEF first
  <2>2. \A f \in run'.todo : f.entity = run'.entity /\ f.number = run'.number[f.dialect]
    BY <1>2, <1>3, <2>1
  <2>3. ASSUME NEW d \in Dialects, number[d] # 0
        PROVE  /\ Owns(e, d, number[d])'
               /\ number[d] \in Used(d)' \/ \E f \in Missing(e, number) : f.dialect = d
               /\ \A o \in Entities \ {e} : ordinals'[o][d] # number[d]
    <3>1. Owns(e, d, number[d])'
      BY <1>3, <1>8, <2>3 DEF Owns
    <3>2. Used(d)' = Used(d)
      BY <1>3 DEF Used
    <3> QED
      BY <1>3, <1>8, <2>3, <3>1, <3>2
  <2>4. run'.entity = e /\ run'.todo = Missing(e, number) /\ run'.number = number
    BY <1>3, <2>1
  <2> QED
    BY <2>2, <2>3, <2>4 DEF RunHolds
<1> QED
  BY <1>6, <1>7, <1>9

\* Writing one of its files takes a number nobody else holds.
LEMMA WriteLemma ==
    ASSUME Sound, NEW f \in File, WriteFile(f)
    PROVE  Sound'
<1> USE DEF Sound
<1>1. /\ run \in Run /\ run # Idle /\ f \in run.todo
      /\ run'.entity = run.entity /\ run'.number = run.number
      /\ run'.todo = run.todo \ {f}
      /\ run' \in Run /\ run' # Idle
  BY IdleAssumption DEF WriteFile, TypeOK, Run
<1>2. /\ files' = files \cup {f} /\ ordinals' = ordinals
      /\ configured' = configured /\ happened' = happened
  BY DEF WriteFile
<1>3. /\ f.entity = run.entity /\ f.number = run.number[f.dialect]
      /\ f.dialect \in Dialects /\ f.number \in 1..MaxNumber
  BY <1>1 DEF RunHolds, File
<1>4. f.number # 0
  BY <1>3, BoundAssumption
<1>5. TypeOK'
  BY <1>1, <1>2 DEF TypeOK
<1>6. Owns(run.entity, f.dialect, f.number)
  BY <1>1, <1>3, <1>4 DEF RunHolds
<1>7. OneOwnerEach'
  BY <1>2, <1>3, <1>6 DEF OneOwnerEach, Owns
<1>8. \A d, n : n \in Used(d) => n \in Used(d)'
  BY <1>2 DEF Used
<1>9. f.number \in Used(f.dialect)'
  BY <1>2 DEF Used
<1>10. RecordsHold'
  <2> SUFFICES ASSUME NEW e \in Entities, NEW d \in Dialects, ordinals[e][d] # 0
               PROVE  /\ Owns(e, d, ordinals[e][d])'
                      /\ ordinals[e][d] \in Used(d)'
    BY <1>2 DEF RecordsHold
  <2>1. Owns(e, d, ordinals[e][d]) /\ ordinals[e][d] \in Used(d)
    BY DEF RecordsHold
  <2>2. f.dialect = d /\ f.number = ordinals[e][d] => f.entity = e
    BY <1>1, <1>3, <1>4 DEF RunHolds
  <2> QED
    BY <1>2, <1>8, <2>1, <2>2 DEF Owns
<1>11. RunHolds'
  <2>1. \A g \in run'.todo : g.entity = run'.entity /\ g.number = run'.number[g.dialect]
    BY <1>1 DEF RunHolds
  <2>2. ASSUME NEW d \in Dialects, run.number[d] # 0
        PROVE  /\ Owns(run.entity, d, run.number[d])'
               /\ run.number[d] \in Used(d)' \/ \E g \in run.todo \ {f} : g.dialect = d
               /\ \A e \in Entities \ {run.entity} : ordinals[e][d] # run.number[d]
    <3>1. Owns(run.entity, d, run.number[d])'
      BY <1>1, <1>2, <1>3, <2>2 DEF RunHolds, Owns
    <3>2. CASE run.number[d] \in Used(d)
      BY <1>1, <1>8, <2>2, <3>1, <3>2 DEF RunHolds
    <3>3. CASE \E g \in run.todo : g.dialect = d
      BY <1>1, <1>3, <1>9, <2>2, <3>1, <3>3 DEF RunHolds
    <3> QED
      BY <1>1, <2>2, <3>2, <3>3 DEF RunHolds
  <2> QED
    BY <1>1, <1>2, <2>1, <2>2 DEF RunHolds
<1> QED
  BY <1>5, <1>7, <1>10, <1>11

LEMMA SaveLemma ==
    ASSUME Sound, SaveLock
    PROVE  Sound'
<1> USE DEF Sound
<1>1. /\ run \in Run /\ run # Idle /\ run.todo = {}
      /\ ordinals' = [ordinals EXCEPT ![run.entity] = run.number]
      /\ run' = Idle /\ files' = files
      /\ configured' = configured /\ happened' = happened
  BY DEF SaveLock, TypeOK
<1>2. TypeOK'
  BY <1>1 DEF TypeOK, Run
<1>3. OneOwnerEach'
  BY <1>1 DEF OneOwnerEach
<1>4. RecordsHold'
  <2> SUFFICES ASSUME NEW e \in Entities, NEW d \in Dialects, ordinals'[e][d] # 0
               PROVE  Owns(e, d, ordinals'[e][d]) /\ ordinals'[e][d] \in Used(d)
    BY <1>1 DEF RecordsHold, Owns, Used
  <2>1. CASE e = run.entity
    BY <1>1, <2>1 DEF RunHolds, TypeOK
  <2>2. CASE e # run.entity
    BY <1>1, <2>2 DEF RecordsHold, TypeOK
  <2> QED
    BY <2>1, <2>2
<1> QED
  BY <1>1, <1>2, <1>3, <1>4 DEF RunHolds

\* The author's pair takes a number above every one on record.
LEMMA AddLemma ==
    ASSUME Sound, NEW d \in Dialects, NEW n \in 1..MaxNumber, AddPair(d, n)
    PROVE  Sound'
<1> USE DEF Sound
<1> DEFINE pair == Pair(d, n, Person, "manual")
<1>1. /\ pair \subseteq File
      /\ \A f \in pair : f.dialect = d /\ f.number = n /\ f.entity = Person
  BY PairLemma DEF Styles
<1>2. /\ run = Idle /\ run' = run /\ ordinals' = ordinals
      /\ configured' = configured /\ happened' = happened
      /\ files' = files \cup pair
  BY DEF AddPair
<1> HIDE DEF pair
<1>3. \A f \in files : f.dialect = d => f.number # n
  BY NextIsFree DEF AddPair
<1>4. TypeOK'
  BY <1>1, <1>2 DEF TypeOK
<1>5. OneOwnerEach'
  BY <1>1, <1>2, <1>3 DEF OneOwnerEach
<1>6. RecordsHold'
  <2> SUFFICES ASSUME NEW e \in Entities, NEW x \in Dialects, ordinals[e][x] # 0
               PROVE  /\ Owns(e, x, ordinals[e][x])'
                      /\ ordinals[e][x] \in Used(x)'
    BY <1>2 DEF RecordsHold
  <2>1. Owns(e, x, ordinals[e][x]) /\ ordinals[e][x] \in Used(x)
    BY DEF RecordsHold
  <2>2. PICK g \in files : g.dialect = x /\ g.number = ordinals[e][x]
    BY <2>1, UsedLemma
  <2>3. x = d => ordinals[e][x] # n
    BY <1>3, <2>2
  <2> QED
    BY <1>1, <1>2, <2>1, <2>3 DEF Owns, Used
<1> QED
  BY <1>2, <1>4, <1>5, <1>6 DEF RunHolds

-----------------------------------------------------------------------------
LEMMA TypeLemma ==
    ASSUME TypeOK, [Next]_vars
    PROVE  TypeOK'
<1>1. ASSUME NEW e \in Entities, NEW number \in Ordinals, StartGenerate(e, number)
      PROVE  TypeOK'
  <2>1. [entity |-> e, todo |-> Missing(e, number), number |-> number] \in Run
    BY <1>1, PlanLemma DEF Run
  <2> QED BY <1>1, <2>1 DEF StartGenerate, TypeOK
<1>2. ASSUME NEW f \in File, WriteFile(f)
      PROVE  TypeOK'
  BY <1>2 DEF WriteFile, TypeOK, Run
<1>3. CASE SaveLock
  BY <1>3 DEF SaveLock, TypeOK, Run
<1>4. CASE Crash
  BY <1>4 DEF Crash, Happens, Kinds, TypeOK
<1>5. CASE LoseLock
  <2>1. NoOrdinals \in [Entities -> Ordinals]
    BY BoundAssumption DEF NoOrdinals, Ordinals
  <2> QED BY <1>5, <2>1 DEF LoseLock, Happens, Kinds, TypeOK
<1>6. ASSUME NEW d \in Dialects, NEW n \in 1..MaxNumber, AddPair(d, n)
      PROVE  TypeOK'
  <2>1. Pair(d, n, Person, "manual") \subseteq File
    BY PairLemma DEF Styles
  <2> QED BY <1>6, <2>1 DEF AddPair, TypeOK
<1>7. ASSUME NEW d \in Dialects, NEW n \in 1..MaxNumber, DeletePair(d, n)
      PROVE  TypeOK'
  BY <1>7 DEF DeletePair, Happens, Kinds, TypeOK
<1>8. ASSUME NEW ds \in SUBSET Dialects, Configure(ds)
      PROVE  TypeOK'
  BY <1>8 DEF Configure, TypeOK
<1>9. CASE UNCHANGED vars
  BY <1>9 DEF vars, TypeOK
<1> QED
  BY <1>1, <1>2, <1>3, <1>4, <1>5, <1>6, <1>7, <1>8, <1>9 DEF Next, Generate, Author

\* Every step but a deletion keeps what holds while there has been none.
LEMMA SoundLemma ==
    ASSUME Sound, [Next]_vars
    PROVE  Sound' \/ "deletion" \in happened'
<1>1. ASSUME NEW e \in Entities, NEW number \in Ordinals, StartGenerate(e, number)
      PROVE  Sound'
  BY <1>1, StartLemma
<1>2. ASSUME NEW f \in File, WriteFile(f)
      PROVE  Sound'
  BY <1>2, WriteLemma
<1>3. CASE SaveLock
  BY <1>3, SaveLemma
<1>4. CASE Crash
  BY <1>4, TypeLemma DEF Crash, Sound, OneOwnerEach, RecordsHold, RunHolds, Owns, Used
<1>5. CASE LoseLock
  <2>1. \A e \in Entities, d \in Dialects : NoOrdinals[e][d] = 0
    BY DEF NoOrdinals
  <2> QED
    BY <1>5, <2>1, TypeLemma DEF LoseLock, Sound, OneOwnerEach, RecordsHold, RunHolds
<1>6. ASSUME NEW d \in Dialects, NEW n \in 1..MaxNumber, AddPair(d, n)
      PROVE  Sound'
  BY <1>6, AddLemma
<1>7. ASSUME NEW d \in Dialects, NEW n \in 1..MaxNumber, DeletePair(d, n)
      PROVE  "deletion" \in happened'
  BY <1>7 DEF DeletePair, Happens
<1>8. ASSUME NEW ds \in SUBSET Dialects, Configure(ds)
      PROVE  Sound'
  BY <1>8, TypeLemma
  DEF Configure, Sound, OneOwnerEach, RecordsHold, RunHolds, Owns, Used
<1>9. CASE UNCHANGED vars
  BY <1>9, TypeLemma DEF vars, Sound, OneOwnerEach, RecordsHold, RunHolds, Owns, Used
<1> QED
  BY <1>1, <1>2, <1>3, <1>4, <1>5, <1>6, <1>7, <1>8, <1>9 DEF Next, Generate, Author

\* What has happened has happened.
LEMMA HappenedLemma ==
    ASSUME [Next]_vars
    PROVE  happened \subseteq happened'
BY DEF Next, vars, Generate, Author, StartGenerate, WriteFile, SaveLock, Crash, LoseLock,
       AddPair, DeletePair, Configure, Happens

\* Types, and, as long as no pair is deleted, distinct numbers and why they stay
\* so. (nextOrdinal, LockEntity.Ordinals)
THEOREM Invariance == Spec => []Inv
<1>1. Init => Inv
  BY InvInit DEF Inv, Sound
<1>2. Inv /\ [Next]_vars => Inv'
  <2> SUFFICES ASSUME Inv, [Next]_vars
               PROVE  Inv'
    OBVIOUS
  <2>1. TypeOK'
    BY TypeLemma DEF Inv
  <2>2. ASSUME "deletion" \notin happened'
        PROVE  Sound'
    BY <2>2, SoundLemma, HappenedLemma DEF Inv, Sound
  <2> QED
    BY <2>1, <2>2 DEF Inv, Sound
<1> QED
  BY <1>1, <1>2, PTL DEF Spec

\* No two tables' migrations share a number in a folder, as long as no pair is
\* deleted. (nextOrdinal)
THEOREM NumbersAreDistinct == Spec => []NumbersDistinct
<1>1. Inv => NumbersDistinct
  BY DEF Inv, NumbersDistinct
<1> QED
  BY <1>1, Invariance, PTL

-----------------------------------------------------------------------------
(* Why a generation that dies leaves no up alone.                          *)

Down(f) == [f EXCEPT !.half = "down"]

\* The down of an up still to be written is written, or still to be written.
DownsFirst ==
    run # Idle => \A f \in run.todo : f.half = "up" => Down(f) \in run.todo \cup files

Paired == TypeOK /\ EveryUpHasDown /\ DownsFirst

\* The files of a pair have the same folder and number, and are both there.
LEMMA HalvesLemma ==
    ASSUME NEW d, NEW n, NEW e, NEW s, NEW f \in Pair(d, n, e, s)
    PROVE  Down(f) \in Pair(d, n, e, s)
<1>1. PICK h \in Halves :
         f = [dialect |-> d, number |-> n, entity |-> e, style |-> s, half |-> h]
  BY DEF Pair
<1>2. Down(f) = [dialect |-> d, number |-> n, entity |-> e, style |-> s, half |-> "down"]
  BY <1>1 DEF Down
<1> QED
  BY <1>2 DEF Pair, Halves

\* A deletion by folder and number takes both files or neither.
LEMMA DownLemma ==
    ASSUME NEW f \in File
    PROVE  /\ Down(f) \in File
           /\ Down(f).dialect = f.dialect /\ Down(f).number = f.number
           /\ Down(f).half = "down"
BY DEF Down, File, Halves

LEMMA PairedInit == Init => Paired
<1> SUFFICES ASSUME Init PROVE Paired
  OBVIOUS
<1>1. TypeOK /\ DownsFirst
  BY InvInit DEF Init, Sound, DownsFirst
<1>2. \A f \in files : Down(f) \in files
  BY HalvesLemma DEF Init
<1> QED
  BY <1>1, <1>2 DEF Paired, EveryUpHasDown, Down

LEMMA PairedStart ==
    ASSUME Paired, NEW e \in Entities, NEW number \in Ordinals, StartGenerate(e, number)
    PROVE  EveryUpHasDown' /\ DownsFirst'
<1> DEFINE pair(d) == Pair(d, number[d], e, StyleOf(e, d, number[d]))
           todo == Missing(e, number)
<1>1. /\ run' = [entity |-> e, todo |-> todo, number |-> number]
      /\ files' = files
  BY DEF StartGenerate
<1>2. todo = (UNION {pair(d) : d \in Targets}) \ files
  BY DEF Missing
<1>3. ASSUME NEW f \in todo
      PROVE  Down(f) \in todo \cup files
  <2>1. PICK d \in Targets : f \in pair(d)
    BY <1>2
  <2>2. Down(f) \in pair(d)
    BY <2>1, HalvesLemma
  <2> HIDE DEF pair, todo
  <2> QED
    BY <1>2, <2>2
<1>4. run'.todo = todo
  BY <1>1
<1> HIDE DEF todo
<1> QED
  BY <1>1, <1>3, <1>4 DEF Paired, EveryUpHasDown, DownsFirst, Down

\* Files are written in the order of their paths, so an up comes after its down.
LEMMA PairedWrite ==
    ASSUME Paired, NEW f \in File, WriteFile(f)
    PROVE  EveryUpHasDown' /\ DownsFirst'
<1>1. /\ run \in Run /\ run # Idle /\ f \in run.todo
      /\ run'.todo = run.todo \ {f}
      /\ files' = files \cup {f}
  BY DEF Paired, TypeOK, WriteFile, Run
<1>2. f.half = "up" => Down(f) \in files
  <2> SUFFICES ASSUME f.half = "up", Down(f) \in run.todo
               PROVE  FALSE
    BY <1>1 DEF Paired, DownsFirst
  <2>1. Precedes(f, Down(f))
    BY DEF WriteFile
  <2>2. ~(f.dialect < Down(f).dialect)
    <3>1. f.dialect \in Nat
      BY DialectsAssumption DEF File
    <3>2. \A k \in Nat : ~(k < k)
      OBVIOUS
    <3> QED
      BY <3>1, <3>2, DownLemma, Zenon
  <2>3. Down(f).half = "down"
    BY DownLemma
  <2> QED
    BY <2>1, <2>2, <2>3 DEF Precedes
<1>3. EveryUpHasDown'
  BY <1>1, <1>2 DEF Paired, EveryUpHasDown, Down
<1>4. DownsFirst'
  BY <1>1 DEF Paired, DownsFirst
<1> QED
  BY <1>3, <1>4

\* The author adds and deletes pairs.
LEMMA PairedAuthor ==
    ASSUME Paired, NEW d \in Dialects, NEW n \in 1..MaxNumber, AddPair(d, n) \/ DeletePair(d, n)
    PROVE  EveryUpHasDown' /\ DownsFirst'
<1>1. DownsFirst'
  BY DEF AddPair, DeletePair, DownsFirst
<1>2. CASE AddPair(d, n)
  <2> DEFINE pair == Pair(d, n, Person, "manual")
  <2>1. files' = files \cup pair
    BY <1>2 DEF AddPair
  <2>2. \A f \in pair : Down(f) \in pair
    BY HalvesLemma
  <2> HIDE DEF pair
  <2> QED
    BY <1>1, <2>1, <2>2 DEF Paired, EveryUpHasDown, Down
<1>3. CASE DeletePair(d, n)
  <2>1. files' = {f \in files : ~(f.dialect = d /\ f.number = n)}
    BY <1>3 DEF DeletePair
  <2>2. ASSUME NEW f \in files', f.half = "up"
        PROVE  Down(f) \in files'
    <3>1. f \in files /\ f \in File /\ Down(f) \in files
      BY <2>1, <2>2 DEF Paired, TypeOK, EveryUpHasDown, Down
    <3> QED
      BY <2>1, <2>2, <3>1, DownLemma
  <2> QED
    BY <1>1, <2>2 DEF EveryUpHasDown, Down
<1> QED
  BY <1>2, <1>3

LEMMA PairedNext ==
    ASSUME Paired, [Next]_vars
    PROVE  Paired'
<1>1. TypeOK'
  BY TypeLemma DEF Paired
<1>2. ASSUME SaveLock \/ Crash \/ LoseLock \/ UNCHANGED vars
      PROVE  EveryUpHasDown' /\ DownsFirst'
  BY <1>2 DEF SaveLock, Crash, LoseLock, vars, Paired, EveryUpHasDown, DownsFirst
<1>3. ASSUME NEW ds \in SUBSET Dialects, Configure(ds)
      PROVE  EveryUpHasDown' /\ DownsFirst'
  BY <1>3 DEF Configure, Paired, EveryUpHasDown, DownsFirst
<1>4. EveryUpHasDown' /\ DownsFirst'
  BY <1>2, <1>3, PairedStart, PairedWrite, PairedAuthor
  DEF Next, Generate, Author, Paired, EveryUpHasDown, DownsFirst
<1> QED
  BY <1>1, <1>4 DEF Paired

\* A generation that dies never leaves an up without its down, whatever else is
\* lost, added or deleted. (Plan's order of decisions, emitMigrations)
THEOREM PairsStayWhole == Spec => []EveryUpHasDown
<1>1. Paired => EveryUpHasDown
  BY DEF Paired
<1> QED
  BY <1>1, PairedInit, PairedNext, PTL DEF Spec

-----------------------------------------------------------------------------
(* Why an entity has one pair in each folder, while no record is lost.     *)

Up(f) == [f EXCEPT !.half = "up"]

\* The numbers of e: those in use by its generation, else those on record.
Known(e) == IF run # Idle /\ run.entity = e THEN run.number ELSE ordinals[e]

\* The files there are and the ones that are coming.
Held == files \cup (IF run = Idle THEN {} ELSE run.todo)

KnownNumbers ==
    \A f \in Held : f.entity # Person => f.number = Known(f.entity)[f.dialect]

OneStyle ==
    \A f, g \in Held :
       f.entity # Person /\ f.entity = g.entity /\ f.dialect = g.dialect
       => f.style = g.style

\* The up is what a later generation knows the older name by.
OldNamesShow ==
    \A f \in Held : f.entity # Person /\ f.style = "plain" => Up(f) \in files

Single == TypeOK /\ KnownNumbers /\ OneStyle /\ OldNamesShow

LEMMA HeldLemma == TypeOK => Held \subseteq File
BY DEF TypeOK, Held, Run

\* What tells two files apart.
LEMMA FileLemma ==
    ASSUME NEW f \in File
    PROVE  /\ f = [dialect |-> f.dialect, number |-> f.number, entity |-> f.entity,
                   style |-> f.style, half |-> f.half]
           /\ Up(f) = [dialect |-> f.dialect, number |-> f.number, entity |-> f.entity,
                       style |-> f.style, half |-> "up"]
           /\ f.style \in Styles
BY DEF File, Up

LEMMA SingleInit == Init => Single
<1> SUFFICES ASSUME Init PROVE Single
  OBVIOUS
<1>1. TypeOK /\ run = Idle
  BY InvInit DEF Init, Sound
<1>2. CASE files = {}
  BY <1>1, <1>2 DEF Single, KnownNumbers, OneStyle, OldNamesShow, Held
<1>3. CASE \E e \in Entities, d \in Dialects :
             /\ files = Pair(d, 1, e, "plain")
             /\ ordinals = [NoOrdinals EXCEPT ![e] = [@ EXCEPT ![d] = 1]]
  <2> PICK e \in Entities, d \in Dialects :
             /\ files = Pair(d, 1, e, "plain")
             /\ ordinals = [NoOrdinals EXCEPT ![e] = [@ EXCEPT ![d] = 1]]
    BY <1>3
  <2> DEFINE file(h) == [dialect |-> d, number |-> 1, entity |-> e,
                         style |-> "plain", half |-> h]
  <2>1. files = {file(h) : h \in Halves}
    BY DEF Pair
  <2>2. \A h \in Halves : /\ file(h).dialect = d /\ file(h).number = 1
                          /\ file(h).entity = e /\ file(h).style = "plain"
                          /\ Up(file(h)) = file("up")
    BY DEF Up
  <2>3. ordinals[e][d] = 1
    BY DEF NoOrdinals
  <2> HIDE DEF file
  <2>4. Held = files /\ file("up") \in files
    BY <1>1, <2>1 DEF Held, Halves
  <2>5. KnownNumbers
    BY <1>1, <2>1, <2>2, <2>3, <2>4 DEF KnownNumbers, Known
  <2>6. OneStyle /\ OldNamesShow
    BY <2>1, <2>2, <2>4 DEF OneStyle, OldNamesShow
  <2> QED
    BY <1>1, <2>5, <2>6 DEF Single
<1> QED
  BY <1>2, <1>3 DEF Init

\* A generation uses the number and the style that the entity's files have.
LEMMA KeptLemma ==
    ASSUME Single, NEW e \in Entities, NEW number \in Ordinals, StartGenerate(e, number),
           NEW g \in files, g.entity = e
    PROVE  /\ g.number = number[g.dialect]
           /\ g.style = StyleOf(e, g.dialect, number[g.dialect])
<1>1. g \in File /\ g \in Held /\ run = Idle /\ e # Person
  BY PersonAssumption DEF Single, TypeOK, Held, StartGenerate
<1>2. g.dialect \in Dialects /\ g.number # 0
  BY <1>1, BoundAssumption DEF File
<1>3. g.number = ordinals[e][g.dialect]
  BY <1>1 DEF Single, KnownNumbers, Known
<1>4. g.number = number[g.dialect]
  BY <1>2, <1>3 DEF StartGenerate, NumberFor
<1> DEFINE up(s) == [dialect |-> g.dialect, number |-> g.number, entity |-> e,
                     style |-> s, half |-> "up"]
<1>5. \A s \in Styles : up(s) \in files => s = g.style
  <2> SUFFICES ASSUME NEW s \in Styles, up(s) \in files
               PROVE  s = g.style
    OBVIOUS
  <2>1. up(s).entity = e /\ up(s).dialect = g.dialect /\ up(s).style = s
    OBVIOUS
  <2>2. up(s) \in Held
    BY DEF Held
  <2> HIDE DEF up
  <2> QED
    BY <1>1, <2>1, <2>2 DEF Single, OneStyle
<1>6. g.style = "plain" => up("plain") \in files
  BY <1>1, FileLemma DEF Single, OldNamesShow
<1>7. g.style \in Styles
  BY <1>1, FileLemma
<1>8. StyleOf(e, g.dialect, g.number)
         = IF up("plain") \in files /\ up("manual") \notin files THEN "plain" ELSE "manual"
  BY DEF StyleOf
<1> HIDE DEF up
<1> QED
  BY <1>4, <1>5, <1>6, <1>7, <1>8 DEF Styles

LEMMA SingleStart ==
    ASSUME Single, NEW e \in Entities, NEW number \in Ordinals, StartGenerate(e, number)
    PROVE  KnownNumbers' /\ OneStyle' /\ OldNamesShow'
<1> DEFINE todo == Missing(e, number)
           first == [entity |-> e, todo |-> todo, number |-> number]
           style(d) == StyleOf(e, d, number[d])
<1>1. /\ run = Idle /\ run' = first
      /\ files' = files /\ ordinals' = ordinals
  BY DEF StartGenerate
<1>2. todo \subseteq File /\ \A f \in todo : f.entity = e /\ f.number = number[f.dialect]
  BY PlanLemma DEF Single
<1>3. first \in Run /\ first.entity = e /\ first.todo = todo /\ first.number = number
  BY <1>2 DEF Run
<1>4. \A f \in todo : f.style = style(f.dialect)
  <2> SUFFICES ASSUME NEW f \in todo
               PROVE  f.style = style(f.dialect)
    OBVIOUS
  <2>1. PICK d \in Targets : f \in Pair(d, number[d], e, style(d))
    BY DEF Missing
  <2>2. f.style = style(d) /\ f.dialect = d
    <3> HIDE DEF style
    <3> QED BY <2>1 DEF Pair
  <2> QED
    BY <2>2
<1>5. \A f \in todo : f.style = "plain" => Up(f) \in files
  <2> SUFFICES ASSUME NEW f \in todo, f.style = "plain"
               PROVE  Up(f) \in files
    OBVIOUS
  <2>1. Up(f) = [dialect |-> f.dialect, number |-> number[f.dialect], entity |-> e,
                 style |-> "plain", half |-> "up"]
    BY <1>2, FileLemma
  <2>2. StyleOf(e, f.dialect, number[f.dialect]) = "plain"
    BY <1>4
  <2> QED
    BY <2>1, <2>2 DEF StyleOf
<1>6. \A g \in files : g.entity = e =>
         g.number = number[g.dialect] /\ g.style = style(g.dialect)
  BY KeptLemma
<1> HIDE DEF todo, first, style
<1>7. Held' = files \cup todo /\ Held = files
  BY <1>1, <1>3, IdleAssumption DEF Held
<1>8. /\ Known(e)' = number
      /\ \A o \in Entities \ {e} : Known(o)' = Known(o)
  BY <1>1, <1>3, IdleAssumption DEF Known
<1>9. \A f \in Held' : f \in File
  BY <1>2, <1>7 DEF Single, TypeOK
<1>10. KnownNumbers'
  BY <1>2, <1>6, <1>7, <1>8, <1>9 DEF Single, KnownNumbers, File
<1>11. OneStyle'
  BY <1>2, <1>4, <1>6, <1>7 DEF Single, OneStyle
<1>12. OldNamesShow'
  BY <1>1, <1>5, <1>7 DEF Single, OldNamesShow
<1> QED
  BY <1>10, <1>11, <1>12

\* A file that is written was coming.
LEMMA SingleWrite ==
    ASSUME Single, NEW f \in File, WriteFile(f)
    PROVE  KnownNumbers' /\ OneStyle' /\ OldNamesShow'
<1>1. /\ run \in Run /\ run # Idle /\ f \in run.todo
      /\ run' \in Run /\ run' # Idle
      /\ run'.entity = run.entity /\ run'.number = run.number
      /\ run'.todo = run.todo \ {f}
      /\ files' = files \cup {f} /\ ordinals' = ordinals
  BY IdleAssumption DEF Single, TypeOK, WriteFile, Run
<1>2. Held' = Held
  BY <1>1 DEF Held
<1>3. \A e : Known(e)' = Known(e)
  BY <1>1 DEF Known
<1> QED
  BY <1>1, <1>2, <1>3 DEF Single, KnownNumbers, OneStyle, OldNamesShow

\* The numbers of a generation that ends go on record.
LEMMA SingleSave ==
    ASSUME Single, SaveLock
    PROVE  KnownNumbers' /\ OneStyle' /\ OldNamesShow'
<1>1. /\ run \in Run /\ run # Idle /\ run.todo = {} /\ run' = Idle
      /\ ordinals' = [ordinals EXCEPT ![run.entity] = run.number]
      /\ files' = files
  BY DEF Single, TypeOK, SaveLock
<1>2. Held' = Held
  BY <1>1 DEF Held
<1>3. \A e \in Entities : Known(e)' = Known(e)
  BY <1>1 DEF Known, Single, TypeOK
<1>4. \A f \in Held : f.entity # Person => f.entity \in Entities
  BY HeldLemma DEF Single, File
<1> QED
  BY <1>1, <1>2, <1>3, <1>4 DEF Single, KnownNumbers, OneStyle, OldNamesShow

\* The author's pairs are no entity's, and a deletion takes the whole pair.
LEMMA SingleAuthor ==
    ASSUME Single, NEW d \in Dialects, NEW n \in 1..MaxNumber, AddPair(d, n) \/ DeletePair(d, n)
    PROVE  KnownNumbers' /\ OneStyle' /\ OldNamesShow'
<1>1. /\ run = Idle /\ run' = run /\ ordinals' = ordinals
  BY DEF AddPair, DeletePair
<1>2. /\ Held = files /\ Held' = files'
      /\ \A e : Known(e)' = Known(e)
  BY <1>1 DEF Held, Known
<1>3. CASE AddPair(d, n)
  <2>1. \A f \in files' \ files : f.entity = Person
    BY <1>3, PairLemma DEF AddPair, Styles
  <2>2. files \subseteq files'
    BY <1>3 DEF AddPair
  <2> QED
    BY <1>2, <2>1, <2>2 DEF Single, KnownNumbers, OneStyle, OldNamesShow
<1>4. CASE DeletePair(d, n)
  <2>1. files' = {f \in files : ~(f.dialect = d /\ f.number = n)}
    BY <1>4 DEF DeletePair
  <2>2. KnownNumbers' /\ OneStyle'
    BY <1>2, <2>1 DEF Single, KnownNumbers, OneStyle
  <2>3. ASSUME NEW f \in files', Up(f) \in files
        PROVE  Up(f) \in files'
    <3>1. Up(f).dialect = f.dialect /\ Up(f).number = f.number
      BY <2>1, FileLemma DEF Single, TypeOK
    <3> QED
      BY <2>1, <2>3, <3>1
  <2>4. OldNamesShow'
    BY <1>2, <2>1, <2>3 DEF Single, OldNamesShow
  <2> QED
    BY <2>2, <2>4
<1> QED
  BY <1>3, <1>4

LEMMA SingleNext ==
    ASSUME Single, [Next]_vars
    PROVE  Single' \/ "loss" \in happened'
<1>1. TypeOK'
  BY TypeLemma DEF Single
<1>2. ASSUME Crash \/ LoseLock
      PROVE  "loss" \in happened'
  BY <1>2 DEF Crash, LoseLock, Happens
<1>3. ASSUME \/ UNCHANGED vars
             \/ \E ds \in SUBSET Dialects : Configure(ds)
      PROVE  KnownNumbers' /\ OneStyle' /\ OldNamesShow'
  BY <1>3 DEF vars, Configure, Single, KnownNumbers, OneStyle, OldNamesShow, Held, Known
<1> QED
  BY <1>1, <1>2, <1>3, SingleStart, SingleWrite, SingleSave, SingleAuthor
  DEF Next, Generate, Author, Single

\* No entity ever has a second pair in a folder, as long as every generation
\* gets to save the lock and the lock is kept. (LockEntity.Ordinals,
\* migrationBase)
THEOREM OnePairIsKept == Spec => []NoSecondMigration
<1> DEFINE Kept == "loss" \notin happened => Single
<1>1. Init => Kept
  BY SingleInit
<1>2. Kept /\ [Next]_vars => Kept'
  BY SingleNext, HappenedLemma
<1>3. Kept => NoSecondMigration
  <2> SUFFICES ASSUME Single, NEW f \in files, NEW g \in files,
                      f.entity # Person, f.entity = g.entity,
                      f.dialect = g.dialect, f.half = g.half
               PROVE  f = g
    BY DEF NoSecondMigration, OnePairEach
  <2>1. f \in Held /\ g \in Held /\ f \in File /\ g \in File
    BY HeldLemma DEF Single, Held
  <2>2. f.number = g.number
    BY <2>1 DEF Single, KnownNumbers
  <2>3. f.style = g.style
    BY <2>1 DEF Single, OneStyle
  <2> QED
    BY <2>1, <2>2, <2>3, FileLemma
<1> QED
  BY <1>1, <1>2, <1>3, PTL DEF Spec
=============================================================================
