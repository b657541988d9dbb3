-------------------------- MODULE ViewGuard_proofs --------------------------
(***************************************************************************)
(* Proofs about module ViewGuard, for every set of shapes and every bound: *)
(* as long as nothing has gone astray, and again after a generation above  *)
(* the deployed version, no tree a generation leaves behind aborts its     *)
(* boot. RunHolds needs no such condition: it is what lets one generation  *)
(* set things right.                                                       *)
(***************************************************************************)
EXTENDS ViewGuard, TLAPS

LEMMA ViewStateLemma ==
    ASSUME NEW r \in Reads
    PROVE  /\ ViewState(r) \in Pairs
           /\ ViewState(r) # Nothing
           /\ ViewState(r).version = r.version
           /\ ViewState(r).shape = IF r.backing = "mongo" THEN r.shape ELSE NoShape
           /\ Projects(ViewState(r)) <=> r.backing = "mongo"
<1>1. /\ ViewState(r) \in Pairs
      /\ ViewState(r).version = r.version
      /\ ViewState(r).shape = IF r.backing = "mongo" THEN r.shape ELSE NoShape
  BY DEF ViewState, Reads, Pairs
<1> QED
  BY <1>1, NothingAssumption, ShapesAssumption DEF Projects, Reads

LEMMA InvInit == Init => Inv
<1>1. 0 \in Versions
  BY VersionAssumption DEF Versions
<1> QED
  BY <1>1 DEF Init, Inv, TypeOK, RecordHolds, TreeHolds, RunHolds, Projects

LEMMA StartLemma ==
    ASSUME Inv, StartGenerate
    PROVE  Inv'
<1> USE DEF Inv
<1> DEFINE first == [read |-> spec, todo |-> Files]
<1>1. /\ run' = first /\ ~Refused
      /\ UNCHANGED <<spec, recorded, schema, view, held, stored, astray>>
  BY DEF StartGenerate
<1>2. first \in [read : Reads, todo : SUBSET Files] /\ first.read = spec /\ first.todo = Files
  BY DEF TypeOK
<1> HIDE DEF first
<1>3. run' # Idle
  BY <1>1, <1>2, IdleAssumption
<1>4. TypeOK'
  BY <1>1, <1>2 DEF TypeOK
<1>5. ~astray' => RecordHolds' /\ TreeHolds'
  BY <1>1, <1>3 DEF RecordHolds, TreeHolds, Projects
<1>6. ~Refused'
  BY <1>1 DEF Refused, ViewState, ChangedWithoutBump
<1>7. RunHolds'
  BY <1>1, <1>2, <1>6 DEF RunHolds, Files
<1> QED
  BY <1>4, <1>5, <1>7

LEMMA WriteSchemaLemma ==
    ASSUME Inv, WriteSchema
    PROVE  Inv'
<1> USE DEF Inv
<1>1. /\ run \in [read : Reads, todo : SUBSET Files] /\ run # Idle /\ "schema" \in run.todo
      /\ run' = [run EXCEPT !.todo = @ \ {"schema"}]
      /\ schema' = IF "schema" \in held THEN schema ELSE run.read.shape
      /\ UNCHANGED <<spec, recorded, view, held, stored, astray>>
  BY DEF WriteSchema, TypeOK
<1>2. run.todo = Files /\ run.read = spec /\ spec.shape \in Shapes
  BY <1>1 DEF RunHolds, TypeOK, Reads
<1>3. /\ run' \in [read : Reads, todo : SUBSET Files]
      /\ run'.read = run.read /\ run'.todo = {"view"}
  BY <1>1, <1>2 DEF Files
<1>4. run' # Idle
  BY <1>3, IdleAssumption
<1>5. TypeOK'
  BY <1>1, <1>2, <1>3 DEF TypeOK
<1>6. ~astray' => RecordHolds' /\ TreeHolds'
  BY <1>1, <1>4 DEF RecordHolds, TreeHolds, Projects
<1>7. ~Refused'
  BY <1>1 DEF RunHolds, Refused, ViewState, ChangedWithoutBump
<1>8. RunHolds'
  BY <1>1, <1>2, <1>3, <1>7 DEF RunHolds
<1> QED
  BY <1>5, <1>6, <1>8

LEMMA WriteViewLemma ==
    ASSUME Inv, WriteView
    PROVE  Inv'
<1> USE DEF Inv
<1>1. /\ run \in [read : Reads, todo : SUBSET Files] /\ run # Idle /\ run.todo = {"view"}
      /\ run' = [run EXCEPT !.todo = {}]
      /\ view' = IF "view" \in held THEN view
                 ELSE IF run.read.backing = "mongo" THEN run.read.version ELSE 0
      /\ UNCHANGED <<spec, recorded, schema, held, stored, astray>>
  BY DEF WriteView, TypeOK
<1>2. /\ run' \in [read : Reads, todo : SUBSET Files]
      /\ run'.read = run.read /\ run'.todo = {}
  BY <1>1
<1>3. run' # Idle
  BY <1>2, IdleAssumption
<1>4. run.read = spec /\ spec.version \in Versions /\ 0 \in Versions
  BY <1>1, VersionAssumption DEF RunHolds, TypeOK, Reads, Versions
<1>5. TypeOK'
  BY <1>1, <1>2, <1>4 DEF TypeOK
<1>6. ~astray' => RecordHolds' /\ TreeHolds'
  BY <1>1, <1>3 DEF RecordHolds, TreeHolds, Projects
<1>7. ~Refused'
  BY <1>1 DEF RunHolds, Refused, ViewState, ChangedWithoutBump
<1>8. RunHolds'
  BY <1>1, <1>2, <1>4, <1>7 DEF RunHolds
<1> QED
  BY <1>5, <1>6, <1>8

\* The deployed view is of an older version than the one now on record: the
\* generation went above it, or the guard has seen to it that a version that
\* stayed the same has kept its shape.
LEMMA SaveLemma ==
    ASSUME Inv, SaveLock
    PROVE  Inv'
<1> USE DEF Inv
<1>1. /\ run # Idle /\ run.todo = {} /\ run.read = spec /\ ~Refused
      /\ recorded' = ViewState(spec)
      /\ run' = Idle
      /\ UNCHANGED <<spec, schema, view, held, stored>>
      /\ astray' = (astray /\ ~SetsRight)
  BY DEF SaveLock, RunHolds
<1>2. spec \in Reads /\ spec.version \in Nat
  BY VersionAssumption DEF TypeOK, Reads, Versions
<1>3. TypeOK'
  BY <1>1, <1>2, ViewStateLemma DEF TypeOK
<1>4. RunHolds'
  BY <1>1 DEF RunHolds
<1>5. ASSUME ~astray'
      PROVE  RecordHolds' /\ TreeHolds'
  <2>1. held = {}
    BY <1>1, <1>5 DEF SetsRight, RecordHolds
  <2>2. ASSUME stored # Nothing
        PROVE  /\ Projects(ViewState(spec))
               /\ stored.version <= spec.version
               /\ stored.version = spec.version => stored.shape = ViewState(spec).shape
    <3>1. CASE SetsRight
      <4>1. stored.version \in Nat
        BY <2>2, VersionAssumption DEF TypeOK, Pairs, Versions
      <4> QED
        BY <1>1, <1>2, <2>2, <3>1, <4>1, ViewStateLemma DEF SetsRight
    <3>2. CASE ~astray
      <4>1. /\ Projects(recorded) /\ spec.backing = "mongo"
            /\ spec.version >= recorded.version
            /\ stored.version <= recorded.version
            /\ stored.version = recorded.version => stored.shape = recorded.shape
        BY <2>2, <3>2 DEF RecordHolds
      <4>2. recorded.version \in Nat /\ stored.version \in Nat
        BY <2>2, <4>1, VersionAssumption DEF TypeOK, Projects, Pairs, Versions
      <4>3. recorded.version = spec.version => recorded.shape = ViewState(spec).shape
        BY <1>1, <1>2, <4>1, ViewStateLemma DEF Refused, ChangedWithoutBump, Projects
      <4> QED
        BY <1>2, <4>1, <4>2, <4>3, ViewStateLemma
    <3> QED
      BY <1>1, <1>5, <3>1, <3>2
  <2>3. RecordHolds'
    BY <1>1, <1>2, <2>1, <2>2, ViewStateLemma DEF RecordHolds, Projects
  <2>4. schema = spec.shape /\ view = IF spec.backing = "mongo" THEN spec.version ELSE 0
    BY <1>1, <2>1 DEF RunHolds
  <2>5. TreeHolds'
    BY <1>1, <1>2, <2>4, ViewStateLemma DEF TreeHolds, Projects
  <2> QED
    BY <2>3, <2>5
<1> QED
  BY <1>3, <1>4, <1>5

LEMMA BootLemma ==
    ASSUME Inv, Boot
    PROVE  Inv'
<1> USE DEF Inv
<1>1. /\ run = Idle /\ run' = run /\ view # 0
      /\ stored' = [shape |-> schema, version |-> view]
      /\ UNCHANGED <<spec, recorded, schema, view, held, astray>>
  BY DEF Boot
<1>2. stored' \in Pairs /\ stored'.shape = schema /\ stored'.version = view
  BY <1>1 DEF TypeOK, Pairs
<1>3. TypeOK'
  BY <1>1, <1>2 DEF TypeOK
<1>4. RunHolds'
  BY <1>1 DEF RunHolds
<1>5. ASSUME ~astray
      PROVE  RecordHolds' /\ TreeHolds'
  <2>1. Projects(recorded) /\ schema = recorded.shape /\ view = recorded.version
    BY <1>1, <1>5 DEF TreeHolds
  <2>2. view \in Nat
    BY VersionAssumption DEF TypeOK, Versions
  <2>3. RecordHolds'
    BY <1>1, <1>2, <1>5, <2>1, <2>2 DEF RecordHolds, Projects
  <2> QED
    BY <1>1, <1>5, <2>3 DEF TreeHolds, Projects
<1> QED
  BY <1>1, <1>3, <1>4, <1>5

LEMMA EditLemma ==
    ASSUME Inv, NEW r \in Reads, EditSpec(r)
    PROVE  Inv'
<1> USE DEF Inv
<1>1. /\ run = Idle /\ run' = run /\ spec' = r
      /\ UNCHANGED <<recorded, schema, view, held, stored>>
      /\ astray' = (astray \/ GoesBack(r))
  BY DEF EditSpec
<1>2. TypeOK'
  BY <1>1 DEF TypeOK
<1>3. RunHolds'
  BY <1>1 DEF RunHolds
<1>4. ASSUME ~astray'
      PROVE  RecordHolds' /\ TreeHolds'
  <2>1. ~astray /\ ~GoesBack(r)
    BY <1>1, <1>4
  <2>2. r.version \in Nat /\ spec.version \in Nat
    BY VersionAssumption DEF TypeOK, Reads, Versions
  <2>3. spec.backing = "mongo" => r.backing = "mongo" /\ r.version >= spec.version
    BY <2>1, <2>2 DEF GoesBack
  <2>4. Projects(recorded) => recorded.version \in Nat
    BY VersionAssumption DEF TypeOK, Projects, Pairs, Versions
  <2>5. RecordHolds'
    BY <1>1, <2>1, <2>2, <2>3, <2>4 DEF RecordHolds, Projects
  <2> QED
    BY <1>1, <2>1, <2>5 DEF TreeHolds, Projects
<1> QED
  BY <1>2, <1>3, <1>4

-----------------------------------------------------------------------------
\* Types, what a generation at work has written, and, while nothing has gone
\* astray, how spec, lock, tree and deployed view hang together.
THEOREM Invariance == Spec => []Inv
<1>1. Inv /\ [Next]_vars => Inv'
  <2> SUFFICES ASSUME Inv, [Next]_vars
               PROVE  Inv'
    OBVIOUS
  <2>1. ASSUME NEW r \in Reads, EditSpec(r)
        PROVE  Inv'
    BY <2>1, EditLemma
  <2>2. ASSUME NEW f \in Files, Release(f)
        PROVE  Inv'
    BY <2>2 DEF Release, Inv, TypeOK, RecordHolds, RunHolds, TreeHolds, Projects
  <2>3. ASSUME NEW f \in Files, Hold(f)
        PROVE  Inv'
    BY <2>3 DEF Hold, Inv, TypeOK, RunHolds
  <2>4. CASE Crash
    BY <2>4 DEF Crash, Inv, TypeOK, RunHolds
  <2>5. CASE LoseLock
    BY <2>5 DEF LoseLock, Inv, TypeOK, RunHolds
  <2>6. CASE UNCHANGED vars
    BY <2>6 DEF vars, Inv, TypeOK, RecordHolds, TreeHolds, RunHolds, Projects, Refused,
                ViewState, ChangedWithoutBump
  <2> QED
    BY <2>1, <2>2, <2>3, <2>4, <2>5, <2>6,
       StartLemma, WriteSchemaLemma, WriteViewLemma, SaveLemma, BootLemma
    DEF Next, Generate
<1> QED
  BY <1>1, InvInit, PTL DEF Spec

\* "A boot trap is a static error": a generation that finished leaves a tree
\* that boots, while nothing has gone astray. (Generate,
\* ViewShapeChangedWithoutBump)
THEOREM BootsNeverAbort == Spec => []BootNeverAborts
<1>1. Inv => BootNeverAborts
  <2> SUFFICES ASSUME Inv, run = Idle, ~astray, view # 0, stored # Nothing,
                      stored.version = view
               PROVE  stored.shape = schema
    BY DEF BootNeverAborts, BootAborts
  <2> QED
    BY DEF Inv, RecordHolds, TreeHolds
<1> QED
  BY <1>1, Invariance, PTL
=============================================================================
