---------------------------- MODULE Rules_proofs ----------------------------
(***************************************************************************)
(* Proofs about module Rules, for every collection of specs the validator  *)
(* accepts and every write of theirs: a value object a rule pulls forward  *)
(* answers once, what is refused is told unless a barrier stands before    *)
(* it, and a write is accepted if and only if all that is declared allows  *)
(* it. The invariant says why at each step: what the lines that have run   *)
(* told and left out, and nothing else, is told and left out.              *)
(***************************************************************************)
EXTENDS Rules, SequenceTheorems, FunctionTheorems, FiniteSetTheorems,
        WellFoundedInduction, TLAPS

-----------------------------------------------------------------------------
\* What the operators that build lists return: the members of a flattened list
\* of lists, and of a finite set in some order. Both are inductions over the
\* naturals, made with a set in the place of a predicate.

LEMMA Induction ==
    ASSUME NEW T, 0 \in T, \A n \in Nat : n \in T => n + 1 \in T
    PROVE  \A n \in Nat : n \in T
<1> DEFINE U == Nat \ T
<1> SUFFICES ASSUME U # {} PROVE FALSE
  OBVIOUS
<1>1. PICK x \in U : \A y \in U : ~(<<y, x>> \in OpToRel(<, Nat))
  BY WFMin, NatLessThanWellFounded
<1>2. x \in Nat /\ x # 0 /\ x - 1 \in Nat
  OBVIOUS
<1>3. CASE x - 1 \in U
  <2>1. <<x - 1, x>> \in OpToRel(<, Nat)
    BY <1>2 DEF OpToRel
  <2> QED
    BY <1>1, <1>3, <2>1
<1>4. CASE x - 1 \in T
  BY <1>2, <1>4
<1> QED
  BY <1>2, <1>3, <1>4

\* The running concatenations of the first n of these lists.
Joined(seqs, g, n) ==
    g = [i \in 1..n |-> IF i = 1 THEN seqs[i] ELSE g[i - 1] \o seqs[i]]

LEMMA JoinedExists == ASSUME NEW seqs PROVE \A n \in Nat : \E g : Joined(seqs, g, n)
<1> DEFINE T == {n \in Nat : \E g : Joined(seqs, g, n)}
<1>1. 0 \in T
  <2>1. 1..0 = {}
    OBVIOUS
  <2>2. Joined(seqs, [i \in {} |-> 0], 0)
    BY <2>1 DEF Joined
  <2> QED
    BY <2>2
<1>2. ASSUME NEW n \in Nat, n \in T PROVE n + 1 \in T
  <2>1. PICK g : Joined(seqs, g, n)
    BY <1>2
  <2> DEFINE last == IF n = 0 THEN seqs[1] ELSE g[n] \o seqs[n + 1]
             h == [i \in 1..(n + 1) |-> IF i = n + 1 THEN last ELSE g[i]]
  <2>2. ASSUME NEW i \in 1..(n + 1)
        PROVE  h[i] = IF i = 1 THEN seqs[i] ELSE h[i - 1] \o seqs[i]
    <3>1. CASE i = n + 1
      BY <3>1
    <3>2. CASE i # n + 1
      <4>1. i \in 1..n /\ (i # 1 => i - 1 \in 1..n /\ i - 1 # n + 1)
        BY <3>2
      <4>2. g[i] = IF i = 1 THEN seqs[i] ELSE g[i - 1] \o seqs[i]
        BY <2>1, <4>1 DEF Joined
      <4>3. i # 1 => h[i - 1] = g[i - 1]
        BY <4>1
      <4> QED
        BY <3>2, <4>1, <4>2, <4>3
    <3> QED
      BY <3>1, <3>2
  <2>3. Joined(seqs, h, n + 1)
    BY <2>2 DEF Joined
  <2> QED
    BY <2>3
<1> HIDE DEF T
<1>3. \A n \in Nat : n \in T
  BY <1>1, <1>2, Induction
<1> QED
  BY <1>3 DEF T

LEMMA FlattenIsJoined ==
    ASSUME NEW seqs, Len(seqs) \in Nat \ {0}
    PROVE  \E g : Joined(seqs, g, Len(seqs)) /\ FlattenSeq(seqs) = g[Len(seqs)]
<1> DEFINE f == CHOOSE g : g = [i \in 1..Len(seqs) |->
                                   IF i = 1 THEN seqs[i] ELSE g[i - 1] \o seqs[i]]
<1>1. Joined(seqs, f, Len(seqs))
  BY JoinedExists DEF Joined
<1>2. FlattenSeq(seqs) = f[Len(seqs)]
  BY DEF FlattenSeq
<1> QED
  BY <1>1, <1>2

IsList(s) == s \in Seq(ToSet(s))

LEMMA Elements ==
    ASSUME NEW S, NEW s \in Seq(S)
    PROVE  /\ ToSet(s) \subseteq S
           /\ IsList(s)
           /\ s = <<>> => ToSet(s) = {}
<1>1. Len(s) \in Nat /\ DOMAIN s = 1..Len(s) /\ s \in [1..Len(s) -> S]
  BY LenProperties
<1>2. s \in [1..Len(s) -> ToSet(s)]
  BY <1>1 DEF ToSet
<1>3. s \in UNION {[1..i -> ToSet(s)] : i \in Nat}
  BY <1>1, <1>2
<1>4. s \in Seq(ToSet(s))
  BY <1>3, SeqDef, Zenon
<1>5. ToSet(s) \subseteq S
  BY <1>1 DEF ToSet
<1>6. s = <<>> => ToSet(s) = {}
  BY DEF ToSet
<1> QED
  BY <1>4, <1>5, <1>6 DEF IsList

LEMMA Indexed ==
    ASSUME NEW k \in Nat, NEW f, f = [i \in 1..k |-> f[i]]
    PROVE  /\ IsList(f) /\ Len(f) = k /\ DOMAIN f = 1..k
           /\ k = 0 => f = <<>>
<1> DEFINE S == {f[i] : i \in 1..k}
<1>1. f \in [1..k -> S]
  OBVIOUS
<1>2. f \in UNION {[1..i -> S] : i \in Nat}
  BY <1>1
<1>3. f \in Seq(S)
  BY <1>2, SeqDef, Zenon
<1>4. Len(f) = k /\ DOMAIN f = 1..k
  <2>1. DOMAIN f = 1..Len(f) /\ Len(f) \in Nat
    BY <1>3, LenProperties
  <2>2. DOMAIN f = 1..k
    BY <1>1
  <2> QED
    BY <2>1, <2>2
<1>5. k = 0 => f = <<>>
  BY <1>3, <1>4, EmptySeq
<1> QED
  BY <1>3, <1>4, <1>5, Elements

LEMMA Few ==
    /\ IsList(<<>>) /\ ToSet(<<>>) = {}
    /\ \A x : IsList(<<x>>) /\ ToSet(<<x>>) = {x}
    /\ \A x, y : IsList(<<x, y>>) /\ ToSet(<<x, y>>) = {x, y}
<1>1. IsList(<<>>) /\ ToSet(<<>>) = {}
  BY EmptySeq, Elements
<1>2. ASSUME NEW x PROVE IsList(<<x>>) /\ ToSet(<<x>>) = {x}
  <2>1. <<x>> \in Seq({x})
    OBVIOUS
  <2>2. ToSet(<<x>>) = {x}
    BY DEF ToSet
  <2> QED
    BY <2>1, <2>2, Elements
<1>3. ASSUME NEW x, NEW y PROVE IsList(<<x, y>>) /\ ToSet(<<x, y>>) = {x, y}
  <2>1. <<x, y>> \in Seq({x, y})
    OBVIOUS
  <2>2. ToSet(<<x, y>>) = {x, y}
    BY DEF ToSet
  <2> QED
    BY <2>1, <2>2, Elements
<1> QED
  BY <1>1, <1>2, <1>3

\* The members of two lists, one after the other.
LEMMA Concatenation ==
    ASSUME NEW s, NEW t, IsList(s), IsList(t)
    PROVE  IsList(s \o t) /\ ToSet(s \o t) = ToSet(s) \cup ToSet(t)
<1> DEFINE S == ToSet(s) \cup ToSet(t)
<1>0. s \in Seq(S) /\ t \in Seq(S)
  BY SeqMonotonic DEF IsList
<1> HIDE DEF S
<1>1. /\ s \o t \in Seq(S) /\ Len(s) \in Nat /\ Len(t) \in Nat
      /\ DOMAIN s = 1..Len(s) /\ DOMAIN t = 1..Len(t)
      /\ DOMAIN (s \o t) = 1..(Len(s) + Len(t))
      /\ \A i \in 1..(Len(s) + Len(t)) :
            (s \o t)[i] = IF i <= Len(s) THEN s[i] ELSE t[i - Len(s)]
  BY <1>0, ConcatProperties, LenProperties
<1>2. ASSUME NEW x \in ToSet(s \o t) PROVE x \in ToSet(s) \cup ToSet(t)
  <2>1. PICK i \in 1..(Len(s) + Len(t)) : x = (s \o t)[i]
    BY <1>1, <1>2 DEF ToSet
  <2>2. i <= Len(s) => i \in DOMAIN s
    BY <1>1
  <2>3. ~(i <= Len(s)) => i - Len(s) \in DOMAIN t
    BY <1>1
  <2> QED
    BY <1>1, <2>1, <2>2, <2>3 DEF ToSet
<1>3. ASSUME NEW x \in ToSet(s) PROVE x \in ToSet(s \o t)
  <2>1. PICK i \in 1..Len(s) : x = s[i]
    BY <1>1, <1>3 DEF ToSet
  <2>2. i \in 1..(Len(s) + Len(t)) /\ i <= Len(s)
    BY <1>1
  <2> QED
    BY <1>1, <2>1, <2>2 DEF ToSet
<1>4. ASSUME NEW x \in ToSet(t) PROVE x \in ToSet(s \o t)
  <2>1. PICK i \in 1..Len(t) : x = t[i]
    BY <1>1, <1>4 DEF ToSet
  <2>2. /\ i + Len(s) \in 1..(Len(s) + Len(t)) /\ ~(i + Len(s) <= Len(s))
        /\ i + Len(s) - Len(s) = i
    BY <1>1
  <2>3. (s \o t)[i + Len(s)] = t[i]
    BY <1>1, <2>2
  <2> QED
    BY <1>1, <2>1, <2>2, <2>3 DEF ToSet
<1> QED
  BY <1>1, <1>2, <1>3, <1>4, Elements

\* The members of a flattened list of lists are those of the lists.
LEMMA Flattening ==
    ASSUME NEW k \in Nat, NEW seqs, seqs = [i \in 1..k |-> seqs[i]],
           \A i \in 1..k : IsList(seqs[i])
    PROVE  /\ IsList(FlattenSeq(seqs))
           /\ ToSet(FlattenSeq(seqs)) = UNION {ToSet(seqs[i]) : i \in 1..k}
<1>0. Len(seqs) = k /\ DOMAIN seqs = 1..k /\ (k = 0 => seqs = <<>>)
  BY Indexed
<1>1. CASE k = 0
  <2>1. FlattenSeq(seqs) = <<>>
    BY <1>0, <1>1 DEF FlattenSeq
  <2>2. 1..k = {} /\ <<>> \in Seq({})
    BY <1>1, EmptySeq
  <2>3. ToSet(<<>>) = {}
    BY <2>2, Elements
  <2>4. UNION {ToSet(seqs[i]) : i \in 1..k} = {}
    BY <2>2
  <2> QED
    BY <2>1, <2>2, <2>3, <2>4, Elements
<1>2. CASE k # 0
  <2>1. PICK g : Joined(seqs, g, k) /\ FlattenSeq(seqs) = g[k]
    BY <1>0, <1>2, FlattenIsJoined
  <2>2. \A i \in 1..k : g[i] = IF i = 1 THEN seqs[i] ELSE g[i - 1] \o seqs[i]
    BY <2>1 DEF Joined
  <2> DEFINE All(i) == UNION {ToSet(seqs[j]) : j \in 1..i}
             T == {i \in Nat : i \in 1..k =>
                                 IsList(g[i]) /\ ToSet(g[i]) = All(i)}
  <2>3. 0 \in T
    OBVIOUS
  <2>4. ASSUME NEW i \in Nat, i \in T PROVE i + 1 \in T
    <3> SUFFICES ASSUME i + 1 \in 1..k
                 PROVE  IsList(g[i + 1]) /\ ToSet(g[i + 1]) = All(i + 1)
      OBVIOUS
    <3>1. CASE i = 0
      <4>1. g[1] = seqs[1] /\ IsList(seqs[1])
        BY <2>2, <3>1
      <4>2. All(1) = ToSet(seqs[1])
        OBVIOUS
      <4> QED
        BY <3>1, <4>1, <4>2
    <3>2. CASE i # 0
      <4>1. i \in 1..k /\ i + 1 # 1 /\ i + 1 - 1 = i
        BY <3>2
      <4>2. IsList(g[i]) /\ ToSet(g[i]) = All(i)
        BY <2>4, <4>1
      <4>3. g[i + 1] = g[i] \o seqs[i + 1] /\ IsList(seqs[i + 1])
        <5>1. g[i + 1] = IF i + 1 = 1 THEN seqs[i + 1] ELSE g[i + 1 - 1] \o seqs[i + 1]
          BY <2>2
        <5>2. i + 1 \in 1..k
          OBVIOUS
        <5> QED
          BY <4>1, <5>1, <5>2
      <4>4. /\ IsList(g[i + 1])
            /\ ToSet(g[i + 1]) = ToSet(g[i]) \cup ToSet(seqs[i + 1])
        BY <4>2, <4>3, Concatenation
      <4>5. 1..(i + 1) = (1..i) \cup {i + 1}
        OBVIOUS
      <4>6. All(i + 1) = All(i) \cup ToSet(seqs[i + 1])
        BY <4>5
      <4> QED
        BY <4>2, <4>4, <4>6
    <3> QED
      BY <3>1, <3>2
  <2> HIDE DEF T
  <2>5. \A i \in Nat : i \in T
    BY <2>3, <2>4, Induction
  <2>6. k \in 1..k
    BY <1>2
  <2> QED
    BY <2>1, <2>5, <2>6 DEF T
<1> QED
  BY <1>1, <1>2

\* A finite set, in some order.
LEMMA Ordering ==
    ASSUME NEW S, IsFiniteSet(S)
    PROVE  IsList(SetToSeq(S)) /\ ToSet(SetToSeq(S)) = S
<1> DEFINE n == Cardinality(S)
<1>1. n \in Nat /\ ExistsBijection(1..n, S)
  BY FS_CardinalityType
<1>2. \E f \in [1..n -> S] : IsInjective(f)
  BY <1>1 DEF ExistsBijection, Bijection, Injection
<1>3. SetToSeq(S) \in [1..n -> S] /\ IsInjective(SetToSeq(S))
  BY <1>2 DEF SetToSeq
<1>4. IsFiniteSet(1..n) /\ Cardinality(1..n) = n
  BY <1>1, FS_Interval
<1>5. SetToSeq(S) \in Injection(1..n, S)
  BY <1>3 DEF Injection
<1>6. SetToSeq(S) \in Surjection(1..n, S)
  BY <1>4, <1>5, FS_Injection
<1>7. ToSet(SetToSeq(S)) = S
  BY <1>3, <1>6 DEF ToSet, Surjection
<1>8. SetToSeq(S) \in UNION {[1..i -> S] : i \in Nat}
  BY <1>1, <1>3
<1>9. SetToSeq(S) \in Seq(S)
  BY <1>8, SeqDef, Zenon
<1> QED
  BY <1>7, <1>9, Elements

-----------------------------------------------------------------------------
\* Value objects that answer once.

\* What is read of the constants.
Given == write \in Writes

\* A list of lines, less its first, is the rest of them in order.
LEMMA TailLemma ==
    ASSUME NEW lines, lines \in Seq(ToSet(lines)), lines # <<>>
    PROVE  /\ 1 \in DOMAIN lines
           /\ Head(lines) = lines[1]
           /\ Tail(lines) \in Seq(ToSet(Tail(lines)))
           /\ \A k \in DOMAIN Tail(lines) : /\ k + 1 \in DOMAIN lines
                                            /\ k + 1 # 1
                                            /\ Tail(lines)[k] = lines[k + 1]
<1> DEFINE rest == Tail(lines)
           n == Len(lines) - 1
<1>1. /\ Len(lines) \in Nat \ {0}
      /\ DOMAIN lines = 1..Len(lines)
  BY EmptySeq, LenProperties
<1>2. /\ rest \in Seq(ToSet(lines))
      /\ Len(rest) = n
      /\ \A i \in 1..Len(rest) : rest[i] = lines[i + 1]
  BY HeadTailProperties
<1>3. DOMAIN rest = 1..n
  BY <1>2, LenProperties
<1>4. rest \in Seq(ToSet(rest))
  <2>1. \A i \in DOMAIN rest : rest[i] \in ToSet(rest)
    BY DEF ToSet
  <2>2. PICK m \in Nat : rest \in [1..m -> ToSet(lines)]
    <3> HIDE DEF rest
    <3>1. rest \in UNION {[1..i -> ToSet(lines)] : i \in Nat}
      BY <1>2, SeqDef, Zenon
    <3> QED
      BY <3>1, Zenon
  <2>3. rest \in [1..m -> ToSet(rest)]
    BY <2>1, <2>2
  <2>4. rest \in UNION {[1..i -> ToSet(rest)] : i \in Nat}
    BY <2>3
  <2> QED
    BY <2>4, SeqDef, Zenon
<1>5. Head(lines) = lines[1]
  OBVIOUS
<1> HIDE DEF rest
<1>6. \A k \in DOMAIN rest : k + 1 \in DOMAIN lines /\ k + 1 # 1 /\ rest[k] = lines[k + 1]
  BY <1>1, <1>2, <1>3
<1> QED
  BY <1>1, <1>4, <1>5, <1>6 DEF rest

\* What is left of a well-formed list of lines is one.
LEMMA WellFormedTail ==
    ASSUME NEW s, NEW lines, WellFormed(s, lines), lines # <<>>
    PROVE  WellFormed(s, Tail(lines))
<1> DEFINE rest == Tail(lines)
<1>1. lines \in Seq(ToSet(lines))
  BY DEF WellFormed
<1>2. /\ rest \in Seq(ToSet(rest))
      /\ \A k \in DOMAIN rest : k + 1 \in DOMAIN lines /\ rest[k] = lines[k + 1]
  BY <1>1, TailLemma
<1>3. \A k \in DOMAIN rest : k \in Int
  BY <1>2, LenProperties
<1> HIDE DEF rest
<1>4. ASSUME NEW k \in DOMAIN rest, NEW j \in DOMAIN rest, Pulls(rest[k]), Pulls(rest[j]), k # j
      PROVE  Subjects(rest[k].rule) \cap Subjects(rest[j].rule) = {}
  <2>1. k + 1 # j + 1
    BY <1>3, <1>4
  <2> QED
    BY <2>1, <1>2, <1>4 DEF WellFormed
<1>5. ASSUME NEW k \in DOMAIN rest, rest[k].do = "check"
      PROVE  ByValueObject(s, rest[k].rule.id) <=> Pulls(rest[k])
  BY <1>2, <1>5 DEF WellFormed
<1>6. WellFormed(s, rest)
  BY <1>2, <1>4, <1>5 DEF WellFormed
<1> QED
  BY <1>6 DEF rest

LEMMA WellFormedNothing == ASSUME NEW s PROVE WellFormed(s, <<>>)
<1>1. <<>> \in Seq(ToSet(<<>>))
  BY EmptySeq
<1>2. DOMAIN <<>> = {}
  OBVIOUS
<1> QED
  BY <1>1, <1>2 DEF WellFormed

\* The lines of an owner are well-formed, since the validator accepted them.
LEMMA LinesLemma ==
    ASSUME NEW w \in Writes, NEW n
    PROVE  WellFormed(SpecOf(w), Lines(w, n))
<1>1. w.spec \in DOMAIN Specs /\ w.mode \in Modes
  BY WritesAssumption, SpecsAssumption DEF Accepted
<1>2. /\ WellFormed(Specs[w.spec], Run(RootFile[w.spec], w.mode))
      /\ WellFormed(Specs[w.spec], Run(EntryFile[w.spec], w.mode))
  BY <1>1, SpecsAssumption
<1> QED
  BY <1>2 DEF Lines, SpecOf

\* A value-object rule reports fields it names.
LEMMA RefusesItsOwn ==
    ASSUME NEW n, NEW r, NEW w, r.kind = "valueObject"
    PROVE  Refuses(n, r, w) \subseteq Subjects(r)
<1>1. \A fs, old, e, who : RecordRefuses(r, fs, old, e, who) \subseteq Subjects(r)
  BY DEF RecordRefuses, Judged
<1>2. RootRefuses(r, w) = RecordRefuses(r, SpecOf(w).fields, w.old, w.now, w.who)
  BY DEF RootRefuses
<1> QED
  BY <1>1, <1>2 DEF Refuses

LEMMA ScopeIsNone == ASSUME Given PROVE ~ByValueObject(SpecOf(write), "scope")
BY WritesAssumption, SpecsAssumption DEF Given, SpecOf

-----------------------------------------------------------------------------
LEMMA AnswersInit == Init => AnsweredOnce /\ Given
<1> SUFFICES ASSUME Init PROVE AnsweredOnce /\ Given
  OBVIOUS
<1>1. Given
  BY DEF Init, Given
<1>2. at \in Owners(write)
  BY WritesAssumption DEF Init, Owners
<1>3. WellFormed(SpecOf(write), todo)
  BY LinesLemma DEF Init
<1>4. TypeOK
  BY <1>2, <1>3 DEF TypeOK, Init
<1> QED
  BY <1>1, <1>4 DEF AnsweredOnce, SpokenFor, ToldOnce, Init

\* A line that has no value object speak, and leaves the rest.
LEMMA QuietStep ==
    ASSUME AnsweredOnce, Given, ~ended, todo # <<>>, todo' = Tail(todo), UNCHANGED <<write, at, ended>>,
           excluded \subseteq excluded',
           NEW by, ~ByValueObject(SpecOf(write), by),
           \A t \in told' : t \in told \/ (t.by = by /\ t.at = at)
    PROVE  AnsweredOnce' /\ Given'
<1>1. Given' /\ SpecOf(write)' = SpecOf(write)
  BY DEF Given, SpecOf
<1>2. at \in 0..at
  BY WritesAssumption DEF AnsweredOnce, TypeOK, Owners, Given
<1>3. WellFormed(SpecOf(write), todo)
  BY DEF AnsweredOnce, TypeOK
<1>4. WellFormed(SpecOf(write), Tail(todo))
  BY <1>3, WellFormedTail
<1>5. TypeOK'
  <2>1. \A t \in told' : t.at \in 0..at
    BY <1>2 DEF AnsweredOnce, TypeOK
  <2> QED
    BY <1>1, <1>4, <2>1 DEF AnsweredOnce, TypeOK, Owners
<1>6. \A k \in DOMAIN todo' : k + 1 \in DOMAIN todo /\ todo'[k] = todo[k + 1]
  BY <1>3, TailLemma DEF WellFormed
<1>7. SpokenFor'
  BY <1>1, <1>6 DEF AnsweredOnce, SpokenFor
<1>8. ToldOnce'
  BY <1>1 DEF AnsweredOnce, ToldOnce
<1> QED
  BY <1>1, <1>5, <1>7, <1>8 DEF AnsweredOnce

\* A value object pulled forward has not spoken of these fields before, and no
\* one after it will.
LEMMA PulledStep ==
    ASSUME AnsweredOnce, Given, ~ended, todo # <<>>, todo' = Tail(todo), UNCHANGED <<write, at, ended>>,
           Pulls(todo[1]), NEW seats \in SUBSET Subjects(todo[1].rule),
           Tell(todo[1].rule.id, seats),
           excluded' = excluded \cup Subjects(todo[1].rule)
    PROVE  AnsweredOnce' /\ Given'
<1> DEFINE r == todo[1].rule
<1>1. Given' /\ SpecOf(write)' = SpecOf(write)
  BY DEF Given, SpecOf
<1>2. at \in 0..at
  BY WritesAssumption DEF AnsweredOnce, TypeOK, Owners, Given
<1>3. WellFormed(SpecOf(write), todo)
  BY DEF AnsweredOnce, TypeOK
<1>4. WellFormed(SpecOf(write), Tail(todo))
  BY <1>3, WellFormedTail
<1>5. \A t \in told' : t \in told \/ \E n \in seats : t = [by |-> r.id, at |-> at, seat |-> n]
  BY DEF Tell
<1>6. TypeOK'
  <2>1. \A t \in told' : t.at \in 0..at
    BY <1>2, <1>5 DEF AnsweredOnce, TypeOK
  <2> QED
    BY <1>1, <1>4, <2>1 DEF AnsweredOnce, TypeOK, Owners
<1>7. /\ 1 \in DOMAIN todo
      /\ \A k \in DOMAIN todo' : k + 1 \in DOMAIN todo /\ k + 1 # 1 /\ todo'[k] = todo[k + 1]
  BY <1>3, TailLemma DEF WellFormed
<1>8. \A k \in DOMAIN todo' : Pulls(todo'[k]) => Subjects(r) \cap Subjects(todo'[k].rule) = {}
  BY <1>3, <1>7 DEF WellFormed
<1>9. SpokenFor'
  <2> SUFFICES ASSUME NEW t \in told', ByValueObject(SpecOf(write), t.by), t.at = at
               PROVE  /\ t.seat \in excluded'
                      /\ \A k \in DOMAIN todo' :
                            Pulls(todo'[k]) => t.seat \notin Subjects(todo'[k].rule)
    BY <1>1 DEF SpokenFor
  <2>1. CASE t \in told
    BY <2>1, <1>7 DEF AnsweredOnce, SpokenFor
  <2>2. CASE \E n \in seats : t = [by |-> r.id, at |-> at, seat |-> n]
    BY <2>2, <1>8
  <2> QED
    BY <2>1, <2>2, <1>5
<1>10. ToldOnce'
  <2> SUFFICES ASSUME NEW t \in told', NEW u \in told',
                      ByValueObject(SpecOf(write), t.by), ByValueObject(SpecOf(write), u.by),
                      t.at = u.at, t.seat = u.seat
               PROVE  t = u
    BY <1>1 DEF ToldOnce
  <2>1. \A x \in told : (ByValueObject(SpecOf(write), x.by) /\ x.at = at) => x.seat \notin seats
    BY <1>7 DEF AnsweredOnce, SpokenFor
  <2>2. CASE t \in told /\ u \in told
    BY <2>2 DEF AnsweredOnce, ToldOnce
  <2>3. CASE t \notin told \/ u \notin told
    BY <2>1, <2>3, <1>5
  <2> QED
    BY <2>2, <2>3
<1> QED
  BY <1>1, <1>6, <1>9, <1>10 DEF AnsweredOnce

LEMMA ScopeStep == ASSUME AnsweredOnce, Given, Scope PROVE AnsweredOnce' /\ Given'
<1>1. ~ended /\ todo # <<>> /\ todo' = Tail(todo) /\ UNCHANGED <<write, at, excluded, ended>>
  BY DEF Scope, Running
<1>2. \A t \in told' : t \in told \/ (t.by = "scope" /\ t.at = at)
  BY DEF Scope, Tell
<1> QED
  BY <1>1, <1>2, ScopeIsNone, QuietStep

LEMMA ExcludeStep == ASSUME AnsweredOnce, Given, Exclude PROVE AnsweredOnce' /\ Given'
<1>1. ~ended /\ todo # <<>> /\ todo' = Tail(todo) /\ UNCHANGED <<write, at, ended, told>>
  BY DEF Exclude, Running
<1>2. excluded \subseteq excluded'
  BY DEF Exclude
<1> QED
  BY <1>1, <1>2, ScopeIsNone, QuietStep

LEMMA CheckStep == ASSUME AnsweredOnce, Given, Check PROVE AnsweredOnce' /\ Given'
<1> DEFINE r == Head(todo).rule
<1>1. /\ ~ended /\ todo # <<>> /\ todo' = Tail(todo) /\ UNCHANGED <<write, at, ended>>
      /\ Head(todo).do = "check"
      /\ Tell(r.id, Refuses(at, r, write))
      /\ excluded' = excluded \cup LeftOut(r)
  BY DEF Check, Running
<1>2. WellFormed(SpecOf(write), todo)
  BY DEF AnsweredOnce, TypeOK
<1>3. 1 \in DOMAIN todo /\ Head(todo) = todo[1]
  BY <1>1, <1>2, TailLemma DEF WellFormed
<1>4. ByValueObject(SpecOf(write), r.id) <=> Pulls(todo[1])
  BY <1>1, <1>2, <1>3 DEF WellFormed
<1>5. CASE Pulls(todo[1])
  <2>1. r.kind = "valueObject"
    BY <1>3, <1>5 DEF Pulls
  <2>2. Refuses(at, r, write) \subseteq Subjects(r)
    BY <2>1, RefusesItsOwn
  <2>3. excluded' = excluded \cup Subjects(r)
    BY <1>1, <2>1 DEF LeftOut
  <2> QED
    BY <1>1, <1>3, <1>5, <2>2, <2>3, PulledStep
<1>6. CASE ~Pulls(todo[1])
  <2>1. \A t \in told' : t \in told \/ (t.by = r.id /\ t.at = at)
    BY <1>1 DEF Tell
  <2>2. excluded \subseteq excluded'
    BY <1>1
  <2> QED
    BY <1>1, <1>4, <1>6, <2>1, <2>2, QuietStep
<1> QED
  BY <1>5, <1>6

LEMMA StopStep == ASSUME AnsweredOnce, Given, Stop PROVE AnsweredOnce' /\ Given'
<1>1. ~ended /\ todo # <<>> /\ UNCHANGED <<write, at, excluded, told>>
  BY DEF Stop, Running
<1>2. CASE ended' = TRUE /\ todo' = <<>>
  <2>1. SpecOf(write)' = SpecOf(write) /\ Given'
    BY <1>1 DEF SpecOf, Given
  <2>2. WellFormed(SpecOf(write)', todo')
    BY <1>2, WellFormedNothing
  <2>3. TypeOK'
    BY <1>1, <1>2, <2>2 DEF AnsweredOnce, TypeOK, Owners
  <2>4. SpokenFor'
    BY <1>2 DEF SpokenFor
  <2>5. ToldOnce'
    BY <1>1, <2>1 DEF AnsweredOnce, ToldOnce
  <2> QED
    BY <2>1, <2>3, <2>4, <2>5 DEF AnsweredOnce
<1>3. CASE todo' = Tail(todo) /\ UNCHANGED ended
  BY <1>1, <1>3, ScopeIsNone, QuietStep
<1> QED
  BY <1>2, <1>3 DEF Stop

\* The automatic pass speaks of fields no value object has spoken of.
LEMMA ValuesStep == ASSUME AnsweredOnce, Given, Values PROVE AnsweredOnce' /\ Given'
<1>1. PICK seats : Tell("value", seats) /\ seats \cap excluded = {}
  <2> DEFINE heard == {n \in DOMAIN FieldsOf(write, at) \ excluded :
                         /\ FieldsOf(write, at)[n].vo.kind # "none"
                         /\ DataOf(write, at)[n] # Absent
                         /\ ~Valid(FieldsOf(write, at)[n], DataOf(write, at)[n])}
  <2>1. Tell("value", heard)
    BY DEF Values
  <2> QED
    BY <2>1
<1>2. ~ended /\ todo = <<>> /\ UNCHANGED write
  BY DEF Values
<1>3. SpecOf(write)' = SpecOf(write) /\ Given'
  BY <1>2 DEF SpecOf, Given
<1>4. \A t \in told' : t \in told \/ \E n \in seats : t = [by |-> "value", at |-> at, seat |-> n]
  BY <1>1 DEF Tell
<1>5. at \in Nat /\ Len(write.entries) \in Nat /\ at <= Len(write.entries)
  BY WritesAssumption DEF AnsweredOnce, TypeOK, Owners, Given
<1>6. \A t \in told' : t.at \in 0..at
  BY <1>4, <1>5 DEF AnsweredOnce, TypeOK
<1>7. ToldOnce'
  <2> SUFFICES ASSUME NEW t \in told', NEW u \in told',
                      ByValueObject(SpecOf(write), t.by), ByValueObject(SpecOf(write), u.by),
                      t.at = u.at, t.seat = u.seat
               PROVE  t = u
    BY <1>3 DEF ToldOnce
  <2>1. \A x \in told : (ByValueObject(SpecOf(write), x.by) /\ x.at = at) => x.seat \notin seats
    BY <1>1, <1>2 DEF AnsweredOnce, SpokenFor
  <2>2. CASE t \in told /\ u \in told
    BY <2>2 DEF AnsweredOnce, ToldOnce
  <2>3. CASE t \notin told \/ u \notin told
    BY <2>1, <2>3, <1>4
  <2> QED
    BY <2>2, <2>3
<1>8. CASE at < Len(write.entries)
  <2>1. at' = at + 1 /\ todo' = Lines(write, at + 1) /\ UNCHANGED ended
    BY <1>8 DEF Values
  <2>2. WellFormed(SpecOf(write)', todo')
    BY <1>3, <2>1, LinesLemma DEF Given
  <2>3. at' \in Owners(write)'
    BY <1>2, <1>5, <1>8, <2>1 DEF Owners
  <2>4. \A t \in told' : t.at \in 0..at' /\ t.at # at'
    BY <1>5, <1>6, <2>1
  <2>5. TypeOK'
    BY <2>1, <2>2, <2>3, <2>4 DEF AnsweredOnce, TypeOK
  <2>6. SpokenFor'
    BY <2>4 DEF SpokenFor
  <2> QED
    BY <1>3, <1>7, <2>5, <2>6 DEF AnsweredOnce
<1>9. CASE ~(at < Len(write.entries))
  <2>1. ended' = TRUE /\ UNCHANGED <<at, todo>>
    BY <1>9 DEF Values
  <2>2. TypeOK'
    BY <1>2, <1>3, <1>6, <2>1 DEF AnsweredOnce, TypeOK, Owners
  <2>3. SpokenFor'
    BY <2>1 DEF SpokenFor
  <2> QED
    BY <1>3, <1>7, <2>2, <2>3 DEF AnsweredOnce
<1> QED
  BY <1>8, <1>9

LEMMA AnswersStep == AnsweredOnce /\ Given /\ [Next]_vars => AnsweredOnce' /\ Given'
<1> SUFFICES ASSUME AnsweredOnce, Given, [Next]_vars PROVE AnsweredOnce' /\ Given'
  OBVIOUS
<1>1. CASE Scope
  BY <1>1, ScopeStep
<1>2. CASE Exclude
  BY <1>2, ExcludeStep
<1>3. CASE Check
  BY <1>3, CheckStep
<1>4. CASE Stop
  BY <1>4, StopStep
<1>5. CASE Values
  BY <1>5, ValuesStep
<1>6. CASE UNCHANGED vars
  BY <1>6 DEF vars, AnsweredOnce, TypeOK, SpokenFor, ToldOnce, Given, Owners, SpecOf
<1> QED
  BY <1>1, <1>2, <1>3, <1>4, <1>5, <1>6 DEF Next

-----------------------------------------------------------------------------
\* The lines of a file: what is in it, whatever the order.

LEMMA OnlyMembers ==
    ASSUME NEW list, IsList(list), NEW wanted
    PROVE  IsList(Only(list, wanted)) /\ ToSet(Only(list, wanted)) = ToSet(list) \cap wanted
<1> DEFINE k == Len(list)
           seqs == [n \in 1..k |-> IF list[n] \in wanted THEN <<list[n]>> ELSE <<>>]
<1>1. k \in Nat /\ DOMAIN list = 1..k
  BY LenProperties DEF IsList
<1>2. Only(list, wanted) = FlattenSeq(seqs)
  BY <1>1 DEF Only
<1>3. \A n \in 1..k : /\ IsList(seqs[n])
                      /\ ToSet(seqs[n]) = IF list[n] \in wanted THEN {list[n]} ELSE {}
  BY Few
<1>4. seqs = [n \in 1..k |-> seqs[n]]
  OBVIOUS
<1> HIDE DEF k, seqs
<1>5. /\ IsList(FlattenSeq(seqs))
      /\ ToSet(FlattenSeq(seqs)) = UNION {ToSet(seqs[n]) : n \in 1..k}
  BY <1>1, <1>3, <1>4, Flattening
<1>6. UNION {ToSet(seqs[n]) : n \in 1..k} = ToSet(list) \cap wanted
  <2>1. ToSet(list) = {list[n] : n \in 1..k}
    BY <1>1 DEF ToSet
  <2>2. ASSUME NEW x \in UNION {ToSet(seqs[n]) : n \in 1..k} PROVE x \in ToSet(list) \cap wanted
    <3>1. PICK n \in 1..k : x \in ToSet(seqs[n])
      BY <2>2
    <3> QED
      BY <1>3, <2>1, <3>1
  <2>3. ASSUME NEW x \in ToSet(list) \cap wanted PROVE x \in UNION {ToSet(seqs[n]) : n \in 1..k}
    <3>1. PICK n \in 1..k : x = list[n]
      BY <2>1, <2>3
    <3>2. x \in ToSet(seqs[n])
      BY <1>3, <2>3, <3>1
    <3> QED
      BY <3>2
  <2> QED
    BY <2>2, <2>3
<1> QED
  BY <1>2, <1>5, <1>6

CheckLine(gate, r) == [gate |-> gate, do |-> "check", rule |-> r]
StopLine(gate) == [gate |-> gate, do |-> "stop"]

CheckLines(gate, rules) ==
    {CheckLine(gate, r) : r \in rules} \cup {StopLine(gate) : r \in {r \in rules : r.guard}}

LEMMA ChecksMembers ==
    ASSUME NEW gate, NEW rules, IsList(rules)
    PROVE  /\ IsList(Checks(gate, rules))
           /\ ToSet(Checks(gate, rules)) = CheckLines(gate, ToSet(rules))
<1> DEFINE k == Len(rules)
           seqs == [n \in 1..k |-> IF rules[n].guard
                                   THEN <<CheckLine(gate, rules[n]), StopLine(gate)>>
                                   ELSE <<CheckLine(gate, rules[n])>>]
<1>1. k \in Nat /\ DOMAIN rules = 1..k
  BY LenProperties DEF IsList
<1>2. Checks(gate, rules) = FlattenSeq(seqs)
  BY <1>1 DEF Checks, CheckLine, StopLine
<1>3. \A n \in 1..k :
         /\ IsList(seqs[n])
         /\ ToSet(seqs[n]) = IF rules[n].guard THEN {CheckLine(gate, rules[n]), StopLine(gate)}
                             ELSE {CheckLine(gate, rules[n])}
  <2> SUFFICES ASSUME NEW n \in 1..k
               PROVE /\ IsList(seqs[n])
                     /\ ToSet(seqs[n]) = IF rules[n].guard THEN {CheckLine(gate, rules[n]), StopLine(gate)}
                                         ELSE {CheckLine(gate, rules[n])}
    OBVIOUS
  <2>1. CASE rules[n].guard
    BY <2>1, Few
  <2>2. CASE ~rules[n].guard
    BY <2>2, Few
  <2> QED
    BY <2>1, <2>2
<1>4. seqs = [n \in 1..k |-> seqs[n]]
  OBVIOUS
<1> HIDE DEF k, seqs
<1>5. /\ IsList(FlattenSeq(seqs))
      /\ ToSet(FlattenSeq(seqs)) = UNION {ToSet(seqs[n]) : n \in 1..k}
  BY <1>1, <1>3, <1>4, Flattening
<1>6. UNION {ToSet(seqs[n]) : n \in 1..k} = CheckLines(gate, ToSet(rules))
  <2>1. ToSet(rules) = {rules[n] : n \in 1..k}
    BY <1>1 DEF ToSet
  <2>2. ASSUME NEW x \in UNION {ToSet(seqs[n]) : n \in 1..k}
        PROVE  x \in CheckLines(gate, ToSet(rules))
    <3>1. PICK n \in 1..k : x \in ToSet(seqs[n])
      BY <2>2
    <3>2. rules[n] \in ToSet(rules)
      BY <2>1
    <3> QED
      BY <1>3, <3>1, <3>2 DEF CheckLines
  <2>3. ASSUME NEW x \in CheckLines(gate, ToSet(rules))
        PROVE  x \in UNION {ToSet(seqs[n]) : n \in 1..k}
    <3>1. PICK r \in ToSet(rules) : x = CheckLine(gate, r) \/ (r.guard /\ x = StopLine(gate))
      BY <2>3 DEF CheckLines
    <3>2. PICK n \in 1..k : r = rules[n]
      BY <2>1
    <3>3. x \in ToSet(seqs[n])
      BY <1>3, <3>1, <3>2
    <3> QED
      BY <3>3
  <2> QED
    BY <2>2, <2>3
<1> QED
  BY <1>2, <1>5, <1>6

AllGates == {"insert", "insertOrUpdate", "update", "archive", "unarchive", "delete"}

LEMMA GatesMembers == IsList(Gates) /\ ToSet(Gates) = AllGates /\ Modes = AllGates \ {"insertOrUpdate"}
<1>1. ToSet(Gates) = AllGates
  BY DEF Gates, ToSet, AllGates
<1>2. Gates \in Seq(AllGates)
  BY DEF Gates, AllGates
<1> QED
  BY <1>1, <1>2, Elements DEF Modes

\* The rules of the root's clause of a gate.
HoistedRules(s) ==
    {[r EXCEPT !.kind = HoistedKind(@), !.attach = s.child.name] : r \in Historical(s)}

RootRules(s, gate) ==
    {r \in ToSet(s.rules) \cup HoistedRules(s) : gate \in r.scope}
      \cup (IF gate = "insertOrUpdate" THEN ToSet(s.uniques) ELSE {})

LEMMA Lists3 ==
    ASSUME NEW s, Accepted(s)
    PROVE  IsList(s.rules) /\ IsList(s.uniques) /\ IsList(s.child.rules)
BY DEF Accepted, IsList

LEMMA HoistedMembers ==
    ASSUME NEW s, Accepted(s)
    PROVE  IsList(Hoisted(s)) /\ ToSet(Hoisted(s)) = HoistedRules(s)
<1> DEFINE up == Only(s.child.rules, Historical(s))
           k == Len(up)
           list == [n \in 1..k |-> [up[n] EXCEPT !.kind = HoistedKind(@), !.attach = s.child.name]]
<1>1. IsList(up) /\ ToSet(up) = Historical(s)
  <2>1. IsList(up) /\ ToSet(up) = ToSet(s.child.rules) \cap Historical(s)
    BY Lists3, OnlyMembers
  <2> QED
    BY <2>1 DEF Historical
<1>2. k \in Nat /\ DOMAIN up = 1..k
  BY <1>1, LenProperties DEF IsList
<1> HIDE DEF up
<1>3. Hoisted(s) = list
  BY <1>2 DEF Hoisted, up
<1>4. list = [n \in 1..k |-> list[n]]
  OBVIOUS
<1>5. ToSet(up) = {up[n] : n \in 1..k}
  BY <1>2 DEF ToSet
<1>6. DOMAIN list = 1..k
  OBVIOUS
<1>7. ToSet(list) = {list[n] : n \in 1..k}
  BY <1>6 DEF ToSet
<1>8. {list[n] : n \in 1..k} = HoistedRules(s)
  <2>1. ASSUME NEW x \in {list[n] : n \in 1..k} PROVE x \in HoistedRules(s)
    <3>1. PICK n \in 1..k : x = list[n]
      BY <2>1
    <3>2. up[n] \in Historical(s)
      BY <1>1, <1>5
    <3> QED
      BY <3>1, <3>2 DEF HoistedRules
  <2>2. ASSUME NEW x \in HoistedRules(s) PROVE x \in {list[n] : n \in 1..k}
    <3>1. PICK r \in Historical(s) : x = [r EXCEPT !.kind = HoistedKind(@), !.attach = s.child.name]
      BY <2>2 DEF HoistedRules
    <3>2. PICK n \in 1..k : r = up[n]
      BY <1>1, <1>5
    <3> QED
      BY <3>1, <3>2
  <2> QED
    BY <2>1, <2>2
<1> HIDE DEF k, list
<1>9. IsList(list)
  BY <1>2, <1>4, Indexed
<1> QED
  BY <1>3, <1>7, <1>8, <1>9

LEMMA ClauseMembers ==
    ASSUME NEW s, Accepted(s), NEW gate
    PROVE  /\ IsList(Clause(s, gate))
           /\ ToSet(Clause(s, gate)) = {r \in ToSet(s.rules) \cup HoistedRules(s) : gate \in r.scope}
<1>1. ASSUME NEW rules, IsList(rules)
      PROVE  IsList(Of(rules, gate)) /\ ToSet(Of(rules, gate)) = {r \in ToSet(rules) : gate \in r.scope}
  BY <1>1, OnlyMembers DEF Of
<1>2. IsList(Of(s.rules, gate)) /\ IsList(Of(Hoisted(s), gate))
  BY <1>1, Lists3, HoistedMembers
<1>3. /\ ToSet(Of(s.rules, gate)) = {r \in ToSet(s.rules) : gate \in r.scope}
      /\ ToSet(Of(Hoisted(s), gate)) = {r \in HoistedRules(s) : gate \in r.scope}
  BY <1>1, Lists3, HoistedMembers
<1>4. /\ IsList(Clause(s, gate))
      /\ ToSet(Clause(s, gate)) = ToSet(Of(s.rules, gate)) \cup ToSet(Of(Hoisted(s), gate))
  BY <1>2, Concatenation DEF Clause
<1> QED
  BY <1>3, <1>4

LEMMA OrderMembers ==
    ASSUME NEW s PROVE IsList(GateOrder(s)) /\ ToSet(GateOrder(s)) = AllGates
<1>1. CASE GateOrder(s) = Gates
  BY <1>1, GatesMembers
<1>2. CASE GateOrder(s) = Append(Only(Gates, Modes), "insertOrUpdate")
  <2>1. /\ IsList(Only(Gates, Modes))
        /\ ToSet(Only(Gates, Modes)) = AllGates \ {"insertOrUpdate"}
    BY GatesMembers, OnlyMembers
  <2>2. Append(Only(Gates, Modes), "insertOrUpdate") = Only(Gates, Modes) \o <<"insertOrUpdate">>
    <3>1. Only(Gates, Modes) \in Seq(AllGates)
      BY <2>1, SeqMonotonic DEF IsList
    <3>2. "insertOrUpdate" \in AllGates
      BY DEF AllGates
    <3> QED
      BY <3>1, <3>2, AppendIsConcat
  <2>3. IsList(<<"insertOrUpdate">>) /\ ToSet(<<"insertOrUpdate">>) = {"insertOrUpdate"}
    BY Few
  <2> DEFINE most == Only(Gates, Modes)
             last == <<"insertOrUpdate">>
  <2> HIDE DEF most, last
  <2>4. IsList(most \o last) /\ ToSet(most \o last) = ToSet(most) \cup ToSet(last)
    BY <2>1, <2>3, Concatenation DEF most, last
  <2>5. ToSet(most \o last) = AllGates
    BY <2>1, <2>3, <2>4 DEF most, last, AllGates
  <2>6. GateOrder(s) = most \o last
    BY <1>2, <2>2 DEF most, last
  <2> QED
    BY <2>4, <2>5, <2>6
<1> QED
  BY <1>1, <1>2 DEF GateOrder

ScopeSet(s) == {[gate |-> g, do |-> "scope"] : g \in s.scoped \cap AllGates}

IgnoreSet(s) ==
    {l \in [gate : s.modes, do : {"exclude", "excludeEmpty"}, field : DOMAIN s.fields] :
        NeedsIgnore(s.fields[l.field]) /\ l.do \in HowIgnored(s.fields[l.field], l.gate)}

LEMMA IgnoreMembers ==
    ASSUME NEW s, Accepted(s)
    PROVE  IsList(IgnoreLines(s)) /\ ToSet(IgnoreLines(s)) = IgnoreSet(s)
<1> DEFINE D == {"exclude", "excludeEmpty"}
           F == DOMAIN s.fields
           P == s.modes \X (D \X F)
           f == [p \in P |-> [gate |-> p[1], do |-> p[2][1], field |-> p[2][2]]]
           R == [gate : s.modes, do : D, field : F]
<1>1. IsFiniteSet(P)
  <2>1. Gates \in Surjection(1..6, AllGates)
    BY DEF Surjection, Gates, AllGates
  <2>2. IsFiniteSet(AllGates)
    <3>1. 1 \in Int /\ 6 \in Int
      OBVIOUS
    <3>2. IsFiniteSet(1..6)
      BY <3>1, FS_Interval, Zenon
    <3> QED
      BY <2>1, <3>2, FS_Surjection
  <2>3. s.modes \subseteq AllGates
    BY GatesMembers DEF Accepted
  <2>4. IsFiniteSet(s.modes)
    BY <2>2, <2>3, FS_Subset
  <2>5. IsFiniteSet(D)
    <3>1. D = {"exclude"} \cup {"excludeEmpty"}
      OBVIOUS
    <3>2. IsFiniteSet({"exclude"})
      BY FS_Singleton
    <3>3. IsFiniteSet({"exclude"} \cup {"excludeEmpty"})
      BY <3>2, FS_AddElement
    <3> QED
      BY <3>1, <3>3
  <2>6. IsFiniteSet(F)
    BY DEF Accepted, FieldsAccepted
  <2> QED
    BY <2>4, <2>5, <2>6, FS_Product
<1>2. f \in Surjection(P, R)
  <2>1. f \in [P -> R]
    OBVIOUS
  <2>2. ASSUME NEW l \in R PROVE \E p \in P : f[p] = l
    <3>1. <<l.gate, <<l.do, l.field>>>> \in P
      OBVIOUS
    <3>2. f[<<l.gate, <<l.do, l.field>>>>] = l
      BY <3>1
    <3> QED
      BY <3>1, <3>2
  <2> QED
    BY <2>1, <2>2 DEF Surjection
<1> HIDE DEF f, P
<1>3. IsFiniteSet(R)
  BY <1>1, <1>2, FS_Surjection
<1>4. IgnoreSet(s) \subseteq R
  BY DEF IgnoreSet
<1>5. IsFiniteSet(IgnoreSet(s))
  BY <1>3, <1>4, FS_Subset
<1>6. IgnoreLines(s) = SetToSeq(IgnoreSet(s))
  BY DEF IgnoreLines, IgnoreSet
<1> QED
  BY <1>5, <1>6, Ordering

LEMMA ScopeMembers ==
    ASSUME NEW s PROVE IsList(ScopeLines(s)) /\ ToSet(ScopeLines(s)) = ScopeSet(s)
<1> DEFINE gates == Only(Gates, s.scoped)
           k == Len(gates)
           list == [n \in 1..k |-> [gate |-> gates[n], do |-> "scope"]]
<1>1. IsList(gates) /\ ToSet(gates) = AllGates \cap s.scoped
  BY GatesMembers, OnlyMembers
<1> HIDE DEF gates
<1>2. k \in Nat /\ DOMAIN gates = 1..k
  BY <1>1, LenProperties DEF IsList
<1>3. ScopeLines(s) = list
  BY <1>2 DEF ScopeLines, gates
<1>4. list = [n \in 1..k |-> list[n]]
  OBVIOUS
<1>5. AllGates \cap s.scoped = {gates[n] : n \in 1..k}
  BY <1>1, <1>2 DEF ToSet
<1>6. ToSet(list) = ScopeSet(s)
  <2>1. DOMAIN list = 1..k
    OBVIOUS
  <2>2. ToSet(list) = {list[n] : n \in 1..k}
    BY <2>1 DEF ToSet
  <2> QED
    BY <1>5, <2>2 DEF ScopeSet
<1> HIDE DEF k, list
<1>7. IsList(list)
  BY <1>2, <1>4, Indexed
<1> QED
  BY <1>3, <1>6, <1>7

RootSet(s) ==
    ScopeSet(s) \cup IgnoreSet(s) \cup UNION {CheckLines(g, RootRules(s, g)) : g \in AllGates}

LEMMA RootMembers ==
    ASSUME NEW s, Accepted(s)
    PROVE  IsList(RootLines(s)) /\ ToSet(RootLines(s)) = RootSet(s)
<1> DEFINE order == GateOrder(s)
           k == Len(order)
           rules(g) == IF g = "insertOrUpdate" THEN Clause(s, g) \o s.uniques ELSE Clause(s, g)
           seqs == [n \in 1..k |-> Checks(order[n], rules(order[n]))]
           fore == ScopeLines(s) \o IgnoreLines(s)
<1>1. k \in Nat /\ DOMAIN order = 1..k /\ AllGates = {order[n] : n \in 1..k}
  BY OrderMembers, LenProperties DEF IsList, ToSet
<1>2. \A g : IsList(rules(g)) /\ ToSet(rules(g)) = RootRules(s, g)
  <2> SUFFICES ASSUME NEW g PROVE IsList(rules(g)) /\ ToSet(rules(g)) = RootRules(s, g)
    OBVIOUS
  <2>1. CASE g = "insertOrUpdate"
    BY <2>1, ClauseMembers, Lists3, Concatenation DEF RootRules
  <2>2. CASE g # "insertOrUpdate"
    BY <2>2, ClauseMembers DEF RootRules
  <2> QED
    BY <2>1, <2>2
<1> HIDE DEF order, rules
<1>3. \A n \in 1..k : /\ IsList(seqs[n])
                      /\ ToSet(seqs[n]) = CheckLines(order[n], RootRules(s, order[n]))
  BY <1>2, ChecksMembers
<1>4. seqs = [n \in 1..k |-> seqs[n]]
  OBVIOUS
<1>5. RootLines(s) = fore \o FlattenSeq(seqs)
  BY <1>1 DEF RootLines, order, rules
<1> HIDE DEF k, seqs
<1>6. /\ IsList(FlattenSeq(seqs))
      /\ ToSet(FlattenSeq(seqs)) = UNION {ToSet(seqs[n]) : n \in 1..k}
  BY <1>1, <1>3, <1>4, Flattening
<1>7. UNION {ToSet(seqs[n]) : n \in 1..k} = UNION {CheckLines(g, RootRules(s, g)) : g \in AllGates}
  BY <1>1, <1>3
<1>8. IsList(fore) /\ ToSet(fore) = ScopeSet(s) \cup IgnoreSet(s)
  BY ScopeMembers, IgnoreMembers, Concatenation
<1> QED
  BY <1>5, <1>6, <1>7, <1>8, Concatenation DEF RootSet

EntryRuleSet(s, gate) == {r \in ToSet(s.child.rules) \ Historical(s) : gate \in r.scope}

EntrySet(s) == UNION {CheckLines(g, EntryRuleSet(s, g)) : g \in AllGates}

LEMMA EntryMembers ==
    ASSUME NEW s, Accepted(s)
    PROVE  /\ IsList(EntryLines(s)) /\ ToSet(EntryLines(s)) = EntrySet(s)
           /\ ToSet(EntryRules(s)) = ToSet(s.child.rules) \ Historical(s)
<1> DEFINE k == Len(Gates)
           seqs == [n \in 1..k |-> Checks(Gates[n], Of(EntryRules(s), Gates[n]))]
<1>1. k \in Nat /\ DOMAIN Gates = 1..k /\ AllGates = {Gates[n] : n \in 1..k}
  BY GatesMembers, LenProperties DEF IsList, ToSet
<1>2. IsList(EntryRules(s)) /\ ToSet(EntryRules(s)) = ToSet(s.child.rules) \ Historical(s)
  <2>1. /\ IsList(EntryRules(s))
        /\ ToSet(EntryRules(s)) = ToSet(s.child.rules) \cap (ToSet(s.child.rules) \ Historical(s))
    BY Lists3, OnlyMembers DEF EntryRules
  <2> QED
    BY <2>1
<1>3. \A g : IsList(Of(EntryRules(s), g)) /\ ToSet(Of(EntryRules(s), g)) = EntryRuleSet(s, g)
  <2> SUFFICES ASSUME NEW g
               PROVE IsList(Of(EntryRules(s), g)) /\ ToSet(Of(EntryRules(s), g)) = EntryRuleSet(s, g)
    OBVIOUS
  <2> QED
    BY <1>2, OnlyMembers DEF Of, EntryRuleSet
<1>4. \A n \in 1..k : /\ IsList(seqs[n])
                      /\ ToSet(seqs[n]) = CheckLines(Gates[n], EntryRuleSet(s, Gates[n]))
  BY <1>3, ChecksMembers
<1>5. seqs = [n \in 1..k |-> seqs[n]]
  OBVIOUS
<1>6. EntryLines(s) = FlattenSeq(seqs)
  BY <1>1 DEF EntryLines
<1> HIDE DEF k, seqs
<1>7. /\ IsList(FlattenSeq(seqs))
      /\ ToSet(FlattenSeq(seqs)) = UNION {ToSet(seqs[n]) : n \in 1..k}
  BY <1>1, <1>4, <1>5, Flattening
<1>8. UNION {ToSet(seqs[n]) : n \in 1..k} = EntrySet(s)
  BY <1>1, <1>4 DEF EntrySet
<1> QED
  BY <1>2, <1>6, <1>7, <1>8

\* What runs of a file under the mode of a write.
FileSet(s, n) == IF n = 0 THEN RootSet(s) ELSE EntrySet(s)

LEMMA LinesMembers ==
    ASSUME NEW w \in Writes, NEW n
    PROVE  /\ IsList(Lines(w, n))
           /\ ToSet(Lines(w, n)) = {l \in FileSet(SpecOf(w), n) : Fires(l.gate, w.mode)}
<1> DEFINE file == IF n = 0 THEN RootFile[w.spec] ELSE EntryFile[w.spec]
<1>1. w.spec \in DOMAIN Specs /\ Accepted(Specs[w.spec])
  BY WritesAssumption, SpecsAssumption
<1>2. file = IF n = 0 THEN RootLines(Specs[w.spec]) ELSE EntryLines(Specs[w.spec])
  BY <1>1 DEF RootFile, EntryFile
<1>3. IsList(file) /\ ToSet(file) = FileSet(SpecOf(w), n)
  BY <1>1, <1>2, RootMembers, EntryMembers DEF FileSet, SpecOf
<1>4. Lines(w, n) = Only(file, {l \in ToSet(file) : Fires(l.gate, w.mode)})
  BY DEF Lines, Run
<1> HIDE DEF file
<1> QED
  BY <1>3, <1>4, OnlyMembers

-----------------------------------------------------------------------------
\* What a line is.
LEMMA LineShape ==
    ASSUME NEW w \in Writes, NEW n, NEW l \in ToSet(Lines(w, n))
    PROVE  /\ l.gate \in AllGates /\ Fires(l.gate, w.mode)
           /\ l.do \in {"scope", "exclude", "excludeEmpty", "check", "stop"}
           /\ l.do = "scope" => n = 0 /\ w.mode \in SpecOf(w).scoped
           /\ l.do \in {"exclude", "excludeEmpty"} =>
                 n = 0 /\ l \in IgnoreSet(SpecOf(w)) /\ l.gate = w.mode
           /\ l.do = "check" =>
                 l.rule \in IF n = 0 THEN RootRules(SpecOf(w), l.gate)
                            ELSE EntryRuleSet(SpecOf(w), l.gate)
<1> DEFINE s == SpecOf(w)
<1>1. w.spec \in DOMAIN Specs /\ Accepted(s)
  BY WritesAssumption, SpecsAssumption DEF SpecOf
<1>2. s.modes \cup s.scoped \subseteq Modes /\ Modes = AllGates \ {"insertOrUpdate"}
  BY <1>1, GatesMembers DEF Accepted
<1>3. l \in FileSet(s, n) /\ Fires(l.gate, w.mode)
  BY LinesMembers
<1>4. \A g : Fires(g, w.mode) /\ g \in Modes => g = w.mode
  BY <1>2 DEF Fires
<1> HIDE DEF s
<1>5. ASSUME NEW g \in AllGates, NEW rules, l \in CheckLines(g, rules)
      PROVE  /\ l.gate = g /\ l.do \in {"check", "stop"}
             /\ l.do = "check" => l.rule \in rules
  BY <1>5 DEF CheckLines, CheckLine, StopLine
<1>6. CASE n = 0 /\ l \in ScopeSet(s)
  <2>1. l.gate \in s.scoped \cap AllGates /\ l.do = "scope"
    BY <1>6 DEF ScopeSet
  <2> QED
    BY <1>2, <1>3, <1>4, <1>6, <2>1 DEF s
<1>7. CASE n = 0 /\ l \in IgnoreSet(s)
  <2>1. l.gate \in s.modes /\ l.do \in {"exclude", "excludeEmpty"}
    BY <1>7 DEF IgnoreSet
  <2> QED
    BY <1>2, <1>3, <1>4, <1>7, <2>1 DEF s
<1>8. CASE n = 0 /\ \E g \in AllGates : l \in CheckLines(g, RootRules(s, g))
  BY <1>3, <1>5, <1>8 DEF s
<1>9. CASE n # 0
  <2>1. PICK g \in AllGates : l \in CheckLines(g, EntryRuleSet(s, g))
    BY <1>3, <1>9 DEF FileSet, EntrySet
  <2> QED
    BY <1>3, <1>5, <1>9, <2>1 DEF s
<1> QED
  BY <1>3, <1>6, <1>7, <1>8, <1>9 DEF FileSet, RootSet

\* An exclusion leaves out what its value object is not asked of.
LEMMA LeftOutUnasked ==
    ASSUME Given, NEW n, NEW l \in ToSet(Lines(write, n)), LeavesOut(l)
    PROVE  n = 0 /\ l.field \notin Rejected(write, n)
<1> DEFINE f == SpecOf(write).fields[l.field]
<1>1. /\ n = 0 /\ l \in IgnoreSet(SpecOf(write)) /\ l.gate = write.mode
      /\ l.do \in {"exclude", "excludeEmpty"}
  BY LineShape DEF Given, LeavesOut
<1>2. /\ f.source # "stored" /\ ~f.nullable
      /\ l.do \in HowIgnored(f, write.mode)
  BY <1>1 DEF IgnoreSet, NeedsIgnore
<1>3. ~Asked(write, 0, l.field)
  <2>1. CASE l.do = "exclude"
    <3>1. ~CarriedBy(f, write.mode)
      BY <1>2, <2>1 DEF HowIgnored
    <3> QED
      BY <1>2, <3>1 DEF Asked, FieldsOf
  <2>2. CASE l.do = "excludeEmpty"
    <3>1. write.mode # "insert" /\ Zero(f, write.now[l.field])
      BY <1>2, <2>2 DEF HowIgnored, LeavesOut
    <3> QED
      BY <1>2, <3>1 DEF Asked, FieldsOf, DataOf
  <2> QED
    BY <1>1, <2>1, <2>2
<1> QED
  BY <1>1, <1>3 DEF Rejected

\* When an owner's lines have all run, the automatic pass speaks of what the
\* value objects in force reject, and of nothing else.
LEMMA AutomaticPass ==
    ASSUME Given, at \in Owners(write),
           \A l \in ToSet(Lines(write, at)) : LeavesOut(l) => l.field \in excluded,
           NEW name \in DOMAIN FieldsOf(write, at) \ excluded,
           FieldsOf(write, at)[name].vo.kind # "none",
           DataOf(write, at)[name] # Absent,
           ~Valid(FieldsOf(write, at)[name], DataOf(write, at)[name])
    PROVE  name \in Rejected(write, at)
<1> DEFINE s == SpecOf(write)
           f == FieldsOf(write, at)[name]
<1>1. /\ write \in Writes /\ Accepted(s) /\ s = Specs[write.spec]
      /\ write.mode \in s.modes
  BY WritesAssumption, SpecsAssumption DEF SpecOf, Given
<1>2. FieldsAccepted(s)
  BY <1>1 DEF Accepted
<1> SUFFICES Asked(write, at, name)
  BY DEF Rejected
<1>3. CASE f.source = "stored"
  BY <1>3 DEF Asked
<1>4. CASE f.source # "stored"
  <2>1. at = 0
    BY <1>2, <1>4 DEF FieldsOf, FieldsAccepted
  <2>2. /\ f = s.fields[name] /\ name \in DOMAIN s.fields
        /\ DataOf(write, at)[name] = write.now[name]
    BY <2>1 DEF FieldsOf, DataOf
  <2>3. f.type # "flag"
    BY <1>2, <2>2 DEF FieldsAccepted
  <2>4. CASE f.nullable
    <3>1. CarriedBy(f, write.mode)
      BY <1>1, <1>4, <2>2, <2>4, WritesAssumption
    <3> QED
      BY <2>4, <3>1 DEF Asked
  <2>5. CASE ~f.nullable
    <3>1. NeedsIgnore(f)
      BY <1>4, <2>3, <2>5 DEF NeedsIgnore
    <3>2. ASSUME NEW how \in HowIgnored(f, write.mode)
          PROVE  how = "excludeEmpty" /\ ~Zero(f, write.now[name])
      <4> DEFINE l == [gate |-> write.mode, do |-> how, field |-> name]
      <4>1. how \in {"exclude", "excludeEmpty"}
        BY <3>2 DEF HowIgnored
      <4>2. l \in IgnoreSet(s)
        BY <1>1, <2>2, <3>1, <3>2, <4>1 DEF IgnoreSet
      <4>3. Fires(l.gate, write.mode)
        BY DEF Fires
      <4>4. l \in ToSet(Lines(write, at))
        BY <1>1, <2>1, <4>2, <4>3, LinesMembers DEF FileSet, RootSet
      <4>5. ~LeavesOut(l)
        BY <4>4
      <4>6. l.do = how /\ l.field = name
        OBVIOUS
      <4> HIDE DEF l
      <4> QED
        BY <2>2, <4>1, <4>5, <4>6 DEF LeavesOut
    <3>3. CarriedBy(f, write.mode)
      BY <3>2 DEF HowIgnored
    <3>4. write.mode # "insert" => ~Zero(f, write.now[name])
      BY <3>2, <3>3 DEF HowIgnored
    <3> QED
      BY <2>2, <3>3, <3>4 DEF Asked
  <2> QED
    BY <2>4, <2>5
<1> QED
  BY <1>3, <1>4

\* A value-object rule refuses all it names that its value objects reject.
LEMMA PulledForwardInFull ==
    ASSUME Given, NEW n \in Owners(write), NEW l \in ToSet(Lines(write, n)),
           l.do = "check", l.rule.kind = "valueObject",
           NEW name \in Subjects(l.rule) \cap Rejected(write, n)
    PROVE  name \in Refuses(n, l.rule, write)
<1> DEFINE s == SpecOf(write)
           r == l.rule
<1>1. write \in Writes /\ Accepted(s)
  BY WritesAssumption, SpecsAssumption DEF SpecOf, Given
<1>2. r \in IF n = 0 THEN RootRules(s, l.gate) ELSE EntryRuleSet(s, l.gate)
  BY <1>1, LineShape
<1>3. r.skip = ""
  <2>1. CASE n = 0
    <3>1. \A x \in ToSet(s.uniques) : x.kind = "uniquePrecheck"
      BY <1>1 DEF Accepted, UniqueAccepted
    <3>2. \A x \in HoistedRules(s) : x.kind \in {"childTransition", "childImmutable"}
      <4> SUFFICES ASSUME NEW y \in Historical(s)
                   PROVE [y EXCEPT !.kind = HoistedKind(@), !.attach = s.child.name].kind
                            \in {"childTransition", "childImmutable"}
        BY DEF HoistedRules
      <4>1. "kind" \in DOMAIN y
        BY <1>1 DEF Accepted, Named, Historical
      <4> QED
        BY <4>1 DEF HoistedKind
    <3>3. r \in ToSet(s.rules)
      BY <1>2, <2>1, <3>1, <3>2 DEF RootRules
    <3>4. ShapeAccepted(r, s.fields, s.child)
      BY <1>1, <3>3 DEF Accepted
    <3> QED
      BY <3>4 DEF ShapeAccepted, ValueObjectRuleAccepted
  <2>2. CASE n # 0
    <3>1. r \in ToSet(s.child.rules)
      BY <1>2, <2>2 DEF EntryRuleSet
    <3>2. ShapeAccepted(r, s.child.fields, s.child)
      BY <1>1, <3>1 DEF Accepted
    <3> QED
      BY <3>2 DEF ShapeAccepted, ValueObjectRuleAccepted
  <2> QED
    BY <2>1, <2>2
<1>4. name \in Judged(r, FieldsOf(write, n), DataOf(write, n))
  BY DEF Judged, Rejected, Asked
<1>5. \A old : RecordRefuses(r, FieldsOf(write, n), old, DataOf(write, n), write.who)
                 = Judged(r, FieldsOf(write, n), DataOf(write, n))
  BY <1>3 DEF RecordRefuses, StandsDown
<1>6. CASE n = 0
  BY <1>4, <1>5, <1>6 DEF Refuses, RootRefuses, FieldsOf, DataOf
<1>7. CASE n # 0
  BY <1>4, <1>5, <1>7 DEF Refuses, FieldsOf, DataOf
<1> QED
  BY <1>6, <1>7

-----------------------------------------------------------------------------
\* What a line that has run accounts for.

LEMMA Kept ==
    ASSUME told \subseteq told', UNCHANGED write
    PROVE  /\ \A n, l : Said(n, l) => Said(n, l)'
           /\ \A n, name : Voiced(n, name) => Voiced(n, name)'
<1>1. \A n, l : Said(n, l) => Said(n, l)'
  BY DEF Said
<1>2. \A n, name : Voiced(n, name) => Voiced(n, name)'
  BY DEF Voiced, SpecOf
<1> QED
  BY <1>1, <1>2

\* What a line has to say is among what was told.
Heard(ts, n, line) ==
    /\ line.do = "check" =>
          \A seat \in Refuses(n, line.rule, write) :
              [by |-> line.rule.id, at |-> n, seat |-> seat] \in ts
    /\ line.do = "scope" /\ write.outside => [by |-> "scope", at |-> n, seat |-> "ID"] \in ts

LEMMA Hearing ==
    ASSUME UNCHANGED write
    PROVE  \A n, line : Said(n, line)' <=> Heard(told', n, line)
BY DEF Said, Heard

LEMMA LineStep ==
    ASSUME AnsweredOnce, Accounted, Given,
           ~ended, todo # <<>>, todo' = Tail(todo), UNCHANGED <<write, at, ended>>,
           told \subseteq told', excluded \subseteq excluded',
           Heard(told', at, Head(todo)),
           LeavesOut(Head(todo)) => Head(todo).field \in excluded',
           \A name \in (excluded' \ excluded) \cap Rejected(write, at) : Voiced(at, name)',
           \A t \in told' : t \in told \/ (t.at = at /\ Source(Head(todo), t) /\ Reason(t))
    PROVE  Accounted'
<1> DEFINE lines == Lines(write, at)
<1>1. IsList(lines) /\ IsList(todo)
  BY LinesMembers DEF Given, AnsweredOnce, TypeOK, WellFormed, IsList
<1>2. /\ Len(lines) \in Nat /\ DOMAIN lines = 1..Len(lines)
      /\ Len(todo) \in Nat \ {0} /\ DOMAIN todo = 1..Len(todo)
  BY <1>1, LenProperties, EmptySeq DEF IsList
<1>3. /\ Len(todo') = Len(todo) - 1 /\ DOMAIN todo' = 1..(Len(todo) - 1)
      /\ \A k \in DOMAIN todo' : todo'[k] = todo[k + 1]
  <2>1. /\ todo' \in Seq(ToSet(todo)) /\ Len(todo') = Len(todo) - 1
        /\ \A k \in 1..Len(todo') : todo'[k] = todo[k + 1]
    BY <1>1, HeadTailProperties DEF IsList
  <2> QED
    BY <2>1, LenProperties
<1>4. Lines(write, at)' = lines /\ \A n : Lines(write, n)' = Lines(write, n)
  OBVIOUS
<1>5. Passed = Len(lines) - Len(todo) /\ Passed' = Len(lines) - Len(todo')
  BY <1>4 DEF Passed
<1>6. Passed \in Nat /\ \A k \in DOMAIN todo : todo[k] = lines[Passed + k]
  BY DEF Accounted, InPlace
<1> HIDE DEF lines
<1>7. Passed' = Passed + 1 /\ Passed' \in Nat /\ Passed + 1 \in DOMAIN lines
  BY <1>2, <1>3, <1>5, <1>6
<1>8. Head(todo) = lines[Passed + 1]
  <2>1. 1 \in DOMAIN todo /\ Head(todo) = todo[1]
    BY <1>1, <1>2, TailLemma DEF IsList
  <2> QED
    BY <1>6, <2>1
<1>9. 1..Passed' = (1..Passed) \cup {Passed + 1}
  BY <1>6, <1>7
<1>10. InPlace'
  <2>1. \A k \in DOMAIN todo' : todo'[k] = lines[Passed' + k]
    <3> SUFFICES ASSUME NEW k \in DOMAIN todo' PROVE todo'[k] = lines[Passed' + k]
      OBVIOUS
    <3>1. k + 1 \in DOMAIN todo /\ todo'[k] = todo[k + 1] /\ k \in Int
      BY <1>2, <1>3
    <3>2. Passed + (k + 1) = Passed' + k
      BY <1>6, <1>7, <3>1
    <3> QED
      BY <1>6, <3>1, <3>2
  <2> QED
    BY <1>4, <1>7, <2>1 DEF InPlace, lines
<1>11. SaidSoFar'
  <2>1. \A n \in 0..(at - 1) :
           /\ \A k \in DOMAIN Lines(write, n) : Said(n, Lines(write, n)[k])
           /\ \A name \in Rejected(write, n) : Voiced(n, name)
    BY DEF Accounted, SaidSoFar
  <2>2. /\ \A k \in 1..Passed : Said(at, lines[k])
        /\ \A name \in excluded \cap Rejected(write, at) : Voiced(at, name)
    BY DEF Accounted, SaidSoFar, lines
  <2>3. \A n \in 0..(at' - 1) :
           /\ \A k \in DOMAIN Lines(write, n)' : Said(n, Lines(write, n)[k])'
           /\ \A name \in Rejected(write, n)' : Voiced(n, name)'
    BY <1>4, <2>1, Kept
  <2>4. \A k \in 1..Passed' : Heard(told', at, lines[k])
    <3> SUFFICES ASSUME NEW k \in 1..Passed' PROVE Heard(told', at, lines[k])
      OBVIOUS
    <3>1. CASE k \in 1..Passed
      BY <2>2, <3>1 DEF Said, Heard
    <3>2. CASE k = Passed + 1
      BY <1>8, <3>2
    <3> QED
      BY <1>9, <3>1, <3>2
  <2>5. \A name \in excluded' \cap Rejected(write, at)' : Voiced(at, name)'
    BY <2>2, Kept
  <2> QED
    BY <1>4, <2>3, <2>4, <2>5, Hearing DEF SaidSoFar, lines
<1>12. Sourced'
  <2> SUFFICES ASSUME NEW t \in told', ~(t.at < at)
               PROVE  \E i \in 1..Passed' : Source(lines[i], t)
    BY <1>4 DEF Sourced, lines
  <2>1. CASE t \in told
    <3>1. \E i \in 1..Passed : Source(lines[i], t)
      BY <2>1 DEF Accounted, Sourced, lines
    <3> QED
      BY <1>9, <3>1
  <2>2. CASE t \notin told
    <3>1. Source(lines[Passed + 1], t)
      BY <1>8, <2>2
    <3> QED
      BY <1>9, <3>1
  <2> QED
    BY <2>1, <2>2
<1>13. SaidUnlessBarred'
  BY DEF SaidUnlessBarred
<1>14. LeftOutSoFar'
  <2>1. \A i \in 1..Passed : LeavesOut(lines[i]) => lines[i].field \in excluded
    BY DEF Accounted, LeftOutSoFar, lines
  <2>2. \A i \in 1..Passed' : LeavesOut(lines[i]) => lines[i].field \in excluded'
    BY <1>8, <1>9, <2>1
  <2>3. \A l : LeavesOut(l)' <=> LeavesOut(l)
    BY DEF LeavesOut, SpecOf
  <2> QED
    BY <1>4, <2>2, <2>3 DEF LeftOutSoFar, LeavesOut, SpecOf, lines
<1>15. Justified'
  <2>1. \A t : Reason(t)' <=> Reason(t)
    BY DEF Reason, SpecOf
  <2> QED
    BY <2>1 DEF Accounted, Justified, Reason, SpecOf
<1> QED
  BY <1>10, <1>11, <1>12, <1>13, <1>14, <1>15 DEF Accounted

LEMMA HeadIsALine ==
    ASSUME AnsweredOnce, Accounted, Given, ~ended, todo # <<>>
    PROVE  Head(todo) \in ToSet(Lines(write, at))
<1> DEFINE lines == Lines(write, at)
<1>1. IsList(lines) /\ IsList(todo)
  BY LinesMembers DEF Given, AnsweredOnce, TypeOK, WellFormed, IsList
<1>2. /\ Len(lines) \in Nat /\ DOMAIN lines = 1..Len(lines)
      /\ Len(todo) \in Nat \ {0}
  BY <1>1, LenProperties, EmptySeq DEF IsList
<1>3. 1 \in DOMAIN todo /\ Head(todo) = todo[1]
  BY <1>1, TailLemma DEF IsList
<1>4. Passed \in Nat /\ todo[1] = lines[Passed + 1]
  BY <1>3 DEF Accounted, InPlace
<1>5. Passed + 1 \in DOMAIN lines
  <2>1. Passed = Len(lines) - Len(todo)
    BY DEF Passed
  <2> HIDE DEF lines
  <2> QED
    BY <1>2, <1>4, <2>1
<1> QED
  BY <1>3, <1>4, <1>5 DEF ToSet

LEMMA ScopeAccounts == ASSUME AnsweredOnce, Accounted, Given, Scope PROVE Accounted'
<1> DEFINE l == Head(todo)
<1>1. /\ ~ended /\ todo # <<>> /\ todo' = Tail(todo) /\ UNCHANGED <<write, at, excluded, ended>>
      /\ l.do = "scope"
  BY DEF Scope, Running
<1>2. told' = told \cup {[by |-> "scope", at |-> at, seat |-> n] : n \in IF write.outside THEN {"ID"} ELSE {}}
  BY DEF Scope, Tell
<1>3. l \in ToSet(Lines(write, at))
  BY <1>1, HeadIsALine
<1>4. at = 0 /\ write.mode \in SpecOf(write).scoped
  BY <1>1, <1>3, LineShape DEF Given
<1> HIDE DEF l
<1>5. Heard(told', at, l)
  BY <1>1, <1>2 DEF Heard
<1>6. ~LeavesOut(l)
  BY <1>1 DEF LeavesOut
<1>7. ASSUME NEW t \in told', t \notin told
      PROVE  t.at = at /\ Source(l, t) /\ Reason(t)
  <2>1. write.outside /\ t = [by |-> "scope", at |-> at, seat |-> "ID"]
    BY <1>2, <1>7
  <2> QED
    BY <1>1, <1>4, <2>1 DEF Source, Reason
<1> QED
  BY <1>1, <1>2, <1>5, <1>6, <1>7, LineStep DEF l

LEMMA ExcludeAccounts == ASSUME AnsweredOnce, Accounted, Given, Exclude PROVE Accounted'
<1> DEFINE l == Head(todo)
<1>1. /\ ~ended /\ todo # <<>> /\ todo' = Tail(todo) /\ UNCHANGED <<write, at, told, ended>>
      /\ l.do \in {"exclude", "excludeEmpty"}
  BY DEF Exclude, Running
<1>2. excluded' = IF LeavesOut(l) THEN excluded \cup {l.field} ELSE excluded
  BY <1>1 DEF Exclude, LeavesOut
<1>3. l \in ToSet(Lines(write, at))
  BY <1>1, HeadIsALine
<1> HIDE DEF l
<1>4. LeavesOut(l) => l.field \notin Rejected(write, at)
  BY <1>3, LeftOutUnasked
<1>5. Heard(told', at, l)
  BY <1>1 DEF Heard
<1>6. /\ LeavesOut(l) => l.field \in excluded'
      /\ excluded \subseteq excluded'
      /\ (excluded' \ excluded) \cap Rejected(write, at) = {}
  BY <1>2, <1>4
<1>7. told \subseteq told' /\ \A t \in told' : t \in told
  BY <1>1
<1> QED
  BY <1>1, <1>5, <1>6, <1>7, LineStep DEF l

LEMMA CheckAccounts == ASSUME AnsweredOnce, Accounted, Given, Check PROVE Accounted'
<1> DEFINE l == Head(todo)
           r == l.rule
<1>1. /\ ~ended /\ todo # <<>> /\ todo' = Tail(todo) /\ UNCHANGED <<write, at, ended>>
      /\ l.do = "check"
      /\ excluded' = excluded \cup LeftOut(r)
  BY DEF Check, Running
<1>2. told' = told \cup {[by |-> r.id, at |-> at, seat |-> n] : n \in Refuses(at, r, write)}
  BY DEF Check, Tell
<1>3. l \in ToSet(Lines(write, at))
  BY <1>1, HeadIsALine
<1>4. ByValueObject(SpecOf(write), r.id) <=> r.kind = "valueObject"
  <2>1. WellFormed(SpecOf(write), todo)
    BY DEF AnsweredOnce, TypeOK
  <2>2. 1 \in DOMAIN todo /\ l = todo[1]
    BY <1>1, <2>1, TailLemma DEF WellFormed
  <2> QED
    BY <1>1, <2>1, <2>2 DEF WellFormed, Pulls
<1> HIDE DEF l
<1>5. Heard(told', at, l)
  BY <1>1, <1>2 DEF Heard
<1>6. ~LeavesOut(l)
  BY <1>1 DEF LeavesOut
<1>7. ASSUME NEW name \in (excluded' \ excluded) \cap Rejected(write, at)
      PROVE  Voiced(at, name)'
  <2>1. r.kind = "valueObject" /\ name \in Subjects(r)
    BY <1>1, <1>7 DEF LeftOut
  <2>2. name \in Refuses(at, r, write)
    BY <1>1, <1>3, <1>7, <2>1, PulledForwardInFull DEF AnsweredOnce, TypeOK
  <2>3. [by |-> r.id, at |-> at, seat |-> name] \in told'
    BY <1>2, <2>2
  <2> QED
    BY <1>1, <1>4, <2>1, <2>3 DEF Voiced, SpecOf
<1>8. ASSUME NEW t \in told', t \notin told
      PROVE  t.at = at /\ Source(l, t) /\ Reason(t)
  <2>1. PICK n \in Refuses(at, r, write) : t = [by |-> r.id, at |-> at, seat |-> n]
    BY <1>2, <1>8
  <2>2. t.at = at /\ t.by = r.id /\ t.seat \in Refuses(at, r, write)
    BY <2>1
  <2>3. Reason(t)
    BY <1>1, <1>3, <2>2 DEF Reason
  <2> QED
    BY <1>1, <2>2, <2>3 DEF Source
<1>9. told \subseteq told' /\ excluded \subseteq excluded'
  BY <1>1, <1>2
<1> QED
  BY <1>1, <1>5, <1>6, <1>7, <1>8, <1>9, LineStep DEF l

LEMMA StopAccounts == ASSUME AnsweredOnce, Accounted, Given, Stop PROVE Accounted'
<1> DEFINE l == Head(todo)
           lines == Lines(write, at)
<1>1. /\ ~ended /\ todo # <<>> /\ UNCHANGED <<write, at, excluded, told>>
      /\ l.do = "stop"
  BY DEF Stop, Running
<1>2. CASE todo' = Tail(todo) /\ UNCHANGED ended
  <2>1. Heard(told', at, l)
    BY <1>1 DEF Heard
  <2>2. ~LeavesOut(l)
    BY <1>1 DEF LeavesOut
  <2>3. /\ told \subseteq told' /\ excluded \subseteq excluded'
        /\ excluded' \ excluded = {} /\ \A t \in told' : t \in told
    BY <1>1
  <2> HIDE DEF l
  <2> QED
    BY <1>1, <1>2, <2>1, <2>2, <2>3, LineStep DEF l
<1>3. CASE told # {} /\ ended' = TRUE /\ todo' = <<>>
  <2>1. IsList(lines) /\ IsList(todo)
    BY LinesMembers DEF Given, AnsweredOnce, TypeOK, WellFormed, IsList
  <2>2. /\ Len(lines) \in Nat /\ DOMAIN lines = 1..Len(lines)
        /\ Len(todo) \in Nat \ {0}
    BY <1>1, <2>1, LenProperties, EmptySeq DEF IsList
  <2>3. Passed \in Nat /\ Passed = Len(lines) - Len(todo) /\ l = lines[Passed + 1]
    <3>1. 1 \in DOMAIN todo /\ l = todo[1]
      BY <1>1, <2>1, TailLemma DEF IsList
    <3> QED
      BY <1>1, <3>1 DEF Accounted, InPlace, Passed
  <2> DEFINE j == Passed + 1
  <2> HIDE DEF lines, l
  <2>4. j \in DOMAIN lines /\ lines[j].do = "stop" /\ j \in Nat /\ j - 1 = Passed
    BY <1>1, <2>2, <2>3
  <2>5. at \in Nat /\ at \in 0..at
    <3>1. Len(write.entries) \in Nat
      BY WritesAssumption DEF Given
    <3> QED
      BY <3>1 DEF AnsweredOnce, TypeOK, Owners
  <2>6. \E t \in told : \/ t.at < at
                        \/ t.at = at /\ \E i \in 1..(j - 1) : Source(lines[i], t)
    <3>1. PICK t \in told : TRUE
      BY <1>3
    <3>2. t.at \in 0..at
      BY DEF AnsweredOnce, TypeOK
    <3>3. t.at < at \/ \E i \in 1..Passed : Source(lines[i], t)
      BY <1>1 DEF Accounted, Sourced, lines
    <3> QED
      BY <2>4, <2>5, <3>2, <3>3
  <2> HIDE DEF j
  <2>7. \A n \in Nat, k \in Nat : n > at \/ (n = at /\ j < k) => Tripped(n, k)
    <3> SUFFICES ASSUME NEW n \in Nat, NEW k \in Nat, n > at \/ (n = at /\ j < k)
                 PROVE  Tripped(n, k)
      OBVIOUS
    <3>1. at \in 0..n /\ (at = n => j < k)
      BY <2>5
    <3> QED
      BY <2>4, <2>6, <3>1 DEF Tripped, lines
  <2>8. \A n \in Nat, k \in Nat : Tripped(n, k) => Tripped(n, k)'
    BY <1>1 DEF Tripped
  <2>9. ASSUME NEW n \in Owners(write)
        PROVE  /\ \A k \in DOMAIN Lines(write, n) :
                     Tripped(n, k) \/ Said(n, Lines(write, n)[k])
               /\ \A name \in Rejected(write, n) :
                     Tripped(n, Len(Lines(write, n)) + 1) \/ Voiced(n, name)
    <3>1. n \in Nat
      BY DEF Owners
    <3>2. /\ Len(Lines(write, n)) \in Nat
          /\ DOMAIN Lines(write, n) = 1..Len(Lines(write, n))
      BY LinesMembers, LenProperties DEF Given, IsList
    <3>3. CASE n < at
      <4>1. n \in 0..(at - 1)
        BY <2>5, <3>1, <3>3
      <4> QED
        BY <4>1 DEF Accounted, SaidSoFar
    <3>4. CASE n > at
      BY <2>7, <3>1, <3>2, <3>4
    <3>5. CASE n = at
      <4>1. \A k \in 1..Passed : Said(at, lines[k])
        BY <1>1 DEF Accounted, SaidSoFar, lines
      <4>2. Said(at, lines[j])
        BY <2>4 DEF Said
      <4>3. ASSUME NEW k \in DOMAIN lines PROVE Tripped(n, k) \/ Said(at, lines[k])
        <5>1. CASE k <= Passed
          <6>1. k \in 1..Passed
            BY <2>2, <2>3, <5>1
          <6> QED
            BY <4>1, <6>1
        <5>2. CASE k = j
          BY <4>2, <5>2
        <5>3. CASE k > j
          <6>1. k \in Nat
            BY <2>2
          <6> QED
            BY <2>4, <2>7, <3>1, <3>5, <5>3, <6>1
        <5> QED
          BY <2>2, <2>3, <2>4, <5>1, <5>2, <5>3
      <4>4. Len(lines) + 1 \in Nat /\ j < Len(lines) + 1
        BY <2>2, <2>4
      <4>5. Tripped(n, Len(lines) + 1)
        BY <2>7, <3>1, <3>5, <4>4
      <4> QED
        BY <3>5, <4>3, <4>5 DEF lines
    <3> QED
      BY <2>5, <3>1, <3>3, <3>4, <3>5
  <2>10. SaidUnlessBarred'
    <3>1. \A n : Lines(write, n)' = Lines(write, n) /\ Rejected(write, n)' = Rejected(write, n)
      BY <1>1
    <3>2. Owners(write)' = Owners(write)
      BY <1>1 DEF Owners
    <3>3. told \subseteq told' /\ UNCHANGED write
      BY <1>1
    <3>4. \A n \in Owners(write) :
             /\ n \in Nat
             /\ Len(Lines(write, n)) \in Nat
             /\ DOMAIN Lines(write, n) = 1..Len(Lines(write, n))
      BY LinesMembers, LenProperties DEF Given, IsList, Owners
    <3>5. ASSUME NEW n \in Owners(write)
          PROVE  /\ \A k \in DOMAIN Lines(write, n) :
                       Tripped(n, k)' \/ Said(n, Lines(write, n)[k])'
                 /\ \A name \in Rejected(write, n) :
                       Tripped(n, Len(Lines(write, n)) + 1)' \/ Voiced(n, name)'
      <4>1. ASSUME NEW k \in DOMAIN Lines(write, n)
            PROVE  Tripped(n, k)' \/ Said(n, Lines(write, n)[k])'
        <5>1. n \in Nat /\ k \in Nat
          BY <3>4
        <5> QED
          BY <2>8, <2>9, <3>1, <3>3, <5>1, Kept
      <4>2. ASSUME NEW name \in Rejected(write, n)
            PROVE  Tripped(n, Len(Lines(write, n)) + 1)' \/ Voiced(n, name)'
        <5>1. n \in Nat /\ Len(Lines(write, n)) + 1 \in Nat
          BY <3>4
        <5> QED
          BY <2>8, <2>9, <3>1, <3>3, <5>1, Kept
      <4> QED
        BY <4>1, <4>2
    <3> QED
      BY <3>1, <3>2, <3>5 DEF SaidUnlessBarred
  <2>11. InPlace' /\ Sourced' /\ LeftOutSoFar'
    BY <1>3 DEF InPlace, Sourced, LeftOutSoFar
  <2>12. SaidSoFar'
    <3>1. \A n \in 0..(at - 1) :
             /\ \A k \in DOMAIN Lines(write, n) : Said(n, Lines(write, n)[k])
             /\ \A name \in Rejected(write, n) : Voiced(n, name)
      BY DEF Accounted, SaidSoFar
    <3>2. told \subseteq told' /\ UNCHANGED <<write, at>>
      BY <1>1
    <3> QED
      BY <1>3, <3>1, <3>2, Kept DEF SaidSoFar
  <2>13. Justified'
    BY <1>1 DEF Accounted, Justified, Reason, SpecOf
  <2> QED
    BY <2>10, <2>11, <2>12, <2>13 DEF Accounted
<1> QED
  BY <1>2, <1>3 DEF Stop

-----------------------------------------------------------------------------
\* A value object's word on a field is among what was told.
Uttered(ts, n, name) ==
    \E t \in ts : ByValueObject(SpecOf(write), t.by) /\ t.at = n /\ t.seat = name

LEMMA Uttering ==
    ASSUME UNCHANGED write
    PROVE  \A n, name : Voiced(n, name)' <=> Uttered(told', n, name)
BY DEF Voiced, Uttered, SpecOf

\* When the automatic pass over an owner is over, all of its lines and all of
\* its value objects have had their say.
LEMMA ValuesSay ==
    ASSUME AnsweredOnce, Accounted, Given, Values
    PROVE  /\ \A n \in 0..at :
                 /\ \A k \in DOMAIN Lines(write, n) : Heard(told', n, Lines(write, n)[k])
                 /\ \A name \in Rejected(write, n) : Uttered(told', n, name)
           /\ \A t \in told' : t.at \in 0..at /\ Reason(t)
           /\ told \subseteq told'
<1> DEFINE fs == FieldsOf(write, at)
           e == DataOf(write, at)
           lines == Lines(write, at)
           heard == {n \in DOMAIN fs \ excluded :
                        fs[n].vo.kind # "none" /\ e[n] # Absent /\ ~Valid(fs[n], e[n])}
<1>1. ~ended /\ todo = <<>> /\ UNCHANGED write
  BY DEF Values
<1>2. told' = told \cup {[by |-> "value", at |-> at, seat |-> n] : n \in heard}
  BY DEF Values, Tell
<1>3. Passed \in Nat /\ DOMAIN lines = 1..Passed
  <2>1. Len(lines) \in Nat /\ DOMAIN lines = 1..Len(lines)
    BY LinesMembers, LenProperties DEF Given, IsList
  <2>2. Passed = Len(lines) - Len(<<>>) /\ Len(<<>>) = 0
    BY <1>1 DEF Passed
  <2> HIDE DEF lines
  <2> QED
    BY <2>1, <2>2
<1>4. at \in Nat /\ at \in Owners(write)
  <2>1. Len(write.entries) \in Nat
    BY WritesAssumption DEF Given
  <2> QED
    BY <2>1 DEF AnsweredOnce, TypeOK, Owners
<1>5. \A n \in 0..(at - 1) :
         /\ \A k \in DOMAIN Lines(write, n) : Said(n, Lines(write, n)[k])
         /\ \A name \in Rejected(write, n) : Voiced(n, name)
  BY DEF Accounted, SaidSoFar
<1>6. /\ \A k \in DOMAIN lines : Said(at, lines[k])
      /\ \A name \in excluded \cap Rejected(write, at) : Voiced(at, name)
  BY <1>1, <1>3 DEF Accounted, SaidSoFar
<1>7. \A l \in ToSet(lines) : LeavesOut(l) => l.field \in excluded
  BY <1>1, <1>3 DEF Accounted, LeftOutSoFar, ToSet
<1>8. heard \subseteq Rejected(write, at)
  BY <1>4, <1>7, AutomaticPass
<1>9. Rejected(write, at) \subseteq heard \cup excluded
  BY DEF Rejected, Asked
<1> HIDE DEF fs, e, heard
<1>10. told \subseteq told'
  BY <1>2
<1>11. \A n, line : Said(n, line) => Heard(told', n, line)
  BY <1>10 DEF Said, Heard
<1>12. \A n, name : Voiced(n, name) => Uttered(told', n, name)
  BY <1>10 DEF Voiced, Uttered
<1>13. \A name \in heard : Uttered(told', at, name)
  <2> SUFFICES ASSUME NEW name \in heard PROVE Uttered(told', at, name)
    OBVIOUS
  <2>1. [by |-> "value", at |-> at, seat |-> name] \in told'
    BY <1>2
  <2> QED
    BY <2>1 DEF Uttered, ByValueObject
<1>14. \A name \in Rejected(write, at) : Uttered(told', at, name)
  BY <1>6, <1>9, <1>12, <1>13
<1>15. \A n \in 0..at : n = at \/ n \in 0..(at - 1)
  BY <1>4
<1>16. \A n \in 0..at :
          /\ \A k \in DOMAIN Lines(write, n) : Heard(told', n, Lines(write, n)[k])
          /\ \A name \in Rejected(write, n) : Uttered(told', n, name)
  BY <1>5, <1>6, <1>11, <1>12, <1>14, <1>15 DEF lines
<1>17. ASSUME NEW t \in told' PROVE t.at \in 0..at /\ Reason(t)
  <2>1. CASE t \in told
    BY <2>1 DEF AnsweredOnce, TypeOK, Accounted, Justified
  <2>2. CASE t \notin told
    <3>1. PICK n \in heard : t = [by |-> "value", at |-> at, seat |-> n]
      BY <1>2, <2>2
    <3>2. t.at = at /\ t.seat \in Rejected(write, at)
      BY <1>8, <3>1
    <3> QED
      BY <1>4, <3>2 DEF Reason
  <2> QED
    BY <2>1, <2>2
<1> QED
  BY <1>10, <1>16, <1>17

LEMMA ValuesAccounts == ASSUME AnsweredOnce, Accounted, Given, Values PROVE Accounted'
<1>1. ~ended /\ todo = <<>> /\ UNCHANGED write /\ excluded' = {}
  BY DEF Values
<1>2. Len(write.entries) \in Nat /\ at \in Nat /\ at <= Len(write.entries)
  BY WritesAssumption DEF Given, AnsweredOnce, TypeOK, Owners
<1>3. /\ \A n \in 0..at :
            /\ \A k \in DOMAIN Lines(write, n) : Heard(told', n, Lines(write, n)[k])
            /\ \A name \in Rejected(write, n) : Uttered(told', n, name)
      /\ \A t \in told' : t.at \in 0..at /\ Reason(t)
  BY ValuesSay
<1>4. \A n : Lines(write, n)' = Lines(write, n) /\ Rejected(write, n)' = Rejected(write, n)
  BY <1>1
<1>5. \A n \in 0..at :
         /\ \A k \in DOMAIN Lines(write, n)' : Said(n, Lines(write, n)[k])'
         /\ \A name \in Rejected(write, n)' : Voiced(n, name)'
  BY <1>1, <1>3, <1>4, Hearing, Uttering
<1>6. Justified'
  <2>1. \A t : Reason(t)' <=> Reason(t)
    BY <1>1 DEF Reason, SpecOf
  <2> QED
    BY <1>3, <2>1 DEF Justified
<1>7. CASE at < Len(write.entries)
  <2>1. at' = at + 1 /\ todo' = Lines(write, at + 1) /\ UNCHANGED ended
    BY <1>7 DEF Values
  <2> DEFINE lines == Lines(write, at + 1)
  <2>2. Lines(write, at)' = lines
    BY <1>1, <2>1
  <2>3. Len(lines) \in Nat /\ DOMAIN lines = 1..Len(lines)
    BY LinesMembers, LenProperties DEF Given, IsList
  <2>4. Passed' = 0
    <3>1. Passed' = Len(lines) - Len(lines)
      BY <2>1, <2>2 DEF Passed
    <3> HIDE DEF lines
    <3> QED
      BY <2>3, <3>1
  <2>5. 1..Passed' = {} /\ at' - 1 = at
    BY <1>2, <2>1, <2>4
  <2>6. InPlace'
    <3>1. \A k \in DOMAIN lines : lines[k] = lines[0 + k]
      BY <2>3
    <3>2. \A k \in DOMAIN todo' : todo'[k] = Lines(write, at)'[Passed' + k]
      BY <2>1, <2>2, <2>4, <3>1
    <3>3. Passed' \in Nat
      BY <2>4
    <3> QED
      BY <3>2, <3>3 DEF InPlace
  <2>7. SaidSoFar'
    <3>1. excluded' \cap Rejected(write, at)' = {}
      BY <1>1
    <3> QED
      BY <1>5, <2>5, <3>1 DEF SaidSoFar
  <2>8. Sourced'
    <3>1. \A t \in told' : t.at < at'
      BY <1>2, <1>3, <2>1
    <3> QED
      BY <3>1 DEF Sourced
  <2>9. SaidUnlessBarred' /\ LeftOutSoFar'
    BY <1>1, <2>1, <2>5 DEF SaidUnlessBarred, LeftOutSoFar
  <2> QED
    BY <1>6, <2>6, <2>7, <2>8, <2>9 DEF Accounted
<1>8. CASE ~(at < Len(write.entries))
  <2>1. ended' = TRUE /\ UNCHANGED <<at, todo>>
    BY <1>8 DEF Values
  <2>2. InPlace' /\ Sourced' /\ LeftOutSoFar'
    BY <2>1 DEF InPlace, Sourced, LeftOutSoFar
  <2>3. SaidSoFar'
    <3>1. \A n \in 0..(at' - 1) : n \in 0..at
      BY <1>2, <2>1
    <3> QED
      BY <1>5, <2>1, <3>1 DEF SaidSoFar
  <2>4. SaidUnlessBarred'
    <3>1. Owners(write)' = 0..at
      BY <1>1, <1>2, <1>8 DEF Owners
    <3> QED
      BY <1>5, <3>1 DEF SaidUnlessBarred
  <2> QED
    BY <1>6, <2>2, <2>3, <2>4 DEF Accounted
<1> QED
  BY <1>7, <1>8

LEMMA AccountsInit == ASSUME Init PROVE Accounted
<1>1. Given /\ at = 0 /\ todo = Lines(write, 0) /\ excluded = {} /\ told = {} /\ ended = FALSE
  BY DEF Init, Given
<1> DEFINE lines == Lines(write, 0)
<1>2. Len(lines) \in Nat /\ DOMAIN lines = 1..Len(lines)
  BY <1>1, LinesMembers, LenProperties DEF Given, IsList
<1>3. Passed = 0
  <2>1. Passed = Len(lines) - Len(lines)
    BY <1>1 DEF Passed
  <2> HIDE DEF lines
  <2> QED
    BY <1>2, <2>1
<1>4. InPlace
  <2>1. \A k \in DOMAIN lines : lines[k] = lines[0 + k]
    BY <1>2
  <2> QED
    BY <1>1, <1>3, <2>1 DEF InPlace
<1>5. 1..Passed = {} /\ 0..(at - 1) = {}
  BY <1>1, <1>3
<1>6. SaidSoFar /\ LeftOutSoFar
  BY <1>1, <1>5 DEF SaidSoFar, LeftOutSoFar
<1> QED
  BY <1>1, <1>4, <1>6 DEF Accounted, Sourced, SaidUnlessBarred, Justified

LEMMA InvStep == Inv /\ Given /\ [Next]_vars => Inv' /\ Given'
<1> SUFFICES ASSUME AnsweredOnce, Accounted, Given, [Next]_vars PROVE Inv' /\ Given'
  BY DEF Inv
<1>1. AnsweredOnce' /\ Given'
  BY AnswersStep
<1>2. CASE Scope
  BY <1>1, <1>2, ScopeAccounts DEF Inv
<1>3. CASE Exclude
  BY <1>1, <1>3, ExcludeAccounts DEF Inv
<1>4. CASE Check
  BY <1>1, <1>4, CheckAccounts DEF Inv
<1>5. CASE Stop
  BY <1>1, <1>5, StopAccounts DEF Inv
<1>6. CASE Values
  BY <1>1, <1>6, ValuesAccounts DEF Inv
<1>7. CASE UNCHANGED vars
  <2>1. /\ InPlace' /\ SaidSoFar' /\ Sourced' /\ LeftOutSoFar' /\ Justified' /\ SaidUnlessBarred'
    BY <1>7 DEF vars, Accounted, InPlace, SaidSoFar, Sourced, LeftOutSoFar, Justified, Passed,
                SaidUnlessBarred, Said, Voiced, Source, Reason, LeavesOut, Tripped, SpecOf
  <2> QED
    BY <1>1, <2>1 DEF Accounted, Inv
<1> QED
  BY <1>2, <1>3, <1>4, <1>5, <1>6, <1>7 DEF Next

\* Whatever the specs accepted and the write, each step of a validation pass
\* leaves what a value object was pulled forward for out of the automatic pass
\* (emit/domain.go:755) and of the rules still to run, and what the caller is
\* told is what the lines that have run had to say: no less, and no more.
THEOREM Invariance == Spec => []Inv
<1>1. Init => Inv /\ Given
  BY AnswersInit, AccountsInit DEF Inv
<1> QED
  BY <1>1, InvStep, PTL DEF Spec

\* Of a value object, "asked here means not asked again" (emit/domain.go:748):
\* no pass tells the caller twice that one value is wrong.
THEOREM ValueObjectsAnswerOnce == Spec => []ToldOnce
<1>1. Inv => ToldOnce
  BY DEF Inv, AnsweredOnce
<1> QED
  BY <1>1, Invariance, PTL

\* Of a guard, "every rule declared above it has already had its say" (emit/
\* domain.go:651): what any rule or value object refuses reaches the caller,
\* but where a barrier had found something told before it.
THEOREM RefusalsAreSaid == Spec => []SaidUnlessBarred
<1>1. Inv => SaidUnlessBarred
  BY DEF Inv, Accounted
<1> QED
  BY <1>1, Invariance, PTL

-----------------------------------------------------------------------------
\* The sum over nothing is zero.
LEMMA NoSum ==
    ASSUME NEW f, NEW rows, Measured(rows) = {}, f.kind \in {"min", "max", "avg"}
    PROVE  Answer(f, rows).num = 0 /\ Answer(f, rows).den = 1
<1>1. Answer(f, rows).den = 1
  BY DEF Answer
<1>2. MapThenSumSet(LAMBDA row : row.measure, {}) = 0
  BY DEF MapThenSumSet, MapThenFoldSet
<1>3. CASE f.kind = "avg"
  BY <1>2, <1>3 DEF Answer
<1>4. CASE f.kind \in {"min", "max"}
  BY <1>4 DEF Answer
<1> QED
  BY <1>1, <1>3, <1>4

\* What a fact is computed over: the rows its query admits, or each group of them.
Groups(r, w) ==
    LET in == Admitted(r.fact, w.rows, w.id, w.now[r.key])
    IN IF r.fact.grouped THEN {{x \in in : x.key = y.key} : y \in in} ELSE {in}

LEMMA OneAnswerEach ==
    ASSUME NEW r, NEW w
    PROVE  /\ Answers(r.fact, w.rows, w.id, w.now[r.key]) = {Answer(r.fact, rows) : rows \in Groups(r, w)}
           /\ NumbersWithin(r, w) <=>
                 \A rows \in Groups(r, w) :
                    HasNumber(r.fact, rows) =>
                       ~Below(r, Answer(r.fact, rows)) /\ ~Above(r, Answer(r.fact, rows))
<1> DEFINE f == r.fact
           in == Admitted(f, w.rows, w.id, w.now[r.key])
<1>1. NumbersWithin(r, w) <=>
         \A rows \in Groups(r, w) :
            HasNumber(f, rows) => ~Below(r, Answer(f, rows)) /\ ~Above(r, Answer(f, rows))
  BY DEF NumbersWithin, Groups
<1>2. Answers(f, w.rows, w.id, w.now[r.key]) =
        IF f.grouped THEN {Answer(f, {row \in in : row.key = k}) : k \in {row.key : row \in in}}
        ELSE {Answer(f, in)}
  BY DEF Answers
<1>3. Groups(r, w) = IF f.grouped THEN {{x \in in : x.key = y.key} : y \in in} ELSE {in}
  BY DEF Groups
<1> HIDE DEF f, in
<1>4. Answers(f, w.rows, w.id, w.now[r.key]) = {Answer(f, rows) : rows \in Groups(r, w)}
  <2>1. CASE ~f.grouped
    BY <1>2, <1>3, <2>1
  <2>2. CASE f.grouped
    <3>1. ASSUME NEW y \in in
          PROVE  Answer(f, {row \in in : row.key = y.key}) \in {Answer(f, rows) : rows \in Groups(r, w)}
      BY <1>3, <2>2
    <3>2. ASSUME NEW rows \in Groups(r, w)
          PROVE  Answer(f, rows) \in Answers(f, w.rows, w.id, w.now[r.key])
      <4>1. PICK y \in in : rows = {x \in in : x.key = y.key}
        BY <1>3, <2>2
      <4> QED
        BY <1>2, <2>2, <4>1
    <3>3. ASSUME NEW a \in Answers(f, w.rows, w.id, w.now[r.key])
          PROVE  a \in {Answer(f, rows) : rows \in Groups(r, w)}
      <4>1. PICK k \in {row.key : row \in in} : a = Answer(f, {row \in in : row.key = k})
        BY <1>2, <2>2
      <4>2. PICK y \in in : k = y.key
        BY <4>1
      <4> QED
        BY <3>1, <4>1, <4>2
    <3> QED
      BY <3>2, <3>3
  <2> QED
    BY <2>1, <2>2
<1> QED
  BY <1>1, <1>4 DEF f

\* The generated comparison refuses what the declared bounds exclude, where the
\* maximum is not negative.
LEMMA FactRangeLemma ==
    ASSUME NEW w \in Writes, NEW r \in ToSet(SpecOf(w).rules), r.kind = "factRange", Regular(w)
    PROVE  Refuses(0, r, w) = {} <=> NumbersWithin(r, w)
<1> DEFINE f == r.fact
           s == SpecOf(w)
<1>1. /\ f.kind \in {"count", "sum", "min", "max", "avg"}
      /\ ~f.nullable => \A row \in w.rows : row.measure # Absent
      /\ r.max # NoBound => r.max \in Nat
  <2>1. w.spec \in DOMAIN Specs /\ Accepted(s) /\ s = Specs[w.spec]
    BY WritesAssumption, SpecsAssumption DEF SpecOf
  <2>2. FactRangeAccepted(r, s.fields)
    BY <2>1 DEF Accepted, ShapeAccepted
  <2>3. ~f.nullable => \A row \in w.rows : row.measure # Absent
    BY <2>1, WritesAssumption
  <2>4. r.max # NoBound => r.max \in Nat
    BY DEF Regular
  <2> QED
    BY <2>2, <2>3, <2>4 DEF FactRangeAccepted
<1>2. Refuses(0, r, w) = {n \in {r.attach} :
         \E a \in Answers(f, w.rows, w.id, w.now[r.key]) : OutOfRange(r, a)}
  BY DEF Refuses, RootRefuses, FactRange
<1>3. Refuses(0, r, w) = {} <=> \A rows \in Groups(r, w) : ~OutOfRange(r, Answer(f, rows))
  BY <1>2, OneAnswerEach, SMTT(30)
<1>4. ASSUME NEW rows \in Groups(r, w)
      PROVE  OutOfRange(r, Answer(f, rows)) <=>
                /\ HasNumber(f, rows)
                /\ Below(r, Answer(f, rows)) \/ Above(r, Answer(f, rows))
  <2> DEFINE a == Answer(f, rows)
  <2>1. a.found <=> ~NeedsFound(f) \/ Measured(rows) # {}
    BY DEF Answer
  <2>2. CASE HasNumber(f, rows)
    <3>1. a.found
      BY <2>1, <2>2 DEF HasNumber, NeedsFound
    <3> HIDE DEF a
    <3> QED
      BY <2>2, <3>1 DEF OutOfRange, Below, a
  <2>3. CASE ~HasNumber(f, rows)
    <3>1. f.kind \in {"min", "max", "avg"} /\ Measured(rows) = {}
      BY <1>1, <2>3 DEF HasNumber
    <3>2. NeedsFound(f)
      <4> SUFFICES ASSUME f.grouped, ~f.nullable PROVE FALSE
        BY <3>1 DEF NeedsFound
      <4>1. PICK y \in Admitted(f, w.rows, w.id, w.now[r.key]) : y \in rows
        BY DEF Groups
      <4>2. y \in w.rows
        BY <4>1 DEF Admitted
      <4>3. y \in Measured(rows)
        BY <1>1, <4>1, <4>2 DEF Measured
      <4> QED
        BY <3>1, <4>3
    <3>3. a.num = 0 /\ a.den = 1
      BY <3>1, NoSum
    <3>4. ~a.found
      BY <2>1, <3>1, <3>2
    <3> HIDE DEF a, f
    <3>5. ~Above(r, a)
      BY <1>1, <3>3 DEF Above
    <3> QED
      BY <2>3, <3>4, <3>5 DEF OutOfRange, a
  <2> QED
    BY <2>2, <2>3
<1> QED
  BY <1>3, <1>4, OneAnswerEach

-----------------------------------------------------------------------------
\* A rule of the collection that reads the previous version, as the root's.
Up(s, r) == [r EXCEPT !.kind = HoistedKind(@), !.attach = s.child.name]

\* Enforced from the root, such a rule says what it would say from the entry.
LEMMA HistoryLemma ==
    ASSUME NEW w \in Writes, NEW r \in Historical(SpecOf(w)), Regular(w), InForce(w, r)
    PROVE  Refuses(0, Up(SpecOf(w), r), w) = {} <=> HistoryKept(w, r)
<1> DEFINE s == SpecOf(w)
           h == Up(s, r)
           fs == s.child.fields
           n == r.fields[1]
           cur(p) == w.entries[p[1]].data
           old(p) == w.were[p[2]].data
<1>1. /\ w.spec \in DOMAIN Specs /\ Accepted(s)
      /\ \A p \in Paired(w) : old(p) # None
  <2>1. \A p \in Paired(w) : p[2] \in DOMAIN w.were
    BY DEF Paired
  <2> QED
    BY <2>1, WritesAssumption, SpecsAssumption DEF SpecOf
<1>2. /\ r \in ToSet(s.child.rules) /\ r.kind \in {"transition", "immutable"}
      /\ Named(r, fs) /\ ShapeAccepted(r, fs, s.child)
  BY <1>1 DEF Historical, NeedsPrevious, Accepted
<1>3. /\ h.kind = HoistedKind(r.kind) /\ h.attach = s.child.name
      /\ h.scope = r.scope /\ h.fields = r.fields /\ h.skip = r.skip /\ h.moves = r.moves
  BY <1>2 DEF Named, Up
<1>4. Len(r.fields) = 1 /\ (r.kind = "immutable" => r.skip = "")
  BY <1>2 DEF Regular, ShapeAccepted, TransitionAccepted
<1>5. Subjects(r) = {n}
  <2>1. DOMAIN r.fields = 1..1
    BY <1>2, <1>4, LenProperties DEF Named
  <2> QED
    BY <2>1 DEF Subjects, ToSet
<1>6. HistoryKept(w, r) <=>
         \A p \in Paired(w) : RecordRefuses(r, fs, old(p), cur(p), w.who) = {}
  BY DEF HistoryKept
<1> HIDE DEF h
<1>7. CASE r.kind = "transition"
  <2>1. Refuses(0, h, w) = ChildTransition(h, w)
    BY <1>3, <1>7 DEF HoistedKind, Refuses, RootRefuses
  <2>2. \A e : StandsDown(h, fs, e) <=> StandsDown(r, fs, e)
    BY <1>3 DEF StandsDown
  <2>3. \A v : Reachable(h, v) = Reachable(r, v)
    BY <1>3 DEF Reachable
  <2>4. ChildTransition(h, w) = {} <=>
           \A p \in Paired(w) : ~(/\ ~StandsDown(r, fs, cur(p))
                                  /\ cur(p)[n] # old(p)[n]
                                  /\ cur(p)[n] \notin Reachable(r, old(p)[n]))
    BY <1>3, <2>2, <2>3 DEF ChildTransition
  <2>5. ASSUME NEW p \in Paired(w)
        PROVE  RecordRefuses(r, fs, old(p), cur(p), w.who) = {} <=>
                  ~(/\ ~StandsDown(r, fs, cur(p))
                    /\ cur(p)[n] # old(p)[n]
                    /\ cur(p)[n] \notin Reachable(r, old(p)[n]))
    <3>1. RecordRefuses(r, fs, old(p), cur(p), w.who) =
            IF StandsDown(r, fs, cur(p)) THEN {} ELSE Transition(r, old(p), cur(p))
      BY <1>7 DEF RecordRefuses
    <3>2. old(p) # None
      BY <1>1
    <3> HIDE DEF n, cur, old
    <3>3. Transition(r, old(p), cur(p)) = {} <=>
             ~(cur(p)[n] # old(p)[n] /\ cur(p)[n] \notin Reachable(r, old(p)[n]))
      BY <1>5, <3>2 DEF Transition
    <3> QED
      BY <3>1, <3>3
  <2> QED
    BY <1>6, <2>1, <2>4, <2>5 DEF h
<1>8. CASE r.kind = "immutable"
  <2>1. Refuses(0, h, w) = ChildImmutable(h, w)
    BY <1>3, <1>8 DEF HoistedKind, Refuses, RootRefuses
  <2>2. ChildImmutable(h, w) = {} <=> \A p \in Paired(w) : cur(p)[n] = old(p)[n]
    BY <1>3 DEF ChildImmutable
  <2>3. ASSUME NEW p \in Paired(w)
        PROVE  RecordRefuses(r, fs, old(p), cur(p), w.who) = {} <=> cur(p)[n] = old(p)[n]
    <3>1. ~StandsDown(r, fs, cur(p))
      BY <1>4, <1>8 DEF StandsDown
    <3>2. RecordRefuses(r, fs, old(p), cur(p), w.who) = Immutable(r, old(p), cur(p))
      BY <1>8, <3>1 DEF RecordRefuses
    <3>3. old(p) # None
      BY <1>1
    <3> HIDE DEF n, cur, old
    <3>4. Immutable(r, old(p), cur(p)) = {} <=> cur(p)[n] = old(p)[n]
      BY <1>5, <3>3 DEF Immutable
    <3> QED
      BY <3>2, <3>4
  <2> QED
    BY <1>6, <2>1, <2>2, <2>3 DEF h
<1> QED
  BY <1>2, <1>7, <1>8

\* The rules in force of an owner are those its lines check.
LEMMA CheckedRules ==
    ASSUME NEW w \in Writes, NEW n
    PROVE  /\ \A r \in RulesOf(w, n) :
                 \E l \in ToSet(Lines(w, n)) : l.do = "check" /\ l.rule = r
           /\ \A l \in ToSet(Lines(w, n)) :
                 l.do = "check" =>
                    \/ l.rule \in RulesOf(w, n)
                    \/ n = 0 /\ \E r \in Historical(SpecOf(w)) : InForce(w, r) /\ l.rule = Up(SpecOf(w), r)
           /\ \A r \in Historical(SpecOf(w)) :
                 InForce(w, r) =>
                    \E l \in ToSet(Lines(w, 0)) : l.do = "check" /\ l.rule = Up(SpecOf(w), r)
<1> DEFINE s == SpecOf(w)
<1>1. w.spec \in DOMAIN Specs /\ Accepted(s)
  BY WritesAssumption, SpecsAssumption DEF SpecOf
<1>2. /\ \A r \in ToSet(s.rules) \cup ToSet(s.child.rules) : r.scope \subseteq AllGates
      /\ \A r \in ToSet(s.uniques) : r.scope = {"insertOrUpdate"}
      /\ "insertOrUpdate" \in AllGates
      /\ \A r \in ToSet(s.child.rules) : {"scope", "kind", "attach"} \subseteq DOMAIN r
  BY <1>1, GatesMembers DEF Accepted, Named, UniqueAccepted, AllGates
<1>3. \A r \in Historical(s) : r \in ToSet(s.child.rules) /\ Up(s, r).scope = r.scope
  <2>1. \A r \in Historical(s) : r \in ToSet(s.child.rules)
    BY DEF Historical
  <2> QED
    BY <1>2, <2>1 DEF Up
<1>4. HoistedRules(s) = {Up(s, r) : r \in Historical(s)}
  BY DEF HoistedRules, Up
<1>5. ToSet(s.rules \o s.uniques) = ToSet(s.rules) \cup ToSet(s.uniques)
  BY <1>1, Lists3, Concatenation
<1>6. ToSet(EntryRules(s)) = ToSet(s.child.rules) \ Historical(s)
  BY <1>1, EntryMembers
<1>7. RulesOf(w, n) =
        {r \in IF n = 0 THEN ToSet(s.rules) \cup ToSet(s.uniques)
               ELSE ToSet(s.child.rules) \ Historical(s) : InForce(w, r)}
  BY <1>5, <1>6 DEF RulesOf
<1>8. \A m : ToSet(Lines(w, m)) = {l \in FileSet(s, m) : Fires(l.gate, w.mode)}
  BY LinesMembers
<1> HIDE DEF s
<1>9. ASSUME NEW m, NEW g \in AllGates, Fires(g, w.mode),
             NEW r \in IF m = 0 THEN RootRules(s, g) ELSE EntryRuleSet(s, g)
      PROVE  \E l \in ToSet(Lines(w, m)) : l.do = "check" /\ l.rule = r
  <2> DEFINE l == CheckLine(g, r)
  <2>1. l \in FileSet(s, m)
    <3>1. CASE m = 0
      BY <1>9, <3>1 DEF FileSet, RootSet, CheckLines
    <3>2. CASE m # 0
      BY <1>9, <3>2 DEF FileSet, EntrySet, CheckLines
    <3> QED
      BY <3>1, <3>2
  <2>2. l.gate = g /\ l.do = "check" /\ l.rule = r
    BY DEF CheckLine
  <2> HIDE DEF l
  <2> QED
    BY <1>8, <1>9, <2>1, <2>2
<1>10. ASSUME NEW r \in RulesOf(w, n)
       PROVE  \E l \in ToSet(Lines(w, n)) : l.do = "check" /\ l.rule = r
  <2>1. PICK g \in r.scope : Fires(g, w.mode)
    BY <1>7 DEF InForce
  <2>2. g \in AllGates
    BY <1>2, <1>7, <2>1
  <2>3. r \in IF n = 0 THEN RootRules(s, g) ELSE EntryRuleSet(s, g)
    BY <1>2, <1>7, <2>1 DEF RootRules, EntryRuleSet
  <2> QED
    BY <1>9, <2>1, <2>2, <2>3
<1>11. ASSUME NEW r \in Historical(s), InForce(w, r)
       PROVE  \E l \in ToSet(Lines(w, 0)) : l.do = "check" /\ l.rule = Up(s, r)
  <2>1. PICK g \in r.scope : Fires(g, w.mode)
    BY <1>11 DEF InForce
  <2>2. g \in AllGates
    BY <1>2, <1>3, <2>1
  <2>3. Up(s, r) \in RootRules(s, g)
    BY <1>3, <1>4, <2>1 DEF RootRules
  <2> QED
    BY <1>9, <2>1, <2>2, <2>3
<1>12. ASSUME NEW l \in ToSet(Lines(w, n)), l.do = "check"
       PROVE  \/ l.rule \in RulesOf(w, n)
              \/ n = 0 /\ \E r \in Historical(s) : InForce(w, r) /\ l.rule = Up(s, r)
  <2>1. /\ Fires(l.gate, w.mode)
        /\ l.rule \in IF n = 0 THEN RootRules(s, l.gate) ELSE EntryRuleSet(s, l.gate)
    BY <1>12, LineShape DEF s
  <2>2. CASE n # 0
    BY <1>7, <2>1, <2>2 DEF EntryRuleSet, InForce
  <2>3. CASE n = 0 /\ l.rule \in ToSet(s.rules) \cup ToSet(s.uniques)
    <3>1. l.gate \in l.rule.scope
      BY <1>2, <1>3, <1>4, <2>1, <2>3 DEF RootRules
    <3> QED
      BY <1>7, <2>1, <2>3, <3>1 DEF InForce
  <2>4. CASE n = 0 /\ l.rule \notin ToSet(s.rules) \cup ToSet(s.uniques)
    <3>1. l.rule \in HoistedRules(s) /\ l.gate \in l.rule.scope
      BY <2>1, <2>4 DEF RootRules
    <3>2. PICK r \in Historical(s) : l.rule = Up(s, r)
      BY <1>4, <3>1
    <3> QED
      BY <1>3, <2>1, <2>4, <3>1, <3>2 DEF InForce
  <2> QED
    BY <2>2, <2>3, <2>4
<1> QED
  BY <1>10, <1>11, <1>12 DEF s

\* What a declared rule allows is what its check does not refuse.
LEMMA ObeyedLemma ==
    ASSUME NEW w \in Writes, Regular(w), NEW n, NEW r \in RulesOf(w, n)
    PROVE  Obeyed(n, r, w) <=> Refuses(n, r, w) = {}
<1>1. CASE r.kind # "factRange"
  BY <1>1 DEF Obeyed
<1>2. CASE r.kind = "factRange"
  <2> DEFINE s == SpecOf(w)
  <2>1. w.spec \in DOMAIN Specs /\ Accepted(s)
    BY WritesAssumption, SpecsAssumption DEF SpecOf
  <2>2. /\ ToSet(s.rules \o s.uniques) = ToSet(s.rules) \cup ToSet(s.uniques)
        /\ ToSet(EntryRules(s)) \subseteq ToSet(s.child.rules)
    BY <2>1, Lists3, Concatenation, EntryMembers
  <2>3. /\ \A x \in ToSet(s.uniques) : x.kind # "factRange"
        /\ \A x \in ToSet(s.child.rules) : x.kind # "factRange"
    BY <2>1 DEF Accepted, UniqueAccepted, AggregateWide
  <2>4. n = 0 /\ r \in ToSet(s.rules)
    BY <1>2, <2>2, <2>3 DEF RulesOf
  <2> QED
    BY <1>2, <2>4, FactRangeLemma DEF Obeyed
<1> QED
  BY <1>1, <1>2

\* Nothing told, so no barrier in the way: all that is declared was asked.
LEMMA SilenceIsAssent ==
    ASSUME Given, Regular(write), SaidUnlessBarred, ended, told = {}
    PROVE  Acceptable(write)
<1> DEFINE s == SpecOf(write)
           w == write
<1>1. \A n, k : ~Tripped(n, k)
  BY DEF Tripped
<1>2. \A n \in Owners(w) : Rejected(w, n) = {}
  BY <1>1 DEF SaidUnlessBarred, Voiced
<1>3. \A n \in Owners(w) : \A l \in ToSet(Lines(w, n)) : Said(n, l)
  BY <1>1 DEF SaidUnlessBarred, ToSet
<1>4. \A n \in Owners(w) : \A l \in ToSet(Lines(w, n)) :
         /\ l.do = "check" => Refuses(n, l.rule, w) = {}
         /\ l.do = "scope" => ~w.outside
  BY <1>3 DEF Said
<1>5. 0 \in Owners(w) /\ Accepted(s) /\ w.mode \in s.modes
  BY WritesAssumption, SpecsAssumption DEF Given, Owners, SpecOf
<1>6. w.mode \in s.scoped => ~w.outside
  <2> SUFFICES ASSUME w.mode \in s.scoped PROVE ~w.outside
    OBVIOUS
  <2> DEFINE l == [gate |-> w.mode, do |-> "scope"]
  <2>1. w.mode \in AllGates
    BY <1>5, GatesMembers DEF Accepted
  <2>2. l \in ScopeSet(s) /\ Fires(l.gate, w.mode)
    BY <2>1 DEF ScopeSet, Fires
  <2>3. l \in ToSet(Lines(w, 0))
    BY <2>2, LinesMembers DEF FileSet, RootSet, Given
  <2> QED
    BY <1>4, <1>5, <2>3
<1>7. ASSUME NEW n \in Owners(w), NEW r \in RulesOf(w, n) PROVE Obeyed(n, r, w)
  <2>1. PICK l \in ToSet(Lines(w, n)) : l.do = "check" /\ l.rule = r
    BY CheckedRules DEF Given
  <2>2. Refuses(n, r, w) = {}
    BY <1>4, <2>1
  <2> QED
    BY <2>2, ObeyedLemma DEF Given
<1>8. ASSUME NEW r \in ToSet(s.child.rules), r.kind \in NeedsPrevious PROVE HistoryKept(w, r)
  <2>1. CASE ~InForce(w, r)
    BY <2>1 DEF HistoryKept
  <2>2. CASE InForce(w, r)
    <3>1. r \in Historical(s)
      BY <1>8 DEF Historical
    <3>2. PICK l \in ToSet(Lines(w, 0)) : l.do = "check" /\ l.rule = Up(s, r)
      BY <2>2, <3>1, CheckedRules DEF Given
    <3>3. Refuses(0, Up(s, r), w) = {}
      BY <1>4, <1>5, <3>2
    <3> QED
      BY <2>2, <3>1, <3>3, HistoryLemma DEF Given
  <2> QED
    BY <2>1, <2>2
<1> QED
  BY <1>2, <1>6, <1>7, <1>8 DEF Acceptable

\* Nothing is told for no reason, so nothing is told of an acceptable write.
LEMMA AssentIsSilence ==
    ASSUME Given, Regular(write), TypeOK, Justified, Acceptable(write)
    PROVE  told = {}
<1> DEFINE s == SpecOf(write)
<1> SUFFICES ASSUME NEW t \in told PROVE FALSE
  OBVIOUS
<1>1. t.at \in Owners(write)
  BY WritesAssumption DEF TypeOK, Owners, Given
<1>2. Reason(t)
  BY DEF Justified
<1>3. ~(t.at = 0 /\ write.outside /\ write.mode \in s.scoped)
  BY DEF Acceptable
<1>4. t.seat \notin Rejected(write, t.at)
  BY <1>1 DEF Acceptable
<1>5. PICK l \in ToSet(Lines(write, t.at)) : l.do = "check" /\ t.seat \in Refuses(t.at, l.rule, write)
  BY <1>2, <1>3, <1>4 DEF Reason
<1>6. CASE l.rule \in RulesOf(write, t.at)
  <2>1. Obeyed(t.at, l.rule, write)
    BY <1>1, <1>6 DEF Acceptable
  <2> QED
    BY <1>5, <1>6, <2>1, ObeyedLemma DEF Given
<1>7. CASE t.at = 0 /\ \E r \in Historical(s) : InForce(write, r) /\ l.rule = Up(s, r)
  <2>1. PICK r \in Historical(s) : InForce(write, r) /\ l.rule = Up(s, r)
    BY <1>7
  <2>2. HistoryKept(write, r)
    BY DEF Acceptable, Historical
  <2> QED
    BY <1>5, <1>7, <2>1, <2>2, HistoryLemma DEF Given
<1> QED
  BY <1>5, <1>6, <1>7, CheckedRules DEF Given

\* "It can never skip validation" (spec/spec.go:1466): where a check runs, what
\* ends the pass and what is left out of the automatic one never change which
\* writes are accepted. For the declarations that say what the code checks,
\* a pass tells nothing if and only if everything declared allows the write.
THEOREM TheVerdictIsUnmoved == Spec => []VerdictUnmoved
<1>1. Inv /\ Given => VerdictUnmoved
  <2> SUFFICES ASSUME Inv, Given, ended, Regular(write)
               PROVE  told = {} <=> Acceptable(write)
    BY DEF VerdictUnmoved
  <2>1. told = {} => Acceptable(write)
    BY SilenceIsAssent DEF Inv, Accounted
  <2>2. Acceptable(write) => told = {}
    BY AssentIsSilence DEF Inv, AnsweredOnce, Accounted
  <2> QED
    BY <2>1, <2>2
<1>2. Init => Inv /\ Given
  BY AnswersInit, AccountsInit DEF Inv
<1> QED
  BY <1>1, <1>2, InvStep, PTL DEF Spec
=============================================================================
