--------------------------- MODULE Schema_proofs ----------------------------
(***************************************************************************)
(* Proofs about module Schema, for every project of any number of entities *)
(* whose tables have names of their own, and every engine: the database is *)
(* clean whenever nothing is dirty, no file takes a table another entity   *)
(* needs, and, where no column is mirrored twice, no statement of any file *)
(* is refused. An up is followed from what each of its statements brings   *)
(* and takes to be there, a down from the order of its drops.              *)
(***************************************************************************)
EXTENDS Schema, SequenceTheorems, TLAPS

-----------------------------------------------------------------------------
\* Lists.

LEMMA ListLemma ==
    ASSUME NEW l, IsList(l)
    PROVE  /\ Len(l) \in Nat /\ DOMAIN l = 1..Len(l)
           /\ l = <<>> <=> Len(l) = 0
           /\ l \in [1..Len(l) -> ToSet(l)]
  BY LenProperties, EmptySeq DEF IsList

LEMMA MakeList ==
    ASSUME NEW n \in Nat, NEW l, l = [i \in 1..n |-> l[i]]
    PROVE  IsList(l) /\ Len(l) = n
<1> DEFINE S == {l[i] : i \in 1..n}
<1>1. l \in [1..n -> S]
  OBVIOUS
<1>2. l \in UNION {[1..i -> S] : i \in Nat}
  BY <1>1
<1>3. l \in Seq(S)
  BY <1>2, SeqDef, Zenon
<1>4. DOMAIN l = 1..n /\ DOMAIN l = 1..Len(l) /\ Len(l) \in Nat
  BY <1>1, <1>3, LenProperties
<1>5. ToSet(l) = S
  BY <1>4 DEF ToSet
<1>6. Len(l) = n
  BY <1>4
<1> QED
  BY <1>3, <1>5, <1>6 DEF IsList

LEMMA TailLemma ==
    ASSUME NEW l, IsList(l), l # <<>>
    PROVE  /\ IsList(Tail(l)) /\ 1 \in DOMAIN l /\ Head(l) = l[1]
           /\ DOMAIN Tail(l) = 1..(Len(l) - 1)
           /\ \A j \in 1..(Len(l) - 1) : j + 1 \in DOMAIN l /\ Tail(l)[j] = l[j + 1]
           /\ ToSet(l) = {Head(l)} \cup ToSet(Tail(l))
<1>1. /\ Len(l) \in Nat \ {0} /\ DOMAIN l = 1..Len(l) /\ l \in Seq(ToSet(l))
  BY ListLemma DEF IsList
<1>2. /\ Tail(l) \in Seq(ToSet(l)) /\ Len(Tail(l)) = Len(l) - 1 /\ Head(l) = l[1]
      /\ \A j \in 1..Len(Tail(l)) : Tail(l)[j] = l[j + 1]
  BY <1>1, HeadTailProperties
<1>3. DOMAIN Tail(l) = 1..(Len(l) - 1) /\ Len(l) - 1 \in Nat
  BY <1>1, <1>2, LenProperties
<1>4. Tail(l) = [j \in 1..(Len(l) - 1) |-> Tail(l)[j]]
  BY <1>2, <1>3, LenProperties
<1>5. IsList(Tail(l))
  BY <1>3, <1>4, MakeList
<1>6. ToSet(l) \subseteq {Head(l)} \cup ToSet(Tail(l))
  <2>1. ASSUME NEW i \in 1..Len(l), i # 1 PROVE l[i] \in ToSet(Tail(l))
    <3>1. i - 1 \in 1..(Len(l) - 1) /\ (i - 1) + 1 = i
      BY <1>1, <2>1
    <3>2. Tail(l)[i - 1] = l[i]
      BY <1>2, <3>1
    <3> QED
      BY <1>3, <3>1, <3>2 DEF ToSet
  <2> QED
    BY <1>1, <1>2, <2>1 DEF ToSet
<1>7. \A j \in 1..(Len(l) - 1) : j + 1 \in DOMAIN l /\ Tail(l)[j] = l[j + 1]
  BY <1>1, <1>2
<1>8. {Head(l)} \cup ToSet(Tail(l)) \subseteq ToSet(l)
  BY <1>1, <1>2, <1>3, <1>7 DEF ToSet
<1> QED
  BY <1>1, <1>2, <1>3, <1>5, <1>6, <1>7, <1>8

LEMMA JoinLemma ==
    ASSUME NEW a, NEW b, IsList(a), IsList(b)
    PROVE  /\ IsList(a \o b) /\ Len(a \o b) = Len(a) + Len(b)
           /\ DOMAIN (a \o b) = 1..(Len(a) + Len(b))
           /\ \A i \in 1..(Len(a) + Len(b)) :
                 (a \o b)[i] = IF i <= Len(a) THEN a[i] ELSE b[i - Len(a)]
           /\ ToSet(a \o b) = ToSet(a) \cup ToSet(b)
<1> DEFINE S == ToSet(a) \cup ToSet(b)
<1>0. a \in Seq(S) /\ b \in Seq(S)
  BY SeqMonotonic DEF IsList
<1> HIDE DEF S
<1>1. /\ a \o b \in Seq(S) /\ Len(a) \in Nat /\ Len(b) \in Nat
      /\ Len(a \o b) = Len(a) + Len(b)
      /\ DOMAIN a = 1..Len(a) /\ DOMAIN b = 1..Len(b)
      /\ DOMAIN (a \o b) = 1..(Len(a) + Len(b))
      /\ \A i \in 1..(Len(a) + Len(b)) :
            (a \o b)[i] = IF i <= Len(a) THEN a[i] ELSE b[i - Len(a)]
  BY <1>0, ConcatProperties, LenProperties
<1>2. a \o b = [i \in 1..(Len(a) + Len(b)) |-> (a \o b)[i]]
  BY <1>1, LenProperties
<1>3. IsList(a \o b)
  BY <1>1, <1>2, MakeList
<1>4. ASSUME NEW x \in ToSet(a \o b) PROVE x \in ToSet(a) \cup ToSet(b)
  <2>1. PICK i \in 1..(Len(a) + Len(b)) : x = (a \o b)[i]
    BY <1>1, <1>4 DEF ToSet
  <2>2. i <= Len(a) => i \in DOMAIN a
    BY <1>1
  <2>3. ~(i <= Len(a)) => i - Len(a) \in DOMAIN b
    BY <1>1
  <2> QED
    BY <1>1, <2>1, <2>2, <2>3 DEF ToSet
<1>5. ASSUME NEW x \in ToSet(a) PROVE x \in ToSet(a \o b)
  <2>1. PICK i \in 1..Len(a) : x = a[i]
    BY <1>1, <1>5 DEF ToSet
  <2>2. i \in 1..(Len(a) + Len(b)) /\ i <= Len(a)
    BY <1>1
  <2> QED
    BY <1>1, <2>1, <2>2 DEF ToSet
<1>6. ASSUME NEW x \in ToSet(b) PROVE x \in ToSet(a \o b)
  <2>1. PICK i \in 1..Len(b) : x = b[i]
    BY <1>1, <1>6 DEF ToSet
  <2>2. /\ i + Len(a) \in 1..(Len(a) + Len(b)) /\ ~(i + Len(a) <= Len(a))
        /\ i + Len(a) - Len(a) = i
    BY <1>1
  <2>3. (a \o b)[i + Len(a)] = b[i]
    BY <1>1, <2>2
  <2> QED
    BY <1>1, <2>1, <2>2, <2>3 DEF ToSet
<1> QED
  BY <1>1, <1>3, <1>4, <1>5, <1>6

LEMMA Few ==
    /\ IsList(<<>>) /\ ToSet(<<>>) = {} /\ DOMAIN <<>> = {} /\ Len(<<>>) = 0
    /\ \A x : IsList(<<x>>) /\ ToSet(<<x>>) = {x} /\ Len(<<x>>) = 1
    /\ \A x, y : IsList(<<x, y>>) /\ ToSet(<<x, y>>) = {x, y} /\ Len(<<x, y>>) = 2
    /\ \A x, y, z : IsList(<<x, y, z>>) /\ ToSet(<<x, y, z>>) = {x, y, z} /\ Len(<<x, y, z>>) = 3
<1>1. IsList(<<>>) /\ ToSet(<<>>) = {} /\ DOMAIN <<>> = {} /\ Len(<<>>) = 0
  BY EmptySeq DEF IsList, ToSet
<1>2. ASSUME NEW x PROVE IsList(<<x>>) /\ ToSet(<<x>>) = {x} /\ Len(<<x>>) = 1
  <2>1. ToSet(<<x>>) = {x}
    BY DEF ToSet
  <2> QED
    BY <2>1 DEF IsList
<1>3. ASSUME NEW x, NEW y
      PROVE  IsList(<<x, y>>) /\ ToSet(<<x, y>>) = {x, y} /\ Len(<<x, y>>) = 2
  <2>1. ToSet(<<x, y>>) = {x, y}
    BY DEF ToSet
  <2> QED
    BY <2>1 DEF IsList
<1>4. ASSUME NEW x, NEW y, NEW z
      PROVE  IsList(<<x, y, z>>) /\ ToSet(<<x, y, z>>) = {x, y, z} /\ Len(<<x, y, z>>) = 3
  <2>1. ToSet(<<x, y, z>>) = {x, y, z}
    BY DEF ToSet
  <2> QED
    BY <2>1 DEF IsList
<1> QED
  BY <1>1, <1>2, <1>3, <1>4

-----------------------------------------------------------------------------
\* Files whose statements all find what they need.

\* What a statement brings into the database, and what it takes to be there: a
\* table counts as a part of itself.
Itself == <<"table", <<>>>>
Gives(st) == <<st.table, IF st.op = "create" THEN Itself ELSE st.part>>
Wants(st) == IF st.op = "create" THEN {<<t, Itself>> : t \in st.of}
             ELSE {<<st.table, Itself>>} \cup {<<st.table, p>> : p \in st.over}

Given(b) == {Gives(b[j]) : j \in DOMAIN b}
GivenBy(b, n) == {Gives(b[j]) : j \in 1..n}
Ready(b, H) ==
    \A j \in DOMAIN b : /\ Gives(b[j]) \notin H \cup GivenBy(b, j - 1)
                        /\ Wants(b[j]) \subseteq H \cup GivenBy(b, j - 1)

IsFile(f) == IsList(f) /\ \A i \in DOMAIN f : IsList(f[i])
Before(f, i) == UNION {Given(f[k]) : k \in 1..(i - 1)}
All(f) == UNION {Given(f[k]) : k \in DOMAIN f}
FileReady(f, H) == \A i \in DOMAIN f : Ready(f[i], H \cup Before(f, i))

LEMMA ReadyTail ==
    ASSUME NEW b, NEW H, IsList(b), b # <<>>, Ready(b, H)
    PROVE  /\ Gives(Head(b)) \notin H /\ Wants(Head(b)) \subseteq H
           /\ Given(b) = {Gives(Head(b))} \cup Given(Tail(b))
           /\ Ready(Tail(b), H \cup {Gives(Head(b))})
<1>1. /\ 1 \in DOMAIN b /\ Head(b) = b[1] /\ DOMAIN Tail(b) = 1..(Len(b) - 1)
      /\ Len(b) \in Nat /\ DOMAIN b = 1..Len(b)
      /\ \A j \in 1..(Len(b) - 1) : j + 1 \in DOMAIN b /\ Tail(b)[j] = b[j + 1]
  BY TailLemma, ListLemma
<1>2. GivenBy(b, 0) = {}
  BY DEF GivenBy
<1>3. Gives(Head(b)) \notin H /\ Wants(Head(b)) \subseteq H
  BY <1>1, <1>2 DEF Ready
<1>4. ASSUME NEW n \in 0..(Len(b) - 1)
      PROVE  GivenBy(b, n + 1) = {Gives(Head(b))} \cup GivenBy(Tail(b), n)
  <2>1. GivenBy(b, n + 1) \subseteq {Gives(Head(b))} \cup GivenBy(Tail(b), n)
    <3>1. ASSUME NEW j \in 1..(n + 1), j # 1 PROVE Gives(b[j]) \in GivenBy(Tail(b), n)
      <4>1. j - 1 \in 1..n /\ j - 1 \in 1..(Len(b) - 1) /\ (j - 1) + 1 = j
        BY <1>1, <3>1
      <4>2. Tail(b)[j - 1] = b[j]
        BY <1>1, <4>1
      <4> QED
        BY <4>1, <4>2 DEF GivenBy
    <3> QED
      BY <1>1, <3>1 DEF GivenBy
  <2>2. ASSUME NEW j \in 1..n PROVE Gives(Tail(b)[j]) \in GivenBy(b, n + 1)
    <3>1. j \in 1..(Len(b) - 1) /\ j + 1 \in 1..(n + 1)
      BY <1>1
    <3> QED
      BY <1>1, <3>1 DEF GivenBy
  <2>3. Gives(b[1]) \in GivenBy(b, n + 1)
    BY DEF GivenBy
  <2> QED
    BY <1>1, <2>1, <2>2, <2>3 DEF GivenBy
<1>5. Given(b) = {Gives(Head(b))} \cup Given(Tail(b))
  <2>1. Len(b) - 1 \in 0..(Len(b) - 1) /\ (Len(b) - 1) + 1 = Len(b)
    BY <1>1
  <2>2. Given(b) = GivenBy(b, Len(b)) /\ Given(Tail(b)) = GivenBy(Tail(b), Len(b) - 1)
    BY <1>1 DEF Given, GivenBy
  <2> QED
    BY <1>4, <2>1, <2>2
<1>6. ASSUME NEW j \in DOMAIN Tail(b)
      PROVE  LET X == H \cup {Gives(Head(b))} \cup GivenBy(Tail(b), j - 1)
             IN  Gives(Tail(b)[j]) \notin X /\ Wants(Tail(b)[j]) \subseteq X
  <2>1. /\ j \in 1..(Len(b) - 1) /\ j - 1 \in 0..(Len(b) - 1)
        /\ (j - 1) + 1 = j /\ (j + 1) - 1 = j
    BY <1>1
  <2>2. j + 1 \in DOMAIN b /\ Tail(b)[j] = b[j + 1]
    BY <1>1, <2>1
  <2>3. GivenBy(b, j) = {Gives(Head(b))} \cup GivenBy(Tail(b), j - 1)
    BY <1>4, <2>1
  <2>4. /\ Gives(b[j + 1]) \notin H \cup GivenBy(b, j)
        /\ Wants(b[j + 1]) \subseteq H \cup GivenBy(b, j)
    BY <2>1, <2>2 DEF Ready
  <2> QED
    BY <2>2, <2>3, <2>4
<1>7. Ready(Tail(b), H \cup {Gives(Head(b))})
  BY <1>6 DEF Ready
<1> QED
  BY <1>3, <1>5, <1>7

\* The file after a statement of its i-th block.
Without(f, i) == [f EXCEPT ![i] = Tail(@)]

LEMMA WithoutLemma ==
    ASSUME NEW f, IsFile(f), NEW i \in DOMAIN f, f[i] # <<>>
    PROVE  /\ IsFile(Without(f, i)) /\ DOMAIN Without(f, i) = DOMAIN f
           /\ Without(f, i)[i] = Tail(f[i])
           /\ \A k \in DOMAIN f \ {i} : Without(f, i)[k] = f[k]
           /\ Statements(f) = {Head(f[i])} \cup Statements(Without(f, i))
<1>1. Len(f) \in Nat /\ DOMAIN f = 1..Len(f)
  BY ListLemma DEF IsFile
<1>2. /\ DOMAIN Without(f, i) = DOMAIN f
      /\ Without(f, i)[i] = Tail(f[i])
      /\ \A k \in DOMAIN f \ {i} : Without(f, i)[k] = f[k]
      /\ Without(f, i) = [k \in 1..Len(f) |-> Without(f, i)[k]]
  BY <1>1 DEF Without
<1>3. IsList(Without(f, i))
  BY <1>1, <1>2, MakeList
<1>4. IsList(f[i])
  BY DEF IsFile
<1>5. IsList(Tail(f[i])) /\ ToSet(f[i]) = {Head(f[i])} \cup ToSet(Tail(f[i]))
  BY <1>4, TailLemma
<1>6. IsFile(Without(f, i))
  BY <1>2, <1>3, <1>5 DEF IsFile
<1> HIDE DEF Without
<1>7. Statements(f) \subseteq {Head(f[i])} \cup Statements(Without(f, i))
  <2>1. ASSUME NEW st \in Statements(f) PROVE st \in {Head(f[i])} \cup Statements(Without(f, i))
    <3>1. PICK k \in DOMAIN f : st \in ToSet(f[k])
      BY <2>1 DEF Statements
    <3>2. st = Head(f[i]) \/ st \in ToSet(Without(f, i)[k])
      BY <1>2, <1>5, <3>1
    <3> QED
      BY <1>2, <3>2 DEF Statements
  <2> QED
    BY <2>1
<1>8. {Head(f[i])} \cup Statements(Without(f, i)) \subseteq Statements(f)
  <2>1. ASSUME NEW st \in Statements(Without(f, i)) PROVE st \in Statements(f)
    <3>1. PICK k \in DOMAIN f : st \in ToSet(Without(f, i)[k])
      BY <1>2, <2>1 DEF Statements
    <3>2. st \in ToSet(f[k])
      BY <1>2, <1>5, <3>1
    <3> QED
      BY <3>2 DEF Statements
  <2>2. Head(f[i]) \in Statements(f)
    BY <1>5 DEF Statements
  <2> QED
    BY <2>1, <2>2
<1> QED
  BY <1>2, <1>6, <1>7, <1>8

LEMMA ReadyStep ==
    ASSUME NEW f, NEW H, IsFile(f), FileReady(f, H), NEW i \in DOMAIN f, f[i] # <<>>,
           \A k \in 1..(i - 1) : f[k] = <<>>
    PROVE  /\ Gives(Head(f[i])) \notin H /\ Wants(Head(f[i])) \subseteq H
           /\ FileReady(Without(f, i), H \cup {Gives(Head(f[i]))})
<1> DEFINE w == Without(f, i)
           g == Gives(Head(f[i]))
<1>1. Len(f) \in Nat /\ DOMAIN f = 1..Len(f)
  BY ListLemma DEF IsFile
<1>2. /\ DOMAIN w = DOMAIN f /\ w[i] = Tail(f[i])
      /\ \A k \in DOMAIN f \ {i} : w[k] = f[k]
  BY WithoutLemma
<1> HIDE DEF w
<1>3. Given(<<>>) = {}
  BY Few DEF Given
<1>4. ASSUME NEW k \in 1..(i - 1) PROVE Given(f[k]) = {} /\ f[k] = <<>> /\ k \in DOMAIN f \ {i}
  <2>1. f[k] = <<>>
    OBVIOUS
  <2>2. k \in DOMAIN f \ {i}
    BY <1>1
  <2> QED
    BY <1>3, <2>1, <2>2
<1>5. Before(f, i) = {} /\ Ready(f[i], H) /\ IsList(f[i])
  <2>1. Before(f, i) = {}
    BY <1>4 DEF Before
  <2>2. Ready(f[i], H \cup Before(f, i))
    BY DEF FileReady
  <2>3. H \cup Before(f, i) = H
    BY <2>1
  <2> QED
    BY <2>1, <2>2, <2>3 DEF IsFile
<1>6. /\ g \notin H /\ Wants(Head(f[i])) \subseteq H
      /\ Given(f[i]) = {g} \cup Given(w[i])
      /\ Ready(w[i], H \cup {g})
  <2> DEFINE b == f[i]
  <2>1. IsList(b) /\ b # <<>> /\ Ready(b, H)
    BY <1>5
  <2> HIDE DEF b
  <2>2. /\ Gives(Head(b)) \notin H /\ Wants(Head(b)) \subseteq H
        /\ Given(b) = {Gives(Head(b))} \cup Given(Tail(b))
        /\ Ready(Tail(b), H \cup {Gives(Head(b))})
    BY <2>1, ReadyTail
  <2> QED
    BY <1>2, <2>2 DEF b
<1>7. ASSUME NEW k \in DOMAIN w PROVE Ready(w[k], (H \cup {g}) \cup Before(w, k))
  <2>0. k \in 1..Len(f) /\ i \in 1..Len(f)
    BY <1>1, <1>2
  <2>1. CASE k < i
    <3>1. k \in 1..(i - 1)
      BY <2>0, <2>1
    <3>2. w[k] = <<>>
      BY <1>2, <1>4, <3>1
    <3> QED
      BY <3>2, Few DEF Ready
  <2>2. CASE k = i
    <3>1. ASSUME NEW m \in 1..(k - 1) PROVE Given(w[m]) = {}
      BY <1>2, <1>4, <2>2
    <3>2. Before(w, k) = {}
      BY <3>1 DEF Before
    <3>3. (H \cup {g}) \cup Before(w, k) = H \cup {g}
      BY <3>2
    <3> QED
      BY <1>6, <2>2, <3>3
  <2>3. CASE k > i
    <3>1. i \in 1..(k - 1)
      BY <2>0, <2>3
    <3>2. ASSUME NEW m \in 1..(k - 1) PROVE m \in DOMAIN f
      BY <1>1, <2>0
    <3>3. Before(f, k) = {g} \cup Before(w, k)
      <4>1. Before(f, k) \subseteq {g} \cup Before(w, k)
        BY <1>2, <1>6, <3>2 DEF Before
      <4>2. Before(w, k) \subseteq Before(f, k)
        BY <1>2, <1>6, <3>2 DEF Before
      <4>3. g \in Before(f, k)
        BY <1>6, <3>1 DEF Before
      <4> QED
        BY <4>1, <4>2, <4>3
    <3>4. (H \cup {g}) \cup Before(w, k) = H \cup Before(f, k)
      BY <3>3
    <3>5. w[k] = f[k] /\ Ready(f[k], H \cup Before(f, k))
      <4>1. k \in DOMAIN f \ {i}
        BY <1>2, <2>0, <2>3
      <4> QED
        BY <1>2, <4>1 DEF FileReady
    <3> QED
      BY <3>4, <3>5
  <2> QED
    BY <2>0, <2>1, <2>2, <2>3
<1> QED
  BY <1>6, <1>7 DEF FileReady, w

LEMMA FileJoin ==
    ASSUME NEW a, NEW b, IsFile(a), IsFile(b)
    PROVE  /\ IsFile(a \o b)
           /\ Statements(a \o b) = Statements(a) \cup Statements(b)
           /\ All(a \o b) = All(a) \cup All(b)
           /\ \A H : FileReady(a, H) /\ FileReady(b, H \cup All(a)) => FileReady(a \o b, H)
<1> DEFINE c == a \o b
<1>1. /\ Len(a) \in Nat /\ Len(b) \in Nat /\ DOMAIN a = 1..Len(a) /\ DOMAIN b = 1..Len(b)
      /\ IsList(c) /\ DOMAIN c = 1..(Len(a) + Len(b))
      /\ \A i \in 1..(Len(a) + Len(b)) : c[i] = IF i <= Len(a) THEN a[i] ELSE b[i - Len(a)]
  BY ListLemma, JoinLemma DEF IsFile
<1> HIDE DEF c
<1>2. ASSUME NEW i \in DOMAIN a PROVE i \in DOMAIN c /\ c[i] = a[i]
  BY <1>1
<1>3. ASSUME NEW i \in DOMAIN b PROVE i + Len(a) \in DOMAIN c /\ c[i + Len(a)] = b[i]
  BY <1>1
<1>4. ASSUME NEW i \in DOMAIN c
      PROVE  \/ i \in DOMAIN a /\ c[i] = a[i]
             \/ i - Len(a) \in DOMAIN b /\ c[i] = b[i - Len(a)] /\ ~(i <= Len(a))
  BY <1>1
<1>5. IsFile(c)
  BY <1>1, <1>4 DEF IsFile
<1>6. Statements(c) = Statements(a) \cup Statements(b)
  <2>1. ASSUME NEW st \in Statements(c) PROVE st \in Statements(a) \cup Statements(b)
    BY <1>4, <2>1 DEF Statements
  <2>2. ASSUME NEW st \in Statements(a) PROVE st \in Statements(c)
    BY <1>2, <2>2 DEF Statements
  <2>3. ASSUME NEW st \in Statements(b) PROVE st \in Statements(c)
    BY <1>3, <2>3 DEF Statements
  <2> QED
    BY <2>1, <2>2, <2>3
<1>7. All(c) = All(a) \cup All(b)
  <2>1. ASSUME NEW x \in All(c) PROVE x \in All(a) \cup All(b)
    BY <1>4, <2>1 DEF All
  <2>2. ASSUME NEW x \in All(a) PROVE x \in All(c)
    BY <1>2, <2>2 DEF All
  <2>3. ASSUME NEW x \in All(b) PROVE x \in All(c)
    BY <1>3, <2>3 DEF All
  <2> QED
    BY <2>1, <2>2, <2>3
<1>8. ASSUME NEW H, FileReady(a, H), FileReady(b, H \cup All(a)), NEW i \in DOMAIN c
      PROVE  Ready(c[i], H \cup Before(c, i))
  <2>1. CASE i \in DOMAIN a
    <3>1. \A k \in 1..(i - 1) : k \in DOMAIN a
      BY <1>1, <2>1
    <3>2. Before(c, i) = Before(a, i)
      BY <1>2, <3>1 DEF Before
    <3>3. Ready(a[i], H \cup Before(a, i))
      BY <1>8, <2>1 DEF FileReady
    <3> QED
      BY <1>2, <2>1, <3>2, <3>3
  <2>2. CASE i \notin DOMAIN a
    <3> DEFINE k == i - Len(a)
    <3>1. k \in DOMAIN b /\ c[i] = b[k] /\ i = k + Len(a) /\ k \in 1..Len(b)
      BY <1>1, <1>4, <2>2
    <3>2. ASSUME NEW m \in 1..(i - 1)
          PROVE  \/ m \in DOMAIN a /\ c[m] = a[m]
                 \/ m - Len(a) \in 1..(k - 1) /\ c[m] = b[m - Len(a)]
      BY <1>1, <3>1
    <3>3. Before(c, i) \subseteq All(a) \cup Before(b, k)
      BY <3>2 DEF Before, All
    <3>4. All(a) \subseteq Before(c, i)
      <4>1. ASSUME NEW m \in DOMAIN a PROVE m \in 1..(i - 1) /\ c[m] = a[m]
        BY <1>1, <1>2, <3>1
      <4> QED
        BY <4>1 DEF All, Before
    <3>5. Before(b, k) \subseteq Before(c, i)
      <4>1. ASSUME NEW m \in 1..(k - 1)
            PROVE  m + Len(a) \in 1..(i - 1) /\ c[m + Len(a)] = b[m]
        <5>1. m \in Nat /\ 1 <= m /\ m <= k - 1 /\ k \in Nat /\ k <= Len(b) /\ Len(a) \in Nat
          BY <1>1, <3>1
        <5> HIDE DEF k
        <5>2. m \in DOMAIN b
          BY <1>1, <5>1
        <5>3. m + Len(a) \in 1..(i - 1)
          BY <1>1, <3>1, <5>1
        <5> QED
          BY <1>3, <5>2, <5>3
      <4> QED
        BY <4>1 DEF Before
    <3>6. H \cup Before(c, i) = (H \cup All(a)) \cup Before(b, k)
      BY <3>3, <3>4, <3>5
    <3>7. Ready(b[k], (H \cup All(a)) \cup Before(b, k))
      BY <1>8, <3>1 DEF FileReady
    <3> QED
      BY <3>1, <3>6, <3>7
  <2> QED
    BY <2>1, <2>2
<1> QED
  BY <1>5, <1>6, <1>7, <1>8 DEF c, FileReady

\* Blocks that each find what they need, and have nothing in common.
LEMMA FileApart ==
    ASSUME NEW f, NEW H, IsFile(f), \A i \in DOMAIN f : Ready(f[i], H),
           \A i, k \in DOMAIN f : i # k => Given(f[i]) \cap Given(f[k]) = {}
    PROVE  FileReady(f, H)
<1>1. Len(f) \in Nat /\ DOMAIN f = 1..Len(f)
  BY ListLemma DEF IsFile
<1>2. ASSUME NEW i \in DOMAIN f PROVE Before(f, i) \cap Given(f[i]) = {}
  <2>1. ASSUME NEW k \in 1..(i - 1) PROVE k \in DOMAIN f /\ k # i
    BY <1>1
  <2> QED
    BY <2>1 DEF Before
<1>3. ASSUME NEW i \in DOMAIN f, NEW j \in DOMAIN f[i]
      PROVE  LET X == (H \cup Before(f, i)) \cup GivenBy(f[i], j - 1)
             IN  Gives(f[i][j]) \notin X /\ Wants(f[i][j]) \subseteq X
  <2>1. /\ Gives(f[i][j]) \notin H \cup GivenBy(f[i], j - 1)
        /\ Wants(f[i][j]) \subseteq H \cup GivenBy(f[i], j - 1)
    BY DEF Ready
  <2>2. Gives(f[i][j]) \in Given(f[i])
    BY DEF Given
  <2> QED
    BY <1>2, <2>1, <2>2
<1> QED
  BY <1>3 DEF FileReady, Ready

\* The same of one block after another, in one.
LEMMA ReadyJoin ==
    ASSUME NEW a, NEW b, IsList(a), IsList(b)
    PROVE  /\ Given(a \o b) = Given(a) \cup Given(b)
           /\ \A H : Ready(a, H) /\ Ready(b, H \cup Given(a)) => Ready(a \o b, H)
<1> DEFINE c == a \o b
<1>1. /\ Len(a) \in Nat /\ Len(b) \in Nat /\ DOMAIN a = 1..Len(a) /\ DOMAIN b = 1..Len(b)
      /\ DOMAIN c = 1..(Len(a) + Len(b))
      /\ \A i \in 1..(Len(a) + Len(b)) : c[i] = IF i <= Len(a) THEN a[i] ELSE b[i - Len(a)]
  BY ListLemma, JoinLemma
<1> HIDE DEF c
<1>2. ASSUME NEW i \in DOMAIN a PROVE i \in DOMAIN c /\ c[i] = a[i]
  BY <1>1
<1>3. ASSUME NEW i \in DOMAIN b PROVE i + Len(a) \in DOMAIN c /\ c[i + Len(a)] = b[i]
  BY <1>1
<1>4. ASSUME NEW i \in DOMAIN c
      PROVE  \/ i \in DOMAIN a /\ c[i] = a[i]
             \/ i - Len(a) \in DOMAIN b /\ c[i] = b[i - Len(a)] /\ ~(i <= Len(a))
  BY <1>1
<1>5. Given(c) = Given(a) \cup Given(b)
  <2>1. ASSUME NEW x \in Given(c) PROVE x \in Given(a) \cup Given(b)
    BY <1>4, <2>1 DEF Given
  <2>2. ASSUME NEW x \in Given(a) PROVE x \in Given(c)
    BY <1>2, <2>2 DEF Given
  <2>3. ASSUME NEW x \in Given(b) PROVE x \in Given(c)
    BY <1>3, <2>3 DEF Given
  <2> QED
    BY <2>1, <2>2, <2>3
<1>6. ASSUME NEW H, Ready(a, H), Ready(b, H \cup Given(a)), NEW i \in DOMAIN c
      PROVE  LET X == H \cup GivenBy(c, i - 1)
             IN  Gives(c[i]) \notin X /\ Wants(c[i]) \subseteq X
  <2>1. CASE i \in DOMAIN a
    <3>1. \A k \in 1..(i - 1) : k \in DOMAIN a
      BY <1>1, <2>1
    <3>2. GivenBy(c, i - 1) = GivenBy(a, i - 1)
      BY <1>2, <3>1 DEF GivenBy
    <3>3. LET X == H \cup GivenBy(a, i - 1)
          IN  Gives(a[i]) \notin X /\ Wants(a[i]) \subseteq X
      BY <1>6, <2>1 DEF Ready
    <3> QED
      BY <1>2, <2>1, <3>2, <3>3
  <2>2. CASE i \notin DOMAIN a
    <3> DEFINE k == i - Len(a)
    <3>1. k \in DOMAIN b /\ c[i] = b[k] /\ i = k + Len(a) /\ k \in 1..Len(b)
      BY <1>1, <1>4, <2>2
    <3>2. ASSUME NEW m \in 1..(i - 1)
          PROVE  \/ m \in DOMAIN a /\ c[m] = a[m]
                 \/ m - Len(a) \in 1..(k - 1) /\ c[m] = b[m - Len(a)]
      BY <1>1, <3>1
    <3>3. GivenBy(c, i - 1) \subseteq Given(a) \cup GivenBy(b, k - 1)
      BY <3>2 DEF GivenBy, Given
    <3>4. Given(a) \subseteq GivenBy(c, i - 1)
      <4>1. ASSUME NEW m \in DOMAIN a PROVE m \in 1..(i - 1) /\ c[m] = a[m]
        BY <1>1, <1>2, <3>1
      <4> QED
        BY <4>1 DEF GivenBy, Given
    <3>5. GivenBy(b, k - 1) \subseteq GivenBy(c, i - 1)
      <4>1. ASSUME NEW m \in 1..(k - 1)
            PROVE  m + Len(a) \in 1..(i - 1) /\ c[m + Len(a)] = b[m]
        <5>1. m \in Nat /\ 1 <= m /\ m <= k - 1 /\ k \in Nat /\ k <= Len(b) /\ Len(a) \in Nat
          BY <1>1, <3>1
        <5> HIDE DEF k
        <5>2. m \in DOMAIN b
          BY <1>1, <5>1
        <5>3. m + Len(a) \in 1..(i - 1)
          BY <1>1, <3>1, <5>1
        <5> QED
          BY <1>3, <5>2, <5>3
      <4> QED
        BY <4>1 DEF GivenBy
    <3>6. H \cup GivenBy(c, i - 1) = (H \cup Given(a)) \cup GivenBy(b, k - 1)
      BY <3>3, <3>4, <3>5
    <3>7. LET X == (H \cup Given(a)) \cup GivenBy(b, k - 1)
          IN  Gives(b[k]) \notin X /\ Wants(b[k]) \subseteq X
      BY <1>6, <3>1 DEF Ready
    <3> QED
      BY <3>1, <3>6, <3>7
  <2> QED
    BY <2>1, <2>2
<1> QED
  BY <1>5, <1>6 DEF c, Ready

\* A single statement, a single block, a file of three.
LEMMA ReadyOne ==
    ASSUME NEW st
    PROVE  /\ Given(<<st>>) = {Gives(st)}
           /\ \A H : Gives(st) \notin H /\ Wants(st) \subseteq H => Ready(<<st>>, H)
<1>1. DOMAIN <<st>> = {1} /\ <<st>>[1] = st
  OBVIOUS
<1>2. GivenBy(<<st>>, 0) = {}
  BY DEF GivenBy
<1>3. ASSUME NEW H, Gives(st) \notin H /\ Wants(st) \subseteq H PROVE Ready(<<st>>, H)
  BY <1>1, <1>2, <1>3 DEF Ready
<1> QED
  BY <1>1, <1>3 DEF Given

LEMMA ReadyNone == Given(<<>>) = {} /\ \A H : Ready(<<>>, H)
  BY Few DEF Given, Ready

LEMMA FileOne ==
    ASSUME NEW b, IsList(b)
    PROVE  /\ IsFile(<<b>>) /\ Statements(<<b>>) = ToSet(b) /\ All(<<b>>) = Given(b)
           /\ \A H : Ready(b, H) => FileReady(<<b>>, H)
<1>1. DOMAIN <<b>> = {1} /\ <<b>>[1] = b
  OBVIOUS
<1>2. Before(<<b>>, 1) = {}
  BY DEF Before
<1>3. ASSUME NEW H, Ready(b, H) PROVE FileReady(<<b>>, H)
  <2>1. H \cup Before(<<b>>, 1) = H
    BY <1>2
  <2> QED
    BY <1>1, <1>3, <2>1 DEF FileReady
<1> QED
  BY <1>1, <1>3, Few DEF IsFile, Statements, All

LEMMA FileThree ==
    ASSUME NEW x, NEW y, NEW z, IsList(x), IsList(y), IsList(z)
    PROVE  /\ IsFile(<<x, y, z>>)
           /\ Statements(<<x, y, z>>) = ToSet(x) \cup ToSet(y) \cup ToSet(z)
           /\ All(<<x, y, z>>) = Given(x) \cup Given(y) \cup Given(z)
           /\ \A H : /\ Ready(x, H) /\ Ready(y, H \cup Given(x))
                     /\ Ready(z, H \cup Given(x) \cup Given(y))
                     => FileReady(<<x, y, z>>, H)
<1> DEFINE f == <<x, y, z>>
<1>1. DOMAIN f = {1, 2, 3} /\ f[1] = x /\ f[2] = y /\ f[3] = z /\ IsList(f)
  BY Few
<1> HIDE DEF f
<1>2. Before(f, 1) = {} /\ Before(f, 2) = Given(x) /\ Before(f, 3) = Given(x) \cup Given(y)
  <2>1. 1..0 = {} /\ 1..1 = {1} /\ 1..2 = {1, 2}
    OBVIOUS
  <2> QED
    BY <1>1, <2>1 DEF Before
<1>3. ASSUME NEW H, Ready(x, H), Ready(y, H \cup Given(x)), Ready(z, H \cup Given(x) \cup Given(y))
      PROVE  FileReady(f, H)
  <2>1. /\ H \cup Before(f, 1) = H /\ H \cup Before(f, 2) = H \cup Given(x)
        /\ H \cup Before(f, 3) = H \cup Given(x) \cup Given(y)
    BY <1>2
  <2> QED
    BY <1>1, <1>3, <2>1 DEF FileReady
<1>4. IsFile(f)
  BY <1>1 DEF IsFile
<1>5. Statements(f) = ToSet(x) \cup ToSet(y) \cup ToSet(z)
  BY <1>1 DEF Statements
<1>6. All(f) = Given(x) \cup Given(y) \cup Given(z)
  BY <1>1 DEF All
<1> QED
  BY <1>3, <1>4, <1>5, <1>6 DEF f

-----------------------------------------------------------------------------
\* The blocks of an up.

NaturalKey == <<"key", <<"natural">>>>
ParentIndex == <<"index", <<"parent">>>>

AddsTo(st, t) == st.op = "add" /\ st.table = t /\ Itself \notin st.over

LEMMA Ops ==
    /\ \A t, o : LET st == Create(t, o)
                 IN  /\ st.op = "create" /\ st.table = t /\ st.of = o
                     /\ Gives(st) = <<t, Itself>> /\ Wants(st) = {<<x, Itself>> : x \in o}
    /\ \A t, p, o : LET st == Add(t, p, o)
                    IN  /\ st.op = "add" /\ st.table = t /\ st.part = p /\ st.over = o
                        /\ Gives(st) = <<t, p>>
                        /\ Wants(st) = {<<t, Itself>>} \cup {<<t, x>> : x \in o}
  BY DEF Gives, Wants, Create, Add

LEMMA FacetBlock ==
    ASSUME NEW o, NEW l, IsList(l)
    PROVE  LET b == FacetTables(o, l)
           IN  /\ IsList(b)
               /\ ToSet(b) = {Create(t, {o}) : t \in ToSet(l)}
               /\ Given(b) = {<<t, Itself>> : t \in ToSet(l)}
               /\ \A H : /\ IsInjective(l) /\ <<o, Itself>> \in H
                         /\ \A t \in ToSet(l) : <<t, Itself>> \notin H
                         => Ready(b, H)
<1> DEFINE b == FacetTables(o, l)
<1>1. Len(l) \in Nat /\ DOMAIN l = 1..Len(l)
  BY ListLemma
<1>2. b = [n \in 1..Len(l) |-> Create(l[n], {o})]
  BY <1>1 DEF FacetTables
<1>3. DOMAIN b = DOMAIN l /\ \A n \in DOMAIN l : b[n] = Create(l[n], {o})
  BY <1>1, <1>2
<1>4. IsList(b)
  BY <1>1, <1>2, MakeList
<1> HIDE DEF b
<1>5. ToSet(b) = {Create(t, {o}) : t \in ToSet(l)}
  BY <1>3 DEF ToSet
<1>6. ASSUME NEW t PROVE Gives(Create(t, {o})) = <<t, Itself>> /\ Wants(Create(t, {o})) = {<<o, Itself>>}
  BY DEF Gives, Wants, Create
<1>7. Given(b) = {<<t, Itself>> : t \in ToSet(l)}
  BY <1>3, <1>6 DEF Given, ToSet
<1>8. ASSUME NEW H, IsInjective(l), <<o, Itself>> \in H, \A t \in ToSet(l) : <<t, Itself>> \notin H,
             NEW j \in DOMAIN b
      PROVE  LET X == H \cup GivenBy(b, j - 1)
             IN  Gives(b[j]) \notin X /\ Wants(b[j]) \subseteq X
  <2>1. Gives(b[j]) = <<l[j], Itself>> /\ Wants(b[j]) = {<<o, Itself>>} /\ l[j] \in ToSet(l)
    BY <1>3, <1>6 DEF ToSet
  <2>2. ASSUME NEW k \in 1..(j - 1) PROVE Gives(b[k]) # <<l[j], Itself>>
    <3>1. k \in DOMAIN l /\ k # j /\ j \in DOMAIN l
      BY <1>1, <1>3
    <3>2. l[k] # l[j]
      BY <1>8, <3>1 DEF IsInjective
    <3>3. Gives(b[k]) = <<l[k], Itself>>
      BY <1>3, <1>6, <3>1
    <3> QED
      BY <3>2, <3>3
  <2> QED
    BY <1>8, <2>1, <2>2 DEF GivenBy
<1> QED
  BY <1>4, <1>5, <1>7, <1>8 DEF b, Ready

LEMMA BaseBlock ==
    ASSUME NEW s
    PROVE  LET b == BaseTable(s)
           IN  /\ IsList(b)
               /\ ToSet(b) = {Create(s.base, {}), Add(s.base, NaturalKey, {})}
               /\ Given(b) = {<<s.base, Itself>>, <<s.base, NaturalKey>>}
               /\ \A H : Given(b) \cap H = {} => Ready(b, H)
<1> DEFINE x == Create(s.base, {})
           y == Add(s.base, NaturalKey, {})
<1>1. BaseTable(s) = <<x, y>> /\ IsList(<<x, y>>) /\ ToSet(<<x, y>>) = {x, y}
  BY Few DEF BaseTable, NaturalKey
<1>2. /\ Gives(x) = <<s.base, Itself>> /\ Wants(x) = {}
      /\ Gives(y) = <<s.base, NaturalKey>> /\ Wants(y) = {<<s.base, Itself>>}
  BY DEF Gives, Wants, Create, Add
<1>3. NaturalKey # Itself
  BY DEF NaturalKey, Itself
<1> HIDE DEF x, y
<1>4. DOMAIN <<x, y>> = {1, 2} /\ <<x, y>>[1] = x /\ <<x, y>>[2] = y
  OBVIOUS
<1>5. Given(<<x, y>>) = {<<s.base, Itself>>, <<s.base, NaturalKey>>}
  BY <1>2, <1>4 DEF Given
<1>6. GivenBy(<<x, y>>, 0) = {} /\ GivenBy(<<x, y>>, 1) = {<<s.base, Itself>>}
  <2>1. 1..0 = {} /\ 1..1 = {1}
    OBVIOUS
  <2> QED
    BY <1>2, <1>4, <2>1 DEF GivenBy
<1>7. ASSUME NEW H, Given(<<x, y>>) \cap H = {} PROVE Ready(<<x, y>>, H)
  BY <1>2, <1>3, <1>4, <1>5, <1>6, <1>7 DEF Ready
<1> QED
  BY <1>1, <1>5, <1>7 DEF x, y

LEMMA ChildBlock ==
    ASSUME NEW s, NEW c, IsList(c.facets)
    PROVE  LET b == ChildTables(s, c)
               o == ChildOwner(s, c)
           IN  /\ IsList(b)
               /\ ToSet(b) = {Create(c.table, {o}), Add(c.table, ParentIndex, {})}
                               \cup {Create(t, {c.table}) : t \in ToSet(c.facets)}
               /\ Given(b) = {<<c.table, Itself>>, <<c.table, ParentIndex>>}
                               \cup {<<t, Itself>> : t \in ToSet(c.facets)}
               /\ \A H : /\ IsInjective(c.facets) /\ c.table \notin ToSet(c.facets)
                         /\ <<o, Itself>> \in H /\ Given(b) \cap H = {}
                         => Ready(b, H)
<1> DEFINE o == ChildOwner(s, c)
           x == Create(c.table, {o})
           y == Add(c.table, ParentIndex, {})
           a == <<x, y>>
           f == FacetTables(c.table, c.facets)
<1>1. ChildTables(s, c) = a \o f
  BY DEF ChildTables, ParentIndex
<1>3. /\ Gives(x) = <<c.table, Itself>> /\ Wants(x) = {<<o, Itself>>}
      /\ Gives(y) = <<c.table, ParentIndex>> /\ Wants(y) = {<<c.table, Itself>>}
  BY Ops
<1>4. ParentIndex # Itself
  BY DEF ParentIndex, Itself
<1> HIDE DEF o, x, y
<1>2. IsList(a) /\ ToSet(a) = {x, y} /\ DOMAIN a = {1, 2} /\ a[1] = x /\ a[2] = y
  BY Few
<1>5. /\ IsList(f) /\ ToSet(f) = {Create(t, {c.table}) : t \in ToSet(c.facets)}
      /\ Given(f) = {<<t, Itself>> : t \in ToSet(c.facets)}
      /\ \A H : /\ IsInjective(c.facets) /\ <<c.table, Itself>> \in H
                /\ \A t \in ToSet(c.facets) : <<t, Itself>> \notin H
                => Ready(f, H)
  BY FacetBlock
<1> HIDE DEF a, f
<1>6. Given(a) = {<<c.table, Itself>>, <<c.table, ParentIndex>>}
  BY <1>2, <1>3 DEF Given
<1>7. GivenBy(a, 0) = {} /\ GivenBy(a, 1) = {<<c.table, Itself>>}
  <2>1. 1..0 = {} /\ 1..1 = {1}
    OBVIOUS
  <2> QED
    BY <1>2, <1>3, <2>1 DEF GivenBy
<1>8. /\ Given(a \o f) = Given(a) \cup Given(f)
      /\ \A H : Ready(a, H) /\ Ready(f, H \cup Given(a)) => Ready(a \o f, H)
      /\ IsList(a \o f) /\ ToSet(a \o f) = ToSet(a) \cup ToSet(f)
  BY <1>2, <1>5, ReadyJoin, JoinLemma
<1>9. ASSUME NEW H, IsInjective(c.facets), c.table \notin ToSet(c.facets),
             <<o, Itself>> \in H, Given(a \o f) \cap H = {}
      PROVE  Ready(a \o f, H)
  <2>1. Ready(a, H)
    BY <1>2, <1>3, <1>4, <1>6, <1>7, <1>8, <1>9 DEF Ready
  <2>2. <<c.table, Itself>> \in H \cup Given(a)
    BY <1>6
  <2>3. ASSUME NEW t \in ToSet(c.facets) PROVE <<t, Itself>> \notin H \cup Given(a)
    <3>1. <<t, Itself>> \in Given(f) /\ t # c.table
      BY <1>5, <1>9
    <3> QED
      BY <1>4, <1>6, <1>8, <1>9, <3>1
  <2>4. Ready(f, H \cup Given(a))
    BY <1>5, <1>9, <2>2, <2>3
  <2> QED
    BY <1>8, <2>1, <2>4
<1> QED
  BY <1>1, <1>2, <1>5, <1>6, <1>8, <1>9 DEF o, x, y

\* What an index brings, and a mirror of each column on MySQL.
MirroredIndex(t, columns) ==
    LET mirrors == [n \in DOMAIN columns |-> <<"active", <<columns[n]>>>>]
    IN [n \in DOMAIN columns |-> Add(t, mirrors[n], {})]
         \o <<Add(t, <<"key", columns>>, ToSet(mirrors))>>
PlainIndex(t, columns) == <<Add(t, <<"key", columns>>, {})>>
Way(g, activeOnly) == IF g = "mysql" /\ activeOnly THEN "mirrored" ELSE "plain"

LEMMA IndexWays ==
    ASSUME NEW g, NEW t, NEW columns, NEW activeOnly
    PROVE  /\ Way(g, activeOnly) \in {"mirrored", "plain"}
           /\ UniqueIndex(g, t, columns, activeOnly) =
                 IF Way(g, activeOnly) = "mirrored" THEN MirroredIndex(t, columns) ELSE PlainIndex(t, columns)
  BY DEF UniqueIndex, MirroredIndex, PlainIndex, Way

KeyPart(t, columns) == <<t, <<"key", columns>>>>
MirrorParts(t, columns) == {<<t, <<"active", <<c>>>>>> : c \in ToSet(columns)}

IndexParts(t, columns, way) ==
    {KeyPart(t, columns)} \cup (IF way = "mirrored" THEN MirrorParts(t, columns) ELSE {})

IsIndex(b, t, columns, way) ==
    /\ IsList(columns) /\ way \in {"mirrored", "plain"}
    /\ b = IF way = "mirrored" THEN MirroredIndex(t, columns) ELSE PlainIndex(t, columns)

LEMMA IndexBlock ==
    ASSUME NEW b, NEW t, NEW columns, NEW way, IsIndex(b, t, columns, way)
    PROVE  /\ IsList(b)
           /\ \A st \in ToSet(b) : AddsTo(st, t)
           /\ Given(b) = IndexParts(t, columns, way)
           /\ \A H : /\ way = "mirrored" => IsInjective(columns)
                     /\ <<t, Itself>> \in H /\ Given(b) \cap H = {}
                     => Ready(b, H)
<1>0. /\ IsList(columns) /\ way \in {"mirrored", "plain"}
      /\ b = IF way = "mirrored" THEN MirroredIndex(t, columns) ELSE PlainIndex(t, columns)
  BY DEF IsIndex
<1>1. CASE way = "mirrored"
  <2> DEFINE mirrors == [n \in DOMAIN columns |-> <<"active", <<columns[n]>>>>]
             a == [n \in DOMAIN columns |-> Add(t, mirrors[n], {})]
             k == Add(t, <<"key", columns>>, ToSet(mirrors))
  <2>1. b = a \o <<k>>
    BY <1>0, <1>1 DEF MirroredIndex
  <2>2. Len(columns) \in Nat /\ DOMAIN columns = 1..Len(columns)
    BY <1>0, ListLemma
  <2>3. /\ DOMAIN a = DOMAIN columns
        /\ \A n \in DOMAIN columns : a[n] = Add(t, <<"active", <<columns[n]>>>>, {})
        /\ a = [n \in 1..Len(columns) |-> a[n]]
    BY <2>2
  <2>4. ToSet(mirrors) = {<<"active", <<c>>>> : c \in ToSet(columns)}
    BY DEF ToSet
  <2>5. /\ Gives(k) = <<t, <<"key", columns>>>>
        /\ Wants(k) = {<<t, Itself>>} \cup {<<t, p>> : p \in ToSet(mirrors)}
        /\ AddsTo(k, t)
    BY <2>4 DEF Gives, Wants, Add, AddsTo, Itself
  <2> HIDE DEF mirrors, a, k
  <2>6. IsList(a)
    BY <2>2, <2>3, MakeList
  <2>7. ASSUME NEW n \in DOMAIN columns
        PROVE  /\ Gives(a[n]) = <<t, <<"active", <<columns[n]>>>>>> /\ Wants(a[n]) = {<<t, Itself>>}
               /\ AddsTo(a[n], t)
    <3> DEFINE p == <<"active", <<columns[n]>>>>
    <3>1. a[n] = Add(t, p, {})
      BY <2>3
    <3> HIDE DEF p
    <3>2. /\ Gives(a[n]) = <<t, p>> /\ AddsTo(a[n], t)
          /\ Wants(a[n]) = {<<t, Itself>>} \cup {<<t, x>> : x \in {}}
      BY <3>1, Ops DEF AddsTo
    <3>3. Wants(a[n]) = {<<t, Itself>>}
      BY <3>2
    <3> QED
      BY <3>2, <3>3 DEF p
  <2>8. Given(a) = {<<t, <<"active", <<c>>>>>> : c \in ToSet(columns)}
    BY <2>3, <2>7 DEF Given, ToSet
  <2>9. /\ IsList(a \o <<k>>) /\ ToSet(a \o <<k>>) = ToSet(a) \cup {k}
        /\ Given(a \o <<k>>) = Given(a) \cup {Gives(k)}
        /\ \A H : Ready(a, H) /\ Ready(<<k>>, H \cup Given(a)) => Ready(a \o <<k>>, H)
    BY <2>6, Few, JoinLemma, ReadyJoin, ReadyOne
  <2>10. Given(a \o <<k>>) = IndexParts(t, columns, way)
    <3>1. Given(a \o <<k>>) = {KeyPart(t, columns)} \cup MirrorParts(t, columns)
      BY <2>5, <2>8, <2>9 DEF KeyPart, MirrorParts
    <3> QED
      BY <1>1, <3>1 DEF IndexParts
  <2>11. ASSUME NEW st \in ToSet(a \o <<k>>) PROVE AddsTo(st, t)
    <3>1. CASE st = k
      BY <2>5, <3>1
    <3>2. CASE st \in ToSet(a)
      <4>1. PICK n \in DOMAIN columns : st = a[n]
        BY <2>3, <3>2 DEF ToSet
      <4> QED
        BY <2>7, <4>1
    <3> QED
      BY <2>9, <3>1, <3>2
  <2>12. ASSUME NEW H, IsInjective(columns), <<t, Itself>> \in H, Given(a \o <<k>>) \cap H = {}
         PROVE  Ready(a \o <<k>>, H)
    <3>1. ASSUME NEW j \in DOMAIN a
          PROVE  LET X == H \cup GivenBy(a, j - 1)
                 IN  Gives(a[j]) \notin X /\ Wants(a[j]) \subseteq X
      <4>1. Gives(a[j]) \notin H
        <5>1. Gives(a[j]) \in Given(a)
          BY DEF Given
        <5> QED
          BY <2>9, <2>12, <5>1
      <4>2. ASSUME NEW i \in 1..(j - 1) PROVE Gives(a[i]) # Gives(a[j])
        <5>1. i \in DOMAIN columns /\ j \in DOMAIN columns /\ i # j
          BY <2>2, <2>3
        <5>2. columns[i] # columns[j]
          BY <2>12, <5>1 DEF IsInjective
        <5> QED
          BY <2>7, <5>1, <5>2
      <4>3. Wants(a[j]) \subseteq H
        BY <2>3, <2>7, <2>12
      <4> QED
        BY <4>1, <4>2, <4>3 DEF GivenBy
    <3>2. Ready(a, H)
      BY <3>1 DEF Ready
    <3>3. Gives(k) \notin H \cup Given(a)
      <4>1. Gives(k) \notin H
        BY <2>9, <2>12
      <4> QED
        BY <2>5, <2>8, <4>1
    <3>4. Wants(k) \subseteq H \cup Given(a)
      BY <2>4, <2>5, <2>8, <2>12
    <3> QED
      BY <2>9, <3>2, <3>3, <3>4, ReadyOne
  <2> QED
    BY <1>1, <2>1, <2>9, <2>10, <2>11, <2>12
<1>2. CASE way # "mirrored"
  <2> DEFINE k == Add(t, <<"key", columns>>, {})
  <2>1. b = <<k>>
    BY <1>0, <1>2 DEF PlainIndex
  <2>2. /\ Gives(k) = <<t, <<"key", columns>>>> /\ Wants(k) = {<<t, Itself>>}
        /\ AddsTo(k, t)
    BY DEF Gives, Wants, Add, AddsTo
  <2> HIDE DEF k
  <2>3. /\ IsList(<<k>>) /\ ToSet(<<k>>) = {k} /\ Given(<<k>>) = {Gives(k)}
        /\ \A H : Gives(k) \notin H /\ Wants(k) \subseteq H => Ready(<<k>>, H)
    BY Few, ReadyOne
  <2>4. Given(<<k>>) = IndexParts(t, columns, way)
    BY <1>2, <2>2, <2>3 DEF KeyPart, IndexParts
  <2> QED
    BY <1>2, <2>1, <2>2, <2>3, <2>4
<1> QED
  BY <1>1, <1>2

-----------------------------------------------------------------------------
\* An up, part by part.

Owns(s) == IsRole(s) /\ ~s.reuse
Trunk(s) == <<IF Owns(s) THEN BaseTable(s) ELSE <<>>, RootTable(s), FacetTables(s.table, s.facets)>>
Kids(s) == [n \in DOMAIN s.children |-> IF n \in Own(s) THEN ChildTables(s, s.children[n]) ELSE <<>>]
Keys(g, s) ==
    [n \in DOMAIN s.uniques |->
        UniqueIndex(g, s.uniques[n].table, s.uniques[n].columns, s.uniques[n].activeOnly)]

LEMMA UpParts ==
    ASSUME NEW g, NEW s PROVE Up(g, s) = Trunk(s) \o Kids(s) \o <<RoleUniqueness(g, s)>> \o Keys(g, s)
  BY DEF Up, Trunk, Kids, Keys, Owns

LEMMA TrunkLemma ==
    ASSUME NEW s, Shape(s), NamesApart(s)
    PROVE  LET bases == IF Owns(s) THEN {s.base} ELSE {}
               owners == IF IsRole(s) THEN {s.base} ELSE {}
           IN  /\ IsFile(Trunk(s))
               /\ Statements(Trunk(s)) =
                     {Create(t, {}) : t \in bases} \cup {Add(t, NaturalKey, {}) : t \in bases}
                       \cup {Create(s.table, owners)}
                       \cup {Create(t, {s.table}) : t \in ToSet(s.facets)}
               /\ All(Trunk(s)) =
                     {<<t, Itself>> : t \in bases \cup {s.table} \cup ToSet(s.facets)}
                       \cup {<<t, NaturalKey>> : t \in bases}
               /\ \A H : /\ \A t \in bases \cup {s.table} \cup ToSet(s.facets) : \A x : <<t, x>> \notin H
                         /\ IsRole(s) /\ s.reuse => <<s.base, Itself>> \in H
                         => FileReady(Trunk(s), H)
<1> DEFINE bases == IF Owns(s) THEN {s.base} ELSE {}
           owners == IF IsRole(s) THEN {s.base} ELSE {}
           x == IF Owns(s) THEN BaseTable(s) ELSE <<>>
           y == RootTable(s)
           z == FacetTables(s.table, s.facets)
           root == Create(s.table, owners)
<1>1. /\ IsList(s.facets) /\ IsInjective(s.facets) /\ s.base # s.table
      /\ s.table \notin ToSet(s.facets) /\ \A t \in bases : t \notin ToSet(s.facets)
      /\ \A t \in owners : t \notin ToSet(s.facets)
  BY DEF Shape, NamesApart, Owns
<1>2. /\ IsList(x) /\ ToSet(x) = {Create(t, {}) : t \in bases} \cup {Add(t, NaturalKey, {}) : t \in bases}
      /\ Given(x) = {<<t, Itself>> : t \in bases} \cup {<<t, NaturalKey>> : t \in bases}
      /\ \A H : Given(x) \cap H = {} => Ready(x, H)
  <2>1. CASE Owns(s)
    <3>1. /\ IsList(BaseTable(s))
          /\ ToSet(BaseTable(s)) = {Create(s.base, {}), Add(s.base, NaturalKey, {})}
          /\ Given(BaseTable(s)) = {<<s.base, Itself>>, <<s.base, NaturalKey>>}
          /\ \A H : Given(BaseTable(s)) \cap H = {} => Ready(BaseTable(s), H)
      BY BaseBlock
    <3>2. x = BaseTable(s) /\ bases = {s.base}
      BY <2>1
    <3> HIDE DEF x, bases
    <3>3. /\ {Create(t, {}) : t \in bases} = {Create(s.base, {})}
          /\ {Add(t, NaturalKey, {}) : t \in bases} = {Add(s.base, NaturalKey, {})}
      BY <3>2
    <3>4. /\ {<<t, Itself>> : t \in bases} = {<<s.base, Itself>>}
          /\ {<<t, NaturalKey>> : t \in bases} = {<<s.base, NaturalKey>>}
      BY <3>2
    <3>5. ToSet(x) = {Create(t, {}) : t \in bases} \cup {Add(t, NaturalKey, {}) : t \in bases}
      BY <3>1, <3>2, <3>3, Zenon
    <3>6. Given(x) = {<<t, Itself>> : t \in bases} \cup {<<t, NaturalKey>> : t \in bases}
      BY <3>1, <3>2, <3>4, Zenon
    <3> QED
      BY <3>1, <3>2, <3>5, <3>6
  <2>2. CASE ~Owns(s)
    <3>1. x = <<>> /\ bases = {}
      BY <2>2
    <3> QED
      BY <3>1, Few, ReadyNone
  <2> QED
    BY <2>1, <2>2
<1>3. y = <<root>>
  BY DEF RootTable
<1> HIDE DEF root
<1>4. /\ Gives(root) = <<s.table, Itself>> /\ Wants(root) = {<<t, Itself>> : t \in owners}
  BY Ops DEF root
<1>5. IsList(y) /\ ToSet(y) = {root} /\ Given(y) = {<<s.table, Itself>>}
      /\ \A H : Gives(root) \notin H /\ Wants(root) \subseteq H => Ready(y, H)
  BY <1>3, <1>4, Few, ReadyOne
<1>6. /\ IsList(z) /\ ToSet(z) = {Create(t, {s.table}) : t \in ToSet(s.facets)}
      /\ Given(z) = {<<t, Itself>> : t \in ToSet(s.facets)}
      /\ \A H : /\ IsInjective(s.facets) /\ <<s.table, Itself>> \in H
                /\ \A t \in ToSet(s.facets) : <<t, Itself>> \notin H
                => Ready(z, H)
  BY <1>1, FacetBlock
<1>7. Trunk(s) = <<x, y, z>>
  BY DEF Trunk
<1> HIDE DEF x, y, z
<1>8. /\ IsFile(Trunk(s))
      /\ Statements(Trunk(s)) = ToSet(x) \cup ToSet(y) \cup ToSet(z)
      /\ All(Trunk(s)) = Given(x) \cup Given(y) \cup Given(z)
      /\ \A H : /\ Ready(x, H) /\ Ready(y, H \cup Given(x))
                /\ Ready(z, H \cup Given(x) \cup Given(y))
                => FileReady(Trunk(s), H)
  <2>1. IsList(x) /\ IsList(y) /\ IsList(z)
    BY <1>2, <1>5, <1>6
  <2>2. /\ IsFile(<<x, y, z>>)
        /\ Statements(<<x, y, z>>) = ToSet(x) \cup ToSet(y) \cup ToSet(z)
        /\ All(<<x, y, z>>) = Given(x) \cup Given(y) \cup Given(z)
        /\ \A H : /\ Ready(x, H) /\ Ready(y, H \cup Given(x))
                  /\ Ready(z, H \cup Given(x) \cup Given(y))
                  => FileReady(<<x, y, z>>, H)
    BY <2>1, FileThree
  <2> QED
    BY <1>7, <2>2
<1>9. ASSUME NEW H, \A t \in bases \cup {s.table} \cup ToSet(s.facets) : \A e : <<t, e>> \notin H,
             IsRole(s) /\ s.reuse => <<s.base, Itself>> \in H
      PROVE  FileReady(Trunk(s), H)
  <2>1. Ready(x, H)
    BY <1>2, <1>9
  <2>2. Ready(y, H \cup Given(x))
    <3>1. Gives(root) \notin H \cup Given(x)
      BY <1>1, <1>2, <1>4, <1>9
    <3>2. Wants(root) \subseteq H \cup Given(x)
      BY <1>2, <1>4, <1>9 DEF Owns
    <3> QED
      BY <1>5, <3>1, <3>2
  <2>3. Ready(z, H \cup Given(x) \cup Given(y))
    <3>1. <<s.table, Itself>> \in H \cup Given(x) \cup Given(y)
      BY <1>5
    <3>2. ASSUME NEW t \in ToSet(s.facets) PROVE <<t, Itself>> \notin H \cup Given(x) \cup Given(y)
      BY <1>1, <1>2, <1>5, <1>9
    <3> QED
      BY <1>1, <1>6, <3>1, <3>2
  <2> QED
    BY <1>8, <2>1, <2>2, <2>3
<1>10. All(Trunk(s)) = {<<t, Itself>> : t \in bases \cup {s.table} \cup ToSet(s.facets)}
                         \cup {<<t, NaturalKey>> : t \in bases}
  <2>1. {<<t, Itself>> : t \in bases \cup {s.table} \cup ToSet(s.facets)} =
           {<<t, Itself>> : t \in bases} \cup {<<s.table, Itself>>} \cup {<<t, Itself>> : t \in ToSet(s.facets)}
    OBVIOUS
  <2> QED
    BY <1>2, <1>5, <1>6, <1>8, <2>1
<1> HIDE DEF bases, owners
<1>11. Statements(Trunk(s)) = {Create(t, {}) : t \in bases} \cup {Add(t, NaturalKey, {}) : t \in bases}
                       \cup {Create(s.table, owners)}
                       \cup {Create(t, {s.table}) : t \in ToSet(s.facets)}
  BY <1>2, <1>5, <1>6, <1>8 DEF root
<1> QED
  BY <1>8, <1>9, <1>10, <1>11 DEF bases, owners

BranchParts(s, n) ==
    {<<t, Itself>> : t \in Branch(s, n)} \cup {<<s.children[n].table, ParentIndex>>}

LEMMA KidsLemma ==
    ASSUME NEW s, Shape(s), NamesApart(s)
    PROVE  /\ IsFile(Kids(s))
           /\ \A st : st \in Statements(Kids(s)) <=>
                 \E n \in Own(s) :
                    \/ st = Create(s.children[n].table, {ChildOwner(s, s.children[n])})
                    \/ st = Add(s.children[n].table, ParentIndex, {})
                    \/ \E t \in ToSet(s.children[n].facets) : st = Create(t, {s.children[n].table})
           /\ All(Kids(s)) = UNION {BranchParts(s, n) : n \in Own(s)}
           /\ \A H : (\A n \in Own(s) : /\ <<ChildOwner(s, s.children[n]), Itself>> \in H
                                        /\ \A t \in Branch(s, n) : \A x : <<t, x>> \notin H)
                         => FileReady(Kids(s), H)
<1> DEFINE f == Kids(s)
           c(n) == s.children[n]
<1>1. Len(s.children) \in Nat /\ DOMAIN s.children = 1..Len(s.children)
  BY ListLemma DEF Shape
<1>2. /\ DOMAIN f = DOMAIN s.children /\ f = [n \in 1..Len(s.children) |-> f[n]]
      /\ \A n \in Own(s) : n \in DOMAIN f /\ f[n] = ChildTables(s, c(n))
      /\ \A n \in DOMAIN f \ Own(s) : f[n] = <<>>
  BY <1>1 DEF Kids, Own
<1>3. IsList(f)
  BY <1>1, <1>2, MakeList
<1> HIDE DEF f
<1>4. ASSUME NEW n \in Own(s)
      PROVE  /\ IsList(f[n])
             /\ ToSet(f[n]) = {Create(c(n).table, {ChildOwner(s, c(n))}), Add(c(n).table, ParentIndex, {})}
                                \cup {Create(t, {c(n).table}) : t \in ToSet(c(n).facets)}
             /\ Given(f[n]) = BranchParts(s, n)
             /\ \A H : /\ <<ChildOwner(s, c(n)), Itself>> \in H /\ BranchParts(s, n) \cap H = {}
                       => Ready(f[n], H)
  <2>1. n \in DOMAIN s.children /\ IsList(c(n).facets)
    BY DEF Own, Shape
  <2>2. IsInjective(c(n).facets) /\ c(n).table \notin ToSet(c(n).facets)
    BY DEF NamesApart
  <2>3. /\ IsList(f[n])
        /\ ToSet(f[n]) = {Create(c(n).table, {ChildOwner(s, c(n))}), Add(c(n).table, ParentIndex, {})}
                           \cup {Create(t, {c(n).table}) : t \in ToSet(c(n).facets)}
        /\ Given(f[n]) = {<<c(n).table, Itself>>, <<c(n).table, ParentIndex>>}
                            \cup {<<t, Itself>> : t \in ToSet(c(n).facets)}
        /\ \A H : /\ IsInjective(c(n).facets) /\ c(n).table \notin ToSet(c(n).facets)
                  /\ <<ChildOwner(s, c(n)), Itself>> \in H /\ Given(f[n]) \cap H = {}
                  => Ready(f[n], H)
    <3> DEFINE d == c(n)
    <3>1. IsList(d.facets) /\ f[n] = ChildTables(s, d)
      BY <1>2, <2>1
    <3> HIDE DEF d
    <3>2. LET b == ChildTables(s, d)
              o == ChildOwner(s, d)
          IN  /\ IsList(b)
              /\ ToSet(b) = {Create(d.table, {o}), Add(d.table, ParentIndex, {})}
                               \cup {Create(t, {d.table}) : t \in ToSet(d.facets)}
              /\ Given(b) = {<<d.table, Itself>>, <<d.table, ParentIndex>>}
                               \cup {<<t, Itself>> : t \in ToSet(d.facets)}
              /\ \A H : /\ IsInjective(d.facets) /\ d.table \notin ToSet(d.facets)
                        /\ <<o, Itself>> \in H /\ Given(b) \cap H = {}
                        => Ready(b, H)
      BY <3>1, ChildBlock
    <3> QED
      BY <3>1, <3>2 DEF d
  <2>4. Given(f[n]) = BranchParts(s, n)
    BY <2>3 DEF BranchParts, Branch
  <2> QED
    BY <2>2, <2>3, <2>4
<1>5. ASSUME NEW n \in DOMAIN f \ Own(s)
      PROVE  IsList(f[n]) /\ ToSet(f[n]) = {} /\ Given(f[n]) = {} /\ \A H : Ready(f[n], H)
  BY <1>2, Few, ReadyNone
<1>6. IsFile(f)
  BY <1>3, <1>4, <1>5 DEF IsFile
<1>7. ASSUME NEW st
      PROVE  st \in Statements(f) <=>
                 \E n \in Own(s) :
                    \/ st = Create(c(n).table, {ChildOwner(s, c(n))})
                    \/ st = Add(c(n).table, ParentIndex, {})
                    \/ \E t \in ToSet(c(n).facets) : st = Create(t, {c(n).table})
  <2>1. st \in Statements(f) <=> \E n \in Own(s) : st \in ToSet(f[n])
    BY <1>2, <1>5 DEF Statements
  <2> QED
    BY <1>4, <2>1
<1>8. All(f) = UNION {BranchParts(s, n) : n \in Own(s)}
  <2>1. All(f) \subseteq UNION {BranchParts(s, n) : n \in Own(s)}
    BY <1>4, <1>5 DEF All
  <2>2. UNION {BranchParts(s, n) : n \in Own(s)} \subseteq All(f)
    BY <1>2, <1>4, ZenonT(40) DEF All
  <2> QED
    BY <2>1, <2>2
<1>9. ASSUME NEW H, \A n \in Own(s) : /\ <<ChildOwner(s, c(n)), Itself>> \in H
                                      /\ \A t \in Branch(s, n) : \A x : <<t, x>> \notin H
      PROVE  FileReady(f, H)
  <2>1. ASSUME NEW n \in DOMAIN f PROVE Ready(f[n], H)
    <3>1. CASE n \in Own(s)
      <4>1. BranchParts(s, n) \cap H = {}
        BY <1>9, <3>1, ZenonT(40) DEF BranchParts, Branch
      <4> QED
        BY <1>4, <1>9, <3>1, <4>1
    <3> QED
      BY <1>5, <3>1
  <2>2. ASSUME NEW n \in DOMAIN f, NEW m \in DOMAIN f, n # m PROVE Given(f[n]) \cap Given(f[m]) = {}
    <3>1. CASE n \in Own(s) /\ m \in Own(s)
      <4>1. Branch(s, n) \cap Branch(s, m) = {}
        BY <2>2, <3>1 DEF NamesApart, Branch
      <4>2. BranchParts(s, n) \cap BranchParts(s, m) = {}
        BY <4>1 DEF BranchParts, Branch
      <4> QED
        BY <1>4, <3>1, <4>2
    <3> QED
      BY <1>5, <3>1
  <2> QED
    BY <1>6, <2>1, <2>2, FileApart
<1> QED
  BY <1>6, <1>7, <1>8, <1>9 DEF f

IdentityKey == <<"identity">>

LEMMA RoleLemma ==
    ASSUME NEW g, NEW s
    PROVE  LET b == RoleUniqueness(g, s)
           IN  /\ IsList(b)
               /\ \A st \in ToSet(b) : AddsTo(st, s.table)
               /\ Given(b) \subseteq {<<s.table, <<"key", IdentityKey>>>>, <<s.table, <<"active", IdentityKey>>>>}
               /\ \A H : <<s.table, Itself>> \in H /\ Given(b) \cap H = {} => Ready(b, H)
<1>1. CASE IsRole(s) /\ s.link = "separate-fk"
  <2> DEFINE b == RoleUniqueness(g, s)
             t == s.table
             way == Way(g, s.again)
  <2>1. b = UniqueIndex(g, t, IdentityKey, s.again)
    BY <1>1 DEF RoleUniqueness, IdentityKey
  <2>2. /\ way \in {"mirrored", "plain"}
        /\ b = IF way = "mirrored" THEN MirroredIndex(t, IdentityKey) ELSE PlainIndex(t, IdentityKey)
    BY <2>1, IndexWays
  <2>3. IsList(IdentityKey) /\ ToSet(IdentityKey) = {"identity"} /\ IsInjective(IdentityKey)
    BY Few DEF IdentityKey, IsInjective
  <2>8. IsIndex(b, t, IdentityKey, way)
    BY <2>2, <2>3 DEF IsIndex
  <2> HIDE DEF b, t, way
  <2>4. IsList(b) /\ \A st \in ToSet(b) : AddsTo(st, t)
    BY <2>3, <2>8, IndexBlock
  <2>5. Given(b) = IndexParts(t, IdentityKey, way)
    BY <2>3, <2>8, IndexBlock
  <2>6. \A H : <<t, Itself>> \in H /\ Given(b) \cap H = {} => Ready(b, H)
    BY <2>3, <2>8, IndexBlock
  <2>7. Given(b) \subseteq {<<t, <<"key", IdentityKey>>>>, <<t, <<"active", IdentityKey>>>>}
    BY <2>3, <2>5 DEF IndexParts, KeyPart, MirrorParts, IdentityKey
  <2> QED
    BY <2>4, <2>6, <2>7 DEF b, t
<1>2. CASE ~(IsRole(s) /\ s.link = "separate-fk")
  <2>1. RoleUniqueness(g, s) = <<>>
    BY <1>2 DEF RoleUniqueness
  <2> QED
    BY <2>1, Few, ReadyNone
<1> QED
  BY <1>1, <1>2

PartsIn(g, u) == IndexParts(u.table, u.columns, Way(g, u.activeOnly))
BlockIn(g, u) == UniqueIndex(g, u.table, u.columns, u.activeOnly)
Mirrored(g, u) == Way(g, u.activeOnly) = "mirrored"

LEMMA KeyBlock ==
    ASSUME NEW g, NEW u, IsList(u.columns)
    PROVE  /\ IsList(BlockIn(g, u))
           /\ \A st \in ToSet(BlockIn(g, u)) : AddsTo(st, u.table)
           /\ Given(BlockIn(g, u)) = PartsIn(g, u)
           /\ \A H : /\ Mirrored(g, u) => IsInjective(u.columns)
                     /\ <<u.table, Itself>> \in H /\ PartsIn(g, u) \cap H = {}
                     => Ready(BlockIn(g, u), H)
<1> DEFINE b == BlockIn(g, u)
           t == u.table
           l == u.columns
           way == Way(g, u.activeOnly)
<1>1. b = UniqueIndex(g, t, l, u.activeOnly) /\ IsList(l)
  BY DEF BlockIn
<1>2. /\ way \in {"mirrored", "plain"}
      /\ b = IF way = "mirrored" THEN MirroredIndex(t, l) ELSE PlainIndex(t, l)
  BY <1>1, IndexWays
<1>3. IsIndex(b, t, l, way)
  BY <1>1, <1>2 DEF IsIndex
<1>4. PartsIn(g, u) = IndexParts(t, l, way) /\ (Mirrored(g, u) <=> way = "mirrored")
  BY DEF PartsIn, Mirrored
<1> HIDE DEF b, t, l, way
<1>5. /\ IsList(b) /\ \A st \in ToSet(b) : AddsTo(st, t)
      /\ Given(b) = IndexParts(t, l, way)
      /\ \A H : /\ way = "mirrored" => IsInjective(l)
                /\ <<t, Itself>> \in H /\ Given(b) \cap H = {}
                => Ready(b, H)
  BY <1>3, IndexBlock
<1>6. Given(b) = PartsIn(g, u)
  BY <1>4, <1>5
<1>7. ASSUME NEW H, Mirrored(g, u) => IsInjective(l), <<t, Itself>> \in H, PartsIn(g, u) \cap H = {}
      PROVE  Ready(b, H)
  BY <1>4, <1>5, <1>6, <1>7
<1> QED
  BY <1>5, <1>6, <1>7 DEF b, t, l

LEMMA KeysLemma ==
    ASSUME NEW g, NEW s, Shape(s), KeysApart(s)
    PROVE  /\ IsFile(Keys(g, s))
           /\ \A st \in Statements(Keys(g, s)) :
                 \E n \in DOMAIN s.uniques : AddsTo(st, s.uniques[n].table)
           /\ \A H : /\ g = "mysql" => MirrorsApart(s)
                     /\ \A n \in DOMAIN s.uniques : /\ <<s.uniques[n].table, Itself>> \in H
                                                    /\ PartsIn(g, s.uniques[n]) \cap H = {}
                     => FileReady(Keys(g, s), H)
<1> DEFINE f == Keys(g, s)
           u(n) == s.uniques[n]
<1>1. Len(s.uniques) \in Nat /\ DOMAIN s.uniques = 1..Len(s.uniques)
  BY ListLemma DEF Shape
<1>2. /\ DOMAIN f = DOMAIN s.uniques /\ f = [n \in 1..Len(s.uniques) |-> f[n]]
      /\ \A n \in DOMAIN f : f[n] = UniqueIndex(g, u(n).table, u(n).columns, u(n).activeOnly)
  BY <1>1 DEF Keys
<1>3. IsList(f)
  BY <1>1, <1>2, MakeList
<1> HIDE DEF f
<1>4. ASSUME NEW n \in DOMAIN f
      PROVE  /\ IsList(f[n])
             /\ \A st \in ToSet(f[n]) : AddsTo(st, u(n).table)
             /\ Given(f[n]) = PartsIn(g, s.uniques[n])
             /\ \A H : /\ g = "mysql" /\ u(n).activeOnly => IsInjective(u(n).columns)
                       /\ <<u(n).table, Itself>> \in H /\ PartsIn(g, s.uniques[n]) \cap H = {}
                       => Ready(f[n], H)
  <2>1. IsList(u(n).columns) /\ n \in DOMAIN s.uniques
    BY <1>2 DEF Shape
  <2> DEFINE w == u(n)
  <2>2. f[n] = BlockIn(g, w) /\ IsList(w.columns)
    BY <1>2, <2>1 DEF BlockIn
  <2>3. Mirrored(g, w) => g = "mysql" /\ w.activeOnly
    BY DEF Mirrored, Way
  <2> HIDE DEF w
  <2>4. /\ IsList(BlockIn(g, w))
        /\ \A st \in ToSet(BlockIn(g, w)) : AddsTo(st, w.table)
        /\ Given(BlockIn(g, w)) = PartsIn(g, w)
        /\ \A H : /\ Mirrored(g, w) => IsInjective(w.columns)
                  /\ <<w.table, Itself>> \in H /\ PartsIn(g, w) \cap H = {}
                  => Ready(BlockIn(g, w), H)
    BY <2>2, KeyBlock
  <2> QED
    BY <2>2, <2>3, <2>4 DEF w
<1>5. IsFile(f)
  BY <1>3, <1>4 DEF IsFile
<1>6. ASSUME NEW st \in Statements(f)
      PROVE  \E n \in DOMAIN s.uniques : AddsTo(st, u(n).table)
  <2>1. PICK n \in DOMAIN f : st \in ToSet(f[n])
    BY <1>6 DEF Statements
  <2> QED
    BY <1>2, <1>4, <2>1
<1>7. ASSUME NEW H, g = "mysql" => MirrorsApart(s),
             \A n \in DOMAIN s.uniques : /\ <<u(n).table, Itself>> \in H /\ PartsIn(g, s.uniques[n]) \cap H = {}
      PROVE  FileReady(f, H)
  <2>1. ASSUME NEW n \in DOMAIN f PROVE Ready(f[n], H)
    <3>1. g = "mysql" /\ u(n).activeOnly => IsInjective(u(n).columns)
      BY <1>2, <1>7 DEF MirrorsApart
    <3> QED
      BY <1>2, <1>4, <1>7, <3>1
  <2>2. ASSUME NEW n \in DOMAIN f, NEW m \in DOMAIN f, n # m,
               NEW x, x \in PartsIn(g, s.uniques[n]), x \in PartsIn(g, s.uniques[m])
        PROVE  FALSE
    <3>1. u(m).table = u(n).table => u(m).columns # u(n).columns
      BY <1>2, <2>2 DEF KeysApart
    <3>2. ASSUME g = "mysql", u(n).activeOnly, u(m).activeOnly, u(m).table = u(n).table
          PROVE  ToSet(u(m).columns) \cap ToSet(u(n).columns) = {}
      BY <1>2, <1>7, <2>2, <3>2 DEF MirrorsApart
    <3>3. CASE x = <<u(n).table, <<"key", u(n).columns>>>>
      BY <2>2, <3>1, <3>3 DEF PartsIn, IndexParts, KeyPart, MirrorParts, Way
    <3>4. CASE x # <<u(n).table, <<"key", u(n).columns>>>>
      <4>1. /\ g = "mysql" /\ u(n).activeOnly
            /\ \E c \in ToSet(u(n).columns) : x = <<u(n).table, <<"active", <<c>>>>>>
        BY <2>2, <3>4 DEF PartsIn, IndexParts, KeyPart, MirrorParts, Way
      <4>2. PICK c \in ToSet(u(n).columns) : x = <<u(n).table, <<"active", <<c>>>>>>
        BY <4>1
      <4>3. x # <<u(m).table, <<"key", u(m).columns>>>>
        BY <4>2
      <4>4. /\ u(m).activeOnly
            /\ \E d \in ToSet(u(m).columns) : x = <<u(m).table, <<"active", <<d>>>>>>
        BY <2>2, <4>3 DEF PartsIn, IndexParts, KeyPart, MirrorParts, Way
      <4>5. PICK d \in ToSet(u(m).columns) : x = <<u(m).table, <<"active", <<d>>>>>>
        BY <4>4
      <4>6. u(m).table = u(n).table /\ c = d
        BY <4>2, <4>5
      <4> QED
        BY <3>2, <4>1, <4>4, <4>6
    <3> QED
      BY <3>3, <3>4
  <2>3. ASSUME NEW n \in DOMAIN f, NEW m \in DOMAIN f, n # m PROVE Given(f[n]) \cap Given(f[m]) = {}
    <3>1. ASSUME NEW x, x \in Given(f[n]), x \in Given(f[m]) PROVE FALSE
      <4>1. x \in PartsIn(g, s.uniques[n]) /\ x \in PartsIn(g, s.uniques[m])
        BY <1>4, <3>1
      <4> QED
        BY <2>2, <2>3, <4>1
    <3> QED
      BY <3>1
  <2> QED
    BY <1>5, <2>1, <2>3, FileApart
<1> QED
  BY <1>5, <1>6, <1>7 DEF f

\* The tables of an entity, and which points at which.
Bases(s) == IF Owns(s) THEN {s.base} ELSE {}
Stem(s) == Bases(s) \cup {s.table} \cup ToSet(s.facets)

RefsOf(s) ==
    {<<s.table, t>> : t \in IF IsRole(s) THEN {s.base} ELSE {}}
      \cup {<<t, s.table>> : t \in ToSet(s.facets)}
      \cup UNION {{<<s.children[n].table, ChildOwner(s, s.children[n])>>}
                    \cup {<<t, s.children[n].table>> : t \in ToSet(s.children[n].facets)} : n \in Own(s)}

Limbs(s) == UNION {Branch(s, n) : n \in Own(s)}

LEMMA TablesAre ==
    ASSUME NEW s
    PROVE  TablesOf(s) = Stem(s) \cup Limbs(s)
<1>1. Bases(s) = IF IsRole(s) /\ ~s.reuse THEN {s.base} ELSE {}
  BY DEF Bases, Owns
<1>2. TablesOf(s) = Limbs(s) \cup ToSet(s.facets) \cup {s.table} \cup Bases(s)
  BY <1>1 DEF TablesOf, Limbs
<1> QED
  BY <1>2 DEF Stem

LEMMA OwnerLemma ==
    ASSUME NEW s, Shape(s), NEW n \in Own(s)
    PROVE  /\ ChildOwner(s, s.children[n]) \in Bases(s) \cup {s.table}
           /\ n \in DOMAIN s.children
  BY DEF Own, Mounted, ChildOwner, Bases, Owns, Shape

\* Apart from each other.
LEMMA StemLemma ==
    ASSUME NEW s, Shape(s), NamesApart(s)
    PROVE  /\ s.table \notin ToSet(s.facets) /\ s.table \notin Bases(s)
           /\ Bases(s) \cap ToSet(s.facets) = {}
           /\ \A n \in Own(s) : Branch(s, n) \cap Stem(s) = {}
           /\ IsRole(s) => s.base # s.table /\ s.base \notin ToSet(s.facets)
           /\ \A n \in Own(s) : IsRole(s) => s.base \notin Branch(s, n)
  BY DEF NamesApart, Bases, Owns, Stem, Branch

LEMMA UpStatements ==
    ASSUME NEW g, NEW s, Shape(s), NamesApart(s), KeysApart(s)
    PROVE  /\ IsFile(Up(g, s))
           /\ \A st \in Statements(Up(g, s)) :
                 /\ st.op \in {"create", "add"} /\ st.table \in TablesOf(s)
                 /\ st.op = "add" => Itself \notin st.over
                 /\ st.op = "create" => \A t \in st.of : <<st.table, t>> \in RefsOf(s)
           /\ \A t \in TablesOf(s) : \E st \in Statements(Up(g, s)) : st.op = "create" /\ st.table = t
<1> DEFINE bases == Bases(s)
           owners == IF IsRole(s) THEN {s.base} ELSE {}
           role == RoleUniqueness(g, s)
           c(n) == s.children[n]
<1>1. /\ IsFile(Trunk(s))
      /\ Statements(Trunk(s)) =
            {Create(t, {}) : t \in bases} \cup {Add(t, NaturalKey, {}) : t \in bases}
              \cup {Create(s.table, owners)}
              \cup {Create(t, {s.table}) : t \in ToSet(s.facets)}
  BY TrunkLemma DEF Bases
<1>2. /\ IsFile(Kids(s))
      /\ \A st : st \in Statements(Kids(s)) <=>
            \E n \in Own(s) :
               \/ st = Create(c(n).table, {ChildOwner(s, c(n))})
               \/ st = Add(c(n).table, ParentIndex, {})
               \/ \E t \in ToSet(c(n).facets) : st = Create(t, {c(n).table})
  BY KidsLemma
<1>3. IsList(role) /\ \A st \in ToSet(role) : AddsTo(st, s.table)
  BY RoleLemma
<1>4. /\ IsFile(Keys(g, s))
      /\ \A st \in Statements(Keys(g, s)) :
            \E n \in DOMAIN s.uniques : AddsTo(st, s.uniques[n].table)
  BY KeysLemma
<1> HIDE DEF bases, owners, role
<1>5. IsFile(<<role>>) /\ Statements(<<role>>) = ToSet(role)
  BY <1>3, FileOne
<1>6. /\ IsFile(Trunk(s) \o Kids(s))
      /\ Statements(Trunk(s) \o Kids(s)) = Statements(Trunk(s)) \cup Statements(Kids(s))
  BY <1>1, <1>2, FileJoin
<1>7. /\ IsFile((Trunk(s) \o Kids(s)) \o <<role>>)
      /\ Statements((Trunk(s) \o Kids(s)) \o <<role>>)
            = Statements(Trunk(s)) \cup Statements(Kids(s)) \cup ToSet(role)
  BY <1>5, <1>6, FileJoin
<1>8. /\ IsFile(Up(g, s))
      /\ Statements(Up(g, s))
            = Statements(Trunk(s)) \cup Statements(Kids(s)) \cup ToSet(role) \cup Statements(Keys(g, s))
  BY <1>4, <1>7, FileJoin, UpParts, ZenonT(40) DEF role
<1>9. /\ TablesOf(s) = Stem(s) \cup UNION {Branch(s, n) : n \in Own(s)}
      /\ \A n \in Own(s) : Branch(s, n) = {c(n).table} \cup ToSet(c(n).facets)
      /\ Stem(s) = bases \cup {s.table} \cup ToSet(s.facets)
  BY TablesAre DEF Limbs, Stem, Branch, bases
<1>10. ASSUME NEW st \in Statements(Up(g, s))
       PROVE  /\ st.op \in {"create", "add"} /\ st.table \in TablesOf(s)
              /\ st.op = "add" => Itself \notin st.over
              /\ st.op = "create" => \A t \in st.of : <<st.table, t>> \in RefsOf(s)
  <2>1. CASE st \in Statements(Trunk(s))
    <3>1. CASE \E t \in bases : st = Create(t, {}) \/ st = Add(t, NaturalKey, {})
      BY <1>9, <3>1 DEF Create, Add
    <3>2. CASE st = Create(s.table, owners)
      BY <1>9, <3>2 DEF Create, RefsOf, owners
    <3>3. CASE \E t \in ToSet(s.facets) : st = Create(t, {s.table})
      BY <1>9, <3>3 DEF Create, RefsOf
    <3> QED
      BY <1>1, <2>1, <3>1, <3>2, <3>3
  <2>2. CASE st \in Statements(Kids(s))
    <3>1. PICK n \in Own(s) :
               \/ st = Create(c(n).table, {ChildOwner(s, c(n))})
               \/ st = Add(c(n).table, ParentIndex, {})
               \/ \E t \in ToSet(c(n).facets) : st = Create(t, {c(n).table})
      BY <1>2, <2>2
    <3>2. c(n).table \in TablesOf(s) /\ ToSet(c(n).facets) \subseteq TablesOf(s)
      BY <1>9
    <3>3. CASE st = Create(c(n).table, {ChildOwner(s, c(n))})
      BY <3>2, <3>3 DEF Create, RefsOf
    <3>4. CASE st = Add(c(n).table, ParentIndex, {})
      BY <3>2, <3>4 DEF Add
    <3>5. CASE \E t \in ToSet(c(n).facets) : st = Create(t, {c(n).table})
      BY <3>2, <3>5 DEF Create, RefsOf
    <3> QED
      BY <3>1, <3>3, <3>4, <3>5
  <2>3. CASE st \in ToSet(role)
    BY <1>3, <1>9, <2>3 DEF role, AddsTo
  <2>4. CASE st \in Statements(Keys(g, s))
    <3>1. PICK n \in DOMAIN s.uniques : AddsTo(st, s.uniques[n].table)
      BY <1>4, <2>4
    <3>2. s.uniques[n].table \in {s.table} \cup {c(k).table : k \in Own(s)}
      BY DEF KeysApart
    <3> QED
      BY <1>9, <3>1, <3>2 DEF AddsTo
  <2> QED
    BY <1>8, <2>1, <2>2, <2>3, <2>4
<1>11. ASSUME NEW t \in TablesOf(s)
       PROVE  \E st \in Statements(Up(g, s)) : st.op = "create" /\ st.table = t
  <2>1. CASE t \in bases
    <3>1. Create(t, {}) \in Statements(Up(g, s))
      BY <1>1, <1>8, <2>1
    <3> QED
      BY <3>1, Ops
  <2>2. CASE t = s.table
    <3>1. Create(t, owners) \in Statements(Up(g, s))
      BY <1>1, <1>8, <2>2
    <3> QED
      BY <3>1, Ops
  <2>3. CASE t \in ToSet(s.facets)
    <3>1. Create(t, {s.table}) \in Statements(Up(g, s))
      BY <1>1, <1>8, <2>3
    <3> QED
      BY <3>1, Ops
  <2>4. ASSUME NEW n \in Own(s), t = c(n).table
        PROVE  \E st \in Statements(Up(g, s)) : st.op = "create" /\ st.table = t
    <3>1. Create(t, {ChildOwner(s, c(n))}) \in Statements(Up(g, s))
      BY <1>2, <1>8, <2>4
    <3> QED
      BY <3>1, Ops
  <2>5. ASSUME NEW n \in Own(s), t \in ToSet(c(n).facets)
        PROVE  \E st \in Statements(Up(g, s)) : st.op = "create" /\ st.table = t
    <3>1. Create(t, {c(n).table}) \in Statements(Up(g, s))
      BY <1>2, <1>8, <2>5
    <3> QED
      BY <3>1, Ops
  <2> QED
    BY <1>9, <2>1, <2>2, <2>3, <2>4, <2>5
<1> QED
  BY <1>8, <1>10, <1>11

LEMMA UpReady ==
    ASSUME NEW g, NEW s, Shape(s), NamesApart(s), KeysApart(s), g = "mysql" => MirrorsApart(s),
           NEW H, \A t \in TablesOf(s) : \A x : <<t, x>> \notin H,
           IsRole(s) /\ s.reuse => <<s.base, Itself>> \in H
    PROVE  FileReady(Up(g, s), H)
<1> DEFINE bases == Bases(s)
           role == RoleUniqueness(g, s)
           c(n) == s.children[n]
           H1 == H \cup All(Trunk(s))
           H2 == H \cup (All(Trunk(s)) \cup All(Kids(s)))
           H3 == H \cup ((All(Trunk(s)) \cup All(Kids(s))) \cup Given(role))
<1>1. /\ TablesOf(s) = Stem(s) \cup UNION {Branch(s, n) : n \in Own(s)}
      /\ Stem(s) = bases \cup {s.table} \cup ToSet(s.facets)
  BY TablesAre DEF Stem, Limbs
<1>2. /\ IsFile(Trunk(s)) /\ FileReady(Trunk(s), H)
      /\ All(Trunk(s)) = {<<t, Itself>> : t \in Stem(s)} \cup {<<t, NaturalKey>> : t \in bases}
  <2> DEFINE m == bases \cup {s.table} \cup ToSet(s.facets)
  <2>1. \A t \in m : \A x : <<t, x>> \notin H
    BY <1>1
  <2>2. /\ IsFile(Trunk(s))
        /\ All(Trunk(s)) = {<<t, Itself>> : t \in m} \cup {<<t, NaturalKey>> : t \in bases}
        /\ \A X : /\ \A t \in m : \A x : <<t, x>> \notin X
                  /\ IsRole(s) /\ s.reuse => <<s.base, Itself>> \in X
                  => FileReady(Trunk(s), X)
    BY TrunkLemma DEF Bases
  <2>3. m = Stem(s)
    BY <1>1
  <2> HIDE DEF m
  <2> QED
    BY <2>1, <2>2, <2>3
<1>3. /\ IsFile(Kids(s)) /\ All(Kids(s)) = UNION {BranchParts(s, n) : n \in Own(s)}
      /\ \A X : (\A n \in Own(s) : /\ <<ChildOwner(s, c(n)), Itself>> \in X
                                   /\ \A t \in Branch(s, n) : \A x : <<t, x>> \notin X)
                    => FileReady(Kids(s), X)
  BY KidsLemma
<1>4. /\ IsList(role)
      /\ Given(role) \subseteq {<<s.table, <<"key", IdentityKey>>>>, <<s.table, <<"active", IdentityKey>>>>}
      /\ \A X : <<s.table, Itself>> \in X /\ Given(role) \cap X = {} => Ready(role, X)
  BY RoleLemma
<1>5. /\ IsFile(Keys(g, s))
      /\ \A X : /\ g = "mysql" => MirrorsApart(s)
                /\ \A n \in DOMAIN s.uniques : /\ <<s.uniques[n].table, Itself>> \in X
                                               /\ PartsIn(g, s.uniques[n]) \cap X = {}
                => FileReady(Keys(g, s), X)
  BY KeysLemma
<1>6. /\ s.table \notin bases
      /\ \A n \in Own(s) : Branch(s, n) \cap Stem(s) = {}
  BY StemLemma
<1> HIDE DEF role, bases
<1>7. Itself # NaturalKey /\ Itself # ParentIndex
      /\ \A l : /\ <<"key", l>> # Itself /\ <<"active", l>> # Itself
                /\ <<"key", l>> # ParentIndex /\ <<"active", l>> # ParentIndex
                /\ <<"active", l>> # NaturalKey
  BY DEF Itself, NaturalKey, ParentIndex
<1>8. FileReady(Kids(s), H1)
  <2>1. ASSUME NEW n \in Own(s)
        PROVE  <<ChildOwner(s, c(n)), Itself>> \in H1 /\ \A t \in Branch(s, n) : \A x : <<t, x>> \notin H1
    <3>1. ChildOwner(s, c(n)) \in Stem(s)
      BY <1>1, OwnerLemma DEF bases
    <3>2. <<ChildOwner(s, c(n)), Itself>> \in H1
      BY <1>2, <3>1
    <3>3. ASSUME NEW t \in Branch(s, n), NEW x PROVE <<t, x>> \notin H1
      <4>1. <<t, x>> \notin H
        BY <1>1
      <4>2. t \notin Stem(s) /\ t \notin bases
        BY <1>1, <1>6
      <4> QED
        BY <1>2, <4>1, <4>2
    <3> QED
      BY <3>2, <3>3
  <2> HIDE DEF H1
  <2> QED
    BY <1>3, <2>1
<1>9. s.table \in TablesOf(s) /\ s.table \in Stem(s) /\ \A n \in Own(s) : s.table \notin Branch(s, n)
  BY <1>1, <1>6
<1>10. ASSUME NEW n \in Own(s), NEW x \in BranchParts(s, n)
       PROVE  \E t \in Branch(s, n) : x = <<t, Itself>> \/ x = <<t, ParentIndex>>
  BY <1>10 DEF BranchParts, Branch
<1>11. Ready(role, H2)
  <2>1. <<s.table, Itself>> \in H2
    BY <1>2, <1>9
  <2>2. ASSUME NEW l PROVE <<s.table, <<"key", l>>>> \notin H2 /\ <<s.table, <<"active", l>>>> \notin H2
    <3>1. ASSUME NEW k \in {"key", "active"} PROVE <<s.table, <<k, l>>>> \notin H2
      <4>1. <<k, l>> # Itself /\ <<k, l>> # ParentIndex
        BY <1>7
      <4>2. <<s.table, <<k, l>>>> \notin H
        BY <1>9
      <4>3. <<s.table, <<k, l>>>> \notin All(Trunk(s))
        BY <1>2, <1>6, <4>1
      <4>4. <<s.table, <<k, l>>>> \notin All(Kids(s))
        BY <1>3, <1>10, <4>1
      <4> QED
        BY <4>2, <4>3, <4>4
    <3> QED
      BY <3>1
  <2>3. Given(role) \cap H2 = {}
    BY <1>4, <2>2
  <2> HIDE DEF H2
  <2> QED
    BY <1>4, <2>1, <2>3
<1>12. FileReady(Keys(g, s), H3)
  <2>1. ASSUME NEW n \in DOMAIN s.uniques
        PROVE  /\ <<s.uniques[n].table, Itself>> \in H3
               /\ PartsIn(g, s.uniques[n]) \cap H3 = {}
    <3> DEFINE u == s.uniques[n]
    <3>1. u.table \in {s.table} \cup {c(k).table : k \in Own(s)} /\ "identity" \notin ToSet(u.columns)
      BY DEF KeysApart
    <3>2. IsList(u.columns)
      BY DEF Shape
    <3>3. u.columns # IdentityKey
      BY <3>1, Few, ZenonT(40) DEF IdentityKey
    <3> HIDE DEF u
    <3>4. u.table \in TablesOf(s) /\ u.table \notin bases
      <4>1. CASE u.table = s.table
        BY <1>6, <1>9, <4>1
      <4>2. ASSUME NEW k \in Own(s), u.table = c(k).table PROVE u.table \in TablesOf(s) /\ u.table \notin bases
        <5>1. c(k).table \in Branch(s, k)
          BY DEF Branch
        <5> QED
          BY <1>1, <1>6, <4>2, <5>1
      <4> QED
        BY <3>1, <4>1, <4>2
    <3>5. <<u.table, Itself>> \in H3
      <4>1. CASE u.table = s.table
        BY <1>2, <1>9, <4>1
      <4>2. ASSUME NEW k \in Own(s), u.table = c(k).table PROVE <<u.table, Itself>> \in All(Kids(s))
        <5>1. <<u.table, Itself>> \in BranchParts(s, k)
          BY <4>2 DEF BranchParts, Branch
        <5> QED
          BY <1>3, <5>1
      <4> QED
        BY <3>1, <4>1, <4>2
    <3>6. ASSUME NEW e, NEW l, \/ e = "key" /\ l = u.columns
                               \/ e = "active" /\ \E x \in ToSet(u.columns) : l = <<x>>
          PROVE  <<u.table, <<e, l>>>> \notin H3
      <4>1. <<e, l>> # Itself /\ <<e, l>> # ParentIndex
        BY <1>7, <3>6
      <4>2. <<u.table, <<e, l>>>> \notin H
        BY <3>4
      <4>3. <<u.table, <<e, l>>>> \notin All(Trunk(s))
        BY <1>2, <3>4, <4>1
      <4>4. <<u.table, <<e, l>>>> \notin All(Kids(s))
        BY <1>3, <1>10, <4>1
      <4>5. l # IdentityKey
        BY <3>1, <3>3, <3>6 DEF IdentityKey
      <4>6. <<u.table, <<e, l>>>> \notin Given(role)
        BY <1>4, <4>5
      <4> QED
        BY <4>2, <4>3, <4>4, <4>6
    <3>7. ASSUME NEW x \in PartsIn(g, u) PROVE x \notin H3
      <4>1. CASE x = <<u.table, <<"key", u.columns>>>>
        BY <3>6, <4>1
      <4>2. CASE x # <<u.table, <<"key", u.columns>>>>
        <5>1. PICK d \in ToSet(u.columns) : x = <<u.table, <<"active", <<d>>>>>>
          BY <3>7, <4>2 DEF PartsIn, IndexParts, KeyPart, MirrorParts
        <5> QED
          BY <3>6, <5>1
      <4> QED
        BY <4>1, <4>2
    <3> QED
      BY <3>5, <3>7 DEF u
  <2> HIDE DEF H3
  <2> QED
    BY <1>5, <2>1
<1>13. /\ IsFile(<<role>>) /\ All(<<role>>) = Given(role) /\ FileReady(<<role>>, H2)
  BY <1>4, <1>11, FileOne
<1>14. /\ IsFile(Trunk(s) \o Kids(s)) /\ FileReady(Trunk(s) \o Kids(s), H)
       /\ All(Trunk(s) \o Kids(s)) = All(Trunk(s)) \cup All(Kids(s))
  BY <1>2, <1>3, <1>8, FileJoin
<1>15. /\ IsFile((Trunk(s) \o Kids(s)) \o <<role>>) /\ FileReady((Trunk(s) \o Kids(s)) \o <<role>>, H)
       /\ All((Trunk(s) \o Kids(s)) \o <<role>>) = (All(Trunk(s)) \cup All(Kids(s))) \cup Given(role)
  BY <1>13, <1>14, FileJoin
<1>16. FileReady(((Trunk(s) \o Kids(s)) \o <<role>>) \o Keys(g, s), H)
  BY <1>5, <1>12, <1>15, FileJoin
<1> QED
  BY <1>16, UpParts DEF role

-----------------------------------------------------------------------------
\* Files that take no table before one that points at it.

Taken(b) == {st.table : st \in ToSet(b)}
Tabs(f) == {st.table : st \in Statements(f)}

InBlock(b, R) == \A k \in DOMAIN b : \A j \in 1..(k - 1) : <<b[k].table, b[j].table>> \notin R
InOrder(f, R) ==
    /\ \A i \in DOMAIN f : InBlock(f[i], R)
    /\ \A k \in DOMAIN f : \A i \in 1..(k - 1) :
          \A r \in R : r[1] \in Taken(f[k]) => r[2] \notin Taken(f[i])

LEMMA OrderStep ==
    ASSUME NEW f, NEW R, IsFile(f), InOrder(f, R), NEW i \in DOMAIN f, f[i] # <<>>,
           \A k \in 1..(i - 1) : f[k] = <<>>
    PROVE  /\ InOrder(Without(f, i), R)
           /\ \A st \in Statements(Without(f, i)) : <<st.table, Head(f[i]).table>> \notin R
<1> DEFINE w == Without(f, i)
           b == f[i]
<1>1. Len(f) \in Nat /\ DOMAIN f = 1..Len(f)
  BY ListLemma DEF IsFile
<1>2. /\ IsFile(w) /\ DOMAIN w = DOMAIN f /\ w[i] = Tail(b)
      /\ \A k \in DOMAIN f \ {i} : w[k] = f[k]
  BY WithoutLemma
<1>3. IsList(b) /\ b # <<>> /\ InBlock(b, R)
  BY DEF IsFile, InOrder
<1> HIDE DEF b
<1>4. /\ 1 \in DOMAIN b /\ Head(b) = b[1] /\ DOMAIN Tail(b) = 1..(Len(b) - 1)
      /\ Len(b) \in Nat /\ DOMAIN b = 1..Len(b)
      /\ \A j \in 1..(Len(b) - 1) : j + 1 \in DOMAIN b /\ Tail(b)[j] = b[j + 1]
      /\ ToSet(b) = {Head(b)} \cup ToSet(Tail(b))
  BY <1>3, TailLemma, ListLemma
<1>5. ASSUME NEW k \in DOMAIN w PROVE Taken(w[k]) \subseteq Taken(f[k])
  <2>1. CASE k = i
    BY <1>2, <1>4, <2>1 DEF Taken, b
  <2>2. CASE k # i
    BY <1>2, <2>2
  <2> QED
    BY <2>1, <2>2
<1>6. InBlock(Tail(b), R)
  <2>1. ASSUME NEW k \in DOMAIN Tail(b), NEW j \in 1..(k - 1)
        PROVE  <<Tail(b)[k].table, Tail(b)[j].table>> \notin R
    <3>1. /\ k \in 1..(Len(b) - 1) /\ j \in 1..(Len(b) - 1)
          /\ k + 1 \in DOMAIN b /\ j + 1 \in 1..((k + 1) - 1)
      BY <1>4
    <3>2. Tail(b)[k] = b[k + 1] /\ Tail(b)[j] = b[j + 1]
      BY <1>4, <3>1
    <3>3. <<b[k + 1].table, b[j + 1].table>> \notin R
      BY <1>3, <3>1 DEF InBlock
    <3> QED
      BY <3>2, <3>3
  <2> QED
    BY <2>1 DEF InBlock
<1> HIDE DEF w
<1>7. InOrder(w, R)
  <2>1. ASSUME NEW k \in DOMAIN w PROVE InBlock(w[k], R)
    <3>1. CASE k = i
      BY <1>2, <1>6, <3>1
    <3>2. CASE k # i
      BY <1>2, <3>2 DEF InOrder
    <3> QED
      BY <3>1, <3>2
  <2>2. ASSUME NEW k \in DOMAIN w, NEW j \in 1..(k - 1), NEW r \in R, r[1] \in Taken(w[k])
        PROVE  r[2] \notin Taken(w[j])
    <3>1. j \in DOMAIN w /\ k \in DOMAIN f
      BY <1>1, <1>2
    <3>2. r[2] \notin Taken(f[j])
      BY <1>5, <2>2, <3>1 DEF InOrder
    <3> QED
      BY <1>5, <3>1, <3>2
  <2> QED
    BY <2>1, <2>2 DEF InOrder
<1>8. ASSUME NEW st \in Statements(w), <<st.table, Head(b).table>> \in R PROVE FALSE
  <2>1. PICK k \in DOMAIN w : st \in ToSet(w[k])
    BY <1>8 DEF Statements
  <2>2. CASE k = i
    <3>1. PICK j \in 1..(Len(b) - 1) : st = Tail(b)[j]
      BY <1>2, <1>4, <2>1, <2>2 DEF ToSet
    <3>2. j + 1 \in DOMAIN b /\ st = b[j + 1] /\ 1 \in 1..((j + 1) - 1)
      BY <1>4, <3>1
    <3>3. <<b[j + 1].table, b[1].table>> \notin R
      BY <1>3, <3>2 DEF InBlock
    <3> QED
      BY <1>4, <1>8, <3>2, <3>3
  <2>3. CASE k < i
    <3>1. k \in 1..(i - 1) /\ k \in DOMAIN f \ {i}
      BY <1>1, <1>2, <2>1, <2>3
    <3>2. w[k] = <<>>
      BY <1>2, <3>1
    <3> QED
      BY <2>1, <3>2, Few
  <2>4. CASE k > i
    <3>1. i \in 1..(k - 1) /\ k \in DOMAIN f
      BY <1>1, <1>2, <2>1, <2>4
    <3>2. st.table \in Taken(f[k])
      BY <1>5, <2>1 DEF Taken
    <3>3. Head(b).table \in Taken(f[i])
      BY <1>4 DEF Taken, b
    <3> DEFINE r == <<st.table, Head(b).table>>
    <3>4. r \in R /\ r[1] \in Taken(f[k]) /\ r[2] \in Taken(f[i])
      BY <1>8, <3>2, <3>3
    <3> HIDE DEF r
    <3> QED
      BY <3>1, <3>4 DEF InOrder
  <2> QED
    BY <1>1, <1>2, <2>1, <2>2, <2>3, <2>4
<1> QED
  BY <1>7, <1>8 DEF w, b

LEMMA OrderJoin ==
    ASSUME NEW a, NEW b, NEW R, IsFile(a), IsFile(b), InOrder(a, R), InOrder(b, R),
           \A r \in R : r[1] \in Tabs(b) => r[2] \notin Tabs(a)
    PROVE  InOrder(a \o b, R)
<1> DEFINE c == a \o b
<1>1. /\ Len(a) \in Nat /\ Len(b) \in Nat /\ DOMAIN a = 1..Len(a) /\ DOMAIN b = 1..Len(b)
      /\ DOMAIN c = 1..(Len(a) + Len(b))
      /\ \A i \in 1..(Len(a) + Len(b)) : c[i] = IF i <= Len(a) THEN a[i] ELSE b[i - Len(a)]
  BY ListLemma, JoinLemma DEF IsFile
<1> HIDE DEF c
<1>2. ASSUME NEW i \in DOMAIN c
      PROVE  \/ i \in DOMAIN a /\ c[i] = a[i]
             \/ i - Len(a) \in DOMAIN b /\ c[i] = b[i - Len(a)] /\ ~(i <= Len(a))
  BY <1>1
<1>3. ASSUME NEW k \in DOMAIN c, NEW i \in 1..(k - 1), NEW r \in R, r[1] \in Taken(c[k])
      PROVE  r[2] \notin Taken(c[i])
  <2>1. i \in DOMAIN c /\ i < k /\ i \in Int /\ k \in Int
    BY <1>1
  <2>2. CASE k \in DOMAIN a
    <3>1. i \in DOMAIN a /\ c[i] = a[i] /\ c[k] = a[k]
      BY <1>1, <2>1, <2>2
    <3> QED
      BY <1>3, <2>2, <3>1 DEF InOrder
  <2>3. CASE k \notin DOMAIN a
    <3>1. k - Len(a) \in DOMAIN b /\ c[k] = b[k - Len(a)]
      BY <1>2, <2>3
    <3>2. CASE i \in DOMAIN a
      <4>1. Taken(c[i]) \subseteq Tabs(a)
        BY <1>1, <3>2 DEF Taken, Tabs, Statements
      <4>2. Taken(c[k]) \subseteq Tabs(b)
        BY <3>1 DEF Taken, Tabs, Statements
      <4> QED
        BY <1>3, <4>1, <4>2
    <3>3. CASE i \notin DOMAIN a
      <4>1. i - Len(a) \in DOMAIN b /\ c[i] = b[i - Len(a)]
        BY <1>2, <2>1, <3>3
      <4>2. i - Len(a) \in 1..((k - Len(a)) - 1)
        BY <1>1, <2>1, <3>1, <4>1
      <4> QED
        BY <1>3, <3>1, <4>1, <4>2 DEF InOrder
    <3> QED
      BY <3>2, <3>3
  <2> QED
    BY <2>2, <2>3
<1>4. ASSUME NEW i \in DOMAIN c PROVE InBlock(c[i], R)
  BY <1>2 DEF InOrder
<1> QED
  BY <1>3, <1>4 DEF InOrder, c

-----------------------------------------------------------------------------
\* A down.

Twigs(s) == [n \in DOMAIN s.children |-> ChildDrops(s, n)]
Stump(s) == <<FacetDrops(s.facets), <<Drop(s.table)>>, BaseDrop(s)>>

\* Who points at whom.
LEMMA RefLemma ==
    ASSUME NEW s, Shape(s), NamesApart(s), NEW r \in RefsOf(s)
    PROVE  /\ r[1] \in TablesOf(s) /\ r[1] \notin Bases(s) /\ r[2] \in Needs(s)
           /\ r[2] \notin ToSet(s.facets)
           /\ \A n \in Own(s) : /\ r[2] \notin ToSet(s.children[n].facets)
                                /\ r[2] \in Branch(s, n) => r[1] \in Branch(s, n)
<1>1. /\ TablesOf(s) = Stem(s) \cup Limbs(s) /\ Stem(s) = Bases(s) \cup {s.table} \cup ToSet(s.facets)
      /\ TablesOf(s) \subseteq Needs(s) /\ (IsRole(s) => s.base \in Needs(s))
  BY TablesAre DEF Stem, Needs
<1>2. /\ s.table \notin ToSet(s.facets) /\ s.table \notin Bases(s)
      /\ Bases(s) \cap ToSet(s.facets) = {}
      /\ \A n \in Own(s) : Branch(s, n) \cap Stem(s) = {}
      /\ IsRole(s) => s.base # s.table /\ s.base \notin ToSet(s.facets)
      /\ \A n \in Own(s) : IsRole(s) => s.base \notin Branch(s, n)
  BY StemLemma
<1>3. \A n \in Own(s) : /\ Branch(s, n) = {s.children[n].table} \cup ToSet(s.children[n].facets)
                        /\ Branch(s, n) \subseteq Limbs(s)
  BY DEF Branch, Limbs
<1>4. ASSUME r[1] \in TablesOf(s), r[1] \notin Bases(s), r[2] \in Needs(s), r[2] \notin ToSet(s.facets),
             \A n \in Own(s) : r[2] \notin Branch(s, n)
      PROVE  /\ r[2] \notin ToSet(s.facets)
             /\ \A n \in Own(s) : /\ r[2] \notin ToSet(s.children[n].facets)
                                  /\ r[2] \in Branch(s, n) => r[1] \in Branch(s, n)
  BY <1>3, <1>4
<1>5. CASE IsRole(s) /\ r = <<s.table, s.base>>
  BY <1>1, <1>2, <1>4, <1>5
<1>6. CASE \E t \in ToSet(s.facets) : r = <<t, s.table>>
  <2>1. PICK t \in ToSet(s.facets) : r = <<t, s.table>>
    BY <1>6
  <2>2. s.table \in Stem(s) /\ t \in Stem(s) /\ t \notin Bases(s)
    BY <1>1, <1>2
  <2> QED
    BY <1>1, <1>2, <1>4, <2>1, <2>2
<1>7. ASSUME NEW n \in Own(s), r = <<s.children[n].table, ChildOwner(s, s.children[n])>>
      PROVE  /\ r[1] \in TablesOf(s) /\ r[1] \notin Bases(s) /\ r[2] \in Needs(s)
             /\ r[2] \notin ToSet(s.facets) /\ \A m \in Own(s) : r[2] \notin Branch(s, m)
  <2>1. r[1] \in Branch(s, n) /\ r[2] \in Bases(s) \cup {s.table}
    BY <1>3, <1>7, OwnerLemma
  <2>2. r[2] \in Stem(s)
    BY <1>1, <2>1
  <2> QED
    BY <1>1, <1>2, <1>3, <2>1, <2>2
<1>8. ASSUME NEW n \in Own(s), NEW t \in ToSet(s.children[n].facets), r = <<t, s.children[n].table>>
      PROVE  /\ r[1] \in TablesOf(s) /\ r[1] \notin Bases(s) /\ r[2] \in Needs(s)
             /\ r[2] \notin ToSet(s.facets)
             /\ \A m \in Own(s) : /\ r[2] \notin ToSet(s.children[m].facets)
                                  /\ r[2] \in Branch(s, m) => r[1] \in Branch(s, m)
  <2>1. r[1] \in Branch(s, n) /\ r[2] \in Branch(s, n) /\ r[2] \notin ToSet(s.children[n].facets)
    BY <1>3, <1>8 DEF NamesApart
  <2>2. r[1] \notin Stem(s) /\ r[2] \notin Stem(s)
    BY <1>2, <2>1
  <2>3. ASSUME NEW m \in Own(s), m # n PROVE r[2] \notin Branch(s, m)
    BY <2>1, <2>3 DEF NamesApart
  <2> QED
    BY <1>1, <1>3, <2>1, <2>2, <2>3
<1>9. \/ IsRole(s) /\ r = <<s.table, s.base>>
      \/ \E t \in ToSet(s.facets) : r = <<t, s.table>>
      \/ \E n \in Own(s) : r = <<s.children[n].table, ChildOwner(s, s.children[n])>>
      \/ \E n \in Own(s) : \E t \in ToSet(s.children[n].facets) : r = <<t, s.children[n].table>>
  BY DEF RefsOf
<1> QED
  BY <1>4, <1>5, <1>6, <1>7, <1>8, <1>9

LEMMA DropsLemma ==
    ASSUME NEW l, IsList(l)
    PROVE  /\ IsList(FacetDrops(l)) /\ ToSet(FacetDrops(l)) = {Drop(t) : t \in ToSet(l)}
           /\ DOMAIN FacetDrops(l) = DOMAIN l /\ \A n \in DOMAIN l : FacetDrops(l)[n].table = l[n]
<1>1. Len(l) \in Nat /\ DOMAIN l = 1..Len(l)
  BY ListLemma
<1>2. FacetDrops(l) = [n \in 1..Len(l) |-> Drop(l[n])]
  BY <1>1 DEF FacetDrops
<1>3. DOMAIN FacetDrops(l) = DOMAIN l /\ \A n \in DOMAIN l : FacetDrops(l)[n] = Drop(l[n])
  BY <1>1, <1>2
<1>4. IsList(FacetDrops(l))
  BY <1>1, <1>2, MakeList
<1>5. ToSet(FacetDrops(l)) = {Drop(t) : t \in ToSet(l)}
  BY <1>3 DEF ToSet
<1>6. \A n \in DOMAIN l : FacetDrops(l)[n].table = l[n]
  BY <1>3 DEF Drop
<1> QED
  BY <1>3, <1>4, <1>5, <1>6

LEMMA DownLemma ==
    ASSUME NEW s, Shape(s), NamesApart(s)
    PROVE  /\ IsFile(Down(s))
           /\ \A st \in Statements(Down(s)) : st.op = "drop" /\ st.table \in TablesOf(s)
           /\ TablesOf(s) \subseteq Tabs(Down(s))
           /\ InOrder(Down(s), RefsOf(s))
<1> DEFINE f == Twigs(s)
           g == Stump(s)
           R == RefsOf(s)
<1>1. Len(s.children) \in Nat /\ DOMAIN s.children = 1..Len(s.children) /\ IsList(s.facets)
  BY ListLemma DEF Shape
<1>2. /\ DOMAIN f = DOMAIN s.children /\ f = [n \in 1..Len(s.children) |-> f[n]]
      /\ \A n \in DOMAIN f : f[n] = ChildDrops(s, n)
  BY <1>1 DEF Twigs
<1>3. IsList(f)
  BY <1>1, <1>2, MakeList
<1>4. \A t : Drop(t).op = "drop" /\ Drop(t).table = t
  BY DEF Drop
<1>5. \A r \in R : /\ r[1] \in TablesOf(s) /\ r[1] \notin Bases(s)
                   /\ r[2] \notin ToSet(s.facets)
                   /\ \A n \in Own(s) : /\ r[2] \notin ToSet(s.children[n].facets)
                                        /\ r[2] \in Branch(s, n) => r[1] \in Branch(s, n)
  BY RefLemma
<1>6. /\ TablesOf(s) = Stem(s) \cup Limbs(s) /\ Stem(s) = Bases(s) \cup {s.table} \cup ToSet(s.facets)
      /\ Limbs(s) = UNION {Branch(s, n) : n \in Own(s)} /\ Own(s) \subseteq DOMAIN f
  BY <1>2, TablesAre DEF Stem, Limbs, Own
<1>7. /\ s.table \notin ToSet(s.facets) /\ s.table \notin Bases(s)
      /\ Bases(s) \cap ToSet(s.facets) = {}
      /\ \A n \in Own(s) : Branch(s, n) \cap Stem(s) = {}
  BY StemLemma
<1> HIDE DEF f, R
<1>8. ASSUME NEW n \in Own(s)
      PROVE  /\ IsList(f[n]) /\ ToSet(f[n]) = {Drop(t) : t \in Branch(s, n)} /\ Taken(f[n]) = Branch(s, n)
             /\ InBlock(f[n], R)
  <2> DEFINE l == s.children[n].facets
             d == Drop(s.children[n].table)
             a == FacetDrops(l)
  <2>1. n \in DOMAIN f /\ IsList(l)
    BY <1>2, <1>6 DEF Own, Shape
  <2>2. f[n] = a \o <<d>>
    BY <1>2, <2>1 DEF ChildDrops
  <2>3. /\ IsList(a) /\ ToSet(a) = {Drop(t) : t \in ToSet(l)}
        /\ DOMAIN a = DOMAIN l /\ \A k \in DOMAIN l : a[k].table = l[k]
    BY <2>1, DropsLemma
  <2>4. Branch(s, n) = {s.children[n].table} \cup ToSet(l)
    BY DEF Branch
  <2>5. \A r \in R : r[2] \notin ToSet(l)
    BY <1>5
  <2> HIDE DEF a, l
  <2>6. /\ IsList(a \o <<d>>) /\ ToSet(a \o <<d>>) = ToSet(a) \cup {d}
        /\ Len(a) \in Nat /\ DOMAIN a = 1..Len(a) /\ DOMAIN (a \o <<d>>) = 1..(Len(a) + 1)
        /\ \A i \in 1..(Len(a) + 1) : i <= Len(a) => (a \o <<d>>)[i] = a[i]
    <3>1. IsList(<<d>>) /\ ToSet(<<d>>) = {d} /\ Len(<<d>>) = 1
      BY Few
    <3> HIDE DEF d
    <3> QED
      BY <2>3, <3>1, JoinLemma, ListLemma
  <2>7. ToSet(f[n]) = {Drop(t) : t \in Branch(s, n)}
    BY <2>2, <2>3, <2>4, <2>6
  <2>8. Taken(f[n]) = Branch(s, n)
    <3>1. Taken(f[n]) = {x.table : x \in {Drop(t) : t \in Branch(s, n)}}
      BY <2>7 DEF Taken
    <3> QED
      BY <1>4, <3>1
  <2>9. ASSUME NEW k \in DOMAIN f[n], NEW j \in 1..(k - 1)
        PROVE  <<f[n][k].table, f[n][j].table>> \notin R
    <3>1. j \in DOMAIN a /\ f[n][j] = a[j]
      BY <2>2, <2>6
    <3>2. f[n][j].table \in ToSet(l)
      BY <2>3, <3>1 DEF ToSet
    <3> DEFINE r == <<f[n][k].table, f[n][j].table>>
    <3>3. r[2] \in ToSet(l)
      BY <3>2
    <3> HIDE DEF r
    <3>4. r \notin R
      BY <2>5, <3>3
    <3> QED
      BY <3>4 DEF r
  <2> QED
    BY <2>2, <2>6, <2>7, <2>8, <2>9 DEF InBlock
<1>9. ASSUME NEW n \in DOMAIN f \ Own(s)
      PROVE  IsList(f[n]) /\ ToSet(f[n]) = {} /\ Taken(f[n]) = {} /\ InBlock(f[n], R)
  <2>1. f[n] = <<>>
    BY <1>2 DEF ChildDrops
  <2> QED
    BY <2>1, Few DEF Taken, InBlock
<1>10. IsFile(f)
  BY <1>3, <1>8, <1>9 DEF IsFile
<1>11. InOrder(f, R)
  <2>1. ASSUME NEW k \in DOMAIN f, NEW i \in 1..(k - 1), NEW r \in R, r[1] \in Taken(f[k]), r[2] \in Taken(f[i])
        PROVE  FALSE
    <3>1. i \in DOMAIN f /\ i # k
      BY <1>1, <1>2
    <3>2. i \in Own(s) /\ k \in Own(s)
      BY <1>9, <2>1, <3>1
    <3>3. r[1] \in Branch(s, k) /\ r[2] \in Branch(s, i)
      BY <1>8, <2>1, <3>2
    <3>4. r[1] \in Branch(s, i)
      BY <1>5, <3>2, <3>3
    <3>5. Branch(s, k) \cap Branch(s, i) = {}
      BY <3>1, <3>2 DEF NamesApart
    <3> QED
      BY <3>3, <3>4, <3>5
  <2> QED
    BY <1>8, <1>9, <2>1 DEF InOrder
<1>12. Statements(f) = {Drop(t) : t \in Limbs(s)}
  <2>1. ASSUME NEW st \in Statements(f) PROVE st \in {Drop(t) : t \in Limbs(s)}
    <3>1. PICK n \in DOMAIN f : st \in ToSet(f[n])
      BY <2>1 DEF Statements
    <3> QED
      BY <1>6, <1>8, <1>9, <3>1
  <2>2. ASSUME NEW t \in Limbs(s) PROVE Drop(t) \in Statements(f)
    <3>1. PICK n \in Own(s) : t \in Branch(s, n)
      BY <1>6
    <3> QED
      BY <1>6, <1>8, <3>1 DEF Statements
  <2> QED
    BY <2>1, <2>2
<1> DEFINE x == FacetDrops(s.facets)
           y == <<Drop(s.table)>>
           z == BaseDrop(s)
<1>13. /\ IsList(x) /\ ToSet(x) = {Drop(t) : t \in ToSet(s.facets)}
       /\ DOMAIN x = DOMAIN s.facets /\ \A k \in DOMAIN s.facets : x[k].table = s.facets[k]
  BY <1>1, DropsLemma
<1>14. IsList(y) /\ ToSet(y) = {Drop(s.table)} /\ DOMAIN y = {1}
  BY Few
<1>15. IsList(z) /\ ToSet(z) = {Drop(t) : t \in Bases(s)} /\ DOMAIN z \subseteq {1}
  <2>1. CASE Owns(s)
    <3>1. z = <<Drop(s.base)>> /\ Bases(s) = {s.base}
      BY <2>1 DEF BaseDrop, Bases, Owns
    <3> QED
      BY <3>1, Few
  <2>2. CASE ~Owns(s)
    <3>1. z = <<>> /\ Bases(s) = {}
      BY <2>2 DEF BaseDrop, Bases, Owns
    <3> QED
      BY <3>1, Few
  <2> QED
    BY <2>1, <2>2
<1>16. g = <<x, y, z>>
  BY DEF Stump
<1> HIDE DEF x, y, z, g
<1>17. /\ Taken(x) = ToSet(s.facets) /\ Taken(y) = {s.table} /\ Taken(z) = Bases(s)
  BY <1>4, <1>13, <1>14, <1>15 DEF Taken
<1>18. /\ IsFile(g) /\ Statements(g) = ToSet(x) \cup ToSet(y) \cup ToSet(z)
       /\ DOMAIN g = {1, 2, 3} /\ g[1] = x /\ g[2] = y /\ g[3] = z
  BY <1>13, <1>14, <1>15, <1>16, FileThree
<1>19. Statements(g) = {Drop(t) : t \in Stem(s)}
  BY <1>6, <1>13, <1>14, <1>15, <1>18
<1>20. InOrder(g, R)
  <2>1. ASSUME NEW k \in DOMAIN x, NEW j \in 1..(k - 1) PROVE <<x[k].table, x[j].table>> \notin R
    <3>1. DOMAIN s.facets = 1..Len(s.facets) /\ Len(s.facets) \in Nat
      BY <1>1, ListLemma
    <3>2. j \in DOMAIN s.facets /\ x[j].table \in ToSet(s.facets)
      BY <1>13, <3>1 DEF ToSet
    <3> DEFINE r == <<x[k].table, x[j].table>>
    <3>3. r[2] \in ToSet(s.facets)
      BY <3>2
    <3> HIDE DEF r
    <3>4. r \notin R
      BY <1>5, <3>3
    <3> QED
      BY <3>4 DEF r
  <2>2. InBlock(x, R)
    BY <2>1 DEF InBlock
  <2>3. InBlock(y, R) /\ InBlock(z, R)
    BY <1>14, <1>15 DEF InBlock
  <2>4. ASSUME NEW r \in R
        PROVE  /\ r[2] \notin Taken(x)
               /\ r[1] \notin Taken(z)
    BY <1>5, <1>17
  <2>5. ASSUME NEW k \in {1, 2, 3}, NEW i \in 1..(k - 1), NEW r \in R, r[1] \in Taken(g[k])
        PROVE  r[2] \notin Taken(g[i])
    <3>1. i = 1 \/ k = 3
      OBVIOUS
    <3> QED
      BY <1>18, <2>4, <2>5, <3>1
  <2> QED
    BY <1>18, <2>2, <2>3, <2>5 DEF InOrder
<1>21. ASSUME NEW S
       PROVE  {st.table : st \in {Drop(t) : t \in S}} = S
  BY <1>4
<1>22. Tabs(f) = Limbs(s) /\ Tabs(g) = Stem(s)
  BY <1>12, <1>19, <1>21 DEF Tabs
<1>23. ASSUME NEW r \in R, r[1] \in Tabs(g) PROVE r[2] \notin Tabs(f)
  <2>1. ASSUME NEW n \in Own(s) PROVE r[2] \notin Branch(s, n)
    BY <1>5, <1>7, <1>22, <1>23
  <2> QED
    BY <1>6, <1>22, <2>1
<1>24. Down(s) = f \o g
  BY DEF Down, f, g, Twigs, Stump
<1>25. InOrder(f \o g, R)
  BY <1>10, <1>11, <1>18, <1>20, <1>23, OrderJoin
<1>26. IsFile(f \o g) /\ Statements(f \o g) = Statements(f) \cup Statements(g)
  BY <1>10, <1>18, FileJoin
<1>27. Statements(f \o g) = {Drop(t) : t \in TablesOf(s)}
  BY <1>6, <1>12, <1>19, <1>26
<1>28. Tabs(f \o g) = TablesOf(s)
  BY <1>21, <1>27 DEF Tabs
<1> QED
  BY <1>4, <1>24, <1>25, <1>26, <1>27, <1>28 DEF R

-----------------------------------------------------------------------------
\* What the first n entities of a project have.

TablesTo(p, n) == UNION {TablesOf(p[m]) : m \in 1..n}
PartsTo(g, p, n) == UNION {PartsOf(g, p[m]) : m \in 1..n}
RefsTo(p, n) == UNION {RefsOf(p[m]) : m \in 1..n}

LEMMA PlanLemma ==
    ASSUME NEW p \in Plans
    PROVE  /\ IsList(p) /\ Len(p) \in Nat /\ DOMAIN p = 1..Len(p)
           /\ \A n \in 1..Len(p) :
                 /\ Shape(p[n]) /\ NamesApart(p[n]) /\ KeysApart(p[n])
                 /\ TablesTo(p, n) = TablesTo(p, n - 1) \cup TablesOf(p[n])
                 /\ RefsTo(p, n) = RefsTo(p, n - 1) \cup RefsOf(p[n])
                 /\ \A g : PartsTo(g, p, n) = PartsTo(g, p, n - 1) \cup PartsOf(g, p[n])
                 /\ TablesTo(p, n - 1) \cap TablesOf(p[n]) = {}
                 /\ Needs(p[n]) \subseteq TablesTo(p, n)
                 /\ \A m \in 1..n : TablesTo(p, m) \subseteq TablesTo(p, n)
                 /\ \A g : \A x \in PartsOf(g, p[n]) : x[1] \in TablesOf(p[n])
<1>1. IsList(p) /\ Len(p) \in Nat /\ DOMAIN p = 1..Len(p)
  BY PlansAssumption, ListLemma
<1>2. ASSUME NEW n \in 1..Len(p)
      PROVE  /\ Shape(p[n]) /\ NamesApart(p[n]) /\ KeysApart(p[n])
             /\ TablesTo(p, n) = TablesTo(p, n - 1) \cup TablesOf(p[n])
             /\ RefsTo(p, n) = RefsTo(p, n - 1) \cup RefsOf(p[n])
             /\ \A g : PartsTo(g, p, n) = PartsTo(g, p, n - 1) \cup PartsOf(g, p[n])
             /\ TablesTo(p, n - 1) \cap TablesOf(p[n]) = {}
             /\ Needs(p[n]) \subseteq TablesTo(p, n)
             /\ \A m \in 1..n : TablesTo(p, m) \subseteq TablesTo(p, n)
             /\ \A g : \A x \in PartsOf(g, p[n]) : x[1] \in TablesOf(p[n])
  <2>1. /\ Shape(p[n]) /\ NamesApart(p[n]) /\ KeysApart(p[n])
        /\ Needs(p[n]) \subseteq TablesTo(p, n)
        /\ \A m \in 1..(n - 1) : TablesOf(p[m]) \cap TablesOf(p[n]) = {}
    BY <1>1, PlansAssumption DEF TablesTo
  <2>2. 1..n = 1..(n - 1) \cup {n}
    BY <1>1
  <2>3. TablesTo(p, n) = TablesTo(p, n - 1) \cup TablesOf(p[n])
    BY <2>2 DEF TablesTo
  <2>4. RefsTo(p, n) = RefsTo(p, n - 1) \cup RefsOf(p[n])
    BY <2>2 DEF RefsTo
  <2>5. ASSUME NEW g PROVE PartsTo(g, p, n) = PartsTo(g, p, n - 1) \cup PartsOf(g, p[n])
    BY <2>2 DEF PartsTo
  <2>6. TablesTo(p, n - 1) \cap TablesOf(p[n]) = {}
    BY <2>1 DEF TablesTo
  <2>7. ASSUME NEW m \in 1..n PROVE TablesTo(p, m) \subseteq TablesTo(p, n)
    <3>1. 1..m \subseteq 1..n
      BY <1>1
    <3> QED
      BY <3>1 DEF TablesTo
  <2>8. ASSUME NEW g, NEW x \in PartsOf(g, p[n]) PROVE x[1] \in TablesOf(p[n])
    <3>1. PICK st \in Statements(Up(g, p[n])) : x = <<st.table, st.part>>
      BY <2>8 DEF PartsOf
    <3> DEFINE s == p[n]
    <3>2. Shape(s) /\ NamesApart(s) /\ KeysApart(s) /\ st \in Statements(Up(g, s))
      BY <2>1, <3>1
    <3> HIDE DEF s
    <3>3. st.table \in TablesOf(s)
      BY <3>2, UpStatements
    <3> QED
      BY <3>1, <3>3 DEF s
  <2> QED
    BY <2>1, <2>3, <2>4, <2>5, <2>6, <2>7, <2>8
<1> QED
  BY <1>1, <1>2

-----------------------------------------------------------------------------
\* The inductive invariant.

Adds(f) == {<<st.table, st.part>> : st \in {x \in Statements(f) : x.op = "add"}}
Creates(f) == {st.table : st \in {x \in Statements(f) : x.op = "create"}}

This == plan[touched]
Top == IF touched # 0 THEN touched ELSE applied

\* The migrator's record.
Recorded ==
    /\ plan \in Plans /\ engine \in Engines
    /\ applied \in 0..Len(plan) /\ touched \in 0..Len(plan)
    /\ touched # 0 => applied = touched - 1
    /\ heading \in {"no", "up", "down"} /\ (heading # "no" => touched # 0)
    /\ heading = "no" => script = <<>>
    /\ IsFile(script)

\* The database has all that the applied entities have, and otherwise only what
\* is of the one that is dirty.
Between ==
    /\ TablesTo(plan, applied) \subseteq tables /\ tables \subseteq TablesTo(plan, Top)
    /\ PartsTo(engine, plan, applied) \subseteq parts /\ parts \subseteq PartsTo(engine, plan, Top)
    /\ refs \subseteq RefsTo(plan, Top)
    /\ \A p \in parts : p[1] \in tables
    /\ \A r \in refs : r[1] \in tables

\* What an up has not made is still in its script.
Rising ==
    heading = "up"
      => /\ Statements(script) \subseteq Statements(Up(engine, This))
         /\ TablesOf(This) \subseteq tables \cup Creates(script)
         /\ PartsOf(engine, This) \subseteq parts \cup Adds(script)

\* What a down has not dropped is still in its script, in an order that takes no
\* table before one that points at it.
Falling ==
    heading = "down"
      => /\ Statements(script) \subseteq Statements(Down(This))
         /\ tables \cap TablesOf(This) \subseteq Tabs(script)
         /\ InOrder(script, RefsOf(This))

\* Each statement an up has left will find what it needs and nothing of its own.
Have == {<<t, Itself>> : t \in tables} \cup parts
Fits == MirrorsFree => (heading = "up" => FileReady(script, Have))

Inv == Recorded /\ Between /\ Rising /\ Falling /\ Fits

LEMMA NoFile == IsFile(<<>>) /\ Statements(<<>>) = {}
  BY Few DEF IsFile, Statements

LEMMA InitInv == Init => Inv
<1> SUFFICES ASSUME Init PROVE Inv
  OBVIOUS
<1>1. Len(plan) \in Nat
  BY PlanLemma DEF Init
<1>2. Recorded
  BY <1>1, NoFile DEF Init, Recorded
<1>3. 1..0 = {}
  OBVIOUS
<1>4. TablesTo(plan, 0) = {} /\ PartsTo(engine, plan, 0) = {}
  BY <1>3 DEF TablesTo, PartsTo
<1>5. Between
  BY <1>4 DEF Init, Between
<1> QED
  BY <1>2, <1>5 DEF Init, Inv, Rising, Falling, Fits

\* The record of a dirty migration.
LEMMA DirtyLemma ==
    ASSUME Recorded, Between, touched # 0
    PROVE  /\ touched \in 1..Len(plan) /\ Len(plan) \in Nat /\ applied = touched - 1 /\ Top = touched
           /\ Shape(This) /\ NamesApart(This) /\ KeysApart(This)
           /\ TablesTo(plan, touched) = TablesTo(plan, applied) \cup TablesOf(This)
           /\ PartsTo(engine, plan, touched) = PartsTo(engine, plan, applied) \cup PartsOf(engine, This)
           /\ RefsTo(plan, touched) = RefsTo(plan, applied) \cup RefsOf(This)
           /\ TablesTo(plan, applied) \cap TablesOf(This) = {}
           /\ \A x \in PartsOf(engine, This) : x[1] \in TablesOf(This)
<1>1. plan \in Plans /\ touched \in 1..Len(plan) /\ Len(plan) \in Nat /\ applied = touched - 1 /\ Top = touched
  BY PlanLemma DEF Recorded, Top
<1> QED
  BY <1>1, PlanLemma, SMTT(30) DEF This

\* Tables and parts of what is applied are those of another entity.
LEMMA OthersLemma ==
    ASSUME NEW p \in Plans, NEW n \in 0..Len(p), NEW g
    PROVE  /\ \A x \in PartsTo(g, p, n) : x[1] \in TablesTo(p, n)
           /\ \A r \in RefsTo(p, n) : r[1] \in TablesTo(p, n) /\ r[2] \in TablesTo(p, n)
<1>1. Len(p) \in Nat
  BY PlanLemma
<1>2. ASSUME NEW m \in 1..n
      PROVE  /\ Shape(p[m]) /\ NamesApart(p[m])
             /\ TablesOf(p[m]) \subseteq TablesTo(p, n) /\ Needs(p[m]) \subseteq TablesTo(p, n)
             /\ \A x \in PartsOf(g, p[m]) : x[1] \in TablesOf(p[m])
  <2>1. m \in 1..Len(p) /\ n \in 1..Len(p)
    BY <1>1
  <2>2. Needs(p[m]) \subseteq TablesTo(p, m) /\ TablesTo(p, m) \subseteq TablesTo(p, n)
    BY <2>1, PlanLemma
  <2> QED
    BY <2>1, <2>2, PlanLemma DEF TablesTo
<1>3. ASSUME NEW x \in PartsTo(g, p, n) PROVE x[1] \in TablesTo(p, n)
  <2>1. PICK m \in 1..n : x \in PartsOf(g, p[m])
    BY <1>3 DEF PartsTo
  <2> QED
    BY <1>2, <2>1
<1>4. ASSUME NEW r \in RefsTo(p, n) PROVE r[1] \in TablesTo(p, n) /\ r[2] \in TablesTo(p, n)
  <2>1. PICK m \in 1..n : r \in RefsOf(p[m])
    BY <1>4 DEF RefsTo
  <2> DEFINE s == p[m]
  <2>2. Shape(s) /\ NamesApart(s) /\ r \in RefsOf(s)
    BY <1>2, <2>1
  <2> HIDE DEF s
  <2>3. r[1] \in TablesOf(s) /\ r[2] \in Needs(s)
    BY <2>2, RefLemma
  <2> QED
    BY <1>2, <2>3 DEF s
<1> QED
  BY <1>3, <1>4

\* A migration starts.
LEMMA ForwardInv == Inv /\ Forward => Inv'
<1> SUFFICES ASSUME Inv, Forward PROVE Inv'
  OBVIOUS
<1> USE DEF Inv
<1> DEFINE n == applied + 1
           s == plan[n]
<1>1. /\ touched = 0 /\ applied < Len(plan) /\ touched' = n /\ heading' = "up"
      /\ script' = Up(engine, s)
      /\ plan' = plan /\ engine' = engine /\ applied' = applied
      /\ tables' = tables /\ refs' = refs /\ parts' = parts
  BY DEF Forward, Start, db
<1>2. plan \in Plans /\ engine \in Engines /\ applied \in 0..Len(plan) /\ Len(plan) \in Nat
  BY PlanLemma DEF Recorded
<1>3. n \in 1..Len(plan) /\ n - 1 = applied /\ n # 0
  BY <1>1, <1>2
<1> HIDE DEF n
<1>4. /\ Shape(s) /\ NamesApart(s) /\ KeysApart(s)
      /\ TablesTo(plan, n) = TablesTo(plan, applied) \cup TablesOf(s)
      /\ PartsTo(engine, plan, n) = PartsTo(engine, plan, applied) \cup PartsOf(engine, s)
      /\ RefsTo(plan, n) = RefsTo(plan, applied) \cup RefsOf(s)
      /\ TablesTo(plan, applied) \cap TablesOf(s) = {}
      /\ Needs(s) \subseteq TablesTo(plan, n)
  <2>1. /\ TablesTo(plan, n) = TablesTo(plan, n - 1) \cup TablesOf(s)
        /\ RefsTo(plan, n) = RefsTo(plan, n - 1) \cup RefsOf(s)
        /\ TablesTo(plan, n - 1) \cap TablesOf(s) = {}
        /\ Shape(s) /\ NamesApart(s) /\ KeysApart(s) /\ Needs(s) \subseteq TablesTo(plan, n)
    BY <1>2, <1>3, PlanLemma
  <2>2. PartsTo(engine, plan, n) = PartsTo(engine, plan, n - 1) \cup PartsOf(engine, s)
    BY <1>2, <1>3, PlanLemma
  <2> QED
    BY <1>3, <2>1, <2>2
<1> HIDE DEF s
<1>5. /\ IsFile(Up(engine, s))
      /\ \A t \in TablesOf(s) : \E st \in Statements(Up(engine, s)) : st.op = "create" /\ st.table = t
  BY <1>4, UpStatements
<1>6. This' = s
  BY <1>1 DEF This, s
<1>7. Recorded'
  BY <1>1, <1>2, <1>3, <1>5 DEF Recorded
<1>8. Top = applied /\ Top' = n
  BY <1>1, <1>3 DEF Top
<1>9. Between'
  BY <1>1, <1>4, <1>8 DEF Between
<1>10. Rising'
  <2>1. TablesOf(s) \subseteq Creates(Up(engine, s))
    BY <1>5 DEF Creates
  <2>2. PartsOf(engine, s) = Adds(Up(engine, s))
    BY DEF PartsOf, Adds
  <2> QED
    BY <1>1, <1>6, <2>1, <2>2 DEF Rising
<1>11. Falling'
  BY <1>1 DEF Falling
<1>12. Fits'
  <2> SUFFICES ASSUME MirrorsFree PROVE FileReady(Up(engine, s), Have)
    BY <1>1 DEF Fits, Have
  <2>1. tables = TablesTo(plan, applied)
    BY <1>8 DEF Between
  <2>2. ASSUME NEW t \in TablesOf(s), NEW x PROVE <<t, x>> \notin Have
    <3>1. t \notin tables
      BY <1>4, <2>1
    <3>2. <<t, x>> \notin parts
      <4>1. <<t, x>>[1] = t
        OBVIOUS
      <4> QED
        BY <3>1, <4>1 DEF Between
    <3> QED
      BY <3>1, <3>2 DEF Have
  <2>3. ASSUME IsRole(s), s.reuse PROVE <<s.base, Itself>> \in Have
    <3>1. s.base \in Needs(s) /\ Bases(s) = {}
      BY <2>3 DEF Needs, Bases, Owns
    <3>2. s.base \notin TablesOf(s)
      <4>1. /\ s.base # s.table /\ s.base \notin ToSet(s.facets)
            /\ \A m \in Own(s) : s.base \notin Branch(s, m)
        BY <1>4, <2>3, StemLemma
      <4> QED
        BY <3>1, <4>1, TablesAre DEF Stem, Limbs
    <3>3. s.base \in tables
      BY <1>4, <2>1, <3>1, <3>2
    <3> QED
      BY <3>3 DEF Have
  <2>4. engine = "mysql" => MirrorsApart(s)
    BY <1>2, <1>3, PlanLemma DEF MirrorsFree, s
  <2> HIDE DEF Have
  <2> QED
    BY <1>4, <2>2, <2>3, <2>4, UpReady
<1> QED
  BY <1>7, <1>9, <1>10, <1>11, <1>12

\* A down starts, for one that was applied or for one that is dirty.
LEMMA DownStarts ==
    ASSUME Inv, NEW n \in 1..Len(plan), Top = n, applied' = n - 1,
           touched' = n, heading' = "down", script' = Down(plan[n]), UNCHANGED <<plan, engine, db>>
    PROVE  Inv'
<1> USE DEF Inv
<1> DEFINE s == plan[n]
<1>1. /\ plan' = plan /\ engine' = engine
      /\ tables' = tables /\ refs' = refs /\ parts' = parts /\ script' = Down(s)
  BY DEF db
<1>2. plan \in Plans /\ engine \in Engines /\ Len(plan) \in Nat /\ n \in Nat /\ n # 0
  BY PlanLemma DEF Recorded
<1>3. Shape(s) /\ NamesApart(s) /\ TablesTo(plan, n) = TablesTo(plan, n - 1) \cup TablesOf(s)
  BY <1>2, PlanLemma
<1>4. PartsTo(engine, plan, n) = PartsTo(engine, plan, n - 1) \cup PartsOf(engine, s)
  BY <1>2, PlanLemma
<1>5. /\ TablesTo(plan, n - 1) \subseteq TablesTo(plan, applied)
      /\ PartsTo(engine, plan, n - 1) \subseteq PartsTo(engine, plan, applied)
  <2>1. applied = n \/ applied = n - 1
    BY <1>2 DEF Recorded, Top
  <2> QED
    BY <1>3, <1>4, <2>1
<1>6. This' = s
  BY <1>1 DEF This
<1> HIDE DEF s
<1>7. /\ IsFile(Down(s)) /\ TablesOf(s) \subseteq Tabs(Down(s)) /\ InOrder(Down(s), RefsOf(s))
  BY <1>3, DownLemma
<1>8. Recorded'
  BY <1>1, <1>2, <1>7 DEF Recorded
<1>9. Top' = n
  BY <1>2 DEF Top
<1>10. Between'
  BY <1>1, <1>5, <1>9 DEF Between
<1>11. Falling'
  BY <1>1, <1>6, <1>7 DEF Falling
<1> QED
  BY <1>8, <1>10, <1>11 DEF Rising, Fits

LEMMA BackInv == Inv /\ Back => Inv'
<1> SUFFICES ASSUME Inv, Back PROVE Inv'
  OBVIOUS
<1>1. /\ touched = 0 /\ applied > 0 /\ applied' = applied - 1 /\ touched' = applied /\ heading' = "down"
      /\ script' = Down(plan[applied]) /\ UNCHANGED <<plan, engine, db>>
  BY DEF Back, Start
<1>2. applied \in 1..Len(plan) /\ Top = applied
  BY <1>1, PlanLemma DEF Inv, Recorded, Top
<1> QED
  BY <1>1, <1>2, DownStarts

LEMMA RecoverInv == Inv /\ Recover => Inv'
<1> SUFFICES ASSUME Inv, Recover PROVE Inv'
  OBVIOUS
<1>1. /\ touched # 0 /\ applied' = applied /\ touched' = touched /\ heading' = "down"
      /\ script' = Down(plan[touched]) /\ UNCHANGED <<plan, engine, db>>
  BY DEF Recover, Start
<1>2. touched \in 1..Len(plan) /\ Top = touched /\ applied = touched - 1
  BY <1>1, PlanLemma DEF Inv, Recorded, Top
<1> QED
  BY <1>1, <1>2, DownStarts

LEMMA FinishInv == Inv /\ Finish => Inv'
<1> SUFFICES ASSUME Inv, Finish PROVE Inv'
  OBVIOUS
<1> USE DEF Inv
<1>1. /\ heading # "no" /\ \A i \in DOMAIN script : script[i] = <<>>
      /\ script' = <<>> /\ applied' = (IF heading = "up" THEN touched ELSE touched - 1)
      /\ touched' = 0 /\ heading' = "no"
      /\ plan' = plan /\ engine' = engine /\ tables' = tables /\ refs' = refs /\ parts' = parts
  BY DEF Finish, db
<1>2. touched # 0 /\ plan \in Plans /\ engine \in Engines /\ heading \in {"up", "down"}
  BY <1>1 DEF Recorded
<1>3. /\ touched \in 1..Len(plan) /\ Len(plan) \in Nat /\ applied = touched - 1 /\ Top = touched
      /\ Shape(This) /\ NamesApart(This)
      /\ TablesTo(plan, touched) = TablesTo(plan, applied) \cup TablesOf(This)
      /\ PartsTo(engine, plan, touched) = PartsTo(engine, plan, applied) \cup PartsOf(engine, This)
      /\ RefsTo(plan, touched) = RefsTo(plan, applied) \cup RefsOf(This)
      /\ TablesTo(plan, applied) \cap TablesOf(This) = {}
      /\ \A x \in PartsOf(engine, This) : x[1] \in TablesOf(This)
  BY <1>2, DirtyLemma
<1>4. Statements(script) = {}
  BY <1>1, Few DEF Statements
<1>5. Creates(script) = {} /\ Adds(script) = {} /\ Tabs(script) = {}
  BY <1>4 DEF Creates, Adds, Tabs
<1>6. Recorded'
  BY <1>1, <1>2, <1>3, NoFile DEF Recorded
<1>7. Top' = applied'
  BY <1>1 DEF Top
<1>8. Between'
  <2>1. CASE heading = "up"
    <3>1. TablesOf(This) \subseteq tables /\ PartsOf(engine, This) \subseteq parts
      BY <1>5, <2>1 DEF Rising
    <3>2. applied' = touched
      BY <1>1, <2>1
    <3> QED
      BY <1>1, <1>3, <1>7, <3>1, <3>2 DEF Between
  <2>2. CASE heading = "down"
    <3>1. tables \cap TablesOf(This) = {}
      BY <1>5, <2>2 DEF Falling
    <3>2. applied' = applied
      BY <1>1, <1>3, <2>2
    <3>3. tables \subseteq TablesTo(plan, applied)
      BY <1>3, <3>1 DEF Between
    <3>4. parts \subseteq PartsTo(engine, plan, applied)
      <4>1. ASSUME NEW x \in parts PROVE x \in PartsTo(engine, plan, applied)
        <5>1. x[1] \notin TablesOf(This)
          BY <3>1 DEF Between
        <5> QED
          BY <1>3, <5>1 DEF Between
      <4> QED
        BY <4>1
    <3>5. refs \subseteq RefsTo(plan, applied)
      <4>1. ASSUME NEW r \in refs PROVE r \in RefsTo(plan, applied)
        <5>1. r[1] \notin TablesOf(This)
          BY <3>1 DEF Between
        <5> DEFINE s == This
        <5>2. Shape(s) /\ NamesApart(s)
          BY <1>3
        <5> HIDE DEF s
        <5>3. \A x \in RefsOf(s) : x[1] \in TablesOf(s)
          BY <5>2, RefLemma
        <5>4. r \notin RefsOf(This)
          BY <5>1, <5>3 DEF s
        <5> QED
          BY <1>3, <5>4 DEF Between
      <4> QED
        BY <4>1
    <3> QED
      BY <1>1, <1>7, <3>2, <3>3, <3>4, <3>5 DEF Between
  <2> QED
    BY <1>2, <2>1, <2>2
<1> QED
  BY <1>1, <1>6, <1>8 DEF Rising, Falling, Fits

LEMMA DieInv == Inv /\ Die => Inv'
<1> SUFFICES ASSUME Inv, Die PROVE Inv'
  OBVIOUS
<1>1. /\ heading' = "no" /\ script' = <<>> /\ plan' = plan /\ engine' = engine
      /\ tables' = tables /\ refs' = refs /\ parts' = parts /\ applied' = applied /\ touched' = touched
  BY DEF Die, db
<1>2. Recorded'
  BY <1>1, NoFile DEF Inv, Recorded
<1>3. Between'
  BY <1>1 DEF Inv, Between, Top
<1> QED
  BY <1>1, <1>2, <1>3 DEF Inv, Rising, Falling, Fits

\* A statement runs.
LEMMA ExecuteInv == Inv /\ Execute => Inv'
<1> SUFFICES ASSUME Inv, Execute PROVE Inv'
  OBVIOUS
<1> USE DEF Inv
<1>1. PICK i \in DOMAIN script :
        /\ Due(i) /\ Possible(Head(script[i])) /\ Perform(Head(script[i]))
        /\ script' = Without(script, i)
        /\ plan' = plan /\ engine' = engine /\ applied' = applied /\ touched' = touched
        /\ heading' = heading
  BY DEF Execute, Without
<1> DEFINE st == Head(script[i])
           next == Without(script, i)
<1>2. script[i] # <<>> /\ \A k \in 1..(i - 1) : script[k] = <<>>
  BY <1>1 DEF Due
<1>3. IsFile(script)
  BY DEF Recorded
<1>4. /\ IsFile(next) /\ Statements(script) = {st} \cup Statements(next)
  BY <1>2, <1>3, WithoutLemma
<1>5. heading \in {"up", "down"} /\ touched # 0
  <2>1. heading # "no"
    BY Few DEF Recorded
  <2> QED
    BY <2>1 DEF Recorded
<1>6. /\ touched \in 1..Len(plan) /\ Len(plan) \in Nat /\ applied = touched - 1 /\ Top = touched
      /\ Shape(This) /\ NamesApart(This) /\ KeysApart(This)
      /\ TablesTo(plan, touched) = TablesTo(plan, applied) \cup TablesOf(This)
      /\ PartsTo(engine, plan, touched) = PartsTo(engine, plan, applied) \cup PartsOf(engine, This)
      /\ RefsTo(plan, touched) = RefsTo(plan, applied) \cup RefsOf(This)
      /\ TablesTo(plan, applied) \cap TablesOf(This) = {}
      /\ \A x \in PartsOf(engine, This) : x[1] \in TablesOf(This)
  BY <1>5, DirtyLemma
<1>7. \A x \in PartsTo(engine, plan, applied) : x[1] \in TablesTo(plan, applied)
  <2>1. plan \in Plans /\ applied \in 0..Len(plan)
    BY DEF Recorded
  <2> QED
    BY <2>1, OthersLemma
<1>8. Recorded'
  BY <1>1, <1>4, <1>5 DEF Recorded
<1>9. This' = This /\ Top' = Top
  BY <1>1 DEF This, Top
<1> DEFINE s == This
<1>10. Shape(s) /\ NamesApart(s) /\ KeysApart(s)
  BY <1>6
<1>11. CASE heading = "up"
  <2> HIDE DEF s
  <2>1. \A x \in Statements(Up(engine, s)) :
           /\ x.op \in {"create", "add"} /\ x.table \in TablesOf(s)
           /\ x.op = "add" => Itself \notin x.over
           /\ x.op = "create" => \A t \in x.of : <<x.table, t>> \in RefsOf(s)
    BY <1>10, UpStatements
  <2>2. st \in Statements(Up(engine, s)) /\ Statements(next) \subseteq Statements(Up(engine, s))
    BY <1>4, <1>11 DEF Rising, s
  <2>3. /\ TablesOf(s) \subseteq tables \cup Creates(script)
        /\ PartsOf(engine, s) \subseteq parts \cup Adds(script)
    BY <1>11 DEF Rising, s
  <2>4. /\ MirrorsFree => /\ Wants(st) \subseteq Have
                          /\ FileReady(next, Have \cup {Gives(st)})
    <3> DEFINE H == Have
    <3>1. MirrorsFree => FileReady(script, H)
      BY <1>11 DEF Fits
    <3> HIDE DEF H
    <3>2. MirrorsFree => FileReady(next, H \cup {Gives(st)}) /\ Wants(st) \subseteq H
      BY <1>2, <1>3, <3>1, ReadyStep
    <3> QED
      BY <3>2 DEF H
  <2> HIDE DEF st, next
  <2>5. CASE st.op = "create"
    <3>1. /\ tables' = tables \cup {st.table}
          /\ refs' = refs \cup {<<st.table, t>> : t \in st.of} /\ parts' = parts
      BY <1>1, <2>5 DEF Perform, st
    <3>2. st.table \in TablesOf(s) /\ \A t \in st.of : <<st.table, t>> \in RefsOf(s)
      BY <2>1, <2>2, <2>5
    <3>3. Between'
      <4>1. tables' \subseteq TablesTo(plan, Top)
        BY <1>6, <3>1, <3>2 DEF Between, s
      <4>2. refs' \subseteq RefsTo(plan, Top) /\ \A r \in refs' : r[1] \in tables'
        BY <1>6, <3>1, <3>2 DEF Between, s
      <4> QED
        BY <1>1, <1>9, <3>1, <4>1, <4>2 DEF Between
    <3>4. Creates(script) \subseteq Creates(next) \cup {st.table} /\ Adds(script) \subseteq Adds(next)
      BY <1>4, <2>5 DEF Creates, Adds, st, next
    <3>5. Rising'
      BY <1>1, <1>9, <2>2, <2>3, <3>1, <3>4 DEF Rising, next, s
    <3>6. Fits'
      <4>1. Gives(st) = <<st.table, Itself>>
        BY <2>5 DEF Gives
      <4>2. Have' = Have \cup {<<st.table, Itself>>}
        BY <3>1 DEF Have
      <4> QED
        BY <1>1, <2>4, <4>1, <4>2 DEF Fits, next
    <3> QED
      BY <1>1, <1>8, <1>11, <3>3, <3>5, <3>6 DEF Falling
  <2>6. CASE st.op = "add"
    <3>1. /\ tables' = tables /\ refs' = refs /\ parts' = parts \cup {<<st.table, st.part>>}
      BY <1>1, <2>6 DEF Perform, st
    <3>2. st.table \in tables
      BY <1>1, <2>6 DEF Possible, st
    <3>3. <<st.table, st.part>> \in PartsOf(engine, s)
      BY <2>2, <2>6 DEF PartsOf
    <3>4. Between'
      <4>1. parts' \subseteq PartsTo(engine, plan, Top)
        BY <1>6, <3>1, <3>3 DEF Between, s
      <4>2. \A p \in parts' : p[1] \in tables
        BY <3>1, <3>2 DEF Between
      <4> QED
        BY <1>1, <1>9, <3>1, <4>1, <4>2 DEF Between
    <3>5. Creates(script) \subseteq Creates(next)
      BY <1>4, <2>6 DEF Creates, st, next
    <3>6. Adds(script) \subseteq Adds(next) \cup {<<st.table, st.part>>}
      BY <1>4, <2>6 DEF Adds, st, next
    <3>7. Rising'
      BY <1>1, <1>9, <2>2, <2>3, <3>1, <3>5, <3>6 DEF Rising, next, s
    <3>8. Fits'
      <4>1. Gives(st) = <<st.table, st.part>>
        BY <2>6 DEF Gives
      <4>2. Have' = Have \cup {<<st.table, st.part>>}
        BY <3>1 DEF Have
      <4> QED
        BY <1>1, <2>4, <4>1, <4>2 DEF Fits, next
    <3> QED
      BY <1>1, <1>8, <1>11, <3>4, <3>7, <3>8 DEF Falling
  <2> QED
    BY <2>1, <2>2, <2>5, <2>6
<1>12. CASE heading = "down"
  <2> HIDE DEF s
  <2>1. \A x \in Statements(Down(s)) : x.op = "drop" /\ x.table \in TablesOf(s)
    BY <1>10, DownLemma
  <2>2. st \in Statements(Down(s)) /\ Statements(next) \subseteq Statements(Down(s))
    BY <1>4, <1>12 DEF Falling, s
  <2>3. tables \cap TablesOf(s) \subseteq Tabs(script) /\ InOrder(script, RefsOf(s))
    BY <1>12 DEF Falling, s
  <2>4. InOrder(next, RefsOf(s))
    BY <1>2, <1>3, <2>3, OrderStep
  <2>5. Tabs(script) \subseteq {st.table} \cup Tabs(next)
    BY <1>4 DEF Tabs
  <2> HIDE DEF st, next
  <2>6. st.op = "drop" /\ st.table \in TablesOf(s)
    BY <2>1, <2>2
  <2>7. /\ tables' = tables \ {st.table}
        /\ refs' = {r \in refs : r[1] # st.table} /\ parts' = {p \in parts : p[1] # st.table}
    BY <1>1, <2>6 DEF Perform, st
  <2>8. st.table \notin TablesTo(plan, applied)
    BY <1>6, <2>6 DEF s
  <2>9. Between'
    <3>1. TablesTo(plan, applied) \subseteq tables' /\ tables' \subseteq TablesTo(plan, Top)
      BY <2>7, <2>8 DEF Between
    <3>2. PartsTo(engine, plan, applied) \subseteq parts' /\ parts' \subseteq PartsTo(engine, plan, Top)
      BY <1>7, <2>7, <2>8 DEF Between
    <3>3. /\ refs' \subseteq RefsTo(plan, Top)
          /\ \A p \in parts' : p[1] \in tables' /\ \A r \in refs' : r[1] \in tables'
      BY <2>7 DEF Between
    <3>4. \A r \in refs' : r[1] \in tables'
      BY <2>7 DEF Between
    <3> QED
      BY <1>1, <1>9, <3>1, <3>2, <3>3, <3>4 DEF Between
  <2>10. Falling'
    <3>1. tables' \cap TablesOf(s) \subseteq Tabs(next)
      BY <2>3, <2>5, <2>7
    <3> QED
      BY <1>1, <1>9, <2>2, <2>4, <3>1 DEF Falling, next, s
  <2> QED
    BY <1>1, <1>8, <1>12, <2>9, <2>10 DEF Rising, Fits
<1> QED
  BY <1>5, <1>11, <1>12

\* The database is always between what the applied entities have and what the one
\* under way or dirty adds, and the script holds the rest of its file.
THEOREM Invariance == Spec => []Inv
<1>1. Init => Inv
  BY InitInv
<1>2. Inv /\ [Next]_vars => Inv'
  <2> SUFFICES ASSUME Inv, [Next]_vars PROVE Inv'
    OBVIOUS
  <2>1. CASE UNCHANGED vars
    BY <2>1 DEF vars, db, Inv, Recorded, Between, Rising, Falling, Fits, Top, This, Have
  <2> QED
    BY <2>1, ForwardInv, BackInv, RecoverInv, ExecuteInv, FinishInv, DieInv DEF Next
<1> QED
  BY <1>1, <1>2, PTL DEF Spec

-----------------------------------------------------------------------------
\* The properties.

\* With nothing under way or dirty, the database is exactly what the applied
\* entities made (emit/migrations.go:596).
THEOREM TheDatabaseIsClean == Spec => []Clean
<1>1. Inv => Clean
  <2> SUFFICES ASSUME Inv, touched = 0 PROVE
                   /\ tables = TablesTo(plan, applied) /\ parts = PartsTo(engine, plan, applied)
                   /\ \A r \in refs : r[1] \in tables /\ r[2] \in tables
    BY DEF Clean, TablesTo, PartsTo
  <2>1. Top = applied
    BY DEF Top
  <2>2. /\ tables = TablesTo(plan, applied) /\ parts = PartsTo(engine, plan, applied)
        /\ refs \subseteq RefsTo(plan, applied)
    BY <2>1 DEF Inv, Between
  <2>3. plan \in Plans /\ applied \in 0..Len(plan)
    BY DEF Inv, Recorded
  <2> QED
    BY <2>2, <2>3, OthersLemma
<1> QED
  BY <1>1, Invariance, PTL

\* No step takes a table that an applied entity needs (emit/migrations.go:492).
THEOREM OthersAreSpared == Spec => SparesOthers
<1>1. Inv /\ Next => \A n \in 1..applied : Needs(plan[n]) \cap tables \subseteq tables'
  <2> SUFFICES ASSUME Inv, Next, NEW n \in 1..applied, NEW t \in tables, t \in Needs(plan[n])
               PROVE  t \in tables'
    OBVIOUS
  <2>1. CASE Execute
    <3>1. PICK i \in DOMAIN script : Due(i) /\ Perform(Head(script[i]))
      BY <2>1 DEF Execute
    <3> DEFINE st == Head(script[i])
    <3>2. /\ script[i] # <<>> /\ IsFile(script)
      BY <3>1 DEF Due, Inv, Recorded
    <3>3. st \in Statements(script)
      BY <3>2, WithoutLemma
    <3>4. heading \in {"up", "down"} /\ touched # 0
      BY Few DEF Inv, Recorded
    <3>5. /\ touched \in 1..Len(plan) /\ Len(plan) \in Nat /\ applied = touched - 1
          /\ Shape(This) /\ NamesApart(This) /\ KeysApart(This)
          /\ TablesTo(plan, applied) \cap TablesOf(This) = {}
      BY <3>4, DirtyLemma DEF Inv
    <3>6. t \in TablesTo(plan, applied)
      <4>1. n \in 1..Len(plan) /\ applied \in 1..Len(plan) /\ plan \in Plans
        BY <3>5 DEF Inv, Recorded
      <4>2. Needs(plan[n]) \subseteq TablesTo(plan, n) /\ TablesTo(plan, n) \subseteq TablesTo(plan, applied)
        BY <4>1, PlanLemma
      <4> QED
        BY <4>2
    <3> DEFINE s == This
    <3>7. Shape(s) /\ NamesApart(s) /\ KeysApart(s)
      BY <3>5
    <3>8. CASE heading = "up"
      <4>1. st \in Statements(Up(engine, s))
        BY <3>3, <3>8 DEF Inv, Rising
      <4> HIDE DEF s
      <4>2. st.op \in {"create", "add"}
        BY <3>7, <4>1, UpStatements
      <4> HIDE DEF st
      <4>3. tables \subseteq tables'
        BY <3>1, <4>2 DEF Perform, st
      <4> QED
        BY <4>3
    <3>9. CASE heading = "down"
      <4>1. st \in Statements(Down(s))
        BY <3>3, <3>9 DEF Inv, Falling
      <4> HIDE DEF s
      <4>2. st.op = "drop" /\ st.table \in TablesOf(s)
        BY <3>7, <4>1, DownLemma
      <4> HIDE DEF st
      <4>3. tables' = tables \ {st.table}
        BY <3>1, <4>2 DEF Perform, st
      <4>4. t # st.table
        BY <3>5, <3>6, <4>2 DEF s
      <4> QED
        BY <4>3, <4>4
    <3> QED
      BY <3>4, <3>8, <3>9
  <2>2. CASE ~Execute
    <3>1. tables' = tables
      BY <2>2 DEF Next, Forward, Back, Recover, Finish, Die, Start, db
    <3> QED
      BY <3>1
  <2> QED
    BY <2>1, <2>2
<1>2. Inv /\ [Next]_vars => [\A n \in 1..applied : Needs(plan[n]) \cap tables \subseteq tables']_vars
  BY <1>1
<1> QED
  BY <1>2, Invariance, PTL DEF Spec, SparesOthers

\* Where no column is mirrored twice, no statement of any file is refused
\* (emit/migrations.go:482, 613).
THEOREM NothingIsRefused == MirrorsFree => (Spec => []NothingRefused)
<1> SUFFICES ASSUME MirrorsFree PROVE Spec => []NothingRefused
  OBVIOUS
<1>1. Inv => NothingRefused
  <2> SUFFICES ASSUME Inv, NEW i \in DOMAIN script, Due(i) PROVE Possible(Head(script[i]))
    BY DEF NothingRefused
  <2> DEFINE st == Head(script[i])
             next == Without(script, i)
  <2>1. script[i] # <<>> /\ IsFile(script) /\ \A k \in 1..(i - 1) : script[k] = <<>>
    BY DEF Due, Inv, Recorded
  <2>2. st \in Statements(script) /\ Statements(script) = {st} \cup Statements(next)
    BY <2>1, WithoutLemma
  <2>3. heading \in {"up", "down"} /\ touched # 0
    BY Few DEF Inv, Recorded
  <2>4. /\ touched \in 1..Len(plan) /\ Len(plan) \in Nat /\ applied = touched - 1 /\ Top = touched
        /\ Shape(This) /\ NamesApart(This) /\ KeysApart(This)
        /\ TablesTo(plan, touched) = TablesTo(plan, applied) \cup TablesOf(This)
        /\ RefsTo(plan, touched) = RefsTo(plan, applied) \cup RefsOf(This)
        /\ TablesTo(plan, applied) \cap TablesOf(This) = {}
    BY <2>3, DirtyLemma DEF Inv
  <2> DEFINE s == This
  <2>5. Shape(s) /\ NamesApart(s) /\ KeysApart(s)
    BY <2>4
  <2>6. CASE heading = "up"
    <3>1. st \in Statements(Up(engine, s))
      BY <2>2, <2>6 DEF Inv, Rising
    <3> HIDE DEF s
    <3>2. st.op \in {"create", "add"} /\ (st.op = "add" => Itself \notin st.over)
      BY <2>5, <3>1, UpStatements
    <3> DEFINE H == Have
    <3>3. FileReady(script, H)
      BY <2>6 DEF Inv, Fits
    <3> HIDE DEF H
    <3>4. Gives(st) \notin H /\ Wants(st) \subseteq H
      BY <2>1, <3>3, ReadyStep
    <3> HIDE DEF st
    <3>5. ASSUME NEW t PROVE <<t, Itself>> \in H <=> t \in tables
      <4>1. <<t, Itself>> \in parts => t \in tables
        <5>1. <<t, Itself>>[1] = t
          OBVIOUS
        <5> QED
          BY <5>1 DEF Inv, Between
      <4> QED
        BY <4>1 DEF H, Have
    <3>6. CASE st.op = "create"
      <4>1. <<st.table, Itself>> \notin H /\ {<<t, Itself>> : t \in st.of} \subseteq H
        BY <3>4, <3>6 DEF Gives, Wants
      <4>2. st.table \notin tables /\ st.of \subseteq tables
        BY <3>5, <4>1
      <4> QED
        BY <3>6, <4>2 DEF Possible, st
    <3>7. CASE st.op = "add"
      <4>1. /\ <<st.table, st.part>> \notin H /\ <<st.table, Itself>> \in H
            /\ {<<st.table, p>> : p \in st.over} \subseteq H
        BY <3>4, <3>7 DEF Gives, Wants
      <4>2. {<<st.table, p>> : p \in st.over} \subseteq parts
        BY <3>2, <3>7, <4>1 DEF H, Have
      <4>3. <<st.table, st.part>> \notin parts
        BY <4>1 DEF H, Have
      <4> QED
        BY <3>5, <3>7, <4>1, <4>2, <4>3 DEF Possible, st
    <3> QED
      BY <3>2, <3>6, <3>7
  <2>7. CASE heading = "down"
    <3>1. /\ st \in Statements(Down(s)) /\ tables \cap TablesOf(s) \subseteq Tabs(script)
          /\ InOrder(script, RefsOf(s))
      BY <2>2, <2>7 DEF Inv, Falling
    <3> HIDE DEF s
    <3>2. st.op = "drop" /\ st.table \in TablesOf(s)
      BY <2>5, <3>1, DownLemma
    <3>3. \A x \in Statements(next) : <<x.table, st.table>> \notin RefsOf(s)
      BY <2>1, <3>1, OrderStep
    <3>4. ASSUME NEW r \in refs, r[2] = st.table, r[1] # st.table PROVE FALSE
      <4>1. r[1] \in tables /\ r \in RefsTo(plan, touched)
        BY <2>4 DEF Inv, Between
      <4>2. r \notin RefsTo(plan, applied)
        <5>1. plan \in Plans /\ applied \in 0..Len(plan)
          BY DEF Inv, Recorded
        <5>2. \A x \in RefsTo(plan, applied) : x[2] \in TablesTo(plan, applied)
          BY <5>1, OthersLemma
        <5> QED
          BY <2>4, <3>2, <3>4, <5>2 DEF s
      <4>3. r \in RefsOf(s)
        BY <2>4, <4>1, <4>2 DEF s
      <4>4. r[1] \in TablesOf(s)
        BY <2>5, <4>3, RefLemma
      <4>5. PICK x \in Statements(script) : x.table = r[1]
        BY <3>1, <4>1, <4>4 DEF Tabs
      <4>6. x \in Statements(next)
        BY <2>2, <3>4, <4>5
      <4>7. r = <<r[1], r[2]>>
        BY <4>3 DEF RefsOf
      <4> QED
        BY <3>3, <3>4, <4>3, <4>5, <4>6, <4>7
    <3> HIDE DEF st
    <3> QED
      BY <3>2, <3>4 DEF Possible, Unreferenced, st
  <2> QED
    BY <2>3, <2>6, <2>7
<1> QED
  BY <1>1, Invariance, PTL
=============================================================================
