---------------------------- MODULE QueueProofs ----------------------------
(***************************************************************************)
(* What the operations on the scheduler's queues do to their elements.     *)
(***************************************************************************)
EXTENDS Queues, SequenceTheorems, WellFoundedInduction, TLAPS

LEMMA ElemsEmpty == Elems(<<>>) = {} /\ Distinct(<<>>)
  BY DEF Elems, Distinct

LEMMA ElemsTyped ==
  ASSUME NEW S, NEW q \in Seq(S)
  PROVE  Elems(q) \subseteq S
  BY ElementOfSeq DEF Elems

LEMMA ElemsAppend ==
  ASSUME NEW S, NEW q \in Seq(S), NEW x \in S
  PROVE  /\ Append(q, x) \in Seq(S)
         /\ Elems(Append(q, x)) = Elems(q) \cup {x}
         /\ Distinct(q) /\ x \notin Elems(q) => Distinct(Append(q, x))
<1> DEFINE r == Append(q, x)
<1>1. /\ r \in Seq(S) /\ Len(r) = Len(q) + 1 /\ Len(q) \in Nat
      /\ \A i \in 1..Len(q) : r[i] = q[i]
      /\ r[Len(q) + 1] = x
  BY AppendProperties, LenProperties
<1> HIDE DEF r
<1>2. 1..Len(r) = 1..Len(q) \cup {Len(q) + 1}
  BY <1>1
<1>3. Elems(r) = Elems(q) \cup {x}
  BY <1>1, <1>2 DEF Elems
<1>4. ASSUME Distinct(q), x \notin Elems(q),
             NEW i \in 1..Len(r), NEW j \in 1..Len(r), r[i] = r[j]
      PROVE  i = j
  <2>1. CASE i \in 1..Len(q) /\ j \in 1..Len(q)
    BY <1>1, <1>4, <2>1 DEF Distinct
  <2>2. CASE i = Len(q) + 1 /\ j \in 1..Len(q)
    BY <1>1, <1>4, <2>2 DEF Elems
  <2>3. CASE i \in 1..Len(q) /\ j = Len(q) + 1
    BY <1>1, <1>4, <2>3 DEF Elems
  <2> QED BY <1>2, <1>4, <2>1, <2>2, <2>3
<1> QED BY <1>1, <1>3, <1>4 DEF r, Distinct

LEMMA ElemsPrepend ==
  ASSUME NEW S, NEW q \in Seq(S), NEW x \in S
  PROVE  /\ <<x>> \o q \in Seq(S)
         /\ Elems(<<x>> \o q) = Elems(q) \cup {x}
         /\ Distinct(q) /\ x \notin Elems(q) => Distinct(<<x>> \o q)
<1> DEFINE r == <<x>> \o q
<1>1. <<x>> \in Seq(S) /\ Len(<<x>>) = 1 /\ <<x>>[1] = x
  OBVIOUS
<1>2. /\ r \in Seq(S) /\ Len(r) = Len(q) + 1 /\ Len(q) \in Nat
      /\ r[1] = x /\ \A i \in 2..(Len(q) + 1) : r[i] = q[i - 1]
  BY <1>1, ConcatProperties, LenProperties
<1> HIDE DEF r
<1>3. Elems(r) = Elems(q) \cup {x}
  <2>1. \A i \in 1..Len(r) : r[i] \in Elems(q) \cup {x}
    BY <1>2 DEF Elems
  <2>2. \A i \in 1..Len(q) : i + 1 \in 2..(Len(q) + 1) /\ r[i + 1] = q[i]
    BY <1>2
  <2>3. \A i \in 1..Len(q) : q[i] \in Elems(r)
    BY <1>2, <2>2 DEF Elems
  <2>4. x \in Elems(r)
    BY <1>2 DEF Elems
  <2> QED BY <2>1, <2>3, <2>4 DEF Elems
<1>4. ASSUME Distinct(q), x \notin Elems(q),
             NEW i \in 1..Len(r), NEW j \in 1..Len(r), r[i] = r[j]
      PROVE  i = j
  <2>1. CASE i # 1 /\ j # 1
    <3>1. i - 1 \in 1..Len(q) /\ j - 1 \in 1..Len(q) /\ q[i - 1] = q[j - 1]
      BY <1>2, <1>4, <2>1
    <3> QED BY <1>2, <1>4, <3>1 DEF Distinct
  <2>2. CASE i = 1 /\ j # 1
    BY <1>2, <1>4, <2>2 DEF Elems
  <2>3. CASE i # 1 /\ j = 1
    BY <1>2, <1>4, <2>3 DEF Elems
  <2> QED BY <2>1, <2>2, <2>3
<1> QED BY <1>2, <1>3, <1>4 DEF r, Distinct

LEMMA ElemsHeadTail ==
  ASSUME NEW S, NEW q \in Seq(S), q # <<>>
  PROVE  /\ Head(q) \in S /\ Tail(q) \in Seq(S)
         /\ Elems(q) = Elems(Tail(q)) \cup {Head(q)}
         /\ Distinct(q) => Distinct(Tail(q)) /\ Head(q) \notin Elems(Tail(q))
<1> DEFINE t == Tail(q)
<1>1. /\ Head(q) \in S /\ t \in Seq(S) /\ Len(t) = Len(q) - 1
      /\ Len(q) \in Nat \ {0} /\ Head(q) = q[1]
      /\ \A i \in 1..Len(t) : t[i] = q[i + 1]
  BY HeadTailProperties, EmptySeq
<1> HIDE DEF t
<1>2. Elems(q) = Elems(t) \cup {q[1]}
  <2>1. \A i \in 1..Len(q) : i = 1 \/ (i - 1 \in 1..Len(t) /\ q[i] = t[i - 1])
    BY <1>1
  <2>2. \A i \in 1..Len(t) : i + 1 \in 1..Len(q) /\ t[i] = q[i + 1]
    BY <1>1
  <2> QED BY <1>1, <2>1, <2>2 DEF Elems
<1>3. ASSUME Distinct(q)
      PROVE  Distinct(t) /\ q[1] \notin Elems(t)
  BY <1>1, <1>3, SMTT(30) DEF Elems, Distinct
<1> QED BY <1>1, <1>2, <1>3 DEF t

LEMMA ElemsWithout ==
  ASSUME NEW S, NEW q \in Seq(S), NEW x
  PROVE  /\ Without(q, x) \in Seq(S)
         /\ Once(q, x) => Elems(Without(q, x)) = Elems(q) \ {x}
         /\ Distinct(q) => /\ Elems(Without(q, x)) = Elems(q) \ {x}
                           /\ Distinct(Without(q, x))
<1>0. Distinct(q) => Once(q, x)
  BY DEF Distinct, Once
<1>1. CASE x \notin Elems(q)
  BY <1>1 DEF Without
<1>2. CASE x \in Elems(q)
  <2> DEFINE k == IndexIn(q, x)
             a == SubSeq(q, 1, k - 1)
             b == SubSeq(q, k + 1, Len(q))
             r == a \o b
  <2>1. k \in 1..Len(q) /\ q[k] = x /\ Len(q) \in Nat
    BY <1>2, LenProperties DEF Elems, IndexIn
  <2>2. r = Without(q, x)
    BY <1>2 DEF Without
  <2> HIDE DEF k
  <2>3. /\ a \in Seq(S) /\ Len(a) = k - 1
        /\ \A i \in 1..(k - 1) : a[i] = q[i]
    <3>1. \A i \in 1..(k - 1) : q[i] \in S
      BY <2>1, ElementOfSeq
    <3>2. 1 \in Int /\ k - 1 \in Int
      BY <2>1
    <3> QED BY <2>1, <3>1, <3>2, SubSeqProperties
  <2>4. /\ b \in Seq(S) /\ Len(b) = Len(q) - k
        /\ \A i \in 1..(Len(q) - k) : b[i] = q[k + i]
    <3>1. \A i \in (k + 1)..Len(q) : q[i] \in S
      BY <2>1, ElementOfSeq
    <3>2. k + 1 \in Int /\ Len(q) \in Int
      BY <2>1
    <3> QED BY <2>1, <3>1, <3>2, SubSeqProperties
  <2> HIDE DEF a, b
  <2>5. /\ r \in Seq(S) /\ Len(r) = Len(q) - 1
        /\ \A i \in 1..(Len(q) - 1) : r[i] = IF i < k THEN q[i] ELSE q[i + 1]
    <3>1. /\ r \in Seq(S) /\ Len(r) = Len(a) + Len(b)
          /\ \A i \in 1..(Len(a) + Len(b)) :
                r[i] = IF i <= Len(a) THEN a[i] ELSE b[i - Len(a)]
      BY <2>3, <2>4, ConcatProperties
    <3> HIDE DEF r
    <3>2. Len(a) + Len(b) = Len(q) - 1
      BY <2>1, <2>3, <2>4
    <3>3. ASSUME NEW i \in 1..(Len(q) - 1)
          PROVE  r[i] = IF i < k THEN q[i] ELSE q[i + 1]
      <4>1. CASE i < k
        BY <2>1, <2>3, <3>1, <3>2, <3>3, <4>1
      <4>2. CASE ~(i < k)
        <5>1. i - (k - 1) \in 1..(Len(q) - k) /\ k + (i - (k - 1)) = i + 1
          BY <2>1, <3>3, <4>2
        <5>2. r[i] = b[i - (k - 1)]
          BY <2>1, <2>3, <3>1, <3>2, <3>3, <4>2
        <5> QED BY <2>4, <4>2, <5>1, <5>2
      <4> QED BY <4>1, <4>2
    <3> QED BY <3>1, <3>2, <3>3
  <2> HIDE DEF r
  <2>6. ASSUME Once(q, x)
        PROVE  Elems(r) = Elems(q) \ {x}
    <3>1. \A i \in 1..Len(r) : r[i] \in Elems(q) \ {x}
      BY <2>1, <2>5, <2>6 DEF Elems, Once
    <3>2. \A i \in 1..Len(q) : i < k => i \in 1..Len(r) /\ r[i] = q[i]
      BY <2>1, <2>5
    <3>3. \A i \in 1..Len(q) : i > k => i - 1 \in 1..Len(r) /\ r[i - 1] = q[i]
      BY <2>1, <2>5
    <3>4. ASSUME NEW i \in 1..Len(q), q[i] # x
          PROVE  q[i] \in Elems(r)
      <4>1. CASE i < k
        BY <3>2, <4>1 DEF Elems
      <4>2. CASE i > k
        BY <3>3, <4>2 DEF Elems
      <4>3. i # k
        BY <2>1, <3>4
      <4> QED BY <2>1, <4>1, <4>2, <4>3
    <3> QED BY <3>1, <3>4 DEF Elems
  <2>7. ASSUME Distinct(q),
               NEW i \in 1..Len(r), NEW j \in 1..Len(r), r[i] = r[j]
        PROVE  i = j
    <3> DEFINE p(n) == IF n < k THEN n ELSE n + 1
    <3>1. p(i) \in 1..Len(q) /\ p(j) \in 1..Len(q) /\ q[p(i)] = q[p(j)]
      BY <2>1, <2>5, <2>7
    <3>2. p(i) = p(j)
      BY <2>7, <3>1 DEF Distinct
    <3> QED BY <2>1, <2>5, <2>7, <3>2
  <2> QED BY <1>0, <2>2, <2>5, <2>6, <2>7 DEF Distinct
<1> QED BY <1>1, <1>2

\* A queue that takes something in, or is cut behind its k-th element.
LEMMA OnceAppend ==
  ASSUME NEW S, NEW q \in Seq(S), NEW x, NEW y \in S, Once(q, x), y # x \/ x \notin Elems(q)
  PROVE  Once(Append(q, y), x)
<1> DEFINE r == Append(q, y)
<1>1. /\ Len(r) = Len(q) + 1 /\ Len(q) \in Nat
      /\ \A i \in 1..Len(q) : r[i] = q[i]
      /\ r[Len(q) + 1] = y
  BY AppendProperties, LenProperties
<1> HIDE DEF r
<1>2. ASSUME NEW i \in 1..Len(r), NEW j \in 1..Len(r), r[i] = x, r[j] = x
      PROVE  i = j
  <2>1. CASE i \in 1..Len(q) /\ j \in 1..Len(q)
    BY <1>1, <1>2, <2>1 DEF Once
  <2>2. \A n \in 1..Len(r) : n \in 1..Len(q) \/ n = Len(q) + 1
    BY <1>1
  <2> QED BY <1>1, <1>2, <2>1, <2>2 DEF Elems
<1> QED BY <1>2 DEF Once, r

LEMMA ElemsCut ==
  ASSUME NEW S, NEW q \in Seq(S), NEW k \in 1..Len(q)
  PROVE  LET r == SubSeq(q, k + 1, Len(q))
         IN /\ r \in Seq(S)
            /\ Elems(r) = {q[i] : i \in (k + 1)..Len(q)}
            /\ \A x : Once(q, x) => Once(r, x)
<1> DEFINE r == SubSeq(q, k + 1, Len(q))
<1>1. Len(q) \in Nat /\ k \in Nat /\ k <= Len(q)
  BY LenProperties
<1>2. /\ r \in Seq(S) /\ Len(r) = Len(q) - k
      /\ \A i \in 1..(Len(q) - k) : r[i] = q[k + i]
  <2>1. \A i \in (k + 1)..Len(q) : q[i] \in S
    BY <1>1, ElementOfSeq
  <2>2. k + 1 \in Int /\ Len(q) \in Int
    BY <1>1
  <2> QED BY <1>1, <2>1, <2>2, SubSeqProperties
<1> HIDE DEF r
<1>3. Elems(r) = {q[i] : i \in (k + 1)..Len(q)}
  <2>1. \A i \in 1..Len(r) : k + i \in (k + 1)..Len(q) /\ r[i] = q[k + i]
    BY <1>1, <1>2
  <2>2. ASSUME NEW i \in (k + 1)..Len(q)
        PROVE  i - k \in 1..Len(r) /\ r[i - k] = q[i]
    <3>1. i - k \in 1..(Len(q) - k) /\ k + (i - k) = i
      BY <1>1
    <3> QED BY <1>2, <3>1
  <2> QED BY <2>1, <2>2, SMTT(40) DEF Elems
<1>4. ASSUME NEW x, Once(q, x), NEW i \in 1..Len(r), NEW j \in 1..Len(r),
             r[i] = x, r[j] = x
      PROVE  i = j
  <2>1. k + i \in 1..Len(q) /\ k + j \in 1..Len(q) /\ q[k + i] = x /\ q[k + j] = x
    BY <1>1, <1>2, <1>4
  <2>2. k + i = k + j
    BY <1>4, <2>1 DEF Once
  <2> QED BY <1>1, <2>2
<1> QED BY <1>2, <1>3, <1>4 DEF Once, r

\* What a queue that takes things in, or gives off its head, keeps of its order.
LEMMA ElemsConcat ==
  ASSUME NEW S, NEW q \in Seq(S), NEW r \in Seq(S)
  PROVE  /\ q \o r \in Seq(S)
         /\ Elems(q \o r) = Elems(q) \cup Elems(r)
         /\ \A x : Once(q, x) /\ x \notin Elems(r) => Once(q \o r, x)
         /\ \A x, y : Before(q, x, y) /\ x \notin Elems(r) => Before(q \o r, x, y)
<1> DEFINE t == q \o r
<1>1. /\ t \in Seq(S) /\ Len(q) \in Nat /\ Len(r) \in Nat /\ Len(t) = Len(q) + Len(r)
      /\ \A k \in 1..Len(t) : t[k] = IF k <= Len(q) THEN q[k] ELSE r[k - Len(q)]
  BY LenProperties, ConcatProperties
<1> HIDE DEF t
<1>2. ASSUME NEW k \in 1..Len(t)
      PROVE  \/ k \in 1..Len(q) /\ t[k] = q[k]
             \/ ~(k <= Len(q)) /\ k - Len(q) \in 1..Len(r) /\ t[k] = r[k - Len(q)]
  BY <1>1
<1>3. Elems(t) = Elems(q) \cup Elems(r)
  <2>1. \A k \in 1..Len(t) : t[k] \in Elems(q) \cup Elems(r)
    BY <1>2 DEF Elems
  <2>2. \A k \in 1..Len(q) : k \in 1..Len(t) /\ t[k] = q[k]
    BY <1>1
  <2>3. ASSUME NEW k \in 1..Len(r) PROVE Len(q) + k \in 1..Len(t) /\ t[Len(q) + k] = r[k]
    <3>1. Len(q) + k \in 1..Len(t) /\ ~(Len(q) + k <= Len(q)) /\ (Len(q) + k) - Len(q) = k
      BY <1>1
    <3> QED BY <1>1, <3>1
  <2>4. \A k \in 1..Len(q) : q[k] \in Elems(t)
    BY <2>2 DEF Elems
  <2>5. \A k \in 1..Len(r) : r[k] \in Elems(t)
    BY <2>3 DEF Elems
  <2>6. Elems(t) \subseteq Elems(q) \cup Elems(r)
    BY <2>1 DEF Elems
  <2>7. Elems(q) \subseteq Elems(t) /\ Elems(r) \subseteq Elems(t)
    BY <2>4, <2>5 DEF Elems
  <2> QED BY <2>6, <2>7
<1>4. ASSUME NEW x, x \notin Elems(r), NEW k \in 1..Len(t), t[k] = x
      PROVE  k \in 1..Len(q) /\ q[k] = x
  BY <1>2, <1>4 DEF Elems
<1>5. ASSUME NEW x, Once(q, x), x \notin Elems(r) PROVE Once(t, x)
  BY <1>4, <1>5 DEF Once
<1>6. ASSUME NEW x, NEW y, Before(q, x, y), x \notin Elems(r) PROVE Before(t, x, y)
  <2> SUFFICES ASSUME NEW i \in 1..Len(t), NEW j \in 1..Len(t), t[i] = x, t[j] = y
               PROVE  i < j
    BY DEF Before
  <2>1. i \in 1..Len(q) /\ q[i] = x
    BY <1>4, <1>6
  <2>2. CASE j \in 1..Len(q) /\ t[j] = q[j]
    BY <1>6, <2>1, <2>2 DEF Before
  <2>3. CASE ~(j <= Len(q))
    BY <1>1, <2>1, <2>3
  <2> QED BY <1>2, <2>2, <2>3
<1> QED BY <1>1, <1>3, <1>5, <1>6 DEF t

LEMMA BeforeAppend ==
  ASSUME NEW S, NEW q \in Seq(S), NEW x, NEW y, x # y, NEW z \in S,
         Before(q, x, y), z # x \/ y \notin Elems(q)
  PROVE  Before(Append(q, z), x, y)
<1> DEFINE r == Append(q, z)
<1>1. /\ Len(r) = Len(q) + 1 /\ Len(q) \in Nat
      /\ \A i \in 1..Len(q) : r[i] = q[i]
      /\ r[Len(q) + 1] = z
  BY AppendProperties, LenProperties
<1> HIDE DEF r
<1>2. \A n \in 1..Len(r) : n \in 1..Len(q) \/ n = Len(q) + 1
  BY <1>1
<1>3. ASSUME NEW i \in 1..Len(r), NEW j \in 1..Len(r), r[i] = x, r[j] = y
      PROVE  i < j
  <2>1. CASE i \in 1..Len(q) /\ j \in 1..Len(q)
    BY <1>1, <1>3, <2>1 DEF Before
  <2>2. CASE i \in 1..Len(q) /\ j = Len(q) + 1
    BY <1>1, <2>2
  <2>3. CASE i = Len(q) + 1
    BY <1>1, <1>2, <1>3, <2>3 DEF Elems
  <2> QED BY <1>2, <2>1, <2>2, <2>3
<1> QED BY <1>3 DEF Before, r

LEMMA TailKeeps ==
  ASSUME NEW S, NEW q \in Seq(S), q # <<>>
  PROVE  /\ \A x : Once(q, x) => Once(Tail(q), x)
         /\ \A x : Once(q, x) /\ Head(q) = x => x \notin Elems(Tail(q))
         /\ \A x, y : Before(q, x, y) => Before(Tail(q), x, y)
         /\ \A x, y : Before(q, x, y) /\ Head(q) = y => x \notin Elems(q)
<1>1. /\ Len(q) \in Nat \ {0} /\ Head(q) = q[1] /\ Len(Tail(q)) = Len(q) - 1
      /\ \A k \in 1..Len(Tail(q)) : k + 1 \in 1..Len(q) /\ k + 1 # 1 /\ Tail(q)[k] = q[k + 1]
  OBVIOUS
<1>2. ASSUME NEW x, Once(q, x) PROVE Once(Tail(q), x)
  <2> SUFFICES ASSUME NEW i \in 1..Len(Tail(q)), NEW j \in 1..Len(Tail(q)),
                      Tail(q)[i] = x, Tail(q)[j] = x
               PROVE  i = j
    BY DEF Once
  <2>1. i + 1 = j + 1
    BY <1>1, <1>2 DEF Once
  <2> QED BY <1>1, <2>1
<1>3. ASSUME NEW x, Once(q, x), Head(q) = x PROVE x \notin Elems(Tail(q))
  <2>1. 1 \in 1..Len(q)
    BY <1>1
  <2> QED BY <1>1, <1>3, <2>1 DEF Once, Elems
<1>4. ASSUME NEW x, NEW y, Before(q, x, y) PROVE Before(Tail(q), x, y)
  <2> SUFFICES ASSUME NEW i \in 1..Len(Tail(q)), NEW j \in 1..Len(Tail(q)),
                      Tail(q)[i] = x, Tail(q)[j] = y
               PROVE  i < j
    BY DEF Before
  <2>1. i + 1 < j + 1
    BY <1>1, <1>4 DEF Before
  <2> QED BY <1>1, <2>1
<1>5. ASSUME NEW x, NEW y, Before(q, x, y), Head(q) = y PROVE x \notin Elems(q)
  <2>1. 1 \in 1..Len(q)
    BY <1>1
  <2>2. ASSUME NEW i \in 1..Len(q), q[i] = x PROVE FALSE
    <3>1. i < 1
      BY <1>1, <1>5, <2>1, <2>2 DEF Before
    <3> QED BY <1>1, <3>1
  <2> QED BY <2>2 DEF Elems
<1> QED BY <1>2, <1>3, <1>4, <1>5

\* Every non-empty set of positions has a first one.
LEMMA FirstExists ==
  ASSUME NEW T \in SUBSET Nat, T # {}
  PROVE  \E i \in T : \A j \in T : i <= j
<1> DEFINE R == OpToRel(<, Nat)
<1>1. IsWellFoundedOn(R, Nat)
  BY NatLessThanWellFounded
<1>2. \A i, j \in Nat : j < i => <<j, i>> \in R
  BY DEF OpToRel
<1> HIDE DEF R
<1>3. PICK i \in T : \A j \in T : ~ (<<j, i>> \in R)
  BY <1>1, WFMin
<1>4. ASSUME NEW j \in T PROVE i <= j
  <2>1. i \in Nat /\ j \in Nat
    OBVIOUS
  <2>2. ~ (j < i)
    BY <1>2, <1>3, <2>1
  <2> QED BY <2>1, <2>2
<1> QED BY <1>4

-----------------------------------------------------------------------------
(* Queues whose elements have no set of their own.                          *)

IsQueue(q) == q \in Seq(Elems(q))

LEMMA QueueOfTyped == ASSUME NEW S, NEW q \in Seq(S) PROVE IsQueue(q)
<1>1. Len(q) \in Nat /\ q \in [1..Len(q) -> S] /\ DOMAIN q = 1..Len(q)
  BY LenProperties
<1>2. \A i \in 1..Len(q) : q[i] \in Elems(q)
  BY DEF Elems
<1>3. q \in [1..Len(q) -> Elems(q)]
  BY <1>1, <1>2
<1> QED BY <1>1, <1>3, IsASeq DEF IsQueue

LEMMA QueueWider ==
  ASSUME NEW q, IsQueue(q), NEW S, Elems(q) \subseteq S
  PROVE  q \in Seq(S)
BY SeqMonotonic DEF IsQueue

\* A callback joins the queue.
LEMMA Joins ==
  ASSUME NEW q, IsQueue(q), NEW e
  PROVE  /\ IsQueue(Append(q, e)) /\ Elems(Append(q, e)) = Elems(q) \cup {e}
         /\ Len(q) \in Nat /\ Len(Append(q, e)) = Len(q) + 1
         /\ \A i \in 1..Len(q) : Append(q, e)[i] = q[i]
         /\ Append(q, e)[Len(q) + 1] = e
<1> DEFINE S == Elems(q) \cup {e}
           r == Append(q, e)
<1>1. q \in Seq(S) /\ e \in S
  BY QueueWider
<1> HIDE DEF S
<1>2. r \in Seq(S) /\ Elems(r) = Elems(q) \cup {e}
  BY <1>1, ElemsAppend
<1>3. IsQueue(r)
  <2> HIDE DEF r
  <2> QED BY <1>2, QueueOfTyped
<1>4. /\ Len(q) \in Nat /\ Len(r) = Len(q) + 1
      /\ \A i \in 1..Len(q) : r[i] = q[i]
      /\ r[Len(q) + 1] = e
  BY <1>1, AppendProperties, LenProperties
<1> QED BY <1>2, <1>3, <1>4

\* The first callback of the queue runs.
LEMMA Leaves ==
  ASSUME NEW q, IsQueue(q), q # <<>>
  PROVE  /\ IsQueue(Tail(q)) /\ Elems(Tail(q)) \subseteq Elems(q) /\ Head(q) \in Elems(q)
         /\ Head(q) = q[1] /\ Len(q) \in Nat \ {0} /\ Len(Tail(q)) = Len(q) - 1
         /\ \A i \in 1..(Len(q) - 1) : Tail(q)[i] = q[i + 1]
<1> DEFINE S == Elems(q)
           t == Tail(q)
<1>1. q \in Seq(S)
  BY DEF IsQueue
<1>2. /\ t \in Seq(S) /\ Head(q) = q[1] /\ Len(q) \in Nat \ {0} /\ Len(t) = Len(q) - 1
      /\ Head(q) \in S
      /\ \A i \in 1..Len(t) : t[i] = q[i + 1]
  <2> HIDE DEF S
  <2> QED BY <1>1, HeadTailProperties, EmptySeq, LenProperties
<1> HIDE DEF t
<1>3. IsQueue(t) /\ Elems(t) \subseteq S
  BY <1>2, QueueOfTyped, ElemsTyped
<1> QED BY <1>2, <1>3 DEF t

\* The first callback runs and posts at most one more.
LEMMA RunsOf ==
  ASSUME NEW q, IsQueue(q), q # <<>>, NEW e
  PROVE  /\ Tail(q) \o <<>> = Tail(q)
         /\ Tail(q) \o <<e>> = Append(Tail(q), e)
<1> DEFINE S == Elems(q) \cup {e}
           t == Tail(q)
<1>1. t \in Seq(S) /\ e \in S
  BY Leaves, QueueWider
<1> HIDE DEF S, t
<1> QED BY <1>1, AppendIsConcat, ConcatEmptySeq DEF t

LEMMA JoinsMany ==
  ASSUME NEW q, IsQueue(q), NEW r, IsQueue(r)
  PROVE  IsQueue(q \o r) /\ Elems(q \o r) = Elems(q) \cup Elems(r)
<1> DEFINE S == Elems(q) \cup Elems(r)
           t == q \o r
<1>1. q \in Seq(S) /\ r \in Seq(S)
  BY QueueWider
<1> HIDE DEF S
<1>2. t \in Seq(S) /\ Elems(t) = Elems(q) \cup Elems(r)
  BY <1>1, ElemsConcat
<1> HIDE DEF t
<1>3. IsQueue(t)
  BY <1>2, QueueOfTyped
<1> QED BY <1>2, <1>3 DEF t

LEMMA NoQueue == IsQueue(<<>>) /\ Elems(<<>>) = {}
<1>1. <<>> \in Seq({})
  OBVIOUS
<1> QED BY <1>1, ElemsEmpty DEF IsQueue
=============================================================================
