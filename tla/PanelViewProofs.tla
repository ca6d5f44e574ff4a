--------------------------- MODULE PanelViewProofs ---------------------------
(***************************************************************************)
(* Theorems about PanelView, for every panel, exit delay and number of      *)
(* commands, retries, callbacks and troubles.                               *)
(***************************************************************************)
EXTENDS PanelView, QueueProofs, FiniteSetTheorems, TLAPS

-----------------------------------------------------------------------------
(* The order of callbacks, as far as it matters.                            *)

\* What only a session posts.
Early == {"message", "up", "disconnected"}

\* One of those stands behind the report of a disconnect.
Behind(q) ==
    \E i, j \in 1..Len(q) : i < j /\ q[i].kind = "disconnected" /\ q[j].kind \in Early

\* A message that says how the area is armed, or is about to be.
Telling(p) == p.kind = "message" /\ p.dom = "area" /\ DOMAIN p.payload \cap {"arm", "cmd"} # {}

\* The last of them, if it tells the whole of a pending arming, tells that of c.
LastTells(q, c) ==
    \A i \in 1..Len(q) :
        (/\ Telling(q[i]) /\ \A j \in 1..Len(q) : i < j => ~Telling(q[j])
         /\ Pending \subseteq DOMAIN q[i].payload)
        => q[i].payload.cmd = c

NoneTells(q) == \A p \in Elems(q) : ~Telling(p)

Quiet(q) == \A p \in Elems(q) : p.kind \notin Early

LEMMA TailOrder ==
  ASSUME NEW q, IsQueue(q), q # <<>>
  PROVE  /\ IsQueue(Tail(q)) /\ Elems(q) = {Head(q)} \cup Elems(Tail(q))
         /\ ~Behind(q) => ~Behind(Tail(q))
         /\ ~Behind(q) /\ Head(q).kind = "disconnected" =>
              \A p \in Elems(Tail(q)) : p.kind \notin Early
         /\ \A c : LastTells(q, c) => LastTells(Tail(q), c)
         /\ \A c : (/\ LastTells(q, c) /\ NoneTells(Tail(q)) /\ Telling(Head(q))
                    /\ Pending \subseteq DOMAIN Head(q).payload) => Head(q).payload.cmd = c
<1> DEFINE t == Tail(q)
           n == Len(q)
<1>1. /\ IsQueue(t) /\ Head(q) = q[1] /\ n \in Nat \ {0} /\ Len(t) = n - 1
      /\ \A i \in 1..(n - 1) : t[i] = q[i + 1]
      /\ Elems(t) \subseteq Elems(q) /\ Head(q) \in Elems(q)
  BY Leaves
<1> HIDE DEF t, n
<1>2. /\ 1 \in 1..n
      /\ \A i \in 1..Len(t) : i + 1 \in 1..n /\ i + 1 > 1 /\ t[i] = q[i + 1]
      /\ \A i, j \in 1..Len(t) : i < j <=> i + 1 < j + 1
      /\ \A i \in 1..n : i # 1 => i - 1 \in 1..Len(t) /\ t[i - 1] = q[i]
  BY <1>1
<1>3. Elems(q) = {Head(q)} \cup Elems(t)
  <2>1. ASSUME NEW p \in Elems(q) PROVE p \in {Head(q)} \cup Elems(t)
    BY <1>1, <1>2, <2>1 DEF Elems, n
  <2> QED BY <1>1, <2>1
<1>4. Behind(t) => Behind(q)
  BY <1>2 DEF Behind, n
<1>5. ASSUME ~Behind(q), Head(q).kind = "disconnected", NEW p \in Elems(t)
      PROVE  p.kind \notin Early
  BY <1>1, <1>2, <1>5 DEF Behind, Elems, n
<1>6. ASSUME NEW c, LastTells(q, c) PROVE LastTells(t, c)
  <2> SUFFICES ASSUME NEW i \in 1..Len(t), Telling(t[i]),
                      \A j \in 1..Len(t) : i < j => ~Telling(t[j]),
                      Pending \subseteq DOMAIN t[i].payload
               PROVE  t[i].payload.cmd = c
    BY DEF LastTells
  <2>1. ASSUME NEW j \in 1..n, i + 1 < j PROVE ~Telling(q[j])
    <3>1. j # 1 /\ j - 1 \in 1..Len(t) /\ i < j - 1
      BY <1>1, <1>2, <2>1
    <3> QED BY <1>2, <2>1, <3>1
  <2> QED BY <1>2, <1>6, <2>1 DEF LastTells, n
<1>7. ASSUME NEW c, LastTells(q, c), NoneTells(t), Telling(Head(q)),
             Pending \subseteq DOMAIN Head(q).payload
      PROVE  Head(q).payload.cmd = c
  <2>1. ASSUME NEW j \in 1..n, 1 < j PROVE ~Telling(q[j])
    <3>1. j # 1
      BY <2>1
    <3>2. t[j - 1] \in Elems(t) /\ t[j - 1] = q[j]
      BY <1>2, <2>1, <3>1 DEF Elems
    <3> QED BY <1>7, <3>2 DEF NoneTells
  <2> QED BY <1>1, <1>2, <1>7, <2>1 DEF LastTells, n
<1> QED BY <1>1, <1>3, <1>4, <1>5, <1>6, <1>7 DEF t

LEMMA ConcatOrder ==
  ASSUME NEW q, IsQueue(q), NEW r, IsQueue(r)
  PROVE  /\ IsQueue(q \o r) /\ Elems(q \o r) = Elems(q) \cup Elems(r)
         /\ ~Behind(q) /\ Quiet(r) => ~Behind(q \o r)
         /\ \A c : LastTells(q, c) /\ NoneTells(r) => LastTells(q \o r, c)
<1> DEFINE t == q \o r
           m == Len(q)
           n == Len(r)
<1>1. /\ m \in Nat /\ n \in Nat /\ Len(t) = m + n
      /\ \A k \in 1..(m + n) : t[k] = IF k <= m THEN q[k] ELSE r[k - m]
  <2> DEFINE S == Elems(q) \cup Elems(r)
  <2>1. q \in Seq(S) /\ r \in Seq(S)
    BY QueueWider
  <2> HIDE DEF S
  <2> QED BY <2>1, ConcatProperties, LenProperties
<1>2. IsQueue(t) /\ Elems(t) = Elems(q) \cup Elems(r)
  BY JoinsMany
<1> HIDE DEF t, m, n
<1>3. /\ \A k \in 1..Len(t) : \/ k \in 1..m /\ t[k] = q[k]
                              \/ k - m \in 1..n /\ t[k] = r[k - m] /\ k > m
      /\ \A k \in 1..m : k \in 1..Len(t) /\ t[k] = q[k]
  BY <1>1
<1>4. ASSUME Quiet(r), Behind(t) PROVE Behind(q)
  <2>1. PICK i \in 1..Len(t), j \in 1..Len(t) :
               i < j /\ t[i].kind = "disconnected" /\ t[j].kind \in Early
    BY <1>4 DEF Behind
  <2>2. \A k \in 1..n : r[k].kind \notin Early
    BY <1>4 DEF Quiet, Elems, n
  <2>3. i \in 1..m /\ j \in 1..m /\ t[i] = q[i] /\ t[j] = q[j]
    BY <1>3, <2>1, <2>2 DEF Early
  <2> QED BY <2>1, <2>3 DEF Behind, m
<1>5. ASSUME NEW c, LastTells(q, c), NoneTells(r) PROVE LastTells(t, c)
  <2> SUFFICES ASSUME NEW i \in 1..Len(t), Telling(t[i]),
                      \A j \in 1..Len(t) : i < j => ~Telling(t[j]),
                      Pending \subseteq DOMAIN t[i].payload
               PROVE  t[i].payload.cmd = c
    BY DEF LastTells
  <2>1. \A k \in 1..n : ~Telling(r[k])
    BY <1>5 DEF NoneTells, Elems, n
  <2>2. i \in 1..m /\ t[i] = q[i]
    BY <1>3, <2>1
  <2>3. \A j \in 1..m : i < j => ~Telling(q[j])
    BY <1>3
  <2> QED BY <1>5, <2>2, <2>3 DEF LastTells, m
<1> QED BY <1>2, <1>4, <1>5 DEF t

\* A message that tells is the last one when it joins.
LEMMA JoinOrder ==
  ASSUME NEW q, IsQueue(q), NEW e
  PROVE  LET r == Append(q, e)
         IN /\ IsQueue(r) /\ Elems(r) = Elems(q) \cup {e}
            /\ ~Behind(q) /\ (e.kind \in Early => \A p \in Elems(q) : p.kind # "disconnected")
                 => ~Behind(r)
            /\ \A c : LastTells(q, c) /\ ~Telling(e) => LastTells(r, c)
            /\ \A c : Telling(e) /\ (Pending \subseteq DOMAIN e.payload => e.payload.cmd = c)
                        => LastTells(r, c)
<1> DEFINE r == Append(q, e)
           n == Len(q)
<1>1. /\ IsQueue(r) /\ Elems(r) = Elems(q) \cup {e}
      /\ n \in Nat /\ Len(r) = n + 1 /\ \A i \in 1..n : r[i] = q[i]
      /\ r[n + 1] = e
  BY Joins
<1> HIDE DEF r, n
<1>2. /\ \A k \in 1..Len(r) : (k \in 1..n /\ r[k] = q[k]) \/ (k = n + 1 /\ r[k] = e)
      /\ \A k \in 1..n : k \in 1..Len(r) /\ r[k] = q[k] /\ k < n + 1
      /\ n + 1 \in 1..Len(r)
  BY <1>1
<1>3. ASSUME e.kind \in Early => \A p \in Elems(q) : p.kind # "disconnected", Behind(r)
      PROVE  Behind(q)
  <2>1. PICK i \in 1..Len(r), j \in 1..Len(r) :
               i < j /\ r[i].kind = "disconnected" /\ r[j].kind \in Early
    BY <1>3 DEF Behind
  <2>2. i \in 1..n /\ r[i] = q[i]
    BY <1>1, <1>2, <2>1
  <2>3. q[i] \in Elems(q)
    BY <2>2 DEF Elems, n
  <2>4. j \in 1..n /\ r[j] = q[j]
    BY <1>2, <1>3, <2>1, <2>2, <2>3
  <2> QED BY <2>1, <2>2, <2>4 DEF Behind, n
<1>4. ASSUME NEW c, LastTells(q, c), ~Telling(e) PROVE LastTells(r, c)
  <2> SUFFICES ASSUME NEW i \in 1..Len(r), Telling(r[i]),
                      \A j \in 1..Len(r) : i < j => ~Telling(r[j]),
                      Pending \subseteq DOMAIN r[i].payload
               PROVE  r[i].payload.cmd = c
    BY DEF LastTells
  <2>1. i \in 1..n /\ r[i] = q[i]
    BY <1>2, <1>4
  <2>2. \A j \in 1..n : i < j => ~Telling(q[j])
    BY <1>2
  <2> QED BY <1>4, <2>1, <2>2 DEF LastTells, n
<1>5. ASSUME NEW c, Telling(e), Pending \subseteq DOMAIN e.payload => e.payload.cmd = c
      PROVE  LastTells(r, c)
  <2> SUFFICES ASSUME NEW i \in 1..Len(r), Telling(r[i]),
                      \A j \in 1..Len(r) : i < j => ~Telling(r[j]),
                      Pending \subseteq DOMAIN r[i].payload
               PROVE  r[i].payload.cmd = c
    BY DEF LastTells
  <2>1. r[i] = e
    BY <1>1, <1>2, <1>5
  <2> QED BY <1>5, <2>1
<1> QED BY <1>1, <1>3, <1>4, <1>5 DEF r

-----------------------------------------------------------------------------
(* What is withdrawn when a caller gives up.                                *)

\* An element is taken out of a queue.
LEMMA Taken ==
  ASSUME NEW q, IsQueue(q), NEW k \in 1..Len(q)
  PROVE  LET r == RemoveAt(q, k)
         IN /\ IsQueue(r) /\ Elems(r) \subseteq Elems(q)
            /\ Len(r) = Len(q) - 1
            /\ \A i \in 1..Len(r) : r[i] = IF i < k THEN q[i] ELSE q[i + 1]
<1> DEFINE S == Elems(q)
           a == SubSeq(q, 1, k - 1)
           b == SubSeq(q, k + 1, Len(q))
           r == a \o b
<1>1. q \in Seq(S) /\ Len(q) \in Nat /\ k \in 1..Len(q)
  BY LenProperties DEF IsQueue
<1> HIDE DEF S
<1>2. r = RemoveAt(q, k)
  BY DEF RemoveAt
<1>3. /\ a \in Seq(S) /\ Len(a) = k - 1
      /\ \A i \in 1..(k - 1) : a[i] = q[i]
  <2>1. \A i \in 1..(k - 1) : q[i] \in S
    BY <1>1, ElementOfSeq
  <2>2. 1 \in Int /\ k - 1 \in Int
    BY <1>1
  <2> QED BY <1>1, <2>1, <2>2, SubSeqProperties
<1>4. /\ b \in Seq(S) /\ Len(b) = Len(q) - k
      /\ \A i \in 1..(Len(q) - k) : b[i] = q[k + i]
  <2>1. \A i \in (k + 1)..Len(q) : q[i] \in S
    BY <1>1, ElementOfSeq
  <2>2. k + 1 \in Int /\ Len(q) \in Int
    BY <1>1
  <2> QED BY <1>1, <2>1, <2>2, SubSeqProperties
<1> HIDE DEF a, b
<1>5. /\ r \in Seq(S) /\ Len(r) = Len(a) + Len(b)
      /\ \A i \in 1..(Len(a) + Len(b)) :
            r[i] = IF i <= Len(a) THEN a[i] ELSE b[i - Len(a)]
  BY <1>3, <1>4, ConcatProperties
<1> HIDE DEF r
<1>6. Len(a) + Len(b) = Len(q) - 1
  BY <1>1, <1>3, <1>4
<1>7. ASSUME NEW i \in 1..(Len(q) - 1)
      PROVE  r[i] = IF i < k THEN q[i] ELSE q[i + 1]
  <2>1. CASE i < k
    BY <1>1, <1>3, <1>5, <1>6, <1>7, <2>1
  <2>2. CASE ~(i < k)
    <3>1. i - (k - 1) \in 1..(Len(q) - k) /\ k + (i - (k - 1)) = i + 1
      BY <1>1, <1>7, <2>2
    <3>2. r[i] = b[i - (k - 1)]
      BY <1>1, <1>3, <1>5, <1>6, <1>7, <2>2
    <3> QED BY <1>4, <2>2, <3>1, <3>2
  <2> QED BY <2>1, <2>2
<1>8. IsQueue(r) /\ Elems(r) \subseteq Elems(q)
  <2>1. IsQueue(r) /\ Elems(r) \subseteq S
    BY <1>5, QueueOfTyped, ElemsTyped
  <2> QED BY <2>1 DEF S
<1>9. Len(r) = Len(q) - 1
  BY <1>5, <1>6
<1> HIDE DEF IsQueue
<1>10. LET x == RemoveAt(q, k)
       IN /\ IsQueue(x) /\ Elems(x) \subseteq Elems(q)
          /\ Len(x) = Len(q) - 1
          /\ \A i \in 1..Len(x) : x[i] = IF i < k THEN q[i] ELSE q[i + 1]
  BY <1>2, <1>7, <1>8, <1>9
<1> QED BY <1>10

\* w is what is left of q: in the same order, without some answers, and with messages
\* that may have lost their caller.
Remains(q, w, f) ==
    /\ f \in [1..Len(w) -> 1..Len(q)]
    /\ \A i, j \in 1..Len(w) : i < j => f[i] < f[j]
    /\ \A i \in 1..Len(w) : w[i] = IF q[f[i]].kind = "message"
                                   THEN [q[f[i]] EXCEPT !.mine = FALSE] ELSE q[f[i]]
    /\ \A i \in 1..Len(q) : q[i].kind \notin {"answer", "resume"} =>
                               \E k \in 1..Len(w) : f[k] = i

LEMMA MinIn == ASSUME NEW n \in Nat, NEW I \in SUBSET (1..n), I # {} PROVE Min(I) \in I
<1>1. I \in SUBSET Nat
  OBVIOUS
<1>2. \E i \in I : \A j \in I : i <= j
  BY <1>1, FirstExists
<1> QED BY <1>2 DEF Min

\* One answer at most is dropped, and one request.
LEMMA DroppedPost ==
  ASSUME NEW q, IsQueue(q)
  PROVE  LET r == RemoveFirstMatch(q, LAMBDA p : p.kind \in {"answer", "resume"})
         IN \/ r = q
            \/ \E k \in 1..Len(q) : q[k].kind \in {"answer", "resume"} /\ r = RemoveAt(q, k)
<1> DEFINE I == {i \in 1..Len(q) : q[i].kind \in {"answer", "resume"}}
<1>1. Len(q) \in Nat
  BY LenProperties DEF IsQueue
<1>2. CASE I # {}
  <2>1. Min(I) \in I
    BY <1>1, <1>2, MinIn
  <2> QED BY <1>2, <2>1 DEF RemoveFirstMatch, SelectInSeq
<1>3. CASE I = {}
  BY <1>3 DEF RemoveFirstMatch, SelectInSeq
<1> QED BY <1>2, <1>3

LEMMA DroppedRequest ==
  ASSUME NEW q, IsQueue(q)
  PROVE  LET r == RemoveFirstMatch(q, LAMBDA x : x.mine)
         IN r = q \/ \E k \in 1..Len(q) : r = RemoveAt(q, k)
<1> DEFINE I == {i \in 1..Len(q) : q[i].mine}
<1>1. Len(q) \in Nat
  BY LenProperties DEF IsQueue
<1>2. CASE I # {}
  <2>1. Min(I) \in I
    BY <1>1, <1>2, MinIn
  <2> QED BY <1>2, <2>1 DEF RemoveFirstMatch, SelectInSeq
<1>3. CASE I = {}
  BY <1>3 DEF RemoveFirstMatch, SelectInSeq
<1> QED BY <1>2, <1>3

\* A queue whose elements are changed one by one.
LEMMA Changed ==
  ASSUME NEW q, IsQueue(q), NEW r, r = [k \in DOMAIN q |-> r[k]]
  PROVE  IsQueue(r) /\ Len(r) = Len(q)
<1> DEFINE S == {r[k] : k \in 1..Len(q)}
           n == Len(q)
<1>1. n \in Nat /\ DOMAIN q = 1..n
  BY LenProperties DEF IsQueue
<1> HIDE DEF n
<1>2. DOMAIN r = 1..n /\ r = [k \in 1..n |-> r[k]]
  BY <1>1
<1>3. r \in [1..n -> S]
  <2>1. \A k \in 1..n : r[k] \in S
    BY DEF n
  <2> HIDE DEF S
  <2> QED BY <1>2, <2>1
<1> HIDE DEF S
<1>4. r \in Seq(S)
  BY <1>1, <1>3, IsASeq
<1>5. Len(r) = n
  BY <1>1, <1>2, <1>4, LenProperties
<1> QED BY <1>4, <1>5, QueueOfTyped DEF n

LEMMA WithdrawnPosts ==
  ASSUME IsQueue(posts), Withdraw
  PROVE  IsQueue(posts') /\ \E f : Remains(posts, posts', f)
<1> DEFINE kept == RemoveFirstMatch(posts, LAMBDA p : p.kind \in {"answer", "resume"})
           g(k) == IF kept[k].kind = "message" THEN [kept[k] EXCEPT !.mine = FALSE] ELSE kept[k]
<1>1. posts' = [k \in DOMAIN kept |-> g(k)]
  BY DEF Withdraw
<1>2. \/ kept = posts
      \/ \E k \in 1..Len(posts) :
            posts[k].kind \in {"answer", "resume"} /\ kept = RemoveAt(posts, k)
  BY DroppedPost
<1> HIDE DEF kept
<1>3. \E f : /\ IsQueue(kept) /\ f \in [1..Len(kept) -> 1..Len(posts)]
             /\ \A i, j \in 1..Len(kept) : i < j => f[i] < f[j]
             /\ \A i \in 1..Len(kept) : kept[i] = posts[f[i]]
             /\ \A i \in 1..Len(posts) : posts[i].kind \notin {"answer", "resume"} =>
                                           \E k \in 1..Len(kept) : f[k] = i
  <2>1. Len(posts) \in Nat
    BY LenProperties DEF IsQueue
  <2>2. CASE kept = posts
    <3> DEFINE f == [i \in 1..Len(posts) |-> i]
    <3>1. /\ f \in [1..Len(kept) -> 1..Len(posts)]
          /\ \A i, j \in 1..Len(kept) : i < j => f[i] < f[j]
          /\ \A i \in 1..Len(kept) : kept[i] = posts[f[i]]
          /\ \A i \in 1..Len(posts) : posts[i].kind \notin {"answer", "resume"} =>
                                         \E k \in 1..Len(kept) : f[k] = i
      BY <2>1, <2>2
    <3> HIDE DEF f
    <3> QED BY <2>2, <3>1
  <2>3. CASE \E k \in 1..Len(posts) :
                posts[k].kind \in {"answer", "resume"} /\ kept = RemoveAt(posts, k)
    <3>1. PICK k \in 1..Len(posts) :
                 posts[k].kind \in {"answer", "resume"} /\ kept = RemoveAt(posts, k)
      BY <2>3
    <3>2. /\ IsQueue(kept) /\ Len(kept) = Len(posts) - 1
          /\ \A i \in 1..Len(kept) : kept[i] = IF i < k THEN posts[i] ELSE posts[i + 1]
      BY <3>1, Taken
    <3> DEFINE f == [i \in 1..Len(kept) |-> IF i < k THEN i ELSE i + 1]
    <3>3. f \in [1..Len(kept) -> 1..Len(posts)]
      BY <2>1, <3>2
    <3>4. \A i, j \in 1..Len(kept) : i < j => f[i] < f[j]
      BY <2>1, <3>2
    <3>5. \A i \in 1..Len(kept) : kept[i] = posts[f[i]]
      BY <3>2
    <3>6. ASSUME NEW i \in 1..Len(posts), posts[i].kind \notin {"answer", "resume"}
          PROVE  \E j \in 1..Len(kept) : f[j] = i
      <4>1. i # k
        BY <3>1, <3>6
      <4>2. CASE i < k
        <5>1. i \in 1..Len(kept) /\ f[i] = i
          BY <2>1, <3>2, <4>2
        <5> QED BY <5>1
      <4>3. CASE i > k
        <5>1. i - 1 \in 1..Len(kept) /\ f[i - 1] = i
          BY <2>1, <3>2, <4>3
        <5> QED BY <5>1
      <4> QED BY <2>1, <4>1, <4>2, <4>3
    <3> HIDE DEF f
    <3> QED BY <3>2, <3>3, <3>4, <3>5, <3>6
  <2> QED BY <1>2, <2>2, <2>3
<1>4. PICK f : /\ IsQueue(kept) /\ f \in [1..Len(kept) -> 1..Len(posts)]
               /\ \A i, j \in 1..Len(kept) : i < j => f[i] < f[j]
               /\ \A i \in 1..Len(kept) : kept[i] = posts[f[i]]
               /\ \A i \in 1..Len(posts) : posts[i].kind \notin {"answer", "resume"} =>
                                             \E k \in 1..Len(kept) : f[k] = i
  BY <1>3
<1>5. /\ IsQueue(posts') /\ Len(posts') = Len(kept)
      /\ \A k \in 1..Len(kept) : posts'[k] = g(k)
  <2>1. DOMAIN kept = 1..Len(kept)
    BY <1>4, LenProperties DEF IsQueue
  <2>2. posts' = [k \in DOMAIN kept |-> posts'[k]]
    BY <1>1
  <2> QED BY <1>1, <1>4, <2>1, <2>2, Changed
<1>6. \A k \in 1..Len(kept) :
         posts'[k] = IF posts[f[k]].kind = "message"
                     THEN [posts[f[k]] EXCEPT !.mine = FALSE] ELSE posts[f[k]]
  BY <1>4, <1>5
<1> HIDE DEF g
<1>7. Remains(posts, posts', f)
  BY <1>4, <1>5, <1>6 DEF Remains
<1> QED BY <1>5, <1>7

MessageFields == {"kind", "route", "dom", "payload", "err", "mine", "reply", "truth"}

LEMMA RemainsOrder ==
  ASSUME NEW q, IsQueue(q), NEW w, IsQueue(w), NEW f, Remains(q, w, f),
         \A p \in Elems(q) : p.kind = "message" => DOMAIN p = MessageFields
  PROVE  /\ \A p \in Elems(w) : \E o \in Elems(q) :
               p = IF o.kind = "message" THEN [o EXCEPT !.mine = FALSE] ELSE o
         /\ \A o \in Elems(q) : o.kind \notin {"answer", "resume", "message"} => o \in Elems(w)
         /\ ~Behind(q) => ~Behind(w)
         /\ \A c : LastTells(q, c) => LastTells(w, c)
         /\ NoneTells(w) => NoneTells(q)
<1> DEFINE m == Len(w)
           n == Len(q)
<1>1. m \in Nat /\ n \in Nat
  BY LenProperties DEF IsQueue
<1>2. /\ \A i \in 1..m : f[i] \in 1..n
      /\ \A i, j \in 1..m : i < j => f[i] < f[j]
      /\ \A i \in 1..m : w[i] = IF q[f[i]].kind = "message"
                                THEN [q[f[i]] EXCEPT !.mine = FALSE] ELSE q[f[i]]
      /\ \A i \in 1..n : q[i].kind \notin {"answer", "resume"} => \E k \in 1..m : f[k] = i
  BY DEF Remains
<1> HIDE DEF m, n
<1>3. \A i \in 1..m, j \in 1..m : f[i] < f[j] => i < j
  <2> SUFFICES ASSUME NEW i \in 1..m, NEW j \in 1..m, f[i] < f[j], ~(i < j) PROVE FALSE
    OBVIOUS
  <2>1. f[i] \in Nat /\ f[j] \in Nat /\ i \in Nat /\ j \in Nat
    BY <1>1, <1>2
  <2>2. CASE i = j
    BY <2>1, <2>2
  <2>3. CASE j < i
    <3>1. f[j] < f[i]
      BY <1>2, <2>3
    <3> QED BY <2>1, <3>1
  <2> QED BY <2>1, <2>2, <2>3
<1>4. ASSUME NEW i \in 1..m
      PROVE  /\ w[i].kind = q[f[i]].kind
             /\ q[f[i]].kind = "message" => /\ w[i].dom = q[f[i]].dom
                                            /\ w[i].payload = q[f[i]].payload
             /\ Telling(w[i]) <=> Telling(q[f[i]])
  <2>1. CASE q[f[i]].kind = "message"
    <3>1. f[i] \in 1..n /\ q[f[i]] \in Elems(q)
      BY <1>2 DEF Elems, n
    <3>2. DOMAIN q[f[i]] = MessageFields /\ w[i] = [q[f[i]] EXCEPT !.mine = FALSE]
      BY <1>2, <2>1, <3>1
    <3> QED BY <2>1, <3>2 DEF MessageFields, Telling
  <2>2. CASE q[f[i]].kind # "message"
    BY <1>2, <2>2
  <2> QED BY <2>1, <2>2
<1>5. ASSUME NEW p \in Elems(w)
      PROVE  \E o \in Elems(q) : p = IF o.kind = "message" THEN [o EXCEPT !.mine = FALSE] ELSE o
  <2>1. PICK i \in 1..m : p = w[i]
    BY <1>5 DEF Elems, m
  <2>2. q[f[i]] \in Elems(q)
    BY <1>2 DEF Elems, n
  <2> QED BY <1>2, <2>1, <2>2
<1>6. ASSUME NEW o \in Elems(q), o.kind \notin {"answer", "resume", "message"}
      PROVE  o \in Elems(w)
  <2>1. PICK i \in 1..n : o = q[i]
    BY <1>6 DEF Elems, n
  <2>2. PICK k \in 1..m : f[k] = i
    BY <1>2, <1>6, <2>1
  <2>3. w[k] = o
    BY <1>2, <1>6, <2>1, <2>2
  <2> QED BY <2>3 DEF Elems, m
<1>7. Behind(w) => Behind(q)
  BY <1>2, <1>4 DEF Behind, m, n
<1>8. ASSUME NEW j \in 1..n, Telling(q[j]) PROVE \E k \in 1..m : f[k] = j /\ Telling(w[k])
  <2>1. PICK k \in 1..m : f[k] = j
    BY <1>2, <1>8 DEF Telling
  <2> QED BY <1>4, <1>8, <2>1
<1>9. ASSUME NEW c, LastTells(q, c) PROVE LastTells(w, c)
  <2> SUFFICES ASSUME NEW i \in 1..m, Telling(w[i]),
                      \A j \in 1..m : i < j => ~Telling(w[j]),
                      Pending \subseteq DOMAIN w[i].payload
               PROVE  w[i].payload.cmd = c
    BY DEF LastTells, m
  <2>1. f[i] \in 1..n /\ Telling(q[f[i]]) /\ w[i].payload = q[f[i]].payload
    BY <1>2, <1>4 DEF Telling
  <2>2. ASSUME NEW j \in 1..n, f[i] < j PROVE ~Telling(q[j])
    BY <1>3, <1>8, <2>2
  <2> QED BY <1>9, <2>1, <2>2 DEF LastTells, n
<1>10. NoneTells(w) => NoneTells(q)
  BY <1>8 DEF NoneTells, Elems, m, n
<1> QED BY <1>5, <1>6, <1>7, <1>9, <1>10

\* Of the requests one is taken out, or all lose their caller.
LEMMA WithdrawnRequests ==
  ASSUME IsQueue(requests), Withdraw
  PROVE  /\ IsQueue(requests')
         /\ \A r \in Elems(requests') : \E o \in Elems(requests) :
               r = o \/ r = [o EXCEPT !.mine = FALSE]
<1>1. CASE requests' = RemoveFirstMatch(requests, LAMBDA r : r.mine)
  <2>1. requests' = requests \/ \E k \in 1..Len(requests) : requests' = RemoveAt(requests, k)
    BY <1>1, DroppedRequest
  <2>2. IsQueue(requests') /\ Elems(requests') \subseteq Elems(requests)
    BY <2>1, Taken
  <2> QED BY <2>2
<1>2. CASE requests' = [k \in DOMAIN requests |-> [requests[k] EXCEPT !.mine = FALSE]]
  <2>1. DOMAIN requests = 1..Len(requests)
    BY LenProperties DEF IsQueue
  <2>2. requests' = [k \in DOMAIN requests |-> requests'[k]]
    BY <1>2
  <2>3. IsQueue(requests') /\ Len(requests') = Len(requests)
    BY <2>2, Changed
  <2>4. \A k \in 1..Len(requests) : requests'[k] = [requests[k] EXCEPT !.mine = FALSE]
    BY <1>2, <2>1
  <2> QED BY <2>3, <2>4 DEF Elems
<1> QED BY <1>1, <1>2 DEF Withdraw

-----------------------------------------------------------------------------
(* Type correctness, as far as the theorems need it: whose state is held,    *)
(* what a request names, and what messages and events say of the panel.      *)

PanelTyped ==
    /\ Domains \subseteq Domain
    /\ \A d \in Domains : DOMAIN panel[d] = Fields[d]
    /\ Has("area") => panel["area"] \in AreaStates

HeldTyped ==
    /\ held = [d \in Domains |-> held[d]]
    /\ \A d \in Domains : held[d] = [f \in DOMAIN NoFields(d) |-> held[d][f]]
    /\ Has("area") => held["area"].timer \in Nat \cup {Unknown}

ViewTyped == view = [d \in Domains |-> view[d]]

CallTyped ==
    /\ DOMAIN call = {"stage", "dom", "order", "busy", "heard", "cut"}
    /\ call.stage # "idle" => call.dom \in Domains

IsRequest(r) ==
    /\ DOMAIN r = {"route", "dom", "order", "mine"}
    /\ r.dom \in Domains /\ r.route \in {"get", "bulk", "arm", "set"}

RequestsTyped == IsQueue(requests) /\ \A r \in Elems(requests) : IsRequest(r)

\* A message says what was so when it was sent; a read always does, and an error says
\* nothing.
IsMessage(p) ==
    /\ DOMAIN p = MessageFields /\ p.dom \in Domains
    /\ DOMAIN p.payload \subseteq Fields[p.dom]
    /\ Key[p.dom] \in DOMAIN p.payload => p.payload[Key[p.dom]] = p.truth
    /\ p.route \in {"get", "bulk"} /\ p.err = "none" => Key[p.dom] \in DOMAIN p.payload
    /\ p.err # "none" \/ p.route = "troubles" => DOMAIN p.payload = {}
    /\ p.dom = "area" /\ "timer" \in DOMAIN p.payload => p.payload.timer \in Nat

IsCurrent(p) == p.confirmed /\ ~p.beside /\ p.dom \notin {"lock", "barrier"} => p.tells = p.truth

IsPost(p) ==
    /\ "kind" \in DOMAIN p
    /\ p.kind = "message" => IsMessage(p)
    /\ p.kind = "status" => IsCurrent(p)

PostsTyped == IsQueue(posts) /\ \A p \in Elems(posts) : IsPost(p)

Typed == PanelTyped /\ HeldTyped /\ ViewTyped /\ CallTyped /\ RequestsTyped /\ PostsTyped

-----------------------------------------------------------------------------
(* The inductive invariant.                                                  *)

Waits(kind) == \E p \in Elems(posts) : p.kind = kind
StatusWaits(d) == \E p \in Elems(posts) : p.kind = "status" /\ p.dom = d

\* Nothing of a session comes after the report of its loss.
Ordered ==
    /\ ~Behind(posts)
    /\ Waits("disconnected") => link = "broken"
    /\ link = "down" => ~Waits("message") /\ ~Waits("up")

\* What the snapshot does not show yet is on its way to it.
Fits(d) == view[d] = BuildMap(d, held[d])

ShownSoon ==
    /\ \A d \in Domains \ {"area"} : Fits(d) \/ StatusWaits(d)
    /\ link = "up" => /\ Has("area") => Fits("area") \/ StatusWaits("area")
                      /\ staleShown = stale \/ Waits("up")
    /\ link = "down" => \/ Waits("lost")
                        \/ (Has("area") => Fits("area")) /\ staleShown = stale

\* The last message about arming, or with none left what is held, is the panel's.
ArmingHeard ==
    (link = "up" /\ Has("area") /\ ~silent) =>
      /\ LastTells(posts, panel["area"].cmd)
      /\ NoneTells(posts) /\ Arming(AreaMap(held["area"])) =>
            held["area"].cmd = panel["area"].cmd

ViewInv == Typed /\ Ordered /\ ShownSoon /\ ArmingHeard

-----------------------------------------------------------------------------
(* The handlers.                                                             *)

LEMMA Names ==
  /\ \A d \in Domain : Key[d] \in Fields[d] /\ Fields[d] \subseteq DOMAIN NoFields(d)
  /\ \A d \in Domain : NoFields(d) = [f \in DOMAIN NoFields(d) |-> Unknown]
  /\ Key["area"] = "arm" /\ Fields["area"] = {"arm", "cmd", "timer", "zone"}
  /\ DOMAIN NoFields("area") = {"arm", "cmd", "timer", "zone"}
  /\ Key["zone"] = "bypassed" /\ Fields["zone"] = {"bypassed", "violated"}
  /\ DOMAIN NoFields("zone") = {"bypassed", "violated"}
  /\ \A d \in Domain \ {"area", "zone"} :
        Key[d] = "status" /\ Fields[d] = {"status"} /\ "status" \in DOMAIN NoFields(d)
  /\ \A d \in {"output", "light", "lock"} : DOMAIN NoFields(d) = {"status", "on"}
  /\ {"area", "zone", "output", "light", "lock", "barrier", "tstat"} = Domain
BY DEF Key, Fields, NoFields, Domain

\* What a message leads to: news of kinds that only events and answers have.
News(new) ==
    /\ IsQueue(new)
    /\ \A p \in Elems(new) :
          IsPost(p) /\ p.kind \in {"answer", "resume", "status", "troubles", "lost"}

Folded(m, h) ==
    /\ h = [f \in DOMAIN NoFields(m.dom) |-> h[f]]
    /\ m.dom = "area" => h.timer \in Nat \cup {Unknown}

Outcome(m, h, new) ==
    /\ held' = [held EXCEPT ![m.dom] = h]
    /\ posts' = Tail(posts) \o new
    /\ News(new)
    /\ h # held[m.dom] => \E p \in Elems(new) : p.kind = "status" /\ p.dom = m.dom

LEMMA ReplyNews == ASSUME NEW m PROVE News(Reply(m))
<1> DEFINE a == Answer("answer", m)
<1>1. "kind" \in DOMAIN a /\ a.kind = "answer"
  BY DEF Answer
<1> HIDE DEF a
<1>2. <<a>> \in Seq({a}) /\ Elems(<<a>>) = {a}
  BY DEF Elems
<1>3. News(<<a>>)
  BY <1>1, <1>2, QueueOfTyped DEF News, IsPost
<1>4. News(<<>>)
  BY NoQueue DEF News
<1> QED BY <1>3, <1>4 DEF Reply, a

LEMMA EventNews ==
  ASSUME NEW m, NEW e, "kind" \in DOMAIN e /\ e.kind = "status" /\ e.dom = m.dom, IsCurrent(e)
  PROVE  LET new == Reply(m) \o <<e>>
         IN News(new) /\ \E p \in Elems(new) : p.kind = "status" /\ p.dom = m.dom
<1> DEFINE new == Reply(m) \o <<e>>
<1>1. "kind" \in DOMAIN e /\ e.kind = "status" /\ e.dom = m.dom
  OBVIOUS
<1>2. <<e>> \in Seq({e}) /\ Elems(<<e>>) = {e}
  BY DEF Elems
<1>3. IsQueue(<<e>>) /\ IsQueue(Reply(m))
  BY <1>2, QueueOfTyped, ReplyNews DEF News
<1>4. IsQueue(new) /\ Elems(new) = Elems(Reply(m)) \cup {e}
  BY <1>2, <1>3, JoinsMany
<1> HIDE DEF new
<1>5. News(new)
  BY <1>1, <1>4, ReplyNews DEF News, IsPost
<1> QED BY <1>1, <1>4, <1>5 DEF new

LEMMA UnmovedOutcome ==
  ASSUME HeldTyped, NEW m, m.dom \in Domains, Unmoved(m)
  PROVE  Outcome(m, held[m.dom], Reply(m)) /\ Folded(m, held[m.dom])
<1>1. held' = [held EXCEPT ![m.dom] = held[m.dom]]
  BY DEF Unmoved, state, HeldTyped
<1>2. Folded(m, held[m.dom])
  BY DEF HeldTyped, Folded, Has
<1> QED BY <1>1, <1>2, ReplyNews DEF Unmoved, Emit, Outcome

LEMMA AppliedOutcome ==
  ASSUME NEW m, NEW h, NEW done, NEW c, NEW s,
         IsCurrent(Event(m, h, c, s)), Apply(m, h, done, <<Event(m, h, c, s)>>)
  PROVE  Outcome(m, h, Reply(m) \o <<Event(m, h, c, s)>>)
<1> DEFINE e == Event(m, h, c, s)
<1>1. "kind" \in DOMAIN e /\ e.kind = "status" /\ e.dom = m.dom /\ IsCurrent(e)
  BY DEF Event
<1> HIDE DEF e
<1> QED BY <1>1, EventNews DEF Apply, Emit, Outcome, e

LEMMA BesideOutcome ==
  ASSUME NEW m, NEW h, TellBeside(m, h)
  PROVE  \E new : Outcome(m, h, new)
<1> DEFINE e == [Event(m, h, TRUE, TRUE) EXCEPT !.beside = TRUE]
<1>1. "kind" \in DOMAIN e /\ e.kind = "status" /\ e.dom = m.dom /\ IsCurrent(e)
  BY DEF Event, IsCurrent
<1>2. Apply(m, h, complete, <<e>>)
  BY DEF TellBeside
<1> HIDE DEF e
<1>3. Outcome(m, h, Reply(m) \o <<e>>)
  BY <1>1, <1>2, EventNews DEF Apply, Emit, Outcome
<1> QED BY <1>3

LEMMA PatchFacts ==
  ASSUME NEW h, NEW p
  PROVE  /\ DOMAIN Patch(h, p) = DOMAIN h
         /\ Patch(h, p) = [f \in DOMAIN h |-> Patch(h, p)[f]]
         /\ \A f \in DOMAIN h : f \in DOMAIN p => Patch(h, p)[f] = p[f]
         /\ DOMAIN p = {} /\ h = [f \in DOMAIN h |-> h[f]] => Patch(h, p) = h
BY DEF Patch

-----------------------------------------------------------------------------
(* The exit delay.                                                           *)

LEMMA ArmingArea ==
  ASSUME NEW h
  PROVE  /\ AreaMap(h).arm_cmd_mode \in Modes => AreaMap(h).arm_cmd_mode = h.cmd
         /\ Arming(AreaMap(h)) <=> /\ h.arm = "DISARMED" /\ h.cmd \in Modes /\ h.zone = ""
                                   /\ h.timer # Unknown /\ h.timer > 0
BY PanelViewBounds DEF AreaMap, Arming, Modes

IsArea(h) == h = [f \in Fields["area"] |-> h[f]] /\ h.timer \in Nat \cup {Unknown}

LEMMA ForgetFacts ==
  ASSUME NEW h, NEW fields
  PROVE  /\ DOMAIN Forget(h, fields) = DOMAIN h
         /\ Forget(h, fields) = [f \in DOMAIN h |-> Forget(h, fields)[f]]
         /\ \A f \in DOMAIN h : Forget(h, fields)[f] = IF f \in fields THEN Unknown ELSE h[f]
BY DEF Forget

\* What is left of a pending arming was reported in full, or was there before and nothing
\* but its timer was reported, which has not gone up.
LEMMA ExitDelayFacts ==
  ASSUME NEW h, IsArea(h), NEW p, DOMAIN p \subseteq Fields["area"],
         "timer" \in DOMAIN p => p.timer \in Nat
  PROVE  LET x == ExitDelay(h, p).fields
         IN /\ IsArea(x)
            /\ "arm" \in DOMAIN p => x.arm = p.arm
            /\ Arming(AreaMap(x)) =>
                 \/ Pending \subseteq DOMAIN p /\ x.cmd = p.cmd
                 \/ /\ DOMAIN p \cap {"arm", "cmd"} = {} /\ Arming(AreaMap(h))
                    /\ x.cmd = h.cmd /\ ~(x.timer > h.timer)
<1> DEFINE x == ExitDelay(h, p).fields
           new == Patch(h, p)
           armed == new.arm \notin {Unknown, "DISARMED"}
           gone == IF armed THEN Pending ELSE Pending \ DOMAIN p
           runs == complete /\ h.timer # Unknown
           A == {"arm", "cmd", "timer", "zone"}
<1>1. /\ A = Fields["area"] /\ DOMAIN h = A /\ h = [f \in A |-> h[f]] /\ DOMAIN p \subseteq A
      /\ h.timer \in Nat \cup {Unknown}
  BY Names DEF IsArea
<1>2. /\ DOMAIN new = A /\ new = [f \in A |-> new[f]]
      /\ \A f \in A : new[f] = IF f \in DOMAIN p THEN p[f] ELSE h[f]
  BY <1>1 DEF Patch
<1>3. new.timer \in Nat \cup {Unknown}
  BY <1>1, <1>2
<1>4. /\ x = CASE DOMAIN p = {} -> IF armed THEN Forget(new, Pending) ELSE new
              [] DOMAIN p = {"timer"} /\ runs /\ p.timer # 0 ->
                   [new EXCEPT !.timer = IF p.timer > h.timer THEN h.timer ELSE p.timer]
              [] OTHER -> Forget(new, gone)
  BY DEF ExitDelay
<1> HIDE DEF x, new
<1>5. CASE DOMAIN p = {} /\ armed
  <2>1. x = Forget(new, Pending)
    BY <1>4, <1>5
  <2>2. IsArea(x) /\ x.cmd = Unknown
    BY <1>1, <1>2, <2>1, ForgetFacts DEF IsArea, Pending
  <2>3. ~Arming(AreaMap(x))
    BY <2>2, ArmingArea, PanelViewBounds DEF Modes
  <2> QED BY <1>5, <2>2, <2>3 DEF x
<1>6. CASE DOMAIN p = {} /\ ~armed
  <2>1. x = new /\ \A f \in A : new[f] = h[f]
    BY <1>2, <1>4, <1>6
  <2>2. x = h
    BY <1>1, <1>2, <2>1
  <2>3. Arming(AreaMap(x)) => ~(x.timer > h.timer)
    <3>1. Arming(AreaMap(h)) => h.timer # Unknown
      BY ArmingArea
    <3> QED BY <1>1, <2>2, <3>1
  <2> QED BY <1>6, <2>2, <2>3 DEF x
<1>7. CASE DOMAIN p = {"timer"} /\ runs /\ p.timer # 0
  <2> DEFINE t == IF p.timer > h.timer THEN h.timer ELSE p.timer
  <2>1. x = [new EXCEPT !.timer = t]
    BY <1>4, <1>7
  <2>2. /\ h.timer \in Nat /\ p.timer \in Nat \ {0} /\ t \in Nat /\ ~(t > h.timer)
        /\ t > 0 => h.timer > 0
    BY <1>1, <1>7
  <2> HIDE DEF t
  <2>3. x.timer = t /\ x.arm = h.arm /\ x.cmd = h.cmd /\ x.zone = h.zone
    BY <1>1, <1>2, <1>7, <2>1
  <2>4. IsArea(x)
    BY <1>1, <1>2, <2>1, <2>2, <2>3 DEF IsArea
  <2>5. Arming(AreaMap(x)) => Arming(AreaMap(h))
    BY <1>7, <2>2, <2>3, ArmingArea
  <2> QED BY <1>7, <2>2, <2>3, <2>4, <2>5 DEF x
<1>8. CASE DOMAIN p # {} /\ ~(DOMAIN p = {"timer"} /\ runs /\ p.timer # 0)
  <2>1. x = Forget(new, gone)
    BY <1>4, <1>8
  <2>2. DOMAIN x = A /\ x = [f \in A |-> x[f]]
        /\ \A f \in A : x[f] = IF f \in gone THEN Unknown ELSE new[f]
    BY <1>2, <2>1, ForgetFacts
  <2>3. IsArea(x)
    BY <1>1, <1>3, <2>2 DEF IsArea
  <2>4. "arm" \in DOMAIN p => x.arm = p.arm
    BY <1>2, <2>2 DEF Pending
  <2>5. ASSUME Arming(AreaMap(x)) PROVE Pending \subseteq DOMAIN p /\ x.cmd = p.cmd
    <3>1. x.cmd \in Modes /\ x.zone = "" /\ x.timer # Unknown
      BY <2>5, ArmingArea
    <3>2. x.cmd # Unknown /\ x.zone # Unknown /\ x.timer # Unknown
      BY <3>1, PanelViewBounds DEF Modes
    <3>3. gone \cap Pending = {}
      BY <2>2, <3>2 DEF Pending
    <3>4. ~armed /\ Pending \subseteq DOMAIN p
      BY <3>3 DEF Pending
    <3> QED BY <1>2, <2>2, <3>3, <3>4 DEF Pending
  <2> QED BY <2>3, <2>4, <2>5 DEF x
<1> QED BY <1>5, <1>6, <1>7, <1>8

-----------------------------------------------------------------------------
(* A message changes what is held of its domain, and tells it if it did.     *)

LEMMA AreaFolds ==
  ASSUME Typed, NEW m, IsMessage(m), m.dom = "area",
         NEW h, h = ExitDelay(held["area"], m.payload).fields
  PROVE  /\ Folded(m, h)
         /\ "arm" \in DOMAIN m.payload => h.arm = m.truth
<1>1. /\ Has("area") /\ IsArea(held["area"]) /\ DOMAIN m.payload \subseteq Fields["area"]
      /\ "timer" \in DOMAIN m.payload => m.payload.timer \in Nat
      /\ "arm" \in DOMAIN m.payload => m.payload.arm = m.truth
  BY Names DEF Typed, HeldTyped, PanelTyped, Has, IsMessage, IsArea
<1>2. IsArea(h) /\ ("arm" \in DOMAIN m.payload => h.arm = m.payload.arm)
  BY <1>1, ExitDelayFacts
<1> QED BY <1>1, <1>2, Names DEF Folded, IsArea

LEMMA AreaHandled ==
  ASSUME Typed, NEW m, IsMessage(m), m.dom = "area",
         \/ m.route = "get" /\ AreaGetStatus(m)
         \/ m.route = "set" /\ AreaSetStatus(m)
         \/ m.route = "arm" /\ AreaSetArmState(m)
         \/ m.route = "troubles" /\ AreaGetTroubles(m)
  PROVE  \E h, new : /\ Outcome(m, h, new) /\ Folded(m, h)
                     /\ \/ h = ExitDelay(held["area"], m.payload).fields
                        \/ h = held["area"] /\ DOMAIN m.payload = {}
<1> DEFINE x == ExitDelay(held["area"], m.payload)
           h == x.fields
<1>1. /\ HeldTyped /\ m.dom \in Domains /\ Key["area"] = "arm"
      /\ m.err # "none" \/ m.route = "troubles" => DOMAIN m.payload = {}
      /\ m.route = "get" /\ m.err = "none" => "arm" \in DOMAIN m.payload
  BY Names DEF Typed, IsMessage
<1>2. Folded(m, h) /\ ("arm" \in DOMAIN m.payload => h.arm = m.truth)
  BY AreaFolds
<1>3. ASSUME NEW c, NEW s, s => "arm" \in DOMAIN m.payload PROVE IsCurrent(Event(m, h, c, s))
  BY <1>1, <1>2, <1>3 DEF IsCurrent, Event
<1> HIDE DEF x
<1>4. CASE Unmoved(m) /\ m.err # "none"
  BY <1>1, <1>4, UnmovedOutcome
<1>5. CASE m.route = "get" /\ m.err = "none" /\ AreaGetStatus(m)
  <2>1. PICK other \in BOOLEAN :
               Apply(m, h, x.done, <<Event(m, h, other \/ h # held["area"], TRUE)>>)
    BY <1>5 DEF AreaGetStatus, x
  <2> HIDE DEF h
  <2>2. IsCurrent(Event(m, h, other \/ h # held["area"], TRUE))
    BY <1>1, <1>3, <1>5
  <2>3. Outcome(m, h, Reply(m) \o <<Event(m, h, other \/ h # held["area"], TRUE)>>)
    BY <2>1, <2>2, AppliedOutcome
  <2> QED BY <1>2, <2>3 DEF h, x
<1>6. CASE m.route = "arm" /\ m.err = "none" /\ AreaSetArmState(m)
  <2>1. PICK other \in BOOLEAN :
               Apply(m, h, x.done, <<Event(m, h, other \/ h # held["area"], Confirms(m))>>)
    BY <1>6 DEF AreaSetArmState, x
  <2> HIDE DEF h
  <2>2. IsCurrent(Event(m, h, other \/ h # held["area"], Confirms(m)))
    BY <1>1, <1>3 DEF Confirms
  <2>3. Outcome(m, h, Reply(m) \o <<Event(m, h, other \/ h # held["area"], Confirms(m))>>)
    BY <2>1, <2>2, AppliedOutcome
  <2> QED BY <1>2, <2>3 DEF h, x
<1>7. CASE m.route = "set" /\ AreaSetStatus(m)
  <2>1. \/ Apply(m, h, x.done, <<Event(m, h, TRUE, Confirms(m))>>)
        \/ h = held["area"] /\ Apply(m, h, x.done, <<>>)
    BY <1>7 DEF AreaSetStatus, x
  <2> HIDE DEF h
  <2>2. CASE Apply(m, h, x.done, <<Event(m, h, TRUE, Confirms(m))>>)
    <3>1. IsCurrent(Event(m, h, TRUE, Confirms(m)))
      BY <1>1, <1>3 DEF Confirms
    <3>2. Outcome(m, h, Reply(m) \o <<Event(m, h, TRUE, Confirms(m))>>)
      BY <2>2, <3>1, AppliedOutcome
    <3> QED BY <1>2, <3>2 DEF h, x
  <2>3. CASE h = held["area"] /\ Apply(m, h, x.done, <<>>)
    <3>1. Reply(m) \o <<>> = Reply(m) /\ News(Reply(m))
      BY ReplyNews, ConcatEmptySeq DEF News, IsQueue
    <3>2. Outcome(m, h, Reply(m))
      BY <2>3, <3>1 DEF Apply, Emit, Outcome
    <3> QED BY <1>2, <3>2 DEF h, x
  <2> QED BY <2>1, <2>2, <2>3
<1>8. CASE m.route = "troubles" /\ AreaGetTroubles(m)
  <2> DEFINE p == Post("troubles")
             new == <<p>>
  <2>1. "kind" \in DOMAIN p /\ p.kind = "troubles"
    BY DEF Post
  <2> HIDE DEF p
  <2>2. new \in Seq({p}) /\ Elems(new) = {p}
    BY DEF Elems
  <2>3. News(new)
    BY <2>1, <2>2, QueueOfTyped DEF News, IsPost
  <2>4. held' = [held EXCEPT !["area"] = held["area"]] /\ posts' = Tail(posts) \o new
    BY <1>1, <1>8 DEF AreaGetTroubles, state, HeldTyped, Emit, p
  <2> HIDE DEF new
  <2>5. Outcome(m, held["area"], new)
    BY <2>3, <2>4 DEF Outcome
  <2>6. Folded(m, held["area"])
    BY <1>1 DEF HeldTyped, Folded, Has
  <2> QED BY <1>1, <1>8, <2>5, <2>6
<1> QED BY <1>4, <1>5, <1>6, <1>7, <1>8 DEF AreaGetStatus, AreaSetArmState

\* In the other domains a handler takes over what the message says.
Takes(m, h) ==
    /\ Folded(m, h)
    /\ Key[m.dom] \in DOMAIN m.payload => h[Key[m.dom]] = m.truth
    /\ h # held[m.dom] => DOMAIN m.payload # {}

LEMMA TellOutcome ==
  ASSUME NEW m, NEW h, Takes(m, h), NEW sure, Tell(m, h, sure),
         sure /\ m.dom \notin {"lock", "barrier"} => Key[m.dom] \in DOMAIN m.payload
  PROVE  \E new : Outcome(m, h, new)
<1>1. IsCurrent(Event(m, h, h # held[m.dom], sure))
  BY DEF IsCurrent, Event, Takes
<1> QED BY <1>1, AppliedOutcome DEF Tell

LEMMA StatusOutcome ==
  ASSUME HeldTyped, NEW m, IsMessage(m), NEW h, Takes(m, h), StatusRead(m, h),
         m.route \in {"get", "bulk"}
  PROVE  \E x, new : Outcome(m, x, new) /\ Folded(m, x)
<1>1. m.dom \in Domains /\ (m.err = "none" => Key[m.dom] \in DOMAIN m.payload)
  BY DEF IsMessage
<1>2. CASE m.err # "none"
  BY <1>1, <1>2, UnmovedOutcome DEF StatusRead
<1>3. CASE m.err = "none"
  <2>1. \E new : Outcome(m, h, new)
    BY <1>1, <1>3, TellOutcome DEF StatusRead
  <2> QED BY <2>1 DEF Takes
<1> QED BY <1>2, <1>3

LEMMA ToldOutcome ==
  ASSUME HeldTyped, NEW m, IsMessage(m), NEW h, Takes(m, h), NEW sure,
         Unmoved(m) \/ Tell(m, h, sure),
         sure /\ m.dom \notin {"lock", "barrier"} => Key[m.dom] \in DOMAIN m.payload
  PROVE  \E x, new : Outcome(m, x, new) /\ Folded(m, x)
<1>1. CASE Unmoved(m)
  BY <1>1, UnmovedOutcome DEF IsMessage
<1>2. CASE Tell(m, h, sure)
  BY <1>2, TellOutcome DEF Takes
<1> QED BY <1>1, <1>2

LEMMA ChangeOutcome ==
  ASSUME HeldTyped, NEW m, IsMessage(m), NEW h, Takes(m, h), TellChange(m, h),
         Fields[m.dom] = {Key[m.dom]}
  PROVE  \E x, new : Outcome(m, x, new) /\ Folded(m, x)
<1>1. CASE h # held[m.dom]
  <2>1. Key[m.dom] \in DOMAIN m.payload
    BY <1>1 DEF Takes, IsMessage
  <2>2. Tell(m, h, TRUE)
    BY <1>1 DEF TellChange
  <2> QED BY <2>1, <2>2, TellOutcome DEF Takes
<1>2. CASE Unmoved(m)
  BY <1>2, UnmovedOutcome DEF IsMessage
<1>3. CASE TellBeside(m, h)
  BY <1>3, BesideOutcome DEF Takes
<1> QED BY <1>1, <1>2, <1>3 DEF TellChange

LEMMA PatchTakes ==
  ASSUME Typed, NEW m, IsMessage(m), m.dom # "area"
  PROVE  Takes(m, Patch(held[m.dom], m.payload))
<1> DEFINE h == Patch(held[m.dom], m.payload)
           k == Key[m.dom]
<1>1. /\ m.dom \in Domains /\ m.dom \in Domain
      /\ held[m.dom] = [f \in DOMAIN NoFields(m.dom) |-> held[m.dom][f]]
      /\ k \in DOMAIN m.payload => m.payload[k] = m.truth
      /\ k \in DOMAIN NoFields(m.dom)
  BY Names DEF Typed, HeldTyped, PanelTyped, IsMessage
<1>2. h = [f \in DOMAIN NoFields(m.dom) |-> h[f]]
  BY <1>1, PatchFacts
<1>3. k \in DOMAIN m.payload => h[k] = m.truth
  BY <1>1, PatchFacts
<1>4. h # held[m.dom] => DOMAIN m.payload # {}
  BY <1>1, PatchFacts
<1> QED BY <1>2, <1>3, <1>4 DEF Takes, Folded

LEMMA FlagTakes ==
  ASSUME Typed, NEW m, IsMessage(m), m.dom \in {"output", "light", "lock"},
         NEW h, \/ DOMAIN m.payload = {} /\ h = held[m.dom]
                \/ /\ DOMAIN m.payload # {}
                   /\ \E on : h = [status |-> m.payload.status, on |-> on]
  PROVE  Takes(m, h)
<1>1. /\ m.dom \in Domains /\ held[m.dom] = [f \in DOMAIN NoFields(m.dom) |-> held[m.dom][f]]
      /\ "status" \in DOMAIN m.payload => m.payload.status = m.truth
      /\ Key[m.dom] = "status" /\ DOMAIN NoFields(m.dom) = {"status", "on"}
  BY Names DEF Typed, HeldTyped, IsMessage
<1> QED BY <1>1 DEF Takes, Folded

LEMMA OthersHandled ==
  ASSUME Typed, NEW m, IsMessage(m), m.dom # "area",
         \/ Is(m, "zone", "get") /\ ZoneGetStatus(m)
         \/ Is(m, "zone", "set") /\ ZoneSetStatus(m)
         \/ Is(m, "zone", "bulk") /\ ZoneGetAll(m)
         \/ Is(m, "output", "get") /\ OutputGetStatus(m)
         \/ Is(m, "output", "set") /\ OutputSetStatus(m)
         \/ Is(m, "output", "bulk") /\ OutputGetAll(m)
         \/ Is(m, "light", "get") /\ LightGetStatus(m)
         \/ Is(m, "light", "set") /\ LightSetStatus(m)
         \/ Is(m, "lock", "get") /\ LockGetStatus(m)
         \/ Is(m, "lock", "set") /\ LockSetStatus(m)
         \/ Is(m, "barrier", "get") /\ BarrierGetStatus(m)
         \/ Is(m, "barrier", "set") /\ BarrierSetStatus(m)
         \/ Is(m, "tstat", "get") /\ TstatGetStatus(m)
         \/ Is(m, "tstat", "set") /\ TstatSetStatus(m)
  PROVE  \E h, new : Outcome(m, h, new) /\ Folded(m, h)
<1>1. HeldTyped /\ Takes(m, Patch(held[m.dom], m.payload))
  BY PatchTakes DEF Typed
<1>2. CASE m.dom = "zone" /\ m.route \in {"get", "bulk"}
  BY <1>1, <1>2, StatusOutcome DEF Is, ZoneGetStatus, ZoneGetAll, ZoneFields
<1>3. CASE Is(m, "zone", "set") /\ ZoneSetStatus(m)
  <2>1. Unmoved(m) \/ Tell(m, Patch(held[m.dom], m.payload), Confirms(m))
    BY <1>3 DEF Is, ZoneSetStatus, ZoneFields
  <2> QED BY <1>1, <2>1, ToldOutcome DEF Confirms
<1>4. CASE m.dom \in {"barrier", "tstat"} /\ m.route = "get"
  BY <1>1, <1>4, StatusOutcome
     DEF Is, BarrierGetStatus, TstatGetStatus, BarrierFields, TstatFields
<1>5. CASE Is(m, "barrier", "set") /\ BarrierSetStatus(m)
  <2>1. Tell(m, Patch(held[m.dom], m.payload), TRUE)
    BY <1>5 DEF Is, BarrierSetStatus, BarrierFields
  <2> QED BY <1>1, <1>5, <2>1, ToldOutcome DEF Is
<1>6. CASE Is(m, "tstat", "set") /\ TstatSetStatus(m)
  <2>1. Unmoved(m) \/ TellChange(m, Patch(held[m.dom], m.payload))
    BY <1>6 DEF Is, TstatSetStatus, TstatFields
  <2>2. Fields[m.dom] = {Key[m.dom]}
    BY <1>6, Names DEF Is
  <2> QED BY <1>1, <2>1, <2>2, ChangeOutcome, UnmovedOutcome DEF IsMessage
<1>7. CASE m.dom = "output"
  <2> DEFINE h == OutputFields(held["output"], m.payload)
  <2>1. Takes(m, h)
    BY <1>7, FlagTakes DEF OutputFields
  <2>2. Fields[m.dom] = {Key[m.dom]}
    BY <1>7, Names
  <2>3. (m.route \in {"get", "bulk"} /\ StatusRead(m, h)) \/ TellChange(m, h)
    BY <1>7 DEF Is, OutputGetStatus, OutputGetAll, OutputSetStatus
  <2> HIDE DEF h
  <2> QED BY <1>1, <2>1, <2>2, <2>3, StatusOutcome, ChangeOutcome
<1>8. CASE m.dom \in {"light", "lock"}
  <2> DEFINE h == Switched(held[m.dom], m.payload)
  <2>1. Takes(m, h)
    BY <1>8, FlagTakes DEF Switched
  <2>2. \/ m.route = "get" /\ StatusRead(m, h)
        \/ m.dom = "light" /\ Confirms(m) /\ Tell(m, h, TRUE)
        \/ Unmoved(m)
        \/ m.dom = "lock" /\ Tell(m, h, TRUE)
    BY <1>8 DEF Is, LightGetStatus, LightSetStatus, LockGetStatus, LockSetStatus,
                LightFields, LockFields
  <2> HIDE DEF h
  <2>3. CASE m.route = "get" /\ StatusRead(m, h)
    BY <1>1, <2>1, <2>3, StatusOutcome
  <2>4. CASE Unmoved(m)
    BY <1>1, <2>4, UnmovedOutcome DEF IsMessage
  <2>5. CASE (m.dom = "lock" \/ Confirms(m)) /\ Tell(m, h, TRUE)
    BY <1>1, <2>1, <2>5, ToldOutcome DEF Confirms
  <2> QED BY <2>2, <2>3, <2>4, <2>5
<1> QED BY <1>2, <1>3, <1>4, <1>5, <1>6, <1>7, <1>8 DEF Is

LEMMA Handled ==
  ASSUME Typed, OnMessage
  PROVE  /\ posts # <<>> /\ IsMessage(Head(posts))
         /\ \E h, new : /\ Outcome(Head(posts), h, new) /\ Folded(Head(posts), h)
                        /\ Head(posts).dom = "area" =>
                             \/ h = ExitDelay(held["area"], Head(posts).payload).fields
                             \/ h = held["area"] /\ DOMAIN Head(posts).payload = {}
<1> DEFINE m == Head(posts)
<1>1. posts # <<>> /\ m.kind = "message"
  BY DEF OnMessage
<1>2. m \in Elems(posts)
  BY <1>1, Leaves DEF Typed, PostsTyped
<1>3. IsMessage(m)
  BY <1>1, <1>2 DEF Typed, PostsTyped, IsPost
<1>4. CASE m.dom = "area"
  <2>1. \/ m.route = "get" /\ AreaGetStatus(m)
        \/ m.route = "set" /\ AreaSetStatus(m)
        \/ m.route = "arm" /\ AreaSetArmState(m)
        \/ m.route = "troubles" /\ AreaGetTroubles(m)
    BY <1>4 DEF OnMessage, Is
  <2> HIDE DEF m
  <2>2. \E h, new : /\ Outcome(m, h, new) /\ Folded(m, h)
                    /\ \/ h = ExitDelay(held["area"], m.payload).fields
                       \/ h = held["area"] /\ DOMAIN m.payload = {}
    BY <1>3, <1>4, <2>1, AreaHandled
  <2> QED BY <1>1, <1>3, <2>2 DEF m
<1>5. CASE m.dom # "area"
  <2>1. \/ Is(m, "zone", "get") /\ ZoneGetStatus(m)
        \/ Is(m, "zone", "set") /\ ZoneSetStatus(m)
        \/ Is(m, "zone", "bulk") /\ ZoneGetAll(m)
        \/ Is(m, "output", "get") /\ OutputGetStatus(m)
        \/ Is(m, "output", "set") /\ OutputSetStatus(m)
        \/ Is(m, "output", "bulk") /\ OutputGetAll(m)
        \/ Is(m, "light", "get") /\ LightGetStatus(m)
        \/ Is(m, "light", "set") /\ LightSetStatus(m)
        \/ Is(m, "lock", "get") /\ LockGetStatus(m)
        \/ Is(m, "lock", "set") /\ LockSetStatus(m)
        \/ Is(m, "barrier", "get") /\ BarrierGetStatus(m)
        \/ Is(m, "barrier", "set") /\ BarrierSetStatus(m)
        \/ Is(m, "tstat", "get") /\ TstatGetStatus(m)
        \/ Is(m, "tstat", "set") /\ TstatSetStatus(m)
    BY <1>5 DEF OnMessage, Is
  <2> HIDE DEF m
  <2>2. \E h, new : Outcome(m, h, new) /\ Folded(m, h)
    BY <1>3, <1>5, <2>1, OthersHandled
  <2> QED BY <1>1, <1>3, <1>5, <2>2 DEF m
<1> QED BY <1>4, <1>5

-----------------------------------------------------------------------------
(* How the callbacks change.                                                 *)

Told == {"answer", "resume", "status", "troubles", "lost"}

\* The first one is run, and leads to others.
LEMMA Taking ==
  ASSUME PostsTyped, posts # <<>>, Domains' = Domains,
         NEW new, News(new), posts' = Tail(posts) \o new
  PROVE  /\ PostsTyped'
         /\ ~Behind(posts) => ~Behind(posts')
         /\ \A k : k \notin Told /\ Waits(k)' => Waits(k)
         /\ ~Behind(posts) /\ Head(posts).kind = "disconnected" =>
              \A k \in Early : ~Waits(k)'
         /\ \A k : Waits(k) /\ Head(posts).kind # k => Waits(k)'
         /\ \A d : StatusWaits(d) /\ ~(Head(posts).kind = "status" /\ Head(posts).dom = d) =>
              StatusWaits(d)'
         /\ \A p \in Elems(new) : p \in Elems(posts')
         /\ \A c : LastTells(posts, c) => LastTells(posts', c)
         /\ NoneTells(posts') /\ ~Telling(Head(posts)) => NoneTells(posts)
         /\ NoneTells(posts') /\ Telling(Head(posts))
             /\ Pending \subseteq DOMAIN Head(posts).payload =>
              \A c : LastTells(posts, c) => Head(posts).payload.cmd = c
<1> DEFINE t == Tail(posts)
<1>1. IsQueue(posts) /\ \A p \in Elems(posts) : IsPost(p)
  BY DEF PostsTyped
<1>2. /\ IsQueue(t) /\ Elems(posts) = {Head(posts)} \cup Elems(t)
      /\ ~Behind(posts) => ~Behind(t)
      /\ ~Behind(posts) /\ Head(posts).kind = "disconnected" =>
           \A p \in Elems(t) : p.kind \notin Early
      /\ \A c : LastTells(posts, c) => LastTells(t, c)
      /\ \A c : (/\ LastTells(posts, c) /\ NoneTells(t) /\ Telling(Head(posts))
                 /\ Pending \subseteq DOMAIN Head(posts).payload) => Head(posts).payload.cmd = c
  BY <1>1, TailOrder
<1>3. IsQueue(new) /\ \A p \in Elems(new) : IsPost(p) /\ p.kind \in Told
  BY DEF News, Told
<1>4. Quiet(new) /\ NoneTells(new)
  BY <1>3 DEF Quiet, NoneTells, Telling, Told, Early
<1>5. /\ IsQueue(posts') /\ Elems(posts') = Elems(t) \cup Elems(new)
      /\ ~Behind(t) => ~Behind(posts')
      /\ \A c : LastTells(t, c) => LastTells(posts', c)
  BY <1>2, <1>3, <1>4, ConcatOrder
<1> HIDE DEF t
<1>6. PostsTyped'
  <2>1. \A p : IsPost(p) => IsPost(p)'
    BY DEF IsPost, IsMessage, IsCurrent
  <2> QED BY <1>1, <1>2, <1>3, <1>5, <2>1 DEF PostsTyped
<1>7. \A k : k \notin Told /\ Waits(k)' => Waits(k)
  BY <1>2, <1>3, <1>5 DEF Waits
<1>8. ASSUME ~Behind(posts), Head(posts).kind = "disconnected", NEW k \in Early PROVE ~Waits(k)'
  BY <1>2, <1>3, <1>5, <1>8 DEF Waits, Told, Early
<1>9. \A k : Waits(k) /\ Head(posts).kind # k => Waits(k)'
  BY <1>2, <1>5 DEF Waits
<1>10. \A d : StatusWaits(d) /\ ~(Head(posts).kind = "status" /\ Head(posts).dom = d) =>
          StatusWaits(d)'
  BY <1>2, <1>5 DEF StatusWaits
<1>11. NoneTells(posts') => NoneTells(t)
  BY <1>5 DEF NoneTells
<1>12. NoneTells(posts') /\ ~Telling(Head(posts)) => NoneTells(posts)
  BY <1>2, <1>11 DEF NoneTells
<1> QED BY <1>2, <1>5, <1>6, <1>7, <1>8, <1>9, <1>10, <1>11, <1>12

LEMMA NoNews == ASSUME NEW q, IsQueue(q) PROVE q = q \o <<>> /\ News(<<>>)
<1>1. News(<<>>)
  BY NoQueue DEF News
<1> QED BY <1>1, ConcatEmptySeq DEF IsQueue

\* One is posted.
LEMMA Sending ==
  ASSUME PostsTyped, Domains' = Domains, NEW e, IsPost(e), posts' = Append(posts, e)
  PROVE  /\ PostsTyped'
         /\ ~Behind(posts) /\ (e.kind \in Early => ~Waits("disconnected")) => ~Behind(posts')
         /\ \A k : Waits(k)' <=> Waits(k) \/ e.kind = k
         /\ \A d : StatusWaits(d) => StatusWaits(d)'
         /\ ~Telling(e) => /\ \A c : LastTells(posts, c) => LastTells(posts', c)
                           /\ NoneTells(posts') => NoneTells(posts)
         /\ Telling(e) => /\ ~NoneTells(posts')
                          /\ \A c : (Pending \subseteq DOMAIN e.payload => e.payload.cmd = c) =>
                               LastTells(posts', c)
<1>1. IsQueue(posts) /\ \A p \in Elems(posts) : IsPost(p)
  BY DEF PostsTyped
<1>2. /\ IsQueue(posts') /\ Elems(posts') = Elems(posts) \cup {e}
      /\ ~Behind(posts) /\ (e.kind \in Early => \A p \in Elems(posts) : p.kind # "disconnected")
           => ~Behind(posts')
      /\ \A c : LastTells(posts, c) /\ ~Telling(e) => LastTells(posts', c)
      /\ \A c : Telling(e) /\ (Pending \subseteq DOMAIN e.payload => e.payload.cmd = c)
                  => LastTells(posts', c)
  BY <1>1, JoinOrder
<1>3. PostsTyped'
  <2>1. \A p : IsPost(p) => IsPost(p)'
    BY DEF IsPost, IsMessage, IsCurrent
  <2> QED BY <1>1, <1>2, <2>1 DEF PostsTyped
<1>4. \A k : Waits(k)' <=> Waits(k) \/ e.kind = k
  BY <1>2 DEF Waits
<1>5. \A d : StatusWaits(d) => StatusWaits(d)'
  BY <1>2 DEF StatusWaits
<1>6. /\ NoneTells(posts') => NoneTells(posts)
      /\ Telling(e) => ~NoneTells(posts')
  BY <1>2 DEF NoneTells
<1>7. (\A p \in Elems(posts) : p.kind # "disconnected") <=> ~Waits("disconnected")
  BY DEF Waits
<1> QED BY <1>2, <1>3, <1>4, <1>5, <1>6, <1>7

\* They stay, but for what is withdrawn.
LEMMA Withdrawing ==
  ASSUME PostsTyped, Domains' = Domains, Withdraw \/ posts' = posts
  PROVE  /\ PostsTyped'
         /\ ~Behind(posts) => ~Behind(posts')
         /\ \A k : Waits(k)' => Waits(k)
         /\ \A k : Waits(k) /\ k \notin {"answer", "resume", "message"} => Waits(k)'
         /\ \A d : StatusWaits(d) => StatusWaits(d)'
         /\ \A c : LastTells(posts, c) => LastTells(posts', c)
         /\ NoneTells(posts') => NoneTells(posts)
<1>1. IsQueue(posts) /\ \A p \in Elems(posts) : IsPost(p)
  BY DEF PostsTyped
<1>2. \A p : IsPost(p) => IsPost(p)'
  BY DEF IsPost, IsMessage, IsCurrent
<1>3. CASE posts' = posts
  <2>1. PostsTyped'
    BY <1>1, <1>2, <1>3 DEF PostsTyped
  <2> QED BY <1>3, <2>1 DEF Waits, StatusWaits
<1>4. CASE Withdraw
  <2>1. IsQueue(posts') /\ \E f : Remains(posts, posts', f)
    BY <1>1, <1>4, WithdrawnPosts
  <2>2. \A p \in Elems(posts) : p.kind = "message" => DOMAIN p = MessageFields
    BY <1>1 DEF IsPost, IsMessage
  <2>3. /\ \A p \in Elems(posts') : \E o \in Elems(posts) :
             p = IF o.kind = "message" THEN [o EXCEPT !.mine = FALSE] ELSE o
        /\ \A o \in Elems(posts) : o.kind \notin {"answer", "resume", "message"} =>
             o \in Elems(posts')
        /\ ~Behind(posts) => ~Behind(posts')
        /\ \A c : LastTells(posts, c) => LastTells(posts', c)
        /\ NoneTells(posts') => NoneTells(posts)
    BY <1>1, <2>1, <2>2, RemainsOrder
  <2>4. ASSUME NEW o \in Elems(posts)
        PROVE  LET p == IF o.kind = "message" THEN [o EXCEPT !.mine = FALSE] ELSE o
               IN p.kind = o.kind /\ (IsPost(o) => IsPost(p))
    <3>1. CASE o.kind = "message"
      <4> DEFINE p == [o EXCEPT !.mine = FALSE]
      <4>1. DOMAIN o = MessageFields
        BY <2>2, <3>1
      <4>2. /\ DOMAIN p = MessageFields /\ p.kind = "message" /\ p.dom = o.dom
            /\ p.payload = o.payload /\ p.truth = o.truth /\ p.route = o.route /\ p.err = o.err
        BY <3>1, <4>1 DEF MessageFields
      <4> HIDE DEF p
      <4>3. IsPost(o) => IsPost(p)
        BY <3>1, <4>2 DEF IsPost, IsMessage, MessageFields
      <4> QED BY <3>1, <4>2, <4>3 DEF p
    <3>2. CASE o.kind # "message"
      BY <3>2
    <3> QED BY <3>1, <3>2
  <2>5. \A p \in Elems(posts') : IsPost(p) /\ \E o \in Elems(posts) : p.kind = o.kind
    BY <1>1, <2>3, <2>4
  <2>6. PostsTyped'
    BY <1>2, <2>1, <2>5 DEF PostsTyped
  <2>7. \A k : Waits(k)' => Waits(k)
    BY <2>5 DEF Waits
  <2>8. \A k : Waits(k) /\ k \notin {"answer", "resume", "message"} => Waits(k)'
    BY <2>3 DEF Waits
  <2>9. \A d : StatusWaits(d) => StatusWaits(d)'
    BY <2>3 DEF StatusWaits
  <2> QED BY <2>3, <2>6, <2>7, <2>8, <2>9
<1> QED BY <1>3, <1>4

-----------------------------------------------------------------------------
(* The requests.                                                             *)

LEMMA DomainFinite == ASSUME NEW ds \in SUBSET Domain PROVE IsFiniteSet(ds)
<1>1. IsFiniteSet({})
  BY FS_EmptySet
<1>2. IsFiniteSet({"area"})
  BY <1>1, FS_AddElement
<1>3. IsFiniteSet({"area", "zone"})
  BY <1>2, FS_AddElement
<1>4. IsFiniteSet({"area", "zone", "output"})
  BY <1>3, FS_AddElement
<1>5. IsFiniteSet({"area", "zone", "output", "light"})
  BY <1>4, FS_AddElement
<1>6. IsFiniteSet({"area", "zone", "output", "light", "lock"})
  BY <1>5, FS_AddElement
<1>7. IsFiniteSet({"area", "zone", "output", "light", "lock", "barrier"})
  BY <1>6, FS_AddElement
<1>8. IsFiniteSet(Domain)
  BY <1>7, FS_AddElement DEF Domain
<1> QED BY <1>8, FS_Subset

LEMMA StatusesAsked ==
  ASSUME NEW ds \in SUBSET Domain
  PROVE  /\ IsQueue(InitialStatuses(ds))
         /\ \A r \in Elems(InitialStatuses(ds)) : \E d \in ds : r = Request("get", d, "none", FALSE)
<1> DEFINE S == {Request("get", d, "none", FALSE) : d \in ds}
           n == Cardinality(S)
           q == SetToSeq(S)
<1>1. IsFiniteSet(ds)
  BY DomainFinite
<1>2. IsFiniteSet(S)
  <2> DEFINE f == [d \in ds |-> Request("get", d, "none", FALSE)]
  <2>1. f \in Surjection(ds, S)
    BY DEF Surjection
  <2> HIDE DEF f
  <2> QED BY <1>1, <2>1, FS_Surjection
<1>3. InitialStatuses(ds) = q /\ \A r \in S : \E d \in ds : r = Request("get", d, "none", FALSE)
  BY DEF InitialStatuses
<1> HIDE DEF S
<1>4. n \in Nat /\ ExistsBijection(1..n, S)
  BY <1>2, FS_CardinalityType
<1>5. \E f \in [1..n -> S] : IsInjective(f)
  BY <1>4 DEF ExistsBijection, Bijection, Injection
<1>6. q \in [1..n -> S]
  BY <1>5 DEF SetToSeq
<1>7. q \in Seq(S)
  BY <1>4, <1>6, IsASeq
<1> HIDE DEF q, n
<1>8. IsQueue(q) /\ Elems(q) \subseteq S
  BY <1>7, QueueOfTyped, ElemsTyped
<1> QED BY <1>3, <1>8

LEMMA OneRequest ==
  ASSUME NEW route \in {"get", "bulk", "arm", "set"}, NEW d \in Domains, NEW v, NEW mine
  PROVE  IsRequest(Request(route, d, v, mine))
BY DEF Request, IsRequest

LEMMA BulkZonesTyped == IsQueue(BulkZones) /\ \A r \in Elems(BulkZones) : IsRequest(r)
<1> DEFINE r == Request("bulk", "zone", "none", FALSE)
<1>1. Has("zone") => IsRequest(r)
  BY OneRequest DEF Has
<1> HIDE DEF r
<1>2. <<r>> \in Seq({r}) /\ Elems(<<r>>) = {r}
  BY DEF Elems
<1>3. IsQueue(<<r>>)
  BY <1>2, QueueOfTyped
<1> QED BY <1>1, <1>2, <1>3, NoQueue DEF BulkZones, r

\* What becomes of the requests.
LEMMA RequestsFollow ==
  ASSUME RequestsTyped, Domains' = Domains, Domains \subseteq Domain,
         \/ requests' = requests
         \/ requests # <<>> /\ requests' = Tail(requests)
         \/ requests' = requests \o BulkZones
         \/ \E v, mine : \E route \in {"get", "bulk", "arm", "set"}, d \in Domains :
               requests' = Append(requests, Request(route, d, v, mine))
         \/ requests' = InitialStatuses(Domains)
         \/ requests' = <<>>
         \/ Withdraw
  PROVE  RequestsTyped'
<1>1. IsQueue(requests) /\ \A r \in Elems(requests) : IsRequest(r)
  BY DEF RequestsTyped
<1> SUFFICES IsQueue(requests') /\ \A r \in Elems(requests') : IsRequest(r)
  <2>1. \A r : IsRequest(r) => IsRequest(r)'
    BY DEF IsRequest
  <2> QED BY <2>1 DEF RequestsTyped
<1>2. CASE requests' = requests
  BY <1>1, <1>2
<1>3. CASE requests # <<>> /\ requests' = Tail(requests)
  BY <1>1, <1>3, Leaves
<1>4. CASE requests' = requests \o BulkZones
  BY <1>1, <1>4, BulkZonesTyped, JoinsMany
<1>5. CASE \E v, mine : \E route \in {"get", "bulk", "arm", "set"}, d \in Domains :
              requests' = Append(requests, Request(route, d, v, mine))
  <2>1. PICK r : IsRequest(r) /\ requests' = Append(requests, r)
    BY <1>5, OneRequest
  <2> QED BY <1>1, <2>1, Joins
<1>6. CASE requests' = InitialStatuses(Domains)
  <2>1. /\ IsQueue(requests')
        /\ \A r \in Elems(requests') : \E d \in Domains : r = Request("get", d, "none", FALSE)
    BY <1>6, StatusesAsked
  <2>2. \A d \in Domains : IsRequest(Request("get", d, "none", FALSE))
    BY OneRequest
  <2> QED BY <2>1, <2>2
<1>7. CASE requests' = <<>>
  BY <1>7, NoQueue
<1>8. CASE Withdraw
  <2>1. /\ IsQueue(requests')
        /\ \A r \in Elems(requests') : \E o \in Elems(requests) :
              r = o \/ r = [o EXCEPT !.mine = FALSE]
    BY <1>1, <1>8, WithdrawnRequests
  <2>2. \A o : IsRequest(o) => IsRequest([o EXCEPT !.mine = FALSE])
    BY DEF IsRequest
  <2> QED BY <1>1, <2>1, <2>2
<1> QED BY <1>2, <1>3, <1>4, <1>5, <1>6, <1>7, <1>8

-----------------------------------------------------------------------------
(* What a step leaves of the invariant.                                      *)

LEMMA HeldStays ==
  ASSUME HeldTyped, Domains' = Domains, held' = held
  PROVE  HeldTyped'
BY DEF HeldTyped, Has, NoFields, Fields

LEMMA ViewStays ==
  ASSUME ViewTyped, HeldTyped, Domains' = Domains, view' = view \/ view' = BuildMaps(held)
  PROVE  ViewTyped'
BY DEF ViewTyped, HeldTyped, BuildMaps

LEMMA PanelStays ==
  ASSUME PanelTyped, panel' = panel
  PROVE  PanelTyped' /\ Domains' = Domains
BY DEF PanelTyped, Has, Domains

\* A reset takes back what is pending, and shows it.
LEMMA ResetFacts ==
  ASSUME HeldTyped, ViewTyped, Domains' = Domains, ResetBootstrap
  PROVE  /\ HeldTyped' /\ ViewTyped'
         /\ Has("area") => Fits("area")' /\ ~Arming(AreaMap(held'["area"]))
         /\ \A d \in Domains \ {"area"} : Fits(d) => Fits(d)'
<1>1. /\ DOMAIN held = Domains /\ DOMAIN view = Domains
      /\ held' = [d \in Domains |-> IF d = "area" THEN Forget(held[d], Pending) ELSE held[d]]
      /\ view' = [d \in Domains |-> IF d = "area" THEN AreaMap(held'[d]) ELSE view[d]]
  BY DEF ResetBootstrap, HeldTyped, ViewTyped
<1>2. \A d \in Domains : DOMAIN NoFields(d) = (DOMAIN NoFields(d))'
  BY DEF NoFields, Fields
<1>3. ASSUME Has("area")
      PROVE  LET h == held'["area"]
             IN /\ h = [f \in DOMAIN NoFields("area") |-> h[f]]
                /\ h.timer = Unknown /\ h.cmd = Unknown
  <2>1. held'["area"] = Forget(held["area"], Pending)
        /\ DOMAIN held["area"] = {"arm", "cmd", "timer", "zone"}
    BY <1>1, <1>3, Names DEF HeldTyped, Has
  <2> QED BY <2>1, Names, ForgetFacts DEF Pending
<1>4. HeldTyped'
  <2>1. \A d \in Domains : held'[d] = [f \in DOMAIN NoFields(d) |-> held'[d][f]]
    BY <1>1, <1>3 DEF HeldTyped, Has
  <2>2. held' = [d \in Domains |-> held'[d]]
    BY <1>1
  <2>3. Has("area") => held'["area"].timer = Unknown
    BY <1>3
  <2> QED BY <1>2, <2>1, <2>2, <2>3 DEF HeldTyped, Has
<1>5. ViewTyped'
  BY <1>1 DEF ViewTyped
<1>6. Has("area") => ~Arming(AreaMap(held'["area"]))
  BY <1>3, ArmingArea, PanelViewBounds DEF Modes
<1>7. \A d \in Domains : BuildMap(d, held[d])' = BuildMap(d, held'[d])
  BY DEF BuildMap
<1>8. Has("area") => Fits("area")'
  BY <1>1 DEF Has, Fits, BuildMap
<1>9. \A d \in Domains \ {"area"} : Fits(d) => Fits(d)'
  BY <1>1 DEF Fits
<1> QED BY <1>4, <1>5, <1>6, <1>8, <1>9

LEMMA ShownStays ==
  ASSUME ShownSoon, Domains' = Domains, UNCHANGED <<view, held, link>>,
         staleShown' = stale' \/ UNCHANGED <<stale, staleShown>>,
         \A d : StatusWaits(d) => StatusWaits(d)',
         Waits("up") => Waits("up")', Waits("lost") => Waits("lost")'
  PROVE  ShownSoon'
<1>1. \A d \in Domains : Fits(d) <=> Fits(d)'
  BY DEF Fits
<1>2. Has("area") <=> Has("area")'
  BY DEF Has
<1> QED BY <1>1, <1>2 DEF ShownSoon, Has

LEMMA ShownNow ==
  ASSUME HeldTyped, Domains' = Domains, held' = held, view' = BuildMaps(held), staleShown' = stale'
  PROVE  ShownSoon'
<1>1. \A d \in Domains : Fits(d)'
  BY DEF HeldTyped, BuildMaps, Fits
<1> QED BY <1>1 DEF ShownSoon, Has

LEMMA HeardStays ==
  ASSUME ArmingHeard, Domains' = Domains, UNCHANGED <<link, silent>>,
         Has("area") => /\ panel'["area"].cmd = panel["area"].cmd
                        /\ held'["area"] = held["area"] \/ ~Arming(AreaMap(held'["area"])),
         \A c : LastTells(posts, c) => LastTells(posts', c),
         NoneTells(posts') => NoneTells(posts)
  PROVE  ArmingHeard'
<1>1. Has("area") <=> Has("area")'
  BY DEF Has
<1>2. SUFFICES ASSUME link = "up", Has("area"), ~silent
               PROVE  /\ LastTells(posts', panel'["area"].cmd)
                      /\ NoneTells(posts') /\ Arming(AreaMap(held'["area"])) =>
                            held'["area"].cmd = panel'["area"].cmd
  BY <1>1 DEF ArmingHeard
<1> QED BY <1>2 DEF ArmingHeard

-----------------------------------------------------------------------------
(* The loop's steps.                                                         *)

LEMMA RunsOneCallback ==
  ASSUME PostsTyped, posts # <<>>, posts' = Tail(posts)
  PROVE  \E new : News(new) /\ posts' = Tail(posts) \o new
<1>1. IsQueue(Tail(posts))
  BY Leaves DEF PostsTyped
<1> QED BY <1>1, NoNews

LEMMA LoopKeeps ==
  ASSUME ViewInv, posts # <<>>, UNCHANGED <<panel, link>>,
         \E new : News(new) /\ posts' = Tail(posts) \o new
  PROVE  PanelTyped' /\ Domains' = Domains /\ PostsTyped' /\ Ordered'
<1>1. PanelTyped' /\ Domains' = Domains
  BY PanelStays DEF ViewInv, Typed
<1>2. PICK new : News(new) /\ posts' = Tail(posts) \o new
  OBVIOUS
<1>3. /\ PostsTyped' /\ (~Behind(posts) => ~Behind(posts'))
      /\ \A k : k \notin Told /\ Waits(k)' => Waits(k)
  BY <1>1, <1>2, Taking DEF ViewInv, Typed
<1>4. Ordered'
  BY <1>3 DEF ViewInv, Ordered, Told
<1> QED BY <1>1, <1>3, <1>4

\* Steps that neither handle nor show anything.
LEMMA QuietStep ==
  ASSUME ViewInv, posts # <<>>, UNCHANGED <<panel, held, view, link, silent>>,
         Head(posts).kind \notin {"message", "status", "up", "lost"},
         staleShown' = stale' \/ UNCHANGED <<stale, staleShown>>,
         \E new : News(new) /\ posts' = Tail(posts) \o new
  PROVE  /\ Domains' = Domains
         /\ PanelTyped' /\ HeldTyped' /\ ViewTyped' /\ PostsTyped'
         /\ Ordered' /\ ShownSoon' /\ ArmingHeard'
<1>1. PanelTyped' /\ Domains' = Domains /\ PostsTyped' /\ Ordered'
  BY LoopKeeps
<1>2. HeldTyped' /\ ViewTyped'
  BY <1>1, HeldStays, ViewStays DEF ViewInv, Typed
<1>3. PICK new : News(new) /\ posts' = Tail(posts) \o new
  OBVIOUS
<1>4. /\ \A k : Waits(k) /\ Head(posts).kind # k => Waits(k)'
      /\ \A d : StatusWaits(d) => StatusWaits(d)'
      /\ \A c : LastTells(posts, c) => LastTells(posts', c)
      /\ NoneTells(posts') => NoneTells(posts)
  BY <1>1, <1>3, Taking DEF ViewInv, Typed, Telling
<1>5. ShownSoon'
  BY <1>1, <1>4, ShownStays DEF ViewInv
<1>6. ArmingHeard'
  BY <1>1, <1>4, HeardStays DEF ViewInv
<1> QED BY <1>1, <1>2, <1>5, <1>6

LEMMA StatusInv == ASSUME ViewInv, OnStatus PROVE ViewInv'
<1> DEFINE e == Head(posts)
<1>1. /\ posts # <<>> /\ e.kind = "status" /\ posts' = Tail(posts)
      /\ UNCHANGED <<panel, held, link, silent>>
      /\ \/ link # "up" /\ e.dom = "area" /\ UNCHANGED <<view, stale, staleShown, requests>>
         \/ /\ view' = BuildMaps(held) /\ staleShown' = stale'
            /\ requests' = requests \/ requests' = requests \o BulkZones
      /\ call' = [call EXCEPT !.heard = @ \/ (e.confirmed /\ ~e.bulk /\ e.dom = call.dom)]
  BY DEF OnStatus, Heard, Shows, shown, state, history
<1> HIDE DEF e
<1>2. PICK new : News(new) /\ posts' = Tail(posts) \o new
  BY <1>1, RunsOneCallback DEF ViewInv, Typed
<1>3. PanelTyped' /\ Domains' = Domains /\ PostsTyped' /\ Ordered'
  BY <1>1, <1>2, LoopKeeps
<1>4. HeldTyped' /\ ViewTyped'
  BY <1>1, <1>3, HeldStays, ViewStays DEF ViewInv, Typed
<1>5. CallTyped'
  BY <1>1, <1>3 DEF ViewInv, Typed, CallTyped
<1>6. RequestsTyped'
  BY <1>1, <1>3, RequestsFollow DEF ViewInv, Typed, PanelTyped
<1>7. /\ \A k : Waits(k) /\ k # "status" => Waits(k)'
      /\ \A d : StatusWaits(d) /\ d # e.dom => StatusWaits(d)'
      /\ \A c : LastTells(posts, c) => LastTells(posts', c)
      /\ NoneTells(posts') => NoneTells(posts)
  BY <1>1, <1>2, <1>3, Taking DEF ViewInv, Typed, Telling, e
<1>8. ArmingHeard'
  BY <1>1, <1>3, <1>7, HeardStays DEF ViewInv
<1>9. CASE link # "up" /\ e.dom = "area" /\ UNCHANGED <<view, stale, staleShown, requests>>
  <2>1. \A d \in Domains : Fits(d) <=> Fits(d)'
    BY <1>1, <1>9 DEF Fits
  <2>2. ShownSoon'
    BY <1>1, <1>3, <1>7, <1>9, <2>1 DEF ViewInv, ShownSoon, Has
  <2> QED BY <1>3, <1>4, <1>5, <1>6, <1>8, <2>2 DEF ViewInv, Typed
<1>10. CASE view' = BuildMaps(held) /\ staleShown' = stale'
  <2>1. ShownSoon'
    BY <1>1, <1>3, <1>10, ShownNow DEF ViewInv, Typed
  <2> QED BY <1>3, <1>4, <1>5, <1>6, <1>8, <2>1 DEF ViewInv, Typed
<1> QED BY <1>1, <1>9, <1>10

LEMMA TroublesInv == ASSUME ViewInv, OnTroubles PROVE ViewInv'
<1>1. /\ posts # <<>> /\ Head(posts).kind = "troubles" /\ posts' = Tail(posts)
      /\ UNCHANGED <<panel, held, view, stale, staleShown, link, silent, call>>
      /\ requests' = requests \/ requests' = requests \o BulkZones
  BY DEF OnTroubles, shown, state, history
<1>2. \E new : News(new) /\ posts' = Tail(posts) \o new
  BY <1>1, RunsOneCallback DEF ViewInv, Typed
<1>3. /\ Domains' = Domains
      /\ PanelTyped' /\ HeldTyped' /\ ViewTyped' /\ PostsTyped'
      /\ Ordered' /\ ShownSoon' /\ ArmingHeard'
  BY <1>1, <1>2, QuietStep
<1>4. CallTyped'
  BY <1>1, <1>3 DEF ViewInv, Typed, CallTyped
<1>5. RequestsTyped'
  BY <1>1, <1>3, RequestsFollow DEF ViewInv, Typed, PanelTyped
<1> QED BY <1>3, <1>4, <1>5 DEF ViewInv, Typed

LEMMA UpInv == ASSUME ViewInv, OnUp PROVE ViewInv'
<1>1. /\ posts # <<>> /\ Head(posts).kind = "up" /\ posts' = Tail(posts)
      /\ UNCHANGED <<panel, held, link, silent, call>>
      /\ \/ link # "up" /\ UNCHANGED <<view, requests>>
         \/ /\ view' = BuildMaps(held) /\ staleShown' = stale'
            /\ requests' = requests \/ requests' = requests \o BulkZones
  BY DEF OnUp, Shows, shown, state, history
<1>2. PICK new : News(new) /\ posts' = Tail(posts) \o new
  BY <1>1, RunsOneCallback DEF ViewInv, Typed
<1>3. PanelTyped' /\ Domains' = Domains /\ PostsTyped' /\ Ordered'
  BY <1>1, <1>2, LoopKeeps
<1>4. HeldTyped' /\ ViewTyped' /\ CallTyped' /\ RequestsTyped'
  <2>1. HeldTyped' /\ ViewTyped'
    BY <1>1, <1>3, HeldStays, ViewStays DEF ViewInv, Typed
  <2>2. CallTyped'
    BY <1>1, <1>3 DEF ViewInv, Typed, CallTyped
  <2>3. RequestsTyped'
    BY <1>1, <1>3, RequestsFollow DEF ViewInv, Typed, PanelTyped
  <2> QED BY <2>1, <2>2, <2>3
<1>5. /\ \A d : StatusWaits(d) => StatusWaits(d)'
      /\ \A c : LastTells(posts, c) => LastTells(posts', c)
      /\ NoneTells(posts') => NoneTells(posts)
  BY <1>1, <1>2, <1>3, Taking DEF ViewInv, Typed, Telling
<1>6. ArmingHeard'
  BY <1>1, <1>3, <1>5, HeardStays DEF ViewInv
<1>7. CASE link # "up" /\ UNCHANGED view
  <2>1. Waits("up")
    BY <1>1, Leaves DEF Waits, ViewInv, Typed, PostsTyped
  <2>2. link # "down" /\ link # "up"
    BY <1>7, <2>1 DEF ViewInv, Ordered
  <2>3. \A d \in Domains : Fits(d) <=> Fits(d)'
    BY <1>1, <1>7 DEF Fits
  <2>4. ShownSoon'
    BY <1>1, <1>3, <1>5, <2>2, <2>3 DEF ViewInv, ShownSoon
  <2> QED BY <1>3, <1>4, <1>6, <2>4 DEF ViewInv, Typed
<1>8. CASE view' = BuildMaps(held) /\ staleShown' = stale'
  <2>1. ShownSoon'
    BY <1>1, <1>3, <1>8, ShownNow DEF ViewInv, Typed
  <2> QED BY <1>3, <1>4, <1>6, <2>1 DEF ViewInv, Typed
<1> QED BY <1>1, <1>7, <1>8

LEMMA LostInv == ASSUME ViewInv, OnLost PROVE ViewInv'
<1>1. /\ posts # <<>> /\ Head(posts).kind = "lost" /\ posts' = Tail(posts)
      /\ UNCHANGED <<panel, link, silent, call, requests>>
      /\ ResetBootstrap /\ staleShown' = stale'
  BY DEF OnLost, history
<1>2. PICK new : News(new) /\ posts' = Tail(posts) \o new
  BY <1>1, RunsOneCallback DEF ViewInv, Typed
<1>3. PanelTyped' /\ Domains' = Domains /\ PostsTyped' /\ Ordered'
  BY <1>1, <1>2, LoopKeeps
<1>4. /\ HeldTyped' /\ ViewTyped'
      /\ Has("area") => Fits("area")' /\ ~Arming(AreaMap(held'["area"]))
      /\ \A d \in Domains \ {"area"} : Fits(d) => Fits(d)'
  BY <1>1, <1>3, ResetFacts DEF ViewInv, Typed
<1>5. CallTyped'
  BY <1>1, <1>3 DEF ViewInv, Typed, CallTyped
<1>6. RequestsTyped'
  BY <1>1, <1>3, RequestsFollow DEF ViewInv, Typed, PanelTyped
<1>7. /\ \A d : StatusWaits(d) => StatusWaits(d)'
      /\ \A c : LastTells(posts, c) => LastTells(posts', c)
      /\ NoneTells(posts') => NoneTells(posts)
  BY <1>1, <1>2, <1>3, Taking DEF ViewInv, Typed, Telling
<1>8. ArmingHeard'
  BY <1>1, <1>3, <1>4, <1>7, HeardStays DEF ViewInv
<1>9. ShownSoon'
  BY <1>1, <1>3, <1>4, <1>7 DEF ViewInv, ShownSoon, Has
<1> QED BY <1>3, <1>4, <1>5, <1>6, <1>8, <1>9 DEF ViewInv, Typed

LEMMA AnswerInv == ASSUME ViewInv, OnAnswer PROVE ViewInv'
<1> DEFINE a == [Head(posts) EXCEPT !.kind = "resume"]
<1>1. /\ posts # <<>> /\ Head(posts).kind = "answer" /\ posts' = Tail(posts) \o <<a>>
      /\ UNCHANGED <<panel, held, view, stale, staleShown, link, silent, call, requests>>
  BY DEF OnAnswer, Emit, shown, state, history
<1>2. News(<<a>>)
  <2>1. IsPost(Head(posts))
    BY <1>1, Leaves DEF ViewInv, Typed, PostsTyped
  <2>2. "kind" \in DOMAIN a /\ a.kind = "resume"
    BY <2>1 DEF IsPost
  <2> HIDE DEF a
  <2>3. <<a>> \in Seq({a}) /\ Elems(<<a>>) = {a}
    BY DEF Elems
  <2> QED BY <2>2, <2>3, QueueOfTyped DEF News, IsPost
<1> HIDE DEF a
<1>3. /\ Domains' = Domains
      /\ PanelTyped' /\ HeldTyped' /\ ViewTyped' /\ PostsTyped'
      /\ Ordered' /\ ShownSoon' /\ ArmingHeard'
  BY <1>1, <1>2, QuietStep
<1>4. CallTyped'
  BY <1>1, <1>3 DEF ViewInv, Typed, CallTyped
<1>5. RequestsTyped'
  BY <1>1, <1>3, RequestsFollow DEF ViewInv, Typed, PanelTyped
<1> QED BY <1>3, <1>4, <1>5 DEF ViewInv, Typed

LEMMA MessageInv == ASSUME ViewInv, OnMessage PROVE ViewInv'
<1> DEFINE m == Head(posts)
<1>1. /\ m.kind = "message"
      /\ UNCHANGED <<panel, view, stale, staleShown, link, requests, call, silent>>
  BY DEF OnMessage, shown, history
<1>2. posts # <<>> /\ IsMessage(m)
  BY Handled DEF ViewInv, Typed
<1>3. PICK h, new : /\ Outcome(m, h, new) /\ Folded(m, h)
                    /\ m.dom = "area" => \/ h = ExitDelay(held["area"], m.payload).fields
                                         \/ h = held["area"] /\ DOMAIN m.payload = {}
  BY Handled DEF ViewInv, Typed
<1>4. /\ held' = [held EXCEPT ![m.dom] = h] /\ posts' = Tail(posts) \o new /\ News(new)
      /\ h # held[m.dom] => \E p \in Elems(new) : p.kind = "status" /\ p.dom = m.dom
  BY <1>3 DEF Outcome
<1>5. PanelTyped' /\ Domains' = Domains /\ PostsTyped' /\ Ordered'
  BY <1>1, <1>2, <1>4, LoopKeeps
<1>6. Waits("message")
  BY <1>1, <1>2, Leaves DEF Waits, ViewInv, Typed, PostsTyped
<1>7. /\ \A d : StatusWaits(d) => StatusWaits(d)'
      /\ \A k : Waits(k) /\ m.kind # k => Waits(k)'
      /\ \A p \in Elems(new) : p \in Elems(posts')
      /\ \A c : LastTells(posts, c) => LastTells(posts', c)
      /\ NoneTells(posts') /\ ~Telling(m) => NoneTells(posts)
      /\ NoneTells(posts') /\ Telling(m) /\ Pending \subseteq DOMAIN m.payload =>
           \A c : LastTells(posts, c) => m.payload.cmd = c
  BY <1>1, <1>2, <1>4, <1>5, Taking DEF ViewInv, Typed
<1>8. m.dom \in Domains /\ DOMAIN held = Domains /\ held = [d \in Domains |-> held[d]]
  BY <1>2 DEF IsMessage, ViewInv, Typed, HeldTyped
<1> HIDE DEF m
<1>9. HeldTyped'
  <2>1. \A d \in Domains : DOMAIN NoFields(d) = (DOMAIN NoFields(d))'
    BY DEF NoFields, Fields
  <2>2. \A d \in Domains : held'[d] = [f \in DOMAIN NoFields(d) |-> held'[d][f]]
    BY <1>3, <1>4, <1>8 DEF Folded, ViewInv, Typed, HeldTyped
  <2>3. held' = [d \in Domains |-> held'[d]]
    BY <1>4, <1>8
  <2>4. Has("area") => held'["area"].timer \in Nat \cup {Unknown}
    BY <1>3, <1>4, <1>8 DEF Folded, ViewInv, Typed, HeldTyped, Has
  <2> QED BY <1>5, <2>1, <2>2, <2>3, <2>4 DEF HeldTyped, Has
<1>10. ViewTyped' /\ CallTyped' /\ RequestsTyped'
  BY <1>1, <1>5, ViewStays, RequestsFollow DEF ViewInv, Typed, PanelTyped, CallTyped
<1>11. ShownSoon'
  <2>1. \A d \in Domains : d # m.dom => (Fits(d) <=> Fits(d)')
    BY <1>1, <1>4, <1>8 DEF Fits
  <2>2. CASE h = held[m.dom]
    <3>1. held' = held
      BY <1>4, <1>8, <2>2
    <3> QED BY <1>1, <1>5, <1>7, <3>1, ShownStays DEF ViewInv
  <2>3. CASE h # held[m.dom]
    <3>1. PICK d : d = m.dom
      OBVIOUS
    <3>2. PICK p \in Elems(new) : p.kind = "status" /\ p.dom = d
      BY <1>4, <2>3, <3>1
    <3>3. StatusWaits(d)'
      BY <1>7, <3>2 DEF StatusWaits
    <3>4. \A x \in Domains : x # d => (Fits(x) <=> Fits(x)')
      BY <2>1, <3>1
    <3>5. link # "down"
      BY <1>6 DEF ViewInv, Ordered
    <3>6. Waits("up") => Waits("up")'
      BY <1>1, <1>7
    <3>7. \A x \in Domains : Fits(x) \/ StatusWaits(x) => Fits(x)' \/ StatusWaits(x)'
      <4> SUFFICES ASSUME NEW x \in Domains, Fits(x) \/ StatusWaits(x)
                   PROVE  Fits(x)' \/ StatusWaits(x)'
        OBVIOUS
      <4>1. CASE x = d
        BY <3>3, <4>1
      <4>2. CASE x # d /\ Fits(x)
        BY <3>4, <4>2
      <4>3. CASE x # d /\ StatusWaits(x)
        BY <1>7, <4>3
      <4> QED BY <4>1, <4>2, <4>3
    <3>8. \A x \in Domains \ {"area"} : Fits(x)' \/ StatusWaits(x)'
      BY <3>7 DEF ViewInv, ShownSoon
    <3>9. link = "up" => /\ Has("area") => Fits("area")' \/ StatusWaits("area")'
                         /\ staleShown = stale \/ Waits("up")'
      BY <3>6, <3>7 DEF ViewInv, ShownSoon, Has
    <3> QED BY <1>1, <1>5, <3>5, <3>8, <3>9 DEF ShownSoon, Has
  <2> QED BY <2>2, <2>3
<1>12. ArmingHeard'
  <2>1. CASE m.dom # "area"
    <3>1. held'["area"] = held["area"] /\ ~Telling(m)
      BY <1>4, <1>8, <2>1 DEF Telling
    <3> QED BY <1>1, <1>5, <1>7, <3>1, HeardStays DEF ViewInv
  <2>2. CASE m.dom = "area"
    <3>1. Has("area") /\ Has("area")' /\ held'["area"] = h
      BY <1>4, <1>5, <1>8, <2>2 DEF Has
    <3>2. SUFFICES ASSUME link = "up", ~silent, NoneTells(posts'), Arming(AreaMap(h))
                   PROVE  h.cmd = panel["area"].cmd
      BY <1>1, <1>7, <3>1 DEF ViewInv, ArmingHeard
    <3>3. \/ h = held["area"] /\ DOMAIN m.payload = {}
          \/ Pending \subseteq DOMAIN m.payload /\ h.cmd = m.payload.cmd
          \/ /\ DOMAIN m.payload \cap {"arm", "cmd"} = {} /\ Arming(AreaMap(held["area"]))
             /\ h.cmd = held["area"].cmd
      <4>1. IsArea(held["area"])
        BY <3>1, Names DEF IsArea, ViewInv, Typed, HeldTyped, Has
      <4>2. /\ DOMAIN m.payload \subseteq Fields["area"]
            /\ "timer" \in DOMAIN m.payload => m.payload.timer \in Nat
        BY <1>2, <2>2 DEF IsMessage, m
      <4> QED BY <1>3, <2>2, <3>2, <4>1, <4>2, ExitDelayFacts
    <3>4. LastTells(posts, panel["area"].cmd)
          /\ (NoneTells(posts) /\ Arming(AreaMap(held["area"])) =>
                held["area"].cmd = panel["area"].cmd)
      BY <3>1, <3>2 DEF ViewInv, ArmingHeard
    <3>5. Telling(m) <=> DOMAIN m.payload \cap {"arm", "cmd"} # {}
      BY <1>1, <2>2 DEF Telling, m
    <3> QED BY <1>7, <3>2, <3>3, <3>4, <3>5 DEF Pending
  <2> QED BY <2>1, <2>2
<1> QED BY <1>5, <1>9, <1>10, <1>11, <1>12 DEF ViewInv, Typed

LEMMA DisconnectedInv == ASSUME ViewInv, OnDisconnected PROVE ViewInv'
<1> DEFINE a == Lost("answer")
           b == Post("lost")
           mine == \E r \in Range(requests) : r.mine
           new == (IF mine THEN <<a>> ELSE <<>>) \o <<b>>
<1>1. /\ posts # <<>> /\ Head(posts).kind = "disconnected" /\ link' = "down" /\ requests' = <<>>
      /\ posts' = Tail(posts) \o new
      /\ UNCHANGED <<panel, held, view, stale, staleShown, silent, call>>
  BY DEF OnDisconnected, Emit, shown, state, history
<1>2. News(new) /\ \E p \in Elems(new) : p.kind = "lost"
  <2>1. "kind" \in DOMAIN a /\ a.kind = "answer" /\ "kind" \in DOMAIN b /\ b.kind = "lost"
    BY DEF Lost, Post
  <2> HIDE DEF a, b, mine
  <2>2. /\ <<a>> \in Seq({a}) /\ <<b>> \in Seq({b})
        /\ Elems(<<a>>) = {a} /\ Elems(<<b>>) = {b}
    <3>1. \A x : <<x>> \in Seq({x}) /\ Elems(<<x>>) = {x}
      BY DEF Elems
    <3> QED BY <3>1
  <2>3. IsQueue(<<a>>) /\ IsQueue(<<b>>) /\ IsQueue(<<>>) /\ Elems(<<>>) = {}
    BY <2>2, QueueOfTyped, NoQueue
  <2> DEFINE c == IF mine THEN <<a>> ELSE <<>>
  <2>4. IsQueue(c) /\ Elems(c) \subseteq {a}
    BY <2>2, <2>3
  <2> HIDE DEF c
  <2>5. IsQueue(c \o <<b>>) /\ Elems(c \o <<b>>) = Elems(c) \cup {b}
    BY <2>2, <2>3, <2>4, JoinsMany
  <2>6. IsQueue(new) /\ Elems(new) \subseteq {a, b} /\ b \in Elems(new)
    BY <2>4, <2>5 DEF c
  <2> HIDE DEF new
  <2> QED BY <2>1, <2>6 DEF News, IsPost
<1> HIDE DEF new
<1>3. PanelTyped' /\ Domains' = Domains
  BY <1>1, PanelStays DEF ViewInv, Typed
<1>4. /\ PostsTyped' /\ ~Behind(posts') /\ \A k \in Early : ~Waits(k)'
      /\ \A d : StatusWaits(d) => StatusWaits(d)'
      /\ \A p \in Elems(new) : p \in Elems(posts')
  BY <1>1, <1>2, <1>3, Taking DEF ViewInv, Typed, Ordered
<1>5. Waits("lost")' /\ ~Waits("message")' /\ ~Waits("up")' /\ ~Waits("disconnected")'
  BY <1>2, <1>4 DEF Waits, Early
<1>6. Ordered' /\ ShownSoon' /\ ArmingHeard'
  <2>1. \A d \in Domains : Fits(d) <=> Fits(d)'
    BY <1>1 DEF Fits
  <2>2. ShownSoon'
    BY <1>1, <1>3, <1>4, <1>5, <2>1 DEF ViewInv, ShownSoon
  <2> QED BY <1>1, <1>4, <1>5, <2>2 DEF Ordered, ArmingHeard
<1>7. HeldTyped' /\ ViewTyped' /\ CallTyped' /\ RequestsTyped'
  BY <1>1, <1>3, HeldStays, ViewStays, RequestsFollow
     DEF ViewInv, Typed, PanelTyped, CallTyped
<1> QED BY <1>3, <1>4, <1>6, <1>7 DEF ViewInv, Typed

-----------------------------------------------------------------------------
(* The caller's steps.                                                       *)

\* What becomes of the call.
Follows ==
    \/ call' = Idle
    \/ call.stage # "idle" /\ DOMAIN call' = DOMAIN call /\ call'.dom = call.dom

LEMMA CallFollows == ASSUME CallTyped, Domains' = Domains, Follows PROVE CallTyped'
BY DEF CallTyped, Follows, Idle

LEMMA PublishFollows ==
  ASSUME CallTyped, call.stage # "idle", Publish(call)
  PROVE  Follows
BY DEF Publish, Ends, Follows, CallTyped

LEMMA ResumeInv == ASSUME ViewInv, OnResume PROVE ViewInv'
<1> DEFINE a == Head(posts)
<1>1. /\ posts # <<>> /\ a.kind = "resume" /\ posts' = Tail(posts)
      /\ UNCHANGED <<panel, held, link, silent>>
      /\ \/ call.stage = "asked" /\ OnReply(a)
         \/ call.stage = "refreshing" /\ OnRefreshReply(a)
  BY DEF OnResume, state
<1> HIDE DEF a
<1>2. CallTyped /\ call.stage # "idle" /\ call.dom \in Domains
  BY <1>1 DEF ViewInv, Typed, CallTyped
<1>3. /\ Follows
      /\ view' = view /\ (staleShown' = stale' \/ UNCHANGED <<stale, staleShown>>)
      /\ \/ requests' = requests
         \/ requests' = Append(requests, Request("get", call.dom, "none", TRUE))
  <2>1. CASE OnRefreshReply(a)
    BY <1>2, <2>1, PublishFollows DEF OnRefreshReply, MarkStale, shown
  <2>2. CASE /\ call' = [call EXCEPT !.stage = "backoff", !.busy = @ + 1]
             /\ UNCHANGED <<shown, requests>>
    BY <1>2, <2>2 DEF Follows, shown
  <2>3. CASE \E well \in BOOLEAN : Ends(well) /\ UNCHANGED <<shown, requests>>
    BY <2>3 DEF Ends, Follows, shown
  <2>4. CASE Refresh(a.confirms)
    <3>1. CASE Publish(call) /\ UNCHANGED <<shown, requests>>
      BY <1>2, <3>1, PublishFollows DEF shown
    <3>2. CASE /\ call' = [call EXCEPT !.stage = "refreshing"] /\ UNCHANGED shown
               /\ requests' = Append(requests, Request("get", call.dom, "none", TRUE))
      BY <1>2, <3>2 DEF Follows, shown
    <3>3. CASE MarkStale(call.dom) /\ Publish(call) /\ UNCHANGED requests
      BY <1>2, <3>3, PublishFollows DEF MarkStale
    <3> QED BY <2>4, <3>1, <3>2, <3>3 DEF Refresh
  <2> QED BY <1>1, <2>1, <2>2, <2>3, <2>4 DEF OnReply
<1>4. \E new : News(new) /\ posts' = Tail(posts) \o new
  BY <1>1, RunsOneCallback DEF ViewInv, Typed
<1>5. /\ Domains' = Domains
      /\ PanelTyped' /\ HeldTyped' /\ ViewTyped' /\ PostsTyped'
      /\ Ordered' /\ ShownSoon' /\ ArmingHeard'
  BY <1>1, <1>3, <1>4, QuietStep DEF a
<1>6. CallTyped'
  BY <1>2, <1>3, <1>5, CallFollows
<1>7. RequestsTyped'
  BY <1>2, <1>3, <1>5, RequestsFollow DEF ViewInv, Typed, PanelTyped
<1> QED BY <1>5, <1>6, <1>7 DEF ViewInv, Typed

\* Steps of the caller's task change neither the panel nor what is held of it.
LEMMA CallerStep ==
  ASSUME ViewInv, UNCHANGED <<panel, held, view, link, silent>>,
         staleShown' = stale' \/ UNCHANGED <<stale, staleShown>>,
         Withdraw \/ posts' = posts,
         \/ Withdraw
         \/ requests' = requests
         \/ \E v, mine : \E route \in {"get", "bulk", "arm", "set"}, d \in Domains :
               requests' = Append(requests, Request(route, d, v, mine)),
         CallTyped'
  PROVE  ViewInv'
<1>1. PanelTyped' /\ Domains' = Domains
  BY PanelStays DEF ViewInv, Typed
<1>2. HeldTyped' /\ ViewTyped' /\ RequestsTyped'
  BY <1>1, HeldStays, ViewStays, RequestsFollow DEF ViewInv, Typed, PanelTyped
<1>3. /\ PostsTyped'
      /\ ~Behind(posts) => ~Behind(posts')
      /\ \A k : Waits(k)' => Waits(k)
      /\ \A k : Waits(k) /\ k \notin {"answer", "resume", "message"} => Waits(k)'
      /\ \A d : StatusWaits(d) => StatusWaits(d)'
      /\ \A c : LastTells(posts, c) => LastTells(posts', c)
      /\ NoneTells(posts') => NoneTells(posts)
  BY <1>1, Withdrawing DEF ViewInv, Typed
<1>4. Ordered'
  BY <1>3 DEF ViewInv, Ordered
<1>5. ShownSoon'
  BY <1>1, <1>3, ShownStays DEF ViewInv
<1>6. ArmingHeard'
  BY <1>1, <1>3, HeardStays DEF ViewInv
<1> QED BY <1>1, <1>2, <1>3, <1>4, <1>5, <1>6 DEF ViewInv, Typed

LEMMA CallerInv ==
  ASSUME ViewInv,
         Write \/ BackoffEnds \/ DeadlinePasses \/ Published \/ CallerCancelled \/ AppReads
  PROVE  ViewInv'
<1>1. PanelTyped /\ CallTyped
  BY DEF ViewInv, Typed
<1>2. CASE Write
  <2>1. PICK d \in Domains : \E v \in Orders(d) :
               /\ call' = [Idle EXCEPT !.stage = "asked", !.dom = d, !.order = v]
               /\ requests' = Append(requests, Writes(d))
    BY <1>2 DEF Write
  <2>2. /\ UNCHANGED <<panel, held, view, stale, staleShown, link, posts, silent>>
        /\ Domains' = Domains
    BY <1>1, <1>2, PanelStays DEF Write, state, shown
  <2>3. CallTyped'
    BY <2>1, <2>2 DEF CallTyped, Idle
  <2>4. \E order : \E route \in {"get", "bulk", "arm", "set"} :
           requests' = Append(requests, Request(route, d, order, TRUE))
    BY <2>1 DEF Writes
  <2> QED BY <2>2, <2>3, <2>4, CallerStep
<1>3. CASE BackoffEnds
  <2>1. /\ UNCHANGED <<panel, held, view, stale, staleShown, link, posts, silent>>
        /\ Domains' = Domains /\ call.stage # "idle" /\ call.dom \in Domains
    BY <1>1, <1>3, PanelStays DEF BackoffEnds, state, shown, CallTyped
  <2>2. Follows
    BY <1>1, <1>3, <2>1 DEF BackoffEnds, Follows, Ends, CallTyped
  <2>3. \/ requests' = requests
        \/ \E order : \E route \in {"get", "bulk", "arm", "set"} :
              requests' = Append(requests, Request(route, call.dom, order, TRUE))
    BY <1>3 DEF BackoffEnds, Writes, Ends
  <2> QED BY <1>1, <2>1, <2>2, <2>3, CallFollows, CallerStep
<1>4. CASE DeadlinePasses
  <2>1. UNCHANGED <<panel, held, link, silent>> /\ Domains' = Domains /\ call.stage # "idle"
    BY <1>1, <1>4, PanelStays DEF DeadlinePasses, state
  <2>2. Follows
    BY <1>1, <1>4, <2>1, PublishFollows DEF DeadlinePasses, Follows, Ends
  <2>3. view' = view /\ (staleShown' = stale' \/ UNCHANGED <<stale, staleShown>>)
    BY <1>4 DEF DeadlinePasses, MarkStale, shown
  <2>4. Withdraw \/ (posts' = posts /\ requests' = requests)
    BY <1>4 DEF DeadlinePasses
  <2> QED BY <1>1, <2>1, <2>2, <2>3, <2>4, CallFollows, CallerStep
<1>5. CASE Published
  <2>1. /\ UNCHANGED <<panel, held, view, stale, staleShown, link, requests, posts, silent>>
        /\ Domains' = Domains /\ Follows
    BY <1>1, <1>5, PanelStays DEF Published, state, shown, Ends, Follows
  <2> QED BY <1>1, <2>1, CallFollows, CallerStep
<1>6. CASE CallerCancelled
  <2>1. /\ UNCHANGED <<panel, held, view, stale, staleShown, link, silent>>
        /\ Domains' = Domains /\ Follows /\ Withdraw
    BY <1>1, <1>6, PanelStays DEF CallerCancelled, state, shown, Ends, Follows
  <2> QED BY <1>1, <2>1, CallFollows, CallerStep
<1>7. CASE AppReads
  <2>1. /\ UNCHANGED <<panel, held, view, stale, staleShown, link, posts, call, silent>>
        /\ Domains' = Domains
    BY <1>1, <1>7, PanelStays DEF AppReads, state, shown, history
  <2>2. PICK d \in Domains, route \in {"get", "bulk"} :
               requests' = Append(requests, Request(route, d, "none", FALSE))
    BY <1>7 DEF AppReads
  <2>3. CallTyped'
    BY <1>1, <2>1 DEF CallTyped
  <2> QED BY <2>1, <2>2, <2>3, CallerStep
<1> QED BY <1>2, <1>3, <1>4, <1>5, <1>6, <1>7

-----------------------------------------------------------------------------
(* The panel's steps.                                                        *)

LEMMA TimersNat ==
  ASSUME NEW t \in 0..Timers
  PROVE  t \in Nat /\ (t > 0 => t - 1 \in 0..Timers /\ t - 1 \in Nat /\ t - 1 + 1 \in Nat)
<1>1. Timers \in Nat
  BY PanelViewBounds
<1> QED BY <1>1

LEMMA AreaFacts ==
  ASSUME NEW s \in AreaStates
  PROVE  /\ DOMAIN s = Fields["area"] /\ s.timer \in Nat
         /\ s.timer > 0 => /\ s.arm = "DISARMED" /\ s.cmd \in Modes /\ s.zone = ""
                           /\ s.timer \in 0..Timers
         /\ s.cmd \in Modes => s.arm = "DISARMED"
<1> DEFINE A == {"arm", "cmd", "timer", "zone"}
<1>1. CASE s = [arm |-> "DISARMED", cmd |-> "NONE", timer |-> 0, zone |-> ""]
  <2>1. DOMAIN s = A /\ s.timer = 0 /\ s.cmd = "NONE"
    BY <1>1
  <2> QED BY <2>1, Names DEF Modes
<1>2. CASE s \in [arm : {"DISARMED"}, cmd : Modes, timer : 0..Timers, zone : {""}]
  <2>1. /\ DOMAIN s = A /\ s.timer \in 0..Timers /\ s.cmd \in Modes
        /\ s.arm = "DISARMED" /\ s.zone = ""
    BY <1>2
  <2>2. s.timer \in Nat
    BY <2>1, TimersNat, Zenon
  <2>3. DOMAIN s = Fields["area"]
    BY <2>1, Names
  <2> QED BY <2>1, <2>2, <2>3
<1>3. CASE s \in [arm : Modes, cmd : {"NONE"}, timer : {0}, zone : {""}]
  <2>1. DOMAIN s = A /\ s.timer = 0 /\ s.cmd = "NONE"
    BY <1>3
  <2> QED BY <2>1, Names DEF Modes
<1> QED BY <1>1, <1>2, <1>3 DEF AreaStates

LEMMA MessageParts ==
  ASSUME NEW route, NEW d, NEW p, NEW err, NEW mine,
         NEW e, \/ e = Message(route, d, p, err, mine)
                \/ \E t : e = [Message(route, d, p, err, mine) EXCEPT !.truth = t]
  PROVE  /\ DOMAIN e = MessageFields /\ e.kind = "message" /\ e.route = route /\ e.dom = d
         /\ e.payload = p /\ e.err = err
         /\ e = Message(route, d, p, err, mine) => e.truth = panel[d][Key[d]]
         /\ \A t : e = [Message(route, d, p, err, mine) EXCEPT !.truth = t] => e.truth = t
BY DEF Message, MessageFields

\* The panel sends a message, and its own state may have changed.
LEMMA SendStep ==
  ASSUME ViewInv, link = "up", UNCHANGED <<held, view, stale, staleShown, link, call>>,
         PanelTyped', Domains' = Domains,
         requests' = requests \/ (requests # <<>> /\ requests' = Tail(requests)),
         NEW e, IsMessage(e), e.kind = "message", posts' = Append(posts, e),
         Has("area") =>
           \/ silent'
           \/ ~Telling(e) /\ panel'["area"].cmd = panel["area"].cmd /\ ~silent
           \/ Telling(e) /\ (Pending \subseteq DOMAIN e.payload =>
                               e.payload.cmd = panel'["area"].cmd)
  PROVE  ViewInv'
<1>1. IsPost(e)
  BY DEF IsPost, IsMessage, MessageFields
<1>2. /\ PostsTyped'
      /\ ~Behind(posts) /\ (e.kind \in Early => ~Waits("disconnected")) => ~Behind(posts')
      /\ \A k : Waits(k)' <=> Waits(k) \/ e.kind = k
      /\ \A d : StatusWaits(d) => StatusWaits(d)'
      /\ ~Telling(e) => /\ \A c : LastTells(posts, c) => LastTells(posts', c)
                        /\ NoneTells(posts') => NoneTells(posts)
      /\ Telling(e) => /\ ~NoneTells(posts')
                       /\ \A c : (Pending \subseteq DOMAIN e.payload => e.payload.cmd = c) =>
                            LastTells(posts', c)
  BY <1>1, Sending DEF ViewInv, Typed
<1>3. Ordered'
  BY <1>2 DEF ViewInv, Ordered
<1>4. ShownSoon'
  BY <1>2, ShownStays DEF ViewInv
<1>5. ArmingHeard'
  <2>1. Has("area") <=> Has("area")'
    BY DEF Has
  <2>2. SUFFICES ASSUME Has("area"), ~silent'
                 PROVE  /\ LastTells(posts', panel'["area"].cmd)
                        /\ NoneTells(posts') /\ Arming(AreaMap(held'["area"])) =>
                              held'["area"].cmd = panel'["area"].cmd
    BY <2>1 DEF ArmingHeard
  <2>3. CASE ~Telling(e) /\ panel'["area"].cmd = panel["area"].cmd /\ ~silent
    BY <1>2, <2>2, <2>3 DEF ViewInv, ArmingHeard
  <2>4. CASE /\ Telling(e)
             /\ Pending \subseteq DOMAIN e.payload => e.payload.cmd = panel'["area"].cmd
    BY <1>2, <2>4
  <2> QED BY <2>2, <2>3, <2>4
<1>6. HeldTyped' /\ ViewTyped' /\ CallTyped' /\ RequestsTyped'
  BY HeldStays, ViewStays, RequestsFollow DEF ViewInv, Typed, PanelTyped, CallTyped
<1> QED BY <1>2, <1>3, <1>4, <1>5, <1>6 DEF ViewInv, Typed

LEMMA FirstRequest == ASSUME ViewInv, InFlight PROVE IsRequest(Head(requests)) /\ requests # <<>>
BY Leaves DEF ViewInv, Typed, RequestsTyped, InFlight

LEMMA ReportsInv == ASSUME ViewInv, PanelReports PROVE ViewInv'
<1> DEFINE r == Head(requests)
           p == IF r.dom = "zone" /\ r.route = "bulk" THEN BulkReport
                                                     ELSE Report(r.dom, Fields[r.dom])
           e == Message(r.route, r.dom, p, "none", r.mine)
<1>1. /\ link = "up" /\ r.route \in {"get", "bulk"} /\ posts' = Append(posts, e)
      /\ silent' = (silent /\ r.dom # "area")
      /\ requests # <<>> /\ requests' = Tail(requests)
      /\ UNCHANGED <<panel, held, view, stale, staleShown, link, call>>
  BY FirstRequest DEF PanelReports, InFlight, Sends, state, shown
<1>2. PanelTyped' /\ Domains' = Domains /\ PanelTyped
  BY <1>1, PanelStays DEF ViewInv, Typed
<1>3. r.dom \in Domains /\ r.dom \in Domain
  BY <1>2, FirstRequest DEF PanelReports, IsRequest, PanelTyped
<1>4. /\ DOMAIN e = MessageFields /\ e.kind = "message" /\ e.route = r.route /\ e.dom = r.dom
      /\ e.payload = p /\ e.err = "none" /\ e.truth = panel[r.dom][Key[r.dom]]
  BY MessageParts
<1>5. /\ DOMAIN p = Fields[r.dom]
      /\ r.dom = "zone" => p.bypassed = panel[r.dom].bypassed
      /\ r.dom # "zone" => \A f \in Fields[r.dom] : p[f] = panel[r.dom][f]
  <2>1. DOMAIN panel[r.dom] = Fields[r.dom]
    BY <1>2, <1>3 DEF PanelTyped
  <2> QED BY <1>3, <2>1, Names DEF BulkReport, Report
<1>6. /\ Key[r.dom] \in DOMAIN p /\ p[Key[r.dom]] = panel[r.dom][Key[r.dom]]
      /\ r.dom = "area" => /\ p.timer \in Nat /\ p.cmd = panel["area"].cmd
                           /\ {"arm", "cmd"} \subseteq DOMAIN p
  <2>1. CASE r.dom = "area"
    <3>1. panel["area"].timer \in Nat
      BY <1>2, <1>3, <2>1, AreaFacts DEF PanelTyped, Has
    <3> QED BY <1>3, <1>5, <2>1, <3>1, Names
  <2>2. CASE r.dom # "area"
    BY <1>3, <1>5, <2>2, Names
  <2> QED BY <2>1, <2>2
<1> HIDE DEF r, p, e
<1>7. IsMessage(e)
  BY <1>1, <1>3, <1>4, <1>5, <1>6 DEF IsMessage
<1>8. Telling(e) <=> e.dom = "area"
  BY <1>3, <1>4, <1>5, <1>6, Names DEF Telling
<1>9. Has("area") =>
        \/ silent'
        \/ ~Telling(e) /\ panel'["area"].cmd = panel["area"].cmd /\ ~silent
        \/ Telling(e) /\ (Pending \subseteq DOMAIN e.payload => e.payload.cmd = panel'["area"].cmd)
  BY <1>1, <1>4, <1>6, <1>8
<1> QED BY <1>1, <1>2, <1>4, <1>7, <1>9, SendStep

LEMMA RefusesInv == ASSUME ViewInv, PanelRefuses PROVE ViewInv'
<1> DEFINE r == Head(requests)
<1>1. PICK err \in {"error", "busy"} :
             posts' = Append(posts, Message(r.route, r.dom, <<>>, err, r.mine))
  BY DEF PanelRefuses, Sends
<1> DEFINE e == Message(r.route, r.dom, <<>>, err, r.mine)
<1>2. /\ link = "up" /\ requests # <<>> /\ requests' = Tail(requests)
      /\ UNCHANGED <<panel, held, view, stale, staleShown, link, call, silent>>
  BY FirstRequest DEF PanelRefuses, InFlight, state, shown, history
<1>3. PanelTyped' /\ Domains' = Domains
  BY <1>2, PanelStays DEF ViewInv, Typed
<1>4. r.dom \in Domains
  BY FirstRequest DEF PanelRefuses, IsRequest
<1>5. /\ DOMAIN e = MessageFields /\ e.kind = "message" /\ e.route = r.route /\ e.dom = r.dom
      /\ e.payload = <<>> /\ e.err = err
  BY MessageParts
<1> HIDE DEF r, e
<1>6. DOMAIN e.payload = {}
  BY <1>5
<1>7. IsMessage(e) /\ ~Telling(e)
  BY <1>4, <1>5, <1>6 DEF IsMessage, Telling
<1>8. e.kind = "message" /\ posts' = Append(posts, e)
  BY <1>1, <1>5 DEF e
<1> QED BY <1>2, <1>3, <1>7, <1>8, SendStep

LEMMA TroubledInv == ASSUME ViewInv, PanelTroubles PROVE ViewInv'
<1> DEFINE e == Broadcast("troubles", "area", <<>>)
<1>1. /\ Has("area") /\ link = "up" /\ posts' = Append(posts, e)
      /\ UNCHANGED <<panel, held, view, stale, staleShown, link, call, silent, requests>>
  BY DEF PanelTroubles, Sends, state, shown, history
<1>2. PanelTyped' /\ Domains' = Domains
  BY <1>1, PanelStays DEF ViewInv, Typed
<1>3. /\ DOMAIN e = MessageFields /\ e.kind = "message" /\ e.route = "troubles" /\ e.dom = "area"
      /\ e.payload = <<>> /\ e.err = "none"
  BY DEF Broadcast, Message, MessageFields
<1> HIDE DEF e
<1>4. DOMAIN e.payload = {}
  BY <1>3
<1>5. IsMessage(e) /\ ~Telling(e)
  BY <1>1, <1>3, <1>4 DEF IsMessage, Telling, Has
<1> QED BY <1>1, <1>2, <1>3, <1>5, SendStep

LEMMA ObeysInv == ASSUME ViewInv, PanelObeys PROVE ViewInv'
<1> DEFINE r == Head(requests)
           d == r.dom
           k == Key[d]
<1>1. PICK s \in Obeyed(d, r.order), fields \in {{}, {k}} :
             /\ panel' = [panel EXCEPT ![d] = s]
             /\ silent' = IF d = "area" THEN fields = {} ELSE silent
             /\ posts' = Append(posts, [Message(r.route, d, [f \in fields |-> s[f]], "none", r.mine)
                                          EXCEPT !.truth = s[k]])
  BY DEF PanelObeys, Sends
<1> DEFINE p == [f \in fields |-> s[f]]
           e == [Message(r.route, d, p, "none", r.mine) EXCEPT !.truth = s[k]]
<1>2. /\ link = "up" /\ r.route \in {"arm", "set"} /\ requests # <<>> /\ requests' = Tail(requests)
      /\ UNCHANGED <<held, view, stale, staleShown, link, call>>
  BY FirstRequest DEF PanelObeys, InFlight, state, shown
<1>3. PanelTyped /\ d \in Domains /\ d \in Domain /\ k \in Fields[d]
  BY FirstRequest, Names DEF PanelObeys, IsRequest, PanelTyped, ViewInv, Typed
<1>4. DOMAIN s = Fields[d] /\ (d = "area" => s \in AreaStates)
  <2>1. CASE d = "area"
    <3>1. s \in AreaStates
      BY <2>1 DEF Obeyed
    <3> QED BY <2>1, <3>1, AreaFacts
  <2>2. CASE d = "zone"
    BY <1>3, <2>2 DEF Obeyed, PanelTyped
  <2>3. CASE d \notin {"area", "zone"}
    <3>1. s = [status |-> r.order] \/ s = panel[d]
      BY <2>3 DEF Obeyed
    <3> QED BY <1>3, <2>3, <3>1, Names DEF PanelTyped
  <2> QED BY <2>1, <2>2, <2>3
<1>5. PanelTyped' /\ Domains' = Domains
  BY <1>1, <1>3, <1>4 DEF PanelTyped, Has, Domains
<1>6. /\ DOMAIN e = MessageFields /\ e.kind = "message" /\ e.route = r.route /\ e.dom = d
      /\ e.payload = p /\ e.err = "none" /\ e.truth = s[k]
  BY DEF Message, MessageFields
<1>7. posts' = Append(posts, e)
  BY <1>1
<1>8. DOMAIN p = fields /\ \A f \in fields : p[f] = s[f]
  OBVIOUS
<1> HIDE DEF r, d, k, p, e
<1>9. IsMessage(e)
  <2>1. DOMAIN e.payload \subseteq Fields[e.dom]
    BY <1>3, <1>6, <1>8
  <2>2. Key[e.dom] \in DOMAIN e.payload => e.payload[Key[e.dom]] = e.truth
    BY <1>6, <1>8 DEF k
  <2>3. ~(e.dom = "area" /\ "timer" \in DOMAIN e.payload)
    BY <1>6, <1>8, Names DEF k
  <2> QED BY <1>2, <1>3, <1>6, <2>1, <2>2, <2>3 DEF IsMessage
<1>10. d = "area" /\ fields # {} => Telling(e) /\ ~(Pending \subseteq DOMAIN e.payload)
  BY <1>6, <1>8, Names DEF Telling, Pending, k
<1>11. d # "area" => ~Telling(e) /\ panel'["area"] = panel["area"]
  BY <1>1, <1>3, <1>6 DEF Telling, PanelTyped, Has
<1>12. Has("area") =>
         \/ silent'
         \/ ~Telling(e) /\ panel'["area"].cmd = panel["area"].cmd /\ ~silent
         \/ Telling(e) /\ (Pending \subseteq DOMAIN e.payload => e.payload.cmd = panel'["area"].cmd)
  BY <1>1, <1>10, <1>11
<1> QED BY <1>2, <1>5, <1>6, <1>7, <1>9, <1>12, SendStep

LEMMA ChangesInv == ASSUME ViewInv, PanelChanges PROVE ViewInv'
<1>1. PICK d \in Domains : \E s \in States(d) :
         \E fields \in IF d = "area" THEN Reports ELSE SUBSET Fields[d] \ {{}} :
            /\ \A f \in Fields[d] \ {"timer"} : s[f] # panel[d][f] => f \in fields
            /\ panel' = [panel EXCEPT ![d] = s]
            /\ silent' = (silent /\ ~(d = "area" /\ fields \cap {"arm", "cmd"} # {}))
            /\ posts' = Append(posts, [Broadcast("set", d, [f \in fields |-> s[f]])
                                         EXCEPT !.truth = s[Key[d]]])
  BY DEF PanelChanges, Sends
<1>2. PICK s \in States(d), fields \in IF d = "area" THEN Reports ELSE SUBSET Fields[d] \ {{}} :
            /\ \A f \in Fields[d] \ {"timer"} : s[f] # panel[d][f] => f \in fields
            /\ panel' = [panel EXCEPT ![d] = s]
            /\ silent' = (silent /\ ~(d = "area" /\ fields \cap {"arm", "cmd"} # {}))
            /\ posts' = Append(posts, [Broadcast("set", d, [f \in fields |-> s[f]])
                                         EXCEPT !.truth = s[Key[d]]])
  BY <1>1
<1> DEFINE p == [f \in fields |-> s[f]]
           e == [Broadcast("set", d, p) EXCEPT !.truth = s[Key[d]]]
<1>3. /\ link = "up" /\ requests' = requests
      /\ UNCHANGED <<held, view, stale, staleShown, link, call>>
  BY DEF PanelChanges, state, shown
<1>4. PanelTyped /\ d \in Domain /\ Key[d] \in Fields[d]
  BY Names DEF PanelTyped, ViewInv, Typed
<1>5. DOMAIN s = Fields[d] /\ (d = "area" => s \in AreaStates)
  <2>1. CASE d = "area"
    <3>1. s \in AreaStates
      BY <2>1 DEF States
    <3> QED BY <2>1, <3>1, AreaFacts
  <2>2. CASE d = "zone"
    BY <2>2, Names DEF States
  <2>3. CASE d \notin {"area", "zone"}
    BY <1>4, <2>3, Names DEF States
  <2> QED BY <2>1, <2>2, <2>3
<1>6. PanelTyped' /\ Domains' = Domains
  BY <1>2, <1>4, <1>5 DEF PanelTyped, Has, Domains
<1>7. fields \subseteq Fields[d]
  BY <1>2, Names, PanelViewBounds
<1>8. /\ DOMAIN e = MessageFields /\ e.kind = "message" /\ e.route = "set" /\ e.dom = d
      /\ e.payload = p /\ e.err = "none" /\ e.truth = s[Key[d]]
  BY DEF Broadcast, Message, MessageFields
<1>9. DOMAIN p = fields /\ \A f \in fields : p[f] = s[f]
  OBVIOUS
<1>10. posts' = Append(posts, e)
  BY <1>2
<1> HIDE DEF p, e
<1>11. IsMessage(e)
  <2>1. DOMAIN e.payload \subseteq Fields[e.dom]
    BY <1>7, <1>8, <1>9
  <2>2. Key[e.dom] \in DOMAIN e.payload => e.payload[Key[e.dom]] = e.truth
    BY <1>8, <1>9
  <2>3. e.dom = "area" /\ "timer" \in DOMAIN e.payload => e.payload.timer \in Nat
    BY <1>5, <1>8, <1>9, AreaFacts
  <2> QED BY <1>1, <1>8, <2>1, <2>2, <2>3 DEF IsMessage
<1>12. d = "area" => (Telling(e) <=> fields \cap {"arm", "cmd"} # {})
  BY <1>8, <1>9 DEF Telling
<1>13. d = "area" /\ fields \cap {"arm", "cmd"} = {} =>
          panel'["area"].cmd = panel["area"].cmd
  <2> SUFFICES ASSUME d = "area", fields \cap {"arm", "cmd"} = {}
               PROVE  panel'["area"].cmd = panel["area"].cmd
    OBVIOUS
  <2>1. panel'["area"] = s
    BY <1>2 DEF Domains
  <2>2. "cmd" \in Fields["area"] \ {"timer"} /\ "cmd" \notin fields
    BY Names
  <2>3. s["cmd"] = panel["area"]["cmd"]
    BY <1>2, <2>2
  <2> QED BY <2>1, <2>3
<1>14. d # "area" => ~Telling(e) /\ panel'["area"] = panel["area"]
  BY <1>2, <1>4, <1>8 DEF Telling
<1>15. d = "area" => panel'["area"] = s
  BY <1>2 DEF Domains
<1>17. d # "area" \/ fields \cap {"arm", "cmd"} = {} => (silent => silent')
  BY <1>2
<1>16. Has("area") =>
         \/ silent'
         \/ ~Telling(e) /\ panel'["area"].cmd = panel["area"].cmd /\ ~silent
         \/ Telling(e) /\ (Pending \subseteq DOMAIN e.payload => e.payload.cmd = panel'["area"].cmd)
  BY <1>8, <1>9, <1>12, <1>13, <1>14, <1>15, <1>17 DEF Pending
<1> QED BY <1>3, <1>6, <1>8, <1>10, <1>11, <1>16, SendStep

LEMMA TicksInv == ASSUME ViewInv, PanelTicks PROVE ViewInv'
<1> DEFINE left == panel["area"].timer - 1
<1>1. PICK late \in BOOLEAN :
             /\ panel' = [panel EXCEPT !["area"].timer = left]
             /\ posts' = Append(posts, Broadcast("set", "area",
                             [timer |-> IF late THEN left + 1 ELSE left]))
  BY DEF PanelTicks, Sends
<1> DEFINE p == [timer |-> IF late THEN left + 1 ELSE left]
           e == Broadcast("set", "area", p)
<1>2. /\ Has("area") /\ link = "up" /\ panel["area"].timer > 0
      /\ UNCHANGED <<held, view, stale, staleShown, link, call, silent, requests>>
  BY DEF PanelTicks, state, shown, history
<1>3. PanelTyped /\ panel["area"] \in AreaStates
  BY <1>2 DEF ViewInv, Typed, PanelTyped
<1>4. /\ panel["area"].timer \in Nat /\ DOMAIN panel["area"] = Fields["area"]
      /\ panel["area"].arm = "DISARMED" /\ panel["area"].cmd \in Modes /\ panel["area"].zone = ""
      /\ panel["area"].timer \in 0..Timers
  BY <1>2, <1>3, AreaFacts
<1>5. left \in Nat /\ left + 1 \in Nat /\ left \in 0..Timers
  BY <1>2, <1>4, TimersNat, Zenon
<1> HIDE DEF left
<1>6. panel'["area"] \in AreaStates /\ panel'["area"].cmd = panel["area"].cmd
  <2> DEFINE a == [panel["area"] EXCEPT !.timer = left]
  <2>1. panel'["area"] = a
    BY <1>1, <1>2 DEF Has, Domains
  <2>2. /\ DOMAIN a = {"arm", "cmd", "timer", "zone"} /\ a.arm = "DISARMED"
        /\ a.cmd = panel["area"].cmd /\ a.timer = left /\ a.zone = ""
        /\ a = [f \in {"arm", "cmd", "timer", "zone"} |-> a[f]]
    <3>1. DOMAIN panel["area"] = {"arm", "cmd", "timer", "zone"}
      BY <1>4, Names
    <3>2. panel["area"].arm = "DISARMED" /\ panel["area"].zone = ""
      BY <1>4
    <3> QED BY <3>1, <3>2
  <2> HIDE DEF a
  <2>3. a \in [arm : {"DISARMED"}, cmd : Modes, timer : 0..Timers, zone : {""}]
    BY <1>4, <1>5, <2>2
  <2> QED BY <2>1, <2>2, <2>3 DEF AreaStates
<1>7. PanelTyped' /\ Domains' = Domains
  <2>1. DOMAIN panel'["area"] = Fields["area"]
    BY <1>6, AreaFacts
  <2> QED BY <1>1, <1>2, <1>3, <1>6, <2>1 DEF PanelTyped, Has, Domains
<1>8. /\ DOMAIN e = MessageFields /\ e.kind = "message" /\ e.route = "set" /\ e.dom = "area"
      /\ e.payload = p /\ e.err = "none"
  BY DEF Broadcast, Message, MessageFields
<1>9. DOMAIN p = {"timer"} /\ p.timer \in Nat
  BY <1>5
<1>10. posts' = Append(posts, e)
  BY <1>1
<1> HIDE DEF p, e
<1>11. IsMessage(e) /\ ~Telling(e)
  BY <1>2, <1>8, <1>9, Names DEF IsMessage, Telling, Has
<1> QED BY <1>2, <1>6, <1>7, <1>8, <1>10, <1>11, SendStep

-----------------------------------------------------------------------------
(* The link's steps, and the start.                                          *)

LEMMA BreaksInv == ASSUME ViewInv, LinkBreaks PROVE ViewInv'
<1> DEFINE e == Post("disconnected")
<1>1. /\ link = "up" /\ link' = "broken" /\ posts' = Append(posts, e)
      /\ call' = [call EXCEPT !.cut = TRUE]
      /\ UNCHANGED <<panel, held, view, stale, staleShown, requests, silent>>
  BY DEF LinkBreaks, state, shown
<1>2. PanelTyped' /\ Domains' = Domains
  BY <1>1, PanelStays DEF ViewInv, Typed
<1>3. "kind" \in DOMAIN e /\ e.kind = "disconnected"
  BY DEF Post
<1> HIDE DEF e
<1>4. IsPost(e)
  BY <1>3 DEF IsPost
<1>5. /\ PostsTyped'
      /\ ~Behind(posts) /\ (e.kind \in Early => ~Waits("disconnected")) => ~Behind(posts')
      /\ \A k : Waits(k)' <=> Waits(k) \/ e.kind = k
      /\ \A d : StatusWaits(d) => StatusWaits(d)'
  BY <1>1, <1>2, <1>4, Sending DEF ViewInv, Typed
<1>6. Ordered'
  BY <1>1, <1>3, <1>5 DEF ViewInv, Ordered
<1>7. \A d \in Domains : Fits(d) <=> Fits(d)'
  BY <1>1 DEF Fits
<1>8. ShownSoon' /\ ArmingHeard'
  BY <1>1, <1>2, <1>5, <1>7 DEF ViewInv, ShownSoon, ArmingHeard
<1>9. HeldTyped' /\ ViewTyped' /\ RequestsTyped'
  BY <1>1, <1>2, HeldStays, ViewStays, RequestsFollow DEF ViewInv, Typed, PanelTyped
<1>10. CallTyped'
  BY <1>1, <1>2 DEF ViewInv, Typed, CallTyped
<1> QED BY <1>2, <1>5, <1>6, <1>8, <1>9, <1>10 DEF ViewInv, Typed

LEMMA ReconnectInv == ASSUME ViewInv, Reconnect PROVE ViewInv'
<1> DEFINE e == Post("up")
<1>1. /\ link = "down" /\ posts = <<>> /\ link' = "up" /\ posts' = Append(posts, e)
      /\ ResetBootstrap /\ requests' = InitialStatuses(Domains)
      /\ UNCHANGED <<panel, call, silent>>
  BY DEF Reconnect, history
<1>2. PanelTyped' /\ Domains' = Domains
  BY <1>1, PanelStays DEF ViewInv, Typed
<1>3. /\ HeldTyped' /\ ViewTyped'
      /\ Has("area") => Fits("area")' /\ ~Arming(AreaMap(held'["area"]))
      /\ \A d \in Domains \ {"area"} : Fits(d) => Fits(d)'
  BY <1>1, <1>2, ResetFacts DEF ViewInv, Typed
<1>4. "kind" \in DOMAIN e /\ e.kind = "up"
  BY DEF Post
<1> HIDE DEF e
<1>5. IsPost(e) /\ ~Telling(e)
  BY <1>4 DEF IsPost, Telling
<1>6. Elems(posts) = {} /\ ~\E p \in Elems(posts) : TRUE
  BY <1>1, NoQueue
<1>7. (\A k : ~Waits(k)) /\ \A d : ~StatusWaits(d)
  BY <1>6 DEF Waits, StatusWaits
<1>8. ~Behind(posts) /\ \A c : LastTells(posts, c)
  <2>1. Len(posts) = 0
    BY <1>1
  <2> QED BY <2>1 DEF Behind, LastTells
<1>9. /\ PostsTyped'
      /\ ~Behind(posts) /\ (e.kind \in Early => ~Waits("disconnected")) => ~Behind(posts')
      /\ \A k : Waits(k)' <=> Waits(k) \/ e.kind = k
      /\ \A c : LastTells(posts, c) => LastTells(posts', c)
  BY <1>1, <1>2, <1>5, Sending DEF ViewInv, Typed
<1>10. Ordered'
  BY <1>1, <1>4, <1>7, <1>8, <1>9 DEF Ordered
<1>11. ShownSoon'
  <2>1. \A d \in Domains \ {"area"} : Fits(d)'
    BY <1>3, <1>7 DEF ViewInv, ShownSoon
  <2> QED BY <1>1, <1>2, <1>3, <1>4, <1>9, <2>1 DEF ShownSoon, Has
<1>12. ArmingHeard'
  BY <1>2, <1>3, <1>8, <1>9 DEF ArmingHeard, Has
<1>13. CallTyped' /\ RequestsTyped'
  BY <1>1, <1>2, RequestsFollow DEF ViewInv, Typed, PanelTyped, CallTyped
<1> QED BY <1>2, <1>3, <1>9, <1>10, <1>11, <1>12, <1>13 DEF ViewInv, Typed

LEMMA InitInv == Init => ViewInv
<1> SUFFICES ASSUME Init PROVE ViewInv
  OBVIOUS
<1>1. PICK ds \in Inventories : panel \in {f \in [ds -> UNION {States(d) : d \in ds}] :
                                              \A d \in ds : f[d] \in Starts(d)}
  BY DEF Init
<1>2. Domains = ds /\ ds \subseteq Domain /\ \A d \in ds : panel[d] \in Starts(d)
  <2>1. panel \in [ds -> UNION {States(d) : d \in ds}] /\ \A d \in ds : panel[d] \in Starts(d)
    BY <1>1
  <2>2. ds \subseteq Domain
    BY PanelViewBounds
  <2> QED BY <2>1, <2>2 DEF Domains
<1>3. /\ held = [d \in Domains |-> NoFields(d)] /\ view = BuildMaps(held)
      /\ stale = {} /\ staleShown = {} /\ link = "up" /\ posts = <<>> /\ call = Idle
      /\ requests = InitialStatuses(Domains) /\ silent = FALSE
  BY DEF Init
<1>4. PanelTyped
  <2>1. ASSUME NEW d \in Domains
        PROVE  DOMAIN panel[d] = Fields[d] /\ (d = "area" => panel[d] \in AreaStates)
    <3>1. panel[d] \in Starts(d) /\ d \in Domain
      BY <1>2
    <3>2. CASE d = "area"
      <4>1. panel[d] \in AreaStates
        BY <3>1, <3>2, StartsAreStates DEF Starts
      <4> QED BY <3>2, <4>1, AreaFacts
    <3>3. CASE d = "zone"
      BY <3>1, <3>3, Names DEF Starts, States
    <3>4. CASE d \notin {"area", "zone"}
      BY <3>1, <3>4, Names DEF Starts, States
    <3> QED BY <3>2, <3>3, <3>4
  <2> QED BY <1>2, <2>1 DEF PanelTyped, Has
<1>5. HeldTyped
  <2>1. \A d \in Domains : held[d] = NoFields(d)
    BY <1>3
  <2>2. \A d \in Domains : NoFields(d) = [f \in DOMAIN NoFields(d) |-> NoFields(d)[f]]
    BY DEF NoFields
  <2>3. NoFields("area").timer = Unknown
    <3>1. NoFields("area") = [f \in {"arm", "cmd", "timer", "zone"} |-> Unknown]
      BY Names DEF Domain
    <3> QED BY <3>1
  <2> QED BY <1>3, <2>1, <2>2, <2>3 DEF HeldTyped, Has
<1>6. ViewTyped /\ \A d \in Domains : Fits(d)
  BY <1>3 DEF ViewTyped, BuildMaps, Fits
<1>7. CallTyped
  BY <1>3 DEF CallTyped, Idle
<1>8. RequestsTyped
  <2>1. /\ IsQueue(requests)
        /\ \A r \in Elems(requests) : \E d \in Domains : r = Request("get", d, "none", FALSE)
    BY <1>2, <1>3, StatusesAsked
  <2>2. \A d \in Domains : IsRequest(Request("get", d, "none", FALSE))
    BY OneRequest
  <2> QED BY <2>1, <2>2 DEF RequestsTyped
<1>9. /\ PostsTyped /\ ~Behind(posts) /\ (\A k : ~Waits(k))
      /\ \A c : LastTells(posts, c)
  <2>1. IsQueue(posts) /\ Elems(posts) = {} /\ Len(posts) = 0
    BY <1>3, NoQueue
  <2> QED BY <2>1 DEF PostsTyped, Behind, Waits, LastTells
<1>10. Has("area") => ~Arming(AreaMap(held["area"]))
  <2> SUFFICES ASSUME Has("area") PROVE ~Arming(AreaMap(held["area"]))
    OBVIOUS
  <2>1. held["area"] = [f \in {"arm", "cmd", "timer", "zone"} |-> Unknown]
    BY <1>3, Names DEF Domain, Has
  <2>2. held["area"].cmd = Unknown
    BY <2>1
  <2> QED BY <2>2, ArmingArea, PanelViewBounds DEF Modes
<1>11. Ordered /\ ShownSoon /\ ArmingHeard
  BY <1>3, <1>6, <1>9, <1>10 DEF Ordered, ShownSoon, ArmingHeard, Has
<1> QED BY <1>4, <1>5, <1>6, <1>7, <1>8, <1>9, <1>11 DEF ViewInv, Typed

-----------------------------------------------------------------------------
(* The theorems.                                                             *)

LEMMA NextInv == ViewInv /\ [Next]_vars => ViewInv'
<1> SUFFICES ASSUME ViewInv, [Next]_vars PROVE ViewInv'
  OBVIOUS
<1>1. CASE LoopStep
  BY <1>1, MessageInv, StatusInv, TroublesInv, UpInv, LostInv, DisconnectedInv, AnswerInv, ResumeInv
     DEF LoopStep
<1>2. CASE LinkBreaks \/ Reconnect
  BY <1>2, BreaksInv, ReconnectInv
<1>3. CASE Write \/ BackoffEnds \/ DeadlinePasses \/ Published \/ CallerCancelled \/ AppReads
  BY <1>3, CallerInv
<1>4. CASE PanelReports \/ PanelObeys \/ PanelRefuses \/ PanelChanges \/ PanelTicks \/ PanelTroubles
  BY <1>4, ReportsInv, ObeysInv, RefusesInv, ChangesInv, TicksInv, TroubledInv
<1>5. CASE UNCHANGED vars
  <2>1. UNCHANGED <<panel, held, view, stale, staleShown, link, silent, posts, requests, call>>
    BY <1>5 DEF vars, state, shown, history
  <2>2. CallTyped'
    BY <2>1 DEF ViewInv, Typed, CallTyped, Domains
  <2> QED BY <2>1, <2>2, CallerStep
<1> QED BY <1>1, <1>2, <1>3, <1>4, <1>5 DEF Next

\* The inductive invariant: the types, and what the four theorems below rest on.
THEOREM InvHolds == Spec => []ViewInv
BY InitInv, NextInv, PTL DEF Spec

LEMMA LinkKnown == Spec => [](link \in {"up", "broken", "down"})
<1> DEFINE K == link \in {"up", "broken", "down"}
<1>1. Init => K
  BY DEF Init
<1>2. K /\ [Next]_vars => K'
  BY DEF Next, LoopStep, vars, OnMessage, OnStatus, OnTroubles, OnUp, OnLost, OnDisconnected,
         OnAnswer, OnResume, LinkBreaks, Reconnect, Write, BackoffEnds, DeadlinePasses, Published,
         CallerCancelled, AppReads, PanelReports, PanelObeys, PanelRefuses, PanelChanges,
         PanelTicks, PanelTroubles
<1> HIDE DEF K
<1>3. Spec => []K
  BY <1>1, <1>2, PTL DEF Spec
<1> QED BY <1>3 DEF K

LEMMA RangeIsElems == ASSUME NEW q, IsQueue(q) PROVE Range(q) = Elems(q)
<1>1. DOMAIN q = 1..Len(q)
  BY LenProperties DEF IsQueue
<1> QED BY <1>1 DEF Range, Elems

LEMMA AreaShown ==
  ASSUME ViewInv, link = "up", Has("area"), ~StatusWaits("area")
  PROVE  view["area"] = AreaMap(held["area"])
BY DEF ViewInv, ShownSoon, Fits, BuildMap

\* Whatever handlers fold into PanelState, and in whatever order messages, disconnects,
\* events and commands come: with no event or change of the link left to handle, the
\* snapshot that _handle_kernel_event built shows what PanelState holds, and which of it
\* is stale.
THEOREM SnapshotCatchesUp == Spec => []ViewCatchesUp
<1>1. ASSUME ViewInv, link \in {"up", "broken", "down"} PROVE ViewCatchesUp
  <2> SUFFICES ASSUME link # "broken", ~Awaited({"status", "up", "lost"})
               PROVE  view = BuildMaps(held) /\ staleShown = stale
    BY DEF ViewCatchesUp
  <2>1. Range(posts) = Elems(posts)
    BY <1>1, RangeIsElems DEF ViewInv, Typed, PostsTyped
  <2>2. (\A d : ~StatusWaits(d)) /\ ~Waits("up") /\ ~Waits("lost")
    BY <2>1 DEF Awaited, StatusWaits, Waits
  <2>3. (\A d \in Domains : Fits(d)) /\ staleShown = stale
    BY <1>1, <2>2 DEF ViewInv, ShownSoon, Has
  <2>4. view = [d \in Domains |-> view[d]] /\ DOMAIN held = Domains
    BY <1>1 DEF ViewInv, Typed, ViewTyped, HeldTyped
  <2> QED BY <2>3, <2>4 DEF BuildMaps, Fits
<1> QED BY <1>1, InvHolds, LinkKnown, PTL

\* No handler lets an event claim a confirmed status that it only remembers: the event
\* tells what the panel had when it sent the message, but for the acknowledgements of
\* locks and barriers.
THEOREM EventsTellWhatWasSent == Spec => []EventsAreCurrent
<1>1. ASSUME ViewInv PROVE EventsAreCurrent
  <2>1. Range(posts) = Elems(posts) /\ \A p \in Elems(posts) : IsPost(p)
    BY <1>1, RangeIsElems DEF ViewInv, Typed, PostsTyped
  <2> QED BY <2>1 DEF EventsAreCurrent, IsPost, IsCurrent
<1> QED BY <1>1, InvHolds, PTL

\* As long as the panel reports what changes, the exit-delay rules of
\* _reconcile_area_state and the reset of a lost session never leave a mixture of two
\* armings, or one that has ended, to be shown.
THEOREM ArmingIsThePanels == Spec => []ArmingIsReal
<1>1. ASSUME ViewInv PROVE ArmingIsReal
  <2> SUFFICES ASSUME Has("area"), link = "up", ~silent,
                      ~\E p \in Range(posts) : p.kind \in {"message", "status"} /\ p.dom = "area",
                      Arming(view["area"])
               PROVE  /\ panel["area"].arm = "DISARMED"
                      /\ panel["area"].cmd = view["area"].arm_cmd_mode
    BY DEF ArmingIsReal
  <2>1. Range(posts) = Elems(posts)
    BY <1>1, RangeIsElems DEF ViewInv, Typed, PostsTyped
  <2>2. ~StatusWaits("area") /\ NoneTells(posts)
    BY <2>1 DEF StatusWaits, NoneTells, Telling
  <2>3. view["area"] = AreaMap(held["area"])
    BY <1>1, <2>2, AreaShown
  <2>4. held["area"].cmd = panel["area"].cmd
    BY <1>1, <2>2, <2>3 DEF ViewInv, ArmingHeard
  <2>5. view["area"].arm_cmd_mode = held["area"].cmd /\ held["area"].cmd \in Modes
    <3>1. AreaMap(held["area"]).arm_cmd_mode \in Modes
      BY <2>3 DEF Arming
    <3> QED BY <2>3, <3>1, ArmingArea
  <2>6. panel["area"] \in AreaStates
    BY <1>1 DEF ViewInv, Typed, PanelTyped
  <2> QED BY <2>4, <2>5, <2>6, AreaFacts
<1> QED BY <1>1, InvHolds, PTL

\* Late and early ticks: whatever else comes, only a report of a whole pending arming
\* raises the timer of an area that is arming.
THEOREM TimerOnlyFalls == Spec => TimerRunsDown
<1> DEFINE rises == /\ Has("area") /\ Arming(AreaMap(held["area"]))
                                   /\ Arming(AreaMap(held'["area"]))
                    /\ held'["area"].timer > held["area"].timer
           A == rises => Pending \subseteq DOMAIN Head(posts).payload
<1>1. ASSUME ViewInv, [Next]_vars PROVE A
  <2> SUFFICES ASSUME rises PROVE Pending \subseteq DOMAIN Head(posts).payload
    OBVIOUS
  <2>1. held["area"].timer \in Nat
    BY <1>1, ArmingArea DEF ViewInv, Typed, HeldTyped
  <2>2. held'["area"] # held["area"]
    BY <2>1
  <2>3. OnMessage \/ ResetBootstrap
    BY <1>1, <2>2
       DEF Next, LoopStep, vars, state, OnStatus, OnTroubles, OnUp, OnLost, OnDisconnected,
           OnAnswer, OnResume, LinkBreaks, Reconnect, Write, BackoffEnds, DeadlinePasses, Published,
           CallerCancelled, AppReads, PanelReports, PanelObeys, PanelRefuses, PanelChanges,
           PanelTicks, PanelTroubles
  <2>4. CASE ResetBootstrap
    <3>1. held'["area"] = Forget(held["area"], Pending) /\ "cmd" \in DOMAIN held["area"]
      BY <1>1, <2>4, Names DEF ResetBootstrap, ViewInv, Typed, HeldTyped, Has
    <3>2. held'["area"].cmd = Unknown
      BY <3>1, ForgetFacts DEF Pending
    <3> QED BY <3>2, ArmingArea, PanelViewBounds DEF Modes
  <2>5. CASE OnMessage
    <3> DEFINE m == Head(posts)
    <3>1. PICK h, new : /\ Outcome(m, h, new) /\ IsMessage(m)
                        /\ m.dom = "area" => \/ h = ExitDelay(held["area"], m.payload).fields
                                             \/ h = held["area"] /\ DOMAIN m.payload = {}
      BY <1>1, <2>5, Handled DEF ViewInv, Typed
    <3> HIDE DEF m
    <3>2. held' = [held EXCEPT ![m.dom] = h] /\ DOMAIN held = Domains /\ m.dom \in Domains
      BY <1>1, <3>1 DEF Outcome, ViewInv, Typed, HeldTyped, IsMessage
    <3>3. m.dom = "area" /\ held'["area"] = h
      BY <2>2, <3>2 DEF Has
    <3>4. h = ExitDelay(held["area"], m.payload).fields
      BY <2>2, <3>1, <3>3
    <3>5. IsArea(held["area"])
      BY <1>1, Names DEF IsArea, ViewInv, Typed, HeldTyped, Has
    <3>6. /\ DOMAIN m.payload \subseteq Fields["area"]
          /\ "timer" \in DOMAIN m.payload => m.payload.timer \in Nat
      BY <3>1, <3>3 DEF IsMessage
    <3> QED BY <3>3, <3>4, <3>5, <3>6, ExitDelayFacts DEF m
  <2> QED BY <2>3, <2>4, <2>5
<1> HIDE DEF A
<1>2. Spec => [][A]_vars
  BY <1>1, InvHolds, PTL DEF Spec
<1> QED BY <1>2 DEF TimerRunsDown, A
=============================================================================
