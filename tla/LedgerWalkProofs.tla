--------------------------- MODULE LedgerWalkProofs ---------------------------
(****************************************************************************)
(* What the walk computes from any ledger, of any length. The prover has no *)
(* induction over an operator; here it is over a set of numbers (UpTo), and *)
(* a recursive function is reached through the function it is chosen to be: *)
(* that one exists is the first thing proved about each pass.               *)
(****************************************************************************)
EXTENDS LedgerWalk, SequenceTheorems, WellFoundedInduction, TLAPS

\* A set of numbers that is not empty has a least one.
LEMMA LeastOf ==
    ASSUME NEW S \in SUBSET Nat, S # {}
    PROVE  \E x \in S : \A y \in S : x <= y
  <1> DEFINE R == OpToRel(<, Nat)
  <1>1. PICK x \in S : \A y \in S : ~(<<y, x>> \in R)
    BY NatLessThanWellFounded, WFMin
  <1>2. \A y \in S : ~(y < x)
    BY <1>1 DEF OpToRel
  <1> QED BY <1>2

\* Induction up to a number, over a set instead of a predicate.
LEMMA UpTo ==
    ASSUME NEW n \in Nat, NEW S, 0 \in S, \A k \in 0..(n - 1) : k \in S => k + 1 \in S
    PROVE  \A k \in 0..n : k \in S
  <1> DEFINE Bad == {k \in 0..n : k \notin S}
  <1> SUFFICES ASSUME Bad # {} PROVE FALSE
    OBVIOUS
  <1>1. Bad \in SUBSET Nat
    OBVIOUS
  <1>2. PICK m \in Bad : \A y \in Bad : m <= y
    <2> HIDE DEF Bad
    <2> QED BY <1>1, LeastOf
  <1>3. m # 0 /\ m - 1 \in 0..(n - 1) /\ m - 1 \notin Bad
    BY <1>2
  <1>4. m - 1 \in S
    BY <1>3
  <1>5. (m - 1) + 1 \in S
    BY <1>3, <1>4
  <1> QED BY <1>2, <1>5

----------------------------------------------------------------------------
(* Sums                                                                     *)

\* The function SumOf reads its result from.
SumRuns(f, n, g) == g = [k \in 0..n |-> IF k = 0 THEN 0 ELSE g[k - 1] + f[k]]

LEMMA SumExists ==
    ASSUME NEW f, NEW n \in Nat
    PROVE  \E g : SumRuns(f, n, g)
  <1> DEFINE S == {m \in 0..n : \E g : SumRuns(f, m, g)}
  <1>1. 0 \in S
    <2>1. SumRuns(f, 0, [k \in 0..0 |-> 0])
      BY DEF SumRuns
    <2> QED BY <2>1
  <1>2. ASSUME NEW m \in 0..(n - 1), m \in S PROVE m + 1 \in S
    <2>1. PICK g : SumRuns(f, m, g)
      BY <1>2
    <2> DEFINE h == [k \in 0..(m + 1) |-> IF k <= m THEN g[k] ELSE g[m] + f[m + 1]]
    <2>2. SumRuns(f, m + 1, h)
      BY <2>1 DEF SumRuns
    <2> QED BY <2>2
  <1>3. \A m \in 0..n : m \in S
    <2> HIDE DEF S
    <2> QED BY <1>1, <1>2, UpTo
  <1> QED BY <1>3

LEMMA SumRun ==
    ASSUME NEW f, NEW n \in Nat
    PROVE  \E g : SumRuns(f, n, g) /\ SumOf(f, n) = g[n]
  <1>1. PICK g : SumRuns(f, n, g)
    BY SumExists
  <1> DEFINE s == CHOOSE sum : sum = [k \in 0..n |-> IF k = 0 THEN 0 ELSE sum[k - 1] + f[k]]
  <1>2. SumRuns(f, n, s)
    BY <1>1 DEF SumRuns
  <1>3. SumOf(f, n) = s[n]
    BY DEF SumOf
  <1> QED BY <1>2, <1>3

LEMMA SumUnique ==
    ASSUME NEW f, NEW n \in Nat, NEW m \in 0..n, NEW g, NEW h, SumRuns(f, n, g), SumRuns(f, m, h)
    PROVE  g[m] = h[m]
  <1> DEFINE S == {k \in 0..m : g[k] = h[k]}
  <1>1. 0 \in S
    BY DEF SumRuns
  <1>2. ASSUME NEW k \in 0..(m - 1), k \in S PROVE k + 1 \in S
    BY <1>2 DEF SumRuns
  <1>3. \A k \in 0..m : k \in S
    <2> HIDE DEF S
    <2> QED BY <1>1, <1>2, UpTo
  <1> QED BY <1>3

\* The two equations of a sum.
LEMMA SumZero == ASSUME NEW f PROVE SumOf(f, 0) = 0
  <1>1. PICK g : SumRuns(f, 0, g) /\ SumOf(f, 0) = g[0]
    BY SumRun
  <1> QED BY <1>1 DEF SumRuns

LEMMA SumStep ==
    ASSUME NEW f, NEW n \in Nat
    PROVE  SumOf(f, n + 1) = SumOf(f, n) + f[n + 1]
  <1>1. PICK g : SumRuns(f, n, g) /\ SumOf(f, n) = g[n]
    BY SumRun
  <1>2. PICK h : SumRuns(f, n + 1, h) /\ SumOf(f, n + 1) = h[n + 1]
    BY SumRun
  <1>3. h[n] = g[n]
    BY <1>1, <1>2, SumUnique
  <1>4. h[n + 1] = h[n] + f[n + 1]
    BY <1>2 DEF SumRuns
  <1> QED BY <1>1, <1>2, <1>3, <1>4

LEMMA SumType ==
    ASSUME NEW n \in Nat, NEW f, \A i \in 1..n : f[i] \in Int
    PROVE  SumOf(f, n) \in Int
  <1> DEFINE S == {k \in 0..n : SumOf(f, k) \in Int}
  <1>1. 0 \in S
    BY SumZero
  <1>2. ASSUME NEW k \in 0..(n - 1), k \in S PROVE k + 1 \in S
    BY <1>2, SumStep
  <1>3. \A k \in 0..n : k \in S
    <2> HIDE DEF S
    <2> QED BY <1>1, <1>2, UpTo
  <1> QED BY <1>3

LEMMA SumNat ==
    ASSUME NEW n \in Nat, NEW f, \A i \in 1..n : f[i] \in Nat
    PROVE  SumOf(f, n) \in Nat
  <1> DEFINE S == {k \in 0..n : SumOf(f, k) \in Nat}
  <1>1. 0 \in S
    BY SumZero
  <1>2. ASSUME NEW k \in 0..(n - 1), k \in S PROVE k + 1 \in S
    BY <1>2, SumStep
  <1>3. \A k \in 0..n : k \in S
    <2> HIDE DEF S
    <2> QED BY <1>1, <1>2, UpTo
  <1> QED BY <1>3

\* Sums agree where the terms do.
LEMMA SumSame ==
    ASSUME NEW n \in Nat, NEW f, NEW g, \A i \in 1..n : f[i] = g[i]
    PROVE  SumOf(f, n) = SumOf(g, n)
  <1> DEFINE S == {k \in 0..n : SumOf(f, k) = SumOf(g, k)}
  <1>1. 0 \in S
    BY SumZero
  <1>2. ASSUME NEW k \in 0..(n - 1), k \in S PROVE k + 1 \in S
    BY <1>2, SumStep
  <1>3. \A k \in 0..n : k \in S
    <2> HIDE DEF S
    <2> QED BY <1>1, <1>2, UpTo
  <1> QED BY <1>3

\* A sum term by term.
LEMMA SumAdd ==
    ASSUME NEW n \in Nat, NEW f, NEW g, NEW h,
           \A i \in 1..n : f[i] \in Int /\ g[i] \in Int /\ h[i] = f[i] + g[i]
    PROVE  SumOf(h, n) = SumOf(f, n) + SumOf(g, n)
  <1> DEFINE S == {k \in 0..n : /\ SumOf(f, k) \in Int /\ SumOf(g, k) \in Int
                                /\ SumOf(h, k) = SumOf(f, k) + SumOf(g, k)}
  <1>1. 0 \in S
    BY SumZero
  <1>2. ASSUME NEW k \in 0..(n - 1), k \in S PROVE k + 1 \in S
    <2>1. k + 1 \in 1..n /\ k \in Nat
      OBVIOUS
    <2>2. /\ SumOf(f, k + 1) = SumOf(f, k) + f[k + 1] /\ SumOf(g, k + 1) = SumOf(g, k) + g[k + 1]
          /\ SumOf(h, k + 1) = SumOf(h, k) + h[k + 1]
      BY <2>1, SumStep
    <2> QED BY <1>2, <2>1, <2>2
  <1>3. \A k \in 0..n : k \in S
    <2> HIDE DEF S
    <2> QED BY <1>1, <1>2, UpTo
  <1> QED BY <1>3

\* One term changes.
LEMMA SumPoint ==
    ASSUME NEW n \in Nat, NEW f, NEW g, NEW i \in 1..n, \A j \in 1..n : f[j] \in Int /\ g[j] \in Int,
           \A j \in 1..n : j # i => g[j] = f[j]
    PROVE  SumOf(g, n) = SumOf(f, n) + g[i] - f[i]
  <1> DEFINE S == {k \in 0..n : /\ SumOf(f, k) \in Int
                                /\ k < i => SumOf(g, k) = SumOf(f, k)
                                /\ k >= i => SumOf(g, k) = SumOf(f, k) + g[i] - f[i]}
  <1>1. 0 \in S
    BY SumZero
  <1>2. ASSUME NEW k \in 0..(n - 1), k \in S PROVE k + 1 \in S
    <2>1. k + 1 \in 1..n /\ k \in Nat
      OBVIOUS
    <2>2. SumOf(f, k + 1) = SumOf(f, k) + f[k + 1] /\ SumOf(g, k + 1) = SumOf(g, k) + g[k + 1]
      BY <2>1, SumStep
    <2> QED BY <1>2, <2>1, <2>2
  <1>3. \A k \in 0..n : k \in S
    <2> HIDE DEF S
    <2> QED BY <1>1, <1>2, UpTo
  <1> QED BY <1>3

LEMMA SumZeros ==
    ASSUME NEW n \in Nat, NEW f, \A i \in 1..n : f[i] = 0
    PROVE  SumOf(f, n) = 0
  <1> DEFINE S == {k \in 0..n : SumOf(f, k) = 0}
  <1>1. 0 \in S
    BY SumZero
  <1>2. ASSUME NEW k \in 0..(n - 1), k \in S PROVE k + 1 \in S
    BY <1>2, SumStep
  <1>3. \A k \in 0..n : k \in S
    <2> HIDE DEF S
    <2> QED BY <1>1, <1>2, UpTo
  <1> QED BY <1>3

----------------------------------------------------------------------------
(* The order of the walk                                                    *)

\* The entries have dates that compare and amounts that add.
Readable(L) ==
    /\ Len(L) \in Nat
    /\ \A i \in 1..Len(L) : L[i].date \in Int /\ L[i].amount \in Int

\* o lists 1..n, each once and in (entry_date, id) order.
Lists(L, n, o) ==
    /\ o \in Seq(1..n) /\ Len(o) = n
    /\ \A a, b \in 1..n : a < b => Earlier(L, o[a], o[b])
    /\ \A i \in 1..n : \E k \in 1..n : o[k] = i

LEMMA EarlierTotal ==
    ASSUME NEW L, Readable(L), NEW i \in 1..Len(L), NEW j \in 1..Len(L)
    PROVE  /\ Earlier(L, i, j) \/ Earlier(L, j, i) \/ i = j
           /\ ~(Earlier(L, i, j) /\ Earlier(L, j, i))
           /\ ~Earlier(L, i, i)
  BY DEF Readable, Earlier

LEMMA EarlierTransitive ==
    ASSUME NEW L, Readable(L), NEW i \in 1..Len(L), NEW j \in 1..Len(L), NEW k \in 1..Len(L),
           Earlier(L, i, j), Earlier(L, j, k)
    PROVE  Earlier(L, i, k)
  BY DEF Readable, Earlier

\* Those before an entry are the first of any listing.
LEMMA PlaceFacts ==
    ASSUME NEW L, Readable(L), NEW m \in 0..(Len(L) - 1), NEW o, Lists(L, m, o)
    PROVE  LET c == Place(L, o, m + 1)
           IN  c \in 0..m /\ \A k \in 1..m : k <= c <=> Earlier(L, o[k], m + 1)
  <1> DEFINE Later == {k \in 1..m : ~Earlier(L, o[k], m + 1)}
  <1>1. Len(L) \in Nat /\ m \in Nat /\ m + 1 \in 1..Len(L) /\ Len(o) = m
    BY DEF Readable, Lists
  <1>2. \A k \in 1..m : o[k] \in 1..Len(L)
    <2>1. o \in Seq(1..m)
      BY DEF Lists
    <2>2. \A k \in 1..m : o[k] \in 1..m
      BY <1>1, <2>1, ElementOfSeq
    <2> QED BY <1>1, <2>2
  <1>3. \A a, b \in 1..m : a < b /\ a \in Later => b \in Later
    <2> SUFFICES ASSUME NEW a \in 1..m, NEW b \in 1..m, a < b, Earlier(L, o[b], m + 1)
                 PROVE  Earlier(L, o[a], m + 1)
      OBVIOUS
    <2>1. Earlier(L, o[a], o[b])
      BY DEF Lists
    <2> QED BY <1>1, <1>2, <2>1, EarlierTransitive
  <1>4. \E c \in 0..m : \A k \in 1..m : k <= c <=> Earlier(L, o[k], m + 1)
    <2>1. CASE Later = {}
      BY <1>1, <2>1
    <2>2. CASE Later # {}
      <3>1. PICK x \in Later : \A y \in Later : x <= y
        <4>1. Later \in SUBSET Nat
          OBVIOUS
        <4> HIDE DEF Later
        <4> QED BY <2>2, <4>1, LeastOf
      <3>2. x - 1 \in 0..m /\ \A k \in 1..m : k <= x - 1 <=> k \notin Later
        BY <1>1, <1>3, <3>1
      <3> QED BY <3>2
    <2> QED BY <2>1, <2>2
  <1> QED BY <1>1, <1>4 DEF Place

\* One more entry, put in its place.
LEMMA InsertFacts ==
    ASSUME NEW L, Readable(L), NEW m \in 0..(Len(L) - 1), NEW o, Lists(L, m, o)
    PROVE  Lists(L, m + 1, Insert(L, o, m + 1))
  <1>1. PICK c : c = Place(L, o, m + 1)
    OBVIOUS
  <1>2. c \in 0..m /\ \A k \in 1..m : k <= c <=> Earlier(L, o[k], m + 1)
    BY <1>1, PlaceFacts
  <1>3. Len(L) \in Nat /\ m \in Nat /\ m + 1 \in 1..Len(L) /\ Len(o) = m /\ o \in Seq(1..m)
    BY DEF Readable, Lists
  <1>4. \A k \in 1..m : o[k] \in 1..m
    BY <1>3, ElementOfSeq
  <1> DEFINE p == SubSeq(o, 1, c)
             q == SubSeq(o, c + 1, m)
             r == p \o <<m + 1>>
             s == r \o q
             T == 1..(m + 1)
  <1>5. p \in Seq(T) /\ Len(p) = c /\ \A k \in 1..c : p[k] = o[k]
    <2>1. \A k \in 1..c : o[k] \in T
      BY <1>2, <1>3, <1>4
    <2> QED BY <1>2, <1>3, <2>1, SubSeqProperties
  <1>6. q \in Seq(T) /\ Len(q) = m - c /\ \A k \in 1..(m - c) : q[k] = o[c + k]
    <2>1. \A k \in (c + 1)..m : o[k] \in T
      BY <1>2, <1>3, <1>4
    <2>2. c + 1 \in Int /\ m \in Int
      BY <1>2
    <2>3. /\ q \in Seq(T)
          /\ Len(q) = IF c + 1 <= m THEN m - (c + 1) + 1 ELSE 0
          /\ \A i \in 1 .. m-(c+1)+1 : q[i] = o[(c+1)+i-1]
      BY <2>1, <2>2, SubSeqProperties
    <2>4. Len(q) = m - c
      BY <1>2, <2>3
    <2>5. ASSUME NEW k \in 1..(m - c) PROVE q[k] = o[c + k]
      <3>1. k \in 1..(m - (c + 1) + 1) /\ (c + 1) + k - 1 = c + k
        BY <1>2
      <3> HIDE DEF q
      <3> QED BY <2>3, <3>1
    <2> QED BY <2>3, <2>4, <2>5
  <1>7. <<m + 1>> \in Seq(T) /\ Len(<<m + 1>>) = 1 /\ <<m + 1>>[1] = m + 1
    BY <1>3
  <1> HIDE DEF p, q, T
  <1>8. /\ r \in Seq(T) /\ Len(r) = c + 1
        /\ \A k \in 1..c : r[k] = o[k]
        /\ r[c + 1] = m + 1
    BY <1>2, <1>5, <1>7, ConcatProperties
  <1>9. Insert(L, o, m + 1) = s
    BY <1>1, <1>3 DEF Insert, p, q
  <1> HIDE DEF r
  <1>10. /\ s \in Seq(T) /\ Len(s) = m + 1
         /\ \A k \in 1..c : s[k] = o[k]
         /\ s[c + 1] = m + 1
         /\ \A k \in (c + 2)..(m + 1) : s[k] = o[k - 1]
    <2>1. /\ r \o q \in Seq(T) /\ Len(r \o q) = Len(r) + Len(q)
          /\ \A i \in 1..(Len(r) + Len(q)) : (r \o q)[i] = IF i <= Len(r) THEN r[i] ELSE q[i - Len(r)]
      BY <1>6, <1>8, ConcatProperties
    <2>2. s = r \o q /\ Len(r) = c + 1 /\ Len(r) + Len(q) = m + 1
      BY <1>2, <1>3, <1>6, <1>8
    <2> HIDE DEF s
    <2>3. ASSUME NEW k \in (c + 2)..(m + 1) PROVE s[k] = o[k - 1]
      <3>1. k \in 1..(m + 1) /\ ~(k <= c + 1) /\ k - (c + 1) \in 1..(m - c) /\ c + (k - (c + 1)) = k - 1
        BY <1>2, <1>3
      <3>2. s[k] = q[k - (c + 1)]
        BY <2>1, <2>2, <3>1
      <3> QED BY <1>6, <3>1, <3>2
    <2>4. \A k \in 1..(c + 1) : s[k] = r[k]
      BY <1>2, <1>3, <2>1, <2>2
    <2>5. \A k \in 1..c : s[k] = o[k]
      BY <1>2, <1>3, <1>8, <2>4
    <2>6. s[c + 1] = m + 1
      BY <1>2, <1>3, <1>8, <2>4
    <2> QED BY <2>1, <2>2, <2>3, <2>5, <2>6
  <1> HIDE DEF s
  <1>11. ASSUME NEW a \in 1..(m + 1), NEW b \in 1..(m + 1), a < b
         PROVE  Earlier(L, s[a], s[b])
    <2>1. CASE b <= c
      BY <1>2, <1>10, <1>11, <2>1 DEF Lists
    <2>2. CASE b = c + 1
      BY <1>2, <1>10, <1>11, <2>2
    <2>3. CASE b > c + 1
      <3>1. b - 1 \in 1..m /\ b - 1 > c /\ s[b] = o[b - 1]
        BY <1>2, <1>10, <1>11, <2>3
      <3>2. ~Earlier(L, o[b - 1], m + 1) /\ o[b - 1] \in 1..m
        BY <1>2, <1>4, <3>1
      <3>3. Earlier(L, m + 1, o[b - 1])
        BY <1>3, <3>2, EarlierTotal
      <3>4. CASE a <= c
        <4>1. s[a] = o[a] /\ a \in 1..m /\ a < b - 1
          BY <1>2, <1>10, <3>1, <3>4
        <4> QED BY <3>1, <4>1 DEF Lists
      <3>5. CASE a = c + 1
        BY <1>10, <3>1, <3>3, <3>5
      <3>6. CASE a > c + 1
        <4>1. s[a] = o[a - 1] /\ a - 1 \in 1..m /\ a - 1 < b - 1
          BY <1>2, <1>10, <1>11, <3>6
        <4> QED BY <3>1, <4>1 DEF Lists
      <3> QED BY <1>2, <3>4, <3>5, <3>6
    <2> QED BY <1>2, <2>1, <2>2, <2>3
  <1>12. ASSUME NEW i \in 1..(m + 1)
         PROVE  \E k \in 1..(m + 1) : s[k] = i
    <2>1. CASE i = m + 1
      BY <1>2, <1>10, <2>1
    <2>2. CASE i \in 1..m
      <3>1. PICK k \in 1..m : o[k] = i
        BY <2>2 DEF Lists
      <3>2. CASE k <= c
        BY <1>2, <1>10, <3>1, <3>2
      <3>3. CASE k > c
        <4>1. k + 1 \in (c + 2)..(m + 1) /\ (k + 1) - 1 = k
          BY <1>2, <3>1, <3>3
        <4>2. s[k + 1] = o[k] /\ k + 1 \in 1..(m + 1)
          BY <1>2, <1>10, <4>1
        <4> QED BY <3>1, <4>2
      <3> QED BY <1>2, <3>2, <3>3
    <2> QED BY <1>3, <2>1, <2>2
  <1> QED BY <1>10, <1>9, <1>11, <1>12 DEF Lists, T

\* InOrder lists the whole ledger.
OrderRuns(L, n, g) == g = [k \in 0..n |-> IF k = 0 THEN <<>> ELSE Insert(L, g[k - 1], k)]

LEMMA OrderExists ==
    ASSUME NEW L, NEW n \in Nat
    PROVE  \E g : OrderRuns(L, n, g)
  <1> DEFINE S == {m \in 0..n : \E g : OrderRuns(L, m, g)}
  <1>1. 0 \in S
    <2>1. OrderRuns(L, 0, [k \in 0..0 |-> <<>>])
      BY DEF OrderRuns
    <2> QED BY <2>1
  <1>2. ASSUME NEW m \in 0..(n - 1), m \in S PROVE m + 1 \in S
    <2>1. PICK g : OrderRuns(L, m, g)
      BY <1>2
    <2> DEFINE h == [k \in 0..(m + 1) |-> IF k <= m THEN g[k] ELSE Insert(L, g[m], m + 1)]
    <2>2. OrderRuns(L, m + 1, h)
      BY <2>1 DEF OrderRuns
    <2> QED BY <2>2
  <1>3. \A m \in 0..n : m \in S
    <2> HIDE DEF S
    <2> QED BY <1>1, <1>2, UpTo
  <1> QED BY <1>3

LEMMA InOrderFacts ==
    ASSUME NEW L, Readable(L)
    PROVE  Lists(L, Len(L), InOrder(L))
  <1>1. Len(L) \in Nat
    BY DEF Readable
  <1>2. PICK g : OrderRuns(L, Len(L), g)
    BY <1>1, OrderExists
  <1> DEFINE run == CHOOSE order : order = [n \in 0..Len(L) |-> IF n = 0 THEN <<>> ELSE Insert(L, order[n - 1], n)]
  <1>3. OrderRuns(L, Len(L), run) /\ InOrder(L) = run[Len(L)]
    BY <1>2 DEF OrderRuns, InOrder
  <1> HIDE DEF run
  <1> DEFINE S == {m \in 0..Len(L) : Lists(L, m, run[m])}
  <1>4. 0 \in S
    <2>1. run[0] = <<>>
      BY <1>1, <1>3 DEF OrderRuns
    <2>2. 1..0 = {} /\ <<>> \in Seq(1..0) /\ Len(<<>>) = 0
      OBVIOUS
    <2>3. Lists(L, 0, <<>>)
      BY <2>2 DEF Lists
    <2> QED BY <1>1, <2>1, <2>3
  <1>5. ASSUME NEW m \in 0..(Len(L) - 1), m \in S PROVE m + 1 \in S
    <2>1. run[m + 1] = Insert(L, run[m], m + 1)
      BY <1>1, <1>3 DEF OrderRuns
    <2>2. Lists(L, m + 1, run[m + 1])
      BY <1>5, <2>1, InsertFacts
    <2> QED BY <1>1, <2>2
  <1>6. \A m \in 0..Len(L) : m \in S
    <2> HIDE DEF S
    <2> QED BY <1>1, <1>4, <1>5, UpTo
  <1> QED BY <1>1, <1>3, <1>6

\* Places are of different entries, and come in the order of the entries.
LEMMA ListedOnce ==
    ASSUME NEW L, Readable(L), NEW o, Lists(L, Len(L), o)
    PROVE  /\ \A k \in 1..Len(L) : o[k] \in 1..Len(L)
           /\ \A a, b \in 1..Len(L) : a # b => o[a] # o[b]
           /\ \A a, b \in 1..Len(L) : Earlier(L, o[a], o[b]) => a < b
  <1>1. Len(L) \in Nat /\ Len(o) = Len(L)
    BY DEF Readable, Lists
  <1>2. \A k \in 1..Len(L) : o[k] \in 1..Len(L)
    BY <1>1, ElementOfSeq DEF Lists
  <1>3. ASSUME NEW a \in 1..Len(L), NEW b \in 1..Len(L), ~(a < b)
        PROVE  ~Earlier(L, o[a], o[b])
    <2>1. CASE a = b
      BY <1>2, <2>1, EarlierTotal
    <2>2. CASE b < a
      <3>1. Earlier(L, o[b], o[a])
        BY <2>2 DEF Lists
      <3> QED BY <1>2, <3>1, EarlierTotal
    <2> QED BY <1>1, <1>3, <2>1, <2>2
  <1>4. ASSUME NEW a \in 1..Len(L), NEW b \in 1..Len(L), a # b
        PROVE  o[a] # o[b]
    <2>1. Earlier(L, o[a], o[b]) \/ Earlier(L, o[b], o[a])
      BY <1>1, <1>4 DEF Lists
    <2> QED BY <1>2, <2>1, EarlierTotal
  <1> QED BY <1>2, <1>3, <1>4

----------------------------------------------------------------------------
(* Annulled entries                                                         *)

LEMMA AmountsFacts ==
    ASSUME NEW L, Readable(L), NEW V
    PROVE  /\ \A i \in 1..Len(L) : Amounts(L, V)[i] \in Int
           /\ \A i \in 1..Len(L) : Amounts(L, V)[i] = IF i \in V THEN L[i].amount ELSE 0
           /\ Total(L, V) \in Int
  <1>1. Len(L) \in Nat
    BY DEF Readable
  <1>2. \A i \in 1..Len(L) : /\ Amounts(L, V)[i] \in Int
                             /\ Amounts(L, V)[i] = IF i \in V THEN L[i].amount ELSE 0
    BY DEF Amounts, Readable
  <1>3. SumOf(Amounts(L, V), Len(L)) \in Int
    BY <1>1, <1>2, SumType
  <1> QED BY <1>2, <1>3 DEF Total

\* Two sets of rows that do not meet.
LEMMA TotalUnion ==
    ASSUME NEW L, Readable(L), NEW V, NEW A, NEW B, V = A \cup B, A \cap B = {}
    PROVE  Total(L, V) = Total(L, A) + Total(L, B)
  <1>1. Len(L) \in Nat
    BY DEF Readable
  <1>2. ASSUME NEW i \in 1..Len(L)
        PROVE  /\ Amounts(L, A)[i] \in Int /\ Amounts(L, B)[i] \in Int
               /\ Amounts(L, V)[i] = Amounts(L, A)[i] + Amounts(L, B)[i]
    BY DEF Amounts, Readable
  <1> QED BY <1>1, <1>2, SumAdd DEF Total

\* One row more.
LEMMA TotalOne ==
    ASSUME NEW L, Readable(L), NEW A, NEW i \in 1..Len(L), i \notin A
    PROVE  Total(L, A \cup {i}) = Total(L, A) + L[i].amount
  <1>1. Len(L) \in Nat
    BY DEF Readable
  <1> DEFINE f == Amounts(L, A)
             g == Amounts(L, A \cup {i})
  <1>2. \A j \in 1..Len(L) : f[j] \in Int /\ g[j] \in Int
    BY AmountsFacts
  <1>3. \A j \in 1..Len(L) : j # i => g[j] = f[j]
    BY AmountsFacts
  <1>4. g[i] = L[i].amount /\ f[i] = 0 /\ L[i].amount \in Int
    BY AmountsFacts DEF Readable
  <1> HIDE DEF f, g
  <1>5. SumOf(g, Len(L)) = SumOf(f, Len(L)) + g[i] - f[i]
    BY <1>1, <1>2, <1>3, SumPoint
  <1>6. SumOf(f, Len(L)) \in Int
    BY <1>1, <1>2, SumType
  <1> QED BY <1>4, <1>5, <1>6 DEF Total, f, g

\* The dictionary keeps one entry for a key.
LEMMA LastIsOne ==
    ASSUME NEW L, Readable(L), NEW S \in SUBSET (1..Len(L)), NEW i \in LastOf(L, S), NEW j \in LastOf(L, S)
    PROVE  i = j
  BY EarlierTotal DEF LastOf

\* An annulment is of an entry of another type than its annuller's.
Sound(policy) == policy.adjustment \notin policy.annullable

AnnulRuns(L, o, V, policy, n, g) ==
    g = [k \in 0..n |-> IF k = 0 THEN {} ELSE Claim(L, V, policy, g[k - 1], o[k])]

LEMMA AnnulExists ==
    ASSUME NEW L, NEW o, NEW V, NEW policy, NEW n \in Nat
    PROVE  \E g : AnnulRuns(L, o, V, policy, n, g)
  <1> DEFINE S == {m \in 0..n : \E g : AnnulRuns(L, o, V, policy, m, g)}
  <1>1. 0 \in S
    <2>1. AnnulRuns(L, o, V, policy, 0, [k \in 0..0 |-> {}])
      BY DEF AnnulRuns
    <2> QED BY <2>1
  <1>2. ASSUME NEW m \in 0..(n - 1), m \in S PROVE m + 1 \in S
    <2>1. PICK g : AnnulRuns(L, o, V, policy, m, g)
      BY <1>2
    <2> DEFINE h == [k \in 0..(m + 1) |-> IF k <= m THEN g[k] ELSE Claim(L, V, policy, g[m], o[m + 1])]
    <2>2. \A k \in 0..m : g[k] = IF k = 0 THEN {} ELSE Claim(L, V, policy, g[k - 1], o[k])
      BY <2>1 DEF AnnulRuns
    <2>3. h[m + 1] = Claim(L, V, policy, g[m], o[m + 1]) /\ \A k \in 0..m : h[k] = g[k]
      OBVIOUS
    <2> HIDE DEF h
    <2>4. ASSUME NEW k \in 0..(m + 1)
          PROVE  h[k] = IF k = 0 THEN {} ELSE Claim(L, V, policy, h[k - 1], o[k])
      <3>1. CASE k <= m
        <4>1. k \in 0..m /\ (k # 0 => k - 1 \in 0..m)
          BY <3>1
        <4> QED BY <2>2, <2>3, <4>1
      <3>2. CASE k = m + 1
        BY <2>3, <3>2
      <3> QED BY <3>1, <3>2
    <2>5. h = [k \in 0..(m + 1) |-> IF k = 0 THEN {} ELSE Claim(L, V, policy, h[k - 1], o[k])]
      <3>1. h = [k \in 0..(m + 1) |-> h[k]]
        BY DEF h
      <3> QED BY <2>4, <3>1
    <2>6. AnnulRuns(L, o, V, policy, m + 1, h)
      BY <2>5 DEF AnnulRuns
    <2> QED BY <2>6
  <1>3. \A m \in 0..n : m \in S
    <2> HIDE DEF S
    <2> QED BY <1>1, <1>2, UpTo
  <1> QED BY <1>3

\* What is claimed after each entry of the order.
AnnulPass(L, o, V, policy, g) ==
    /\ Annulled(L, o, V, policy) = g[Len(L)] /\ g[0] = {}
    /\ \A k \in 0..(Len(L) - 1) : g[k + 1] = Claim(L, V, policy, g[k], o[k + 1])

LEMMA AnnulRun ==
    ASSUME NEW L, NEW o, NEW V, NEW policy, Len(L) \in Nat
    PROVE  \E g : AnnulPass(L, o, V, policy, g)
  <1>1. PICK h : AnnulRuns(L, o, V, policy, Len(L), h)
    BY AnnulExists
  <1> DEFINE g == CHOOSE claimed : claimed =
                     [k \in 0..Len(L) |-> IF k = 0 THEN {} ELSE Claim(L, V, policy, claimed[k - 1], o[k])]
  <1>2. AnnulRuns(L, o, V, policy, Len(L), g) /\ Annulled(L, o, V, policy) = g[Len(L)]
    BY <1>1 DEF AnnulRuns, Annulled
  <1> HIDE DEF g
  <1>3. \A k \in 0..Len(L) : g[k] = IF k = 0 THEN {} ELSE Claim(L, V, policy, g[k - 1], o[k])
    BY <1>2 DEF AnnulRuns
  <1>4. ASSUME NEW k \in 0..(Len(L) - 1)
        PROVE  g[k + 1] = Claim(L, V, policy, g[k], o[k + 1])
    <2>1. k + 1 \in 0..Len(L) /\ k + 1 # 0 /\ (k + 1) - 1 = k
      OBVIOUS
    <2> QED BY <1>3, <2>1
  <1>5. AnnulPass(L, o, V, policy, g)
    BY <1>2, <1>3, <1>4 DEF AnnulPass
  <1> QED BY <1>5

\* An annuller i claims t.
Offsets(L, V, policy, claimed, i, t) ==
    /\ i \in V /\ L[i].type = policy.adjustment
    /\ L[t].type # policy.adjustment /\ t \notin claimed
    /\ L[i].amount + L[t].amount = 0
    /\ Claim(L, V, policy, claimed, i) = claimed \cup {i} \cup {t}

\* One entry of the walk: it claims nothing, or itself and one entry that offsets it.
LEMMA ClaimFacts ==
    ASSUME NEW L, Readable(L), NEW V \in SUBSET (1..Len(L)), NEW policy, Sound(policy),
           NEW claimed, NEW i \in 1..Len(L)
    PROVE  \/ Claim(L, V, policy, claimed, i) = claimed
           \/ \E t \in V : Offsets(L, V, policy, claimed, i, t)
  <1> DEFINE T == Targets(L, V, claimed, i)
             C == Created(L, V, L[i].doc)
  <1> SUFFICES ASSUME Annuls(L, V, policy, i), T # {}
               PROVE  \E t \in V : Offsets(L, V, policy, claimed, i, t)
    BY DEF Claim
  <1>1. PICK t : t \in T
    OBVIOUS
  <1>2. C \in SUBSET (1..Len(L)) /\ T \subseteq LastOf(L, C) /\ LastOf(L, C) \subseteq C
    BY DEF Created, Targets, LastOf
  <1>3. T = {t}
    <2> HIDE DEF T, C
    <2> QED BY <1>1, <1>2, LastIsOne
  <1>4. t \in C /\ t \notin claimed /\ L[i].amount + L[t].amount = 0
    BY <1>1, <1>2 DEF Targets
  <1>5. t \in V /\ L[t].type = L[i].doc[1]
    BY <1>4 DEF Created
  <1>6. i \in V /\ L[i].type = policy.adjustment /\ L[i].doc[1] \in policy.annullable
    BY DEF Annuls
  <1>7. Claim(L, V, policy, claimed, i) = claimed \cup {i} \cup {t}
    BY <1>3 DEF Claim
  <1> QED BY <1>4, <1>5, <1>6, <1>7 DEF Sound, Offsets

\* What is annulled is in view and comes to nothing.
LEMMA AnnulledFacts ==
    ASSUME NEW L, Readable(L), NEW o, Lists(L, Len(L), o), NEW V \in SUBSET (1..Len(L)),
           NEW policy, Sound(policy)
    PROVE  Annulled(L, o, V, policy) \subseteq V /\ Total(L, Annulled(L, o, V, policy)) = 0
  <1>1. Len(L) \in Nat
    BY DEF Readable
  <1>2. PICK g : AnnulPass(L, o, V, policy, g)
    BY <1>1, AnnulRun
  <1>3. /\ \A k \in 1..Len(L) : o[k] \in 1..Len(L)
        /\ \A a, b \in 1..Len(L) : a # b => o[a] # o[b]
    BY ListedOnce
  <1> DEFINE S == {k \in 0..Len(L) :
                     /\ g[k] \subseteq V /\ Total(L, g[k]) = 0
                     /\ \A i \in g[k] : L[i].type = policy.adjustment => \E a \in 1..k : o[a] = i}
  <1>4. 0 \in S
    <2>1. \A i \in 1..Len(L) : Amounts(L, {})[i] = 0
      BY AmountsFacts
    <2>2. Total(L, {}) = 0
      BY <1>1, <2>1, SumZeros DEF Total
    <2>3. g[0] = {} /\ 0 \in 0..Len(L)
      BY <1>1, <1>2 DEF AnnulPass
    <2>4. Total(L, g[0]) = 0 /\ g[0] \subseteq V
      BY <2>2, <2>3
    <2>5. \A i \in g[0] : L[i].type = policy.adjustment => \E a \in 1..0 : o[a] = i
      BY <2>3
    <2> QED BY <2>3, <2>4, <2>5
  <1>5. ASSUME NEW k \in 0..(Len(L) - 1), k \in S PROVE k + 1 \in S
    <2>1. k + 1 \in 1..Len(L) /\ k + 1 \in 0..Len(L) /\ o[k + 1] \in 1..Len(L)
      BY <1>1, <1>3
    <2>2. g[k] \subseteq V /\ Total(L, g[k]) = 0
      BY <1>5
    <2>3. \A i \in g[k] : L[i].type = policy.adjustment => \E a \in 1..k : o[a] = i
      BY <1>5
    <2>4. PICK c : c = g[k]
      OBVIOUS
    <2>5. PICK i : i = o[k + 1]
      OBVIOUS
    <2>6. g[k + 1] = Claim(L, V, policy, c, i)
      BY <1>2, <2>4, <2>5 DEF AnnulPass
    <2>7. CASE Claim(L, V, policy, c, i) = c
      <3>1. \A j \in g[k + 1] : L[j].type = policy.adjustment => \E a \in 1..(k + 1) : o[a] = j
        BY <2>3, <2>4, <2>6, <2>7
      <3> QED BY <2>1, <2>2, <2>4, <2>6, <2>7, <3>1
    <2>8. ASSUME NEW t \in V, Offsets(L, V, policy, c, i, t)
          PROVE  k + 1 \in S
      <3> USE <2>8 DEF Offsets
      <3>1. i \notin c
        <4>1. \A a \in 1..k : o[a] # i
          BY <1>1, <1>3, <2>1, <2>5
        <4> QED BY <2>3, <2>4, <2>8, <4>1
      <3>2. i \in 1..Len(L) /\ t \in 1..Len(L) /\ t # i
        BY <2>8
      <3>3. Total(L, c \cup {i}) = 0 + L[i].amount
        BY <2>2, <2>4, <3>1, <3>2, TotalOne
      <3>4. Total(L, (c \cup {i}) \cup {t}) = Total(L, c \cup {i}) + L[t].amount
        BY <2>8, <3>2, TotalOne
      <3>5. Total(L, g[k + 1]) = 0
        BY <2>6, <2>8, <3>2, <3>3, <3>4 DEF Readable
      <3>6. g[k + 1] \subseteq V
        BY <2>2, <2>4, <2>6, <2>8
      <3>7. \A j \in g[k + 1] : L[j].type = policy.adjustment => \E a \in 1..(k + 1) : o[a] = j
        BY <1>1, <2>1, <2>3, <2>4, <2>5, <2>6, <2>8
      <3> QED BY <2>1, <3>5, <3>6, <3>7
    <2>9. \/ Claim(L, V, policy, c, i) = c
          \/ \E t \in V : Offsets(L, V, policy, c, i, t)
      BY <2>1, <2>5, ClaimFacts
    <2> HIDE DEF S
    <2> QED BY <2>7, <2>8, <2>9
  <1>6. \A k \in 0..Len(L) : k \in S
    <2> HIDE DEF S
    <2> QED BY <1>1, <1>4, <1>5, UpTo
  <1>7. Len(L) \in S /\ Annulled(L, o, V, policy) = g[Len(L)]
    BY <1>1, <1>2, <1>6 DEF AnnulPass
  <1> QED BY <1>7

\* The live amounts add up to the balance.
LEMMA LiveFacts ==
    ASSUME NEW L, Readable(L), NEW o, Lists(L, Len(L), o), NEW V \in SUBSET (1..Len(L)),
           NEW policy, Sound(policy)
    PROVE  /\ Live(L, o, V, policy) \in [1..Len(L) -> Int]
           /\ SumOf(Live(L, o, V, policy), Len(L)) = Total(L, V)
  <1>1. PICK A : A = Annulled(L, o, V, policy)
    OBVIOUS
  <1>2. A \subseteq V /\ Total(L, A) = 0
    BY <1>1, AnnulledFacts
  <1>3. Total(L, V) = Total(L, V \ A) + Total(L, A)
    <2>1. V = (V \ A) \cup A /\ (V \ A) \cap A = {}
      BY <1>2
    <2> QED BY <2>1, TotalUnion
  <1>4. Total(L, V \ A) \in Int
    BY AmountsFacts
  <1>5. Live(L, o, V, policy) = Amounts(L, V \ A)
    BY <1>1 DEF Live
  <1>6. Amounts(L, V \ A) \in [1..Len(L) -> Int]
    BY DEF Amounts, Readable
  <1>7. SumOf(Amounts(L, V \ A), Len(L)) = Total(L, V \ A)
    BY DEF Total
  <1>8. Total(L, V) = Total(L, V \ A)
    BY <1>2, <1>3, <1>4
  <1> QED BY <1>5, <1>6, <1>7, <1>8

----------------------------------------------------------------------------
(* REDUCE                                                                   *)

States(n) == [left : [1..n -> Int], pool : Nat]

ReduceRuns(L, o, policy, live, n, g) ==
    g = [k \in 0..n |-> IF k = 0 THEN [left |-> live, pool |-> 0]
                        ELSE Reduce(L, policy, live, g[k - 1], o[k])]

LEMMA ReduceExists ==
    ASSUME NEW L, NEW o, NEW policy, NEW live, NEW n \in Nat
    PROVE  \E g : ReduceRuns(L, o, policy, live, n, g)
  <1> DEFINE S == {m \in 0..n : \E g : ReduceRuns(L, o, policy, live, m, g)}
  <1>0. PICK start : start = [left |-> live, pool |-> 0]
    OBVIOUS
  <1>1. 0 \in S
    <2>1. ReduceRuns(L, o, policy, live, 0, [k \in 0..0 |-> start])
      BY <1>0 DEF ReduceRuns
    <2> QED BY <2>1
  <1>2. ASSUME NEW m \in 0..(n - 1), m \in S PROVE m + 1 \in S
    <2>1. PICK g : ReduceRuns(L, o, policy, live, m, g)
      BY <1>2
    <2> DEFINE h == [k \in 0..(m + 1) |-> IF k <= m THEN g[k] ELSE Reduce(L, policy, live, g[m], o[m + 1])]
    <2>2. \A k \in 0..m : g[k] = IF k = 0 THEN start ELSE Reduce(L, policy, live, g[k - 1], o[k])
      BY <1>0, <2>1 DEF ReduceRuns
    <2>3. h[m + 1] = Reduce(L, policy, live, g[m], o[m + 1]) /\ \A k \in 0..m : h[k] = g[k]
      OBVIOUS
    <2> HIDE DEF h
    <2>4. ASSUME NEW k \in 0..(m + 1)
          PROVE  h[k] = IF k = 0 THEN start ELSE Reduce(L, policy, live, h[k - 1], o[k])
      <3>1. CASE k <= m
        <4>1. k \in 0..m /\ (k # 0 => k - 1 \in 0..m)
          BY <3>1
        <4> QED BY <2>2, <2>3, <4>1
      <3>2. CASE k = m + 1
        BY <2>3, <3>2
      <3> QED BY <3>1, <3>2
    <2>5. h = [k \in 0..(m + 1) |-> IF k = 0 THEN start ELSE Reduce(L, policy, live, h[k - 1], o[k])]
      <3>1. h = [k \in 0..(m + 1) |-> h[k]]
        BY DEF h
      <3> QED BY <2>4, <3>1
    <2>6. ReduceRuns(L, o, policy, live, m + 1, h)
      BY <1>0, <2>5 DEF ReduceRuns
    <2> QED BY <2>6
  <1>3. \A m \in 0..n : m \in S
    <2> HIDE DEF S
    <2> QED BY <1>1, <1>2, UpTo
  <1> QED BY <1>3

\* The state after each entry of the order.
ReducePass(L, o, policy, live, g) ==
    /\ Reduced(L, o, policy, live) = g[Len(L)] /\ g[0] = [left |-> live, pool |-> 0]
    /\ \A k \in 0..(Len(L) - 1) : g[k + 1] = Reduce(L, policy, live, g[k], o[k + 1])

LEMMA ReduceRun ==
    ASSUME NEW L, NEW o, NEW policy, NEW live, Len(L) \in Nat
    PROVE  \E g : ReducePass(L, o, policy, live, g)
  <1>1. PICK h : ReduceRuns(L, o, policy, live, Len(L), h)
    BY ReduceExists
  <1> DEFINE g == CHOOSE state : state =
                     [k \in 0..Len(L) |-> IF k = 0 THEN [left |-> live, pool |-> 0]
                                          ELSE Reduce(L, policy, live, state[k - 1], o[k])]
  <1>2. ReduceRuns(L, o, policy, live, Len(L), g) /\ Reduced(L, o, policy, live) = g[Len(L)]
    BY <1>1 DEF ReduceRuns, Reduced
  <1> HIDE DEF g
  <1>3. PICK start : start = [left |-> live, pool |-> 0]
    OBVIOUS
  <1>4. \A k \in 0..Len(L) : g[k] = IF k = 0 THEN start ELSE Reduce(L, policy, live, g[k - 1], o[k])
    BY <1>2, <1>3 DEF ReduceRuns
  <1>5. ASSUME NEW k \in 0..(Len(L) - 1)
        PROVE  g[k + 1] = Reduce(L, policy, live, g[k], o[k + 1])
    <2>1. k + 1 \in 0..Len(L) /\ k + 1 # 0 /\ (k + 1) - 1 = k
      OBVIOUS
    <2> QED BY <1>4, <2>1
  <1>6. ReducePass(L, o, policy, live, g)
    BY <1>2, <1>3, <1>4, <1>5 DEF ReducePass
  <1> QED BY <1>6

\* A credit note of the walk.
Note(L, policy, live, i) == live[i] < 0 /\ L[i].type = policy.reducing

\* What the pass keeps: the balance, debits that stay between nothing and their amount,
\* notes that are used up once visited, and everything else as it came.
ReduceInv(L, policy, live, visited, s) ==
    /\ s \in States(Len(L))
    /\ SumOf(s.left, Len(L)) - s.pool = SumOf(live, Len(L))
    /\ \A i \in 1..Len(L) :
          /\ live[i] > 0 => s.left[i] >= 0 /\ s.left[i] <= live[i]
          /\ ~(live[i] > 0) => s.left[i] = IF Note(L, policy, live, i) /\ i \in visited THEN 0 ELSE live[i]

LEMMA SpillKeeps ==
    ASSUME NEW L, Readable(L), NEW policy, NEW live \in [1..Len(L) -> Int], NEW visited,
           NEW s, ReduceInv(L, policy, live, visited, s), NEW i \in 1..Len(L),
           Note(L, policy, live, i), i \notin visited
    PROVE  ReduceInv(L, policy, live, visited \cup {i}, Spill(s, i))
  <1>1. Len(L) \in Nat
    BY DEF Readable
  <1>2. s.left \in [1..Len(L) -> Int] /\ s.pool \in Nat
    BY DEF ReduceInv, States
  <1>3. live[i] < 0 /\ s.left[i] = live[i]
    BY DEF ReduceInv, Note
  <1> DEFINE f == s.left
             g == [f EXCEPT ![i] = 0]
  <1>4. g \in [1..Len(L) -> Int] /\ g[i] = 0 /\ \A j \in 1..Len(L) : j # i => g[j] = f[j]
    BY <1>2
  <1>5. Spill(s, i).left = g /\ Spill(s, i).pool = s.pool - f[i] /\ Spill(s, i) = [left |-> g, pool |-> s.pool - f[i]]
    BY DEF Spill
  <1> HIDE DEF g, f
  <1>6. f = s.left
    BY DEF f
  <1>7. SumOf(g, Len(L)) = SumOf(f, Len(L)) + g[i] - f[i]
    <2>1. \A j \in 1..Len(L) : f[j] \in Int /\ g[j] \in Int
      BY <1>2, <1>4, <1>6
    <2>2. \A j \in 1..Len(L) : j # i => g[j] = f[j]
      BY <1>4
    <2> QED BY <1>1, <2>1, <2>2, SumPoint
  <1>8. SumOf(f, Len(L)) \in Int /\ SumOf(live, Len(L)) \in Int /\ f[i] \in Int
    BY <1>1, <1>2, <1>6, SumType
  <1>9. SumOf(g, Len(L)) - (s.pool - f[i]) = SumOf(live, Len(L))
    BY <1>2, <1>4, <1>6, <1>7, <1>8 DEF ReduceInv
  <1>10. Spill(s, i) \in States(Len(L))
    <2>1. s.pool - f[i] \in Nat
      BY <1>2, <1>3, <1>6, <1>8
    <2> QED BY <1>4, <1>5, <2>1 DEF States
  <1>11. \A j \in 1..Len(L) :
          /\ live[j] > 0 => g[j] >= 0 /\ g[j] <= live[j]
          /\ ~(live[j] > 0) =>
                g[j] = IF Note(L, policy, live, j) /\ j \in visited \cup {i} THEN 0 ELSE live[j]
    BY <1>3, <1>4, <1>6 DEF ReduceInv
  <1> QED BY <1>5, <1>9, <1>10, <1>11 DEF ReduceInv

LEMMA ApplyKeeps ==
    ASSUME NEW L, Readable(L), NEW policy, NEW live \in [1..Len(L) -> Int], NEW visited,
           NEW s, ReduceInv(L, policy, live, visited, s), NEW i \in 1..Len(L),
           Note(L, policy, live, i), i \notin visited, NEW t \in 1..Len(L), live[t] > 0
    PROVE  ReduceInv(L, policy, live, visited \cup {i}, ApplyTo(s, i, t))
  <1>1. Len(L) \in Nat
    BY DEF Readable
  <1>2. s.left \in [1..Len(L) -> Int] /\ s.pool \in Nat
    BY DEF ReduceInv, States
  <1>3. live[i] < 0 /\ s.left[i] = live[i] /\ s.left[t] >= 0 /\ s.left[t] <= live[t] /\ t # i
    BY DEF ReduceInv, Note
  <1>4. PICK f : f = s.left
    OBVIOUS
  <1>5. PICK applied : applied = Least(-f[i], f[t])
    OBVIOUS
  <1>6. PICK g : g = [f EXCEPT ![i] = 0, ![t] = f[t] - applied]
    OBVIOUS
  <1>7. f[i] \in Int /\ f[t] \in Int /\ live[i] \in Int /\ live[t] \in Int
    BY <1>2, <1>4
  <1>8. applied \in Nat /\ applied <= -f[i] /\ applied <= f[t]
    BY <1>3, <1>7, <1>4, <1>5 DEF Least
  <1>9. ApplyTo(s, i, t) = [left |-> g, pool |-> s.pool - f[i] - applied]
    BY <1>2, <1>3, <1>4, <1>5, <1>6 DEF ApplyTo
  <1>10. f \in [1..Len(L) -> Int] /\ f[t] - applied \in Int
    BY <1>2, <1>7, <1>8, <1>4
  <1>11. /\ g \in [1..Len(L) -> Int] /\ g[i] = 0 /\ g[t] = f[t] - applied
         /\ \A j \in 1..Len(L) : j # i /\ j # t => g[j] = f[j]
    BY <1>3, <1>10, <1>6
  <1>12. PICK h : h = [f EXCEPT ![i] = 0]
    OBVIOUS
  <1>13. /\ h \in [1..Len(L) -> Int] /\ h[i] = 0 /\ h[t] = f[t]
         /\ \A j \in 1..Len(L) : j # i => h[j] = f[j]
         /\ \A j \in 1..Len(L) : j # t => g[j] = h[j]
    BY <1>3, <1>10, <1>11, <1>12
  <1>14. SumOf(f, Len(L)) - s.pool = SumOf(live, Len(L))
    BY <1>4 DEF ReduceInv
  <1>15. SumOf(g, Len(L)) - (s.pool - f[i] - applied) = SumOf(live, Len(L))
    <2>1. SumOf(h, Len(L)) = SumOf(f, Len(L)) + h[i] - f[i]
      <3>1. \A j \in 1..Len(L) : f[j] \in Int /\ h[j] \in Int
        BY <1>10, <1>13
      <3>2. \A j \in 1..Len(L) : j # i => h[j] = f[j]
        BY <1>13
      <3> QED BY <1>1, <3>1, <3>2, SumPoint
    <2>2. SumOf(g, Len(L)) = SumOf(h, Len(L)) + g[t] - h[t]
      <3>1. \A j \in 1..Len(L) : h[j] \in Int /\ g[j] \in Int
        BY <1>11, <1>13
      <3>2. \A j \in 1..Len(L) : j # t => g[j] = h[j]
        BY <1>13
      <3> QED BY <1>1, <3>1, <3>2, SumPoint
    <2>3. PICK sum \in Int, a \in Int, b \in Int, p \in Nat, total \in Int :
              /\ sum = SumOf(f, Len(L)) /\ a = f[i] /\ b = f[t] /\ p = s.pool
              /\ total = SumOf(live, Len(L))
      <3>1. SumOf(f, Len(L)) \in Int /\ SumOf(live, Len(L)) \in Int
        BY <1>1, <1>10, SumType
      <3> QED BY <1>2, <1>7, <3>1
    <2>4. SumOf(h, Len(L)) = sum + 0 - a
      BY <1>13, <2>1, <2>3
    <2>5. SumOf(g, Len(L)) = (sum + 0 - a) + (b - applied) - b
      BY <1>11, <1>13, <2>2, <2>3, <2>4
    <2>6. sum - p = total
      BY <1>14, <2>3
    <2>7. ((sum + 0 - a) + (b - applied) - b) - (p - a - applied) = total
      BY <1>8, <2>6
    <2> QED BY <2>3, <2>5, <2>7
  <1>16. ApplyTo(s, i, t) \in States(Len(L))
    <2>1. PICK a \in Int, p \in Nat : a = f[i] /\ p = s.pool
      BY <1>2, <1>7
    <2>2. p - a - applied \in Nat
      BY <1>8, <2>1
    <2>3. s.pool - f[i] - applied \in Nat
      BY <2>1, <2>2
    <2> QED BY <1>9, <1>11, <2>3 DEF States
  <1>17. ASSUME NEW j \in 1..Len(L)
         PROVE  /\ live[j] > 0 => g[j] >= 0 /\ g[j] <= live[j]
                /\ ~(live[j] > 0) =>
                      g[j] = IF Note(L, policy, live, j) /\ j \in visited \cup {i} THEN 0 ELSE live[j]
    <2>1. CASE j = i
      BY <1>3, <1>11, <1>4, <2>1
    <2>2. CASE j = t
      <3>1. f[t] - applied >= 0 /\ f[t] - applied <= live[t]
        BY <1>3, <1>7, <1>8, <1>4
      <3> QED BY <1>11, <2>2, <3>1
    <2>3. CASE j # i /\ j # t
      <3>1. g[j] = f[j]
        BY <1>11, <2>3
      <3> QED BY <1>4, <2>3, <3>1 DEF ReduceInv
    <2> QED BY <2>1, <2>2, <2>3
  <1>18. ApplyTo(s, i, t).left = g /\ ApplyTo(s, i, t).pool = s.pool - f[i] - applied
    BY <1>9
  <1> QED BY <1>15, <1>16, <1>17, <1>18 DEF ReduceInv

\* An entry the pass leaves alone.
LEMMA OtherKeeps ==
    ASSUME NEW L, NEW policy, NEW live \in [1..Len(L) -> Int], NEW visited,
           NEW s, ReduceInv(L, policy, live, visited, s), NEW i \in 1..Len(L),
           ~Note(L, policy, live, i)
    PROVE  ReduceInv(L, policy, live, visited \cup {i}, s)
  <1>1. ASSUME NEW j \in 1..Len(L)
        PROVE  Note(L, policy, live, j) /\ j \in visited \cup {i} <=> Note(L, policy, live, j) /\ j \in visited
    OBVIOUS
  <1> QED BY <1>1 DEF ReduceInv

LEMMA ReduceKeeps ==
    ASSUME NEW L, Readable(L), NEW policy, NEW live \in [1..Len(L) -> Int], NEW visited,
           NEW s, ReduceInv(L, policy, live, visited, s), NEW i \in 1..Len(L), i \notin visited
    PROVE  ReduceInv(L, policy, live, visited \cup {i}, Reduce(L, policy, live, s, i))
  <1>1. CASE ~Note(L, policy, live, i)
    <2>1. Reduce(L, policy, live, s, i) = s
      <3>1. live[i] \in Int
        OBVIOUS
      <3>2. live[i] >= 0 \/ L[i].type # policy.reducing
        BY <1>1, <3>1 DEF Note
      <3> QED BY <3>2 DEF Reduce
    <2> QED BY <1>1, <2>1, OtherKeeps
  <1>2. CASE Note(L, policy, live, i)
    <2>1. ~(live[i] >= 0 \/ L[i].type # policy.reducing)
      BY <1>2 DEF Note
    <2>2. CASE Hits(L, policy, live, i) = {}
      <3>1. Reduce(L, policy, live, s, i) = Spill(s, i)
        BY <2>1, <2>2 DEF Reduce
      <3> QED BY <1>2, <3>1, SpillKeeps
    <2>3. CASE Hits(L, policy, live, i) # {}
      <3>1. PICK t \in Hits(L, policy, live, i) : Reduce(L, policy, live, s, i) = ApplyTo(s, i, t)
        BY <2>1, <2>3 DEF Reduce
      <3>2. t \in 1..Len(L) /\ live[t] > 0
        BY DEF Hits, LastOf
      <3> QED BY <1>2, <3>1, <3>2, ApplyKeeps
    <2> QED BY <2>2, <2>3
  <1> QED BY <1>1, <1>2

\* The end of the pass: every note is used up.
LEMMA ReducedFacts ==
    ASSUME NEW L, Readable(L), NEW o, Lists(L, Len(L), o), NEW policy, NEW live \in [1..Len(L) -> Int]
    PROVE  ReduceInv(L, policy, live, 1..Len(L), Reduced(L, o, policy, live))
  <1>1. Len(L) \in Nat
    BY DEF Readable
  <1>2. PICK g : ReducePass(L, o, policy, live, g)
    BY <1>1, ReduceRun
  <1>3. /\ \A k \in 1..Len(L) : o[k] \in 1..Len(L)
        /\ \A a, b \in 1..Len(L) : a # b => o[a] # o[b]
    BY ListedOnce
  <1> DEFINE Visited(k) == {o[a] : a \in 1..k}
             S == {k \in 0..Len(L) : ReduceInv(L, policy, live, Visited(k), g[k])}
  <1>4. 0 \in S
    <2>1. g[0] = [left |-> live, pool |-> 0] /\ Visited(0) = {}
      BY <1>2 DEF ReducePass
    <2>2. g[0] \in States(Len(L)) /\ g[0].left = live /\ g[0].pool = 0
      BY <2>1 DEF States
    <2>3. SumOf(live, Len(L)) \in Int
      BY <1>1, SumType
    <2>4. SumOf(g[0].left, Len(L)) - g[0].pool = SumOf(live, Len(L))
      BY <2>2, <2>3
    <2> HIDE DEF Visited
    <2>5. ReduceInv(L, policy, live, Visited(0), g[0])
      BY <2>1, <2>2, <2>4 DEF ReduceInv
    <2> QED BY <1>1, <2>5
  <1>5. ASSUME NEW k \in 0..(Len(L) - 1), k \in S PROVE k + 1 \in S
    <2>1. k + 1 \in 1..Len(L) /\ k + 1 \in 0..Len(L) /\ o[k + 1] \in 1..Len(L)
      BY <1>1, <1>3
    <2>2. Visited(k + 1) = Visited(k) \cup {o[k + 1]}
      <3>1. 1..(k + 1) = 1..k \cup {k + 1}
        OBVIOUS
      <3> QED BY <3>1
    <2>3. o[k + 1] \notin Visited(k)
      BY <1>1, <1>3, <2>1
    <2>4. ReduceInv(L, policy, live, Visited(k), g[k])
      BY <1>5
    <2>5. g[k + 1] = Reduce(L, policy, live, g[k], o[k + 1])
      BY <1>2 DEF ReducePass
    <2> HIDE DEF Visited
    <2>6. ReduceInv(L, policy, live, Visited(k) \cup {o[k + 1]}, Reduce(L, policy, live, g[k], o[k + 1]))
      BY <2>1, <2>3, <2>4, ReduceKeeps
    <2> QED BY <2>1, <2>2, <2>5, <2>6
  <1>6. \A k \in 0..Len(L) : k \in S
    <2> HIDE DEF S
    <2> QED BY <1>1, <1>4, <1>5, UpTo
  <1>7. Visited(Len(L)) = 1..Len(L)
    <2>1. ASSUME NEW i \in 1..Len(L) PROVE i \in Visited(Len(L))
      <3>1. PICK k \in 1..Len(L) : o[k] = i
        BY DEF Lists
      <3> QED BY <3>1
    <2>2. ASSUME NEW i \in Visited(Len(L)) PROVE i \in 1..Len(L)
      BY <1>3, <2>2
    <2> HIDE DEF Visited
    <2> QED BY <2>1, <2>2
  <1>8. Len(L) \in S
    <2> HIDE DEF S
    <2> QED BY <1>1, <1>6
  <1>9. Reduced(L, o, policy, live) = g[Len(L)]
    BY <1>2 DEF ReducePass
  <1> HIDE DEF Visited
  <1> QED BY <1>7, <1>8, <1>9

----------------------------------------------------------------------------
(* The pool, and SETTLE                                                     *)

\* What there is to pay, and the money to pay it with.
Owed(n) == [left : [1..n -> Nat], pool : Nat]

\* With every note used up and every other credit in the pool, only debts are left.
LEMMA PooledFacts ==
    ASSUME NEW L, Readable(L), NEW policy, NEW live \in [1..Len(L) -> Int],
           NEW s, ReduceInv(L, policy, live, 1..Len(L), s)
    PROVE  LET due == Pooled(L, policy, live, s)
           IN  /\ due \in Owed(Len(L))
               /\ SumOf(due.left, Len(L)) - due.pool = SumOf(live, Len(L))
  <1>1. Len(L) \in Nat
    BY DEF Readable
  <1>2. s.left \in [1..Len(L) -> Int] /\ s.pool \in Nat
    BY DEF ReduceInv, States
  <1>3. PICK credits : credits = Credits(L, policy, live)
    OBVIOUS
  <1>4. \A i \in 1..Len(L) :
           credits[i] = IF live[i] < 0 /\ L[i].type # policy.reducing THEN -live[i] ELSE 0
    BY <1>3 DEF Credits
  <1>5. \A i \in 1..Len(L) : live[i] \in Int /\ credits[i] \in Nat
    BY <1>4
  <1>6. PICK left : left = [i \in 1..Len(L) |-> s.left[i] + credits[i]]
    OBVIOUS
  <1>7. PICK pool : pool = s.pool + SumOf(credits, Len(L))
    OBVIOUS
  <1>8. Pooled(L, policy, live, s) = [left |-> left, pool |-> pool]
    BY <1>3, <1>6, <1>7 DEF Pooled
  <1>9. ASSUME NEW i \in 1..Len(L) PROVE left[i] \in Nat /\ left[i] = s.left[i] + credits[i]
    <2>1. left[i] = s.left[i] + credits[i]
      BY <1>6
    <2>2. live[i] \in Int /\ s.left[i] \in Int
      BY <1>2, <1>5
    <2>3. CASE live[i] > 0
      <3>1. s.left[i] >= 0 /\ credits[i] = 0
        BY <1>4, <2>2, <2>3 DEF ReduceInv
      <3> QED BY <2>1, <2>2, <3>1
    <2>4. CASE ~(live[i] > 0)
      <3>1. s.left[i] = IF Note(L, policy, live, i) THEN 0 ELSE live[i]
        BY <2>4 DEF ReduceInv
      <3> QED BY <1>4, <2>1, <2>2, <2>4, <3>1 DEF Note
    <2> QED BY <2>3, <2>4
  <1>10. left \in [1..Len(L) -> Nat]
    <2>1. left = [i \in 1..Len(L) |-> left[i]]
      BY <1>6
    <2> QED BY <1>9, <2>1
  <1>11. SumOf(credits, Len(L)) \in Nat
    BY <1>1, <1>5, SumNat
  <1>12. SumOf(left, Len(L)) = SumOf(s.left, Len(L)) + SumOf(credits, Len(L))
    <2>1. PICK f : f = s.left
      OBVIOUS
    <2>2. \A i \in 1..Len(L) : f[i] \in Int /\ credits[i] \in Int /\ left[i] = f[i] + credits[i]
      BY <1>2, <1>5, <1>9, <2>1
    <2>3. SumOf(left, Len(L)) = SumOf(f, Len(L)) + SumOf(credits, Len(L))
      BY <1>1, <2>2, SumAdd
    <2> QED BY <2>1, <2>3
  <1>13. SumOf(s.left, Len(L)) \in Int /\ SumOf(s.left, Len(L)) - s.pool = SumOf(live, Len(L))
    BY <1>1, <1>2, SumType DEF ReduceInv
  <1>14. SumOf(left, Len(L)) - pool = SumOf(live, Len(L))
    BY <1>2, <1>7, <1>11, <1>12, <1>13
  <1>15. [left |-> left, pool |-> pool] \in Owed(Len(L))
    BY <1>2, <1>7, <1>10, <1>11 DEF Owed
  <1> QED BY <1>8, <1>14, <1>15

SettleRuns(o, due, n, g) ==
    g = [k \in 0..n |-> IF k = 0 THEN due ELSE Settle(g[k - 1], o[k])]

LEMMA SettleExists ==
    ASSUME NEW o, NEW due, NEW n \in Nat
    PROVE  \E g : SettleRuns(o, due, n, g)
  <1> DEFINE S == {m \in 0..n : \E g : SettleRuns(o, due, m, g)}
  <1>1. 0 \in S
    <2>1. SettleRuns(o, due, 0, [k \in 0..0 |-> due])
      BY DEF SettleRuns
    <2> QED BY <2>1
  <1>2. ASSUME NEW m \in 0..(n - 1), m \in S PROVE m + 1 \in S
    <2>1. PICK g : SettleRuns(o, due, m, g)
      BY <1>2
    <2> DEFINE h == [k \in 0..(m + 1) |-> IF k <= m THEN g[k] ELSE Settle(g[m], o[m + 1])]
    <2>2. \A k \in 0..m : g[k] = IF k = 0 THEN due ELSE Settle(g[k - 1], o[k])
      BY <2>1 DEF SettleRuns
    <2>3. h[m + 1] = Settle(g[m], o[m + 1]) /\ \A k \in 0..m : h[k] = g[k]
      OBVIOUS
    <2> HIDE DEF h
    <2>4. ASSUME NEW k \in 0..(m + 1)
          PROVE  h[k] = IF k = 0 THEN due ELSE Settle(h[k - 1], o[k])
      <3>1. CASE k <= m
        <4>1. k \in 0..m /\ (k # 0 => k - 1 \in 0..m)
          BY <3>1
        <4> QED BY <2>2, <2>3, <4>1
      <3>2. CASE k = m + 1
        BY <2>3, <3>2
      <3> QED BY <3>1, <3>2
    <2>5. h = [k \in 0..(m + 1) |-> IF k = 0 THEN due ELSE Settle(h[k - 1], o[k])]
      <3>1. h = [k \in 0..(m + 1) |-> h[k]]
        BY DEF h
      <3> QED BY <2>4, <3>1
    <2>6. SettleRuns(o, due, m + 1, h)
      BY <2>5 DEF SettleRuns
    <2> QED BY <2>6
  <1>3. \A m \in 0..n : m \in S
    <2> HIDE DEF S
    <2> QED BY <1>1, <1>2, UpTo
  <1> QED BY <1>3

\* The state after each entry of the order.
SettlePass(o, due, g) ==
    /\ Settled(o, due) = g[Len(o)] /\ g[0] = due
    /\ \A k \in 0..(Len(o) - 1) : g[k + 1] = Settle(g[k], o[k + 1])

LEMMA SettleRun ==
    ASSUME NEW o, NEW due, Len(o) \in Nat
    PROVE  \E g : SettlePass(o, due, g)
  <1>1. PICK h : SettleRuns(o, due, Len(o), h)
    BY SettleExists
  <1> DEFINE g == CHOOSE state : state =
                     [k \in 0..Len(o) |-> IF k = 0 THEN due ELSE Settle(state[k - 1], o[k])]
  <1>2. SettleRuns(o, due, Len(o), g) /\ Settled(o, due) = g[Len(o)]
    BY <1>1 DEF SettleRuns, Settled
  <1> HIDE DEF g
  <1>3. \A k \in 0..Len(o) : g[k] = IF k = 0 THEN due ELSE Settle(g[k - 1], o[k])
    BY <1>2 DEF SettleRuns
  <1>4. ASSUME NEW k \in 0..(Len(o) - 1)
        PROVE  g[k + 1] = Settle(g[k], o[k + 1])
    <2>1. k + 1 \in 0..Len(o) /\ k + 1 # 0 /\ (k + 1) - 1 = k
      OBVIOUS
    <2> QED BY <1>3, <2>1
  <1>5. SettlePass(o, due, g)
    BY <1>2, <1>3, <1>4 DEF SettlePass
  <1> QED BY <1>5

\* What the pass keeps after k entries: the balance; entries it has not come to are as
\* they were due; money is left only while all before is paid; and what is paid at all
\* has everything before it paid in full.
SettleInv(n, o, due, k, s) ==
    /\ s \in Owed(n)
    /\ SumOf(s.left, n) - s.pool = SumOf(due.left, n) - due.pool
    /\ \A a \in 1..n : a > k => s.left[o[a]] = due.left[o[a]]
    /\ s.pool > 0 => \A a \in 1..k : s.left[o[a]] = 0
    /\ \A a, b \in 1..n : a < b /\ b <= k /\ s.left[o[b]] < due.left[o[b]] => s.left[o[a]] = 0

LEMMA SettleKeeps ==
    ASSUME NEW n \in Nat, NEW o, \A a \in 1..n : o[a] \in 1..n,
           \A a, b \in 1..n : a # b => o[a] # o[b], NEW due \in Owed(n),
           NEW k \in 0..(n - 1), NEW s, SettleInv(n, o, due, k, s)
    PROVE  SettleInv(n, o, due, k + 1, Settle(s, o[k + 1]))
  <1>1. PICK i : i = o[k + 1]
    OBVIOUS
  <1>2. PICK f : f = s.left
    OBVIOUS
  <1>3. PICK p : p = s.pool
    OBVIOUS
  <1>4. f \in [1..n -> Nat] /\ p \in Nat /\ k + 1 \in 1..n /\ i \in 1..n /\ f[i] \in Nat
    <2>1. f \in [1..n -> Nat] /\ p \in Nat
      BY <1>2, <1>3 DEF SettleInv, Owed
    <2>2. k + 1 \in 1..n
      OBVIOUS
    <2>3. i \in 1..n
      BY <1>1, <2>2
    <2> QED BY <2>1, <2>2, <2>3
  <1>5. PICK x : x = Least(p, f[i])
    OBVIOUS
  <1>6. x \in Nat /\ x <= p /\ x <= f[i] /\ (x = p \/ x = f[i])
    BY <1>4, <1>5 DEF Least
  <1>7. PICK g : g = [f EXCEPT ![i] = f[i] - x]
    OBVIOUS
  <1>8. Settle(s, i) = [left |-> g, pool |-> p - x]
    BY <1>2, <1>3, <1>4, <1>5, <1>7 DEF Settle
  <1>9. g \in [1..n -> Nat] /\ g[i] = f[i] - x /\ \A j \in 1..n : j # i => g[j] = f[j]
    <2>1. f[i] - x \in Nat
      BY <1>4, <1>6
    <2> QED BY <1>4, <1>7, <2>1
  <1>10. [left |-> g, pool |-> p - x] \in Owed(n)
    <2>1. p - x \in Nat
      BY <1>4, <1>6
    <2> QED BY <1>9, <2>1 DEF Owed
  <1>11. SumOf(g, n) - (p - x) = SumOf(due.left, n) - due.pool
    <2>1. \A j \in 1..n : f[j] \in Int /\ g[j] \in Int
      BY <1>4, <1>9
    <2>2. SumOf(g, n) = SumOf(f, n) + g[i] - f[i]
      <3>1. i \in 1..n /\ \A j \in 1..n : j # i => g[j] = f[j]
        BY <1>4, <1>9
      <3> QED BY <2>1, <3>1, SumPoint
    <2>3. SumOf(f, n) \in Int
      BY <2>1, SumType
    <2>4. SumOf(f, n) - p = SumOf(due.left, n) - due.pool
      BY <1>2, <1>3 DEF SettleInv
    <2>5. SumOf(g, n) - (p - x) = SumOf(f, n) - p
      <3>1. SumOf(g, n) = SumOf(f, n) + (f[i] - x) - f[i]
        BY <1>9, <2>2
      <3> QED BY <1>4, <1>6, <2>3, <3>1
    <2> QED BY <2>4, <2>5
  <1>12. /\ \A a \in 1..n : a > k => f[o[a]] = due.left[o[a]]
         /\ p > 0 => \A a \in 1..k : f[o[a]] = 0
         /\ \A a, b \in 1..n : a < b /\ b <= k /\ f[o[b]] < due.left[o[b]] => f[o[a]] = 0
    BY <1>2, <1>3 DEF SettleInv
  <1>13. \A a \in 1..n : a # k + 1 => g[o[a]] = f[o[a]]
    BY <1>1, <1>4, <1>9
  <1>14. \A a \in 1..n : a > k + 1 => g[o[a]] = due.left[o[a]]
    BY <1>12, <1>13
  <1>15. p - x > 0 => \A a \in 1..(k + 1) : g[o[a]] = 0
    <2> SUFFICES ASSUME p - x > 0, NEW a \in 1..(k + 1) PROVE g[o[a]] = 0
      OBVIOUS
    <2>1. x = f[i] /\ p > 0
      BY <1>4, <1>6
    <2>2. CASE a = k + 1
      BY <1>1, <1>4, <1>9, <2>1, <2>2
    <2>3. CASE a # k + 1
      <3>1. a \in 1..k /\ a \in 1..n
        BY <2>3
      <3> QED BY <1>12, <1>13, <2>1, <2>3, <3>1
    <2> QED BY <2>2, <2>3
  <1>16. ASSUME NEW a \in 1..n, NEW b \in 1..n, a < b, b <= k + 1, g[o[b]] < due.left[o[b]]
         PROVE  g[o[a]] = 0
    <2>1. a # k + 1 /\ g[o[a]] = f[o[a]] /\ a \in 1..k
      BY <1>13, <1>16
    <2>2. CASE b = k + 1
      <3>1. f[o[b]] = due.left[o[b]] /\ o[b] = i
        BY <1>1, <1>12, <2>2
      <3>2. x # 0
        BY <1>4, <1>9, <1>16, <3>1
      <3>3. p > 0
        BY <1>4, <1>6, <3>2
      <3> QED BY <1>12, <2>1, <3>3
    <2>3. CASE b # k + 1
      <3>1. b <= k /\ g[o[b]] = f[o[b]]
        BY <1>13, <1>16, <2>3
      <3> QED BY <1>12, <1>16, <2>1, <3>1
    <2> QED BY <2>2, <2>3
  <1>17. SettleInv(n, o, due, k + 1, [left |-> g, pool |-> p - x])
    BY <1>10, <1>11, <1>14, <1>15, <1>16 DEF SettleInv
  <1> QED BY <1>1, <1>8, <1>17

\* The end of the pass.
LEMMA SettledFacts ==
    ASSUME NEW n \in Nat, NEW o, Len(o) = n, \A a \in 1..n : o[a] \in 1..n,
           \A a, b \in 1..n : a # b => o[a] # o[b], NEW due \in Owed(n)
    PROVE  SettleInv(n, o, due, n, Settled(o, due))
  <1>1. PICK g : SettlePass(o, due, g)
    BY SettleRun
  <1> DEFINE S == {k \in 0..n : SettleInv(n, o, due, k, g[k])}
  <1>2. 0 \in S
    <2>1. g[0] = due
      BY <1>1 DEF SettlePass
    <2>2. SettleInv(n, o, due, 0, due)
      BY DEF SettleInv
    <2> QED BY <2>1, <2>2
  <1>3. ASSUME NEW k \in 0..(n - 1), k \in S PROVE k + 1 \in S
    <2>1. g[k + 1] = Settle(g[k], o[k + 1])
      BY <1>1 DEF SettlePass
    <2>2. SettleInv(n, o, due, k, g[k])
      BY <1>3
    <2>3. SettleInv(n, o, due, k + 1, Settle(g[k], o[k + 1]))
      BY <2>2, SettleKeeps
    <2> QED BY <2>1, <2>3
  <1>4. \A k \in 0..n : k \in S
    <2> HIDE DEF S
    <2> QED BY <1>2, <1>3, UpTo
  <1>5. Settled(o, due) = g[n]
    BY <1>1 DEF SettlePass
  <1> QED BY <1>4, <1>5

----------------------------------------------------------------------------
(* The walk                                                                 *)

\* What the walk computes, from any view of a ledger: the balance, split into debts and
\* money on account, the oldest debts paid first.
LEMMA WalkFacts ==
    ASSUME NEW L, Readable(L), NEW V \in SUBSET (1..Len(L)), NEW policy, Sound(policy),
           NEW o, o = InOrder(L),
           NEW due, due = Due(L, o, policy, Live(L, o, V, policy)),
           NEW pos, pos = Settled(o, due)
    PROVE  /\ Outstanding(pos, Len(L)) - pos.pool = Total(L, V)
           /\ pos.pool > 0 => OpenItems(pos) = {}
           /\ \A i, j \in 1..Len(L) :
                 Earlier(L, i, j) /\ pos.left[j] < due.left[j] => i \notin OpenItems(pos)
  <1>1. Len(L) \in Nat
    BY DEF Readable
  <1>2. Lists(L, Len(L), o)
    BY InOrderFacts
  <1>3. /\ \A k \in 1..Len(L) : o[k] \in 1..Len(L)
        /\ \A a, b \in 1..Len(L) : a # b => o[a] # o[b]
        /\ \A a, b \in 1..Len(L) : Earlier(L, o[a], o[b]) => a < b
    BY <1>2, ListedOnce
  <1>4. Len(o) = Len(L) /\ \A i \in 1..Len(L) : \E k \in 1..Len(L) : o[k] = i
    BY <1>2 DEF Lists
  <1>5. PICK live : live = Live(L, o, V, policy)
    OBVIOUS
  <1>6. live \in [1..Len(L) -> Int] /\ SumOf(live, Len(L)) = Total(L, V)
    BY <1>2, <1>5, LiveFacts
  <1>7. PICK s : s = Reduced(L, o, policy, live)
    OBVIOUS
  <1>8. ReduceInv(L, policy, live, 1..Len(L), s)
    BY <1>2, <1>6, <1>7, ReducedFacts
  <1>9. due = Pooled(L, policy, live, s)
    BY <1>5, <1>7 DEF Due
  <1>10. due \in Owed(Len(L)) /\ SumOf(due.left, Len(L)) - due.pool = SumOf(live, Len(L))
    BY <1>6, <1>8, <1>9, PooledFacts
  <1>11. PICK n : n = Len(L)
    OBVIOUS
  <1>12. SettleInv(n, o, due, n, pos)
    BY <1>1, <1>3, <1>4, <1>10, <1>11, SettledFacts
  <1>13. pos.left \in [1..n -> Nat] /\ pos.pool \in Nat
    BY <1>12 DEF SettleInv, Owed
  <1>14. SumOf(pos.left, n) - pos.pool = Total(L, V)
    BY <1>6, <1>10, <1>11, <1>12 DEF SettleInv
  <1>15. Outstanding(pos, n) = SumOf(pos.left, n)
    <2>1. PICK f : f = pos.left
      OBVIOUS
    <2>2. PICK g : g = [i \in 1..n |-> IF i \in OpenItems(pos) THEN f[i] ELSE 0]
      OBVIOUS
    <2>3. ASSUME NEW i \in 1..n PROVE g[i] = f[i]
      <3>1. f[i] \in Nat /\ DOMAIN f = 1..n
        BY <1>13, <2>1
      <3> QED BY <2>1, <2>2, <3>1 DEF OpenItems
    <2>4. SumOf(g, n) = SumOf(f, n)
      BY <1>1, <1>11, <2>3, SumSame
    <2> QED BY <2>1, <2>2, <2>4 DEF Outstanding
  <1>16. pos.pool > 0 => OpenItems(pos) = {}
    <2> SUFFICES ASSUME pos.pool > 0, NEW i \in OpenItems(pos) PROVE FALSE
      OBVIOUS
    <2>1. i \in 1..n /\ pos.left[i] > 0
      BY <1>13 DEF OpenItems
    <2>2. PICK k \in 1..n : o[k] = i
      BY <1>4, <1>11, <2>1
    <2>3. pos.left[o[k]] = 0
      BY <1>12 DEF SettleInv
    <2> QED BY <2>1, <2>2, <2>3
  <1>17. ASSUME NEW i \in 1..n, NEW j \in 1..n, Earlier(L, i, j), pos.left[j] < due.left[j]
         PROVE  i \notin OpenItems(pos)
    <2>1. PICK a \in 1..n : o[a] = i
      BY <1>4, <1>11
    <2>2. PICK b \in 1..n : o[b] = j
      BY <1>4, <1>11
    <2>3. a < b
      BY <1>3, <1>11, <1>17, <2>1, <2>2
    <2>4. b <= n
      BY <1>1, <1>11
    <2>5. pos.left[o[a]] = 0
      BY <1>12, <1>17, <2>2, <2>3, <2>4 DEF SettleInv
    <2> QED BY <2>1, <2>5 DEF OpenItems
  <1> QED BY <1>11, <1>14, <1>15, <1>16, <1>17

----------------------------------------------------------------------------
(* A reversal                                                               *)

\* p is the one entry a document created, a its one annuller: the two of a document.
Reversal(L, policy, V, doc, p, a) ==
    /\ p \in V /\ a \in V /\ p # a
    /\ doc # NoDoc /\ doc[1] \in policy.annullable
    /\ L[p].doc = doc /\ L[p].type = doc[1]
    /\ L[a].doc = doc /\ L[a].type = policy.adjustment
    /\ L[a].amount + L[p].amount = 0
    /\ \A i \in 1..Len(L) : L[i].doc = doc => i = p \/ i = a

\* Its annuller claims it and nothing else does: with or without the two, W being the
\* view without them, the other entries claim the same.
ClaimsAlike(L, V, W, policy, p, a, c, i) ==
    /\ i = a => Claim(L, V, policy, c, i) = c \cup {p, a} /\ Claim(L, W, policy, c, i) = c
    /\ i = p => \A d : Claim(L, V, policy, d, i) = d /\ Claim(L, W, policy, d, i) = d
    /\ i # a /\ i # p =>
          /\ Claim(L, V, policy, c, i) = Claim(L, W, policy, c, i)
          /\ Claim(L, V, policy, c \cup {p, a}, i) = Claim(L, W, policy, c, i) \cup {p, a}

LEMMA ReversalClaims ==
    ASSUME NEW L, Readable(L), NEW V \in SUBSET (1..Len(L)), NEW policy, Sound(policy),
           NEW doc, NEW p, NEW a, Reversal(L, policy, V, doc, p, a),
           NEW c \in SUBSET (V \ {p, a}), NEW i \in 1..Len(L)
    PROVE  ClaimsAlike(L, V, V \ {p, a}, policy, p, a, c, i)
  <1> USE DEF Reversal
  <1>1. ~Earlier(L, p, p)
    BY EarlierTotal
  <1>2. ASSUME i = a
        PROVE  Claim(L, V, policy, c, i) = c \cup {p, a} /\ Claim(L, V \ {p, a}, policy, c, i) = c
    <2>1. Created(L, V, L[i].doc) = {p}
      BY <1>2 DEF Created, Sound
    <2>2. LastOf(L, {p}) = {p}
      BY <1>1 DEF LastOf
    <2>3. Targets(L, V, c, i) = {p}
      BY <1>2, <2>1, <2>2 DEF Targets
    <2>4. Annuls(L, V, policy, i) /\ ~Annuls(L, V \ {p, a}, policy, i)
      BY <1>2 DEF Annuls
    <2> QED BY <1>2, <2>3, <2>4 DEF Claim
  <1>3. ASSUME i = p
        PROVE  \A d : Claim(L, V, policy, d, i) = d /\ Claim(L, V \ {p, a}, policy, d, i) = d
    <2>1. ~Annuls(L, V, policy, i) /\ ~Annuls(L, V \ {p, a}, policy, i)
      BY <1>3 DEF Annuls, Sound
    <2> QED BY <2>1 DEF Claim
  <1>4. ASSUME i # a, i # p
        PROVE  /\ Claim(L, V, policy, c, i) = Claim(L, V \ {p, a}, policy, c, i)
               /\ Claim(L, V, policy, c \cup {p, a}, i) = Claim(L, V \ {p, a}, policy, c, i) \cup {p, a}
    <2>1. L[i].doc # doc
      BY <1>4
    <2>2. PICK C : C = Created(L, V, L[i].doc)
      OBVIOUS
    <2>3. C = Created(L, V \ {p, a}, L[i].doc) /\ p \notin C /\ a \notin C
      BY <2>1, <2>2 DEF Created
    <2>4. PICK T : T = Targets(L, V, c, i)
      OBVIOUS
    <2>5. T = Targets(L, V \ {p, a}, c, i) /\ T = Targets(L, V, c \cup {p, a}, i)
      BY <2>2, <2>3, <2>4 DEF Targets, LastOf
    <2>6. Annuls(L, V, policy, i) <=> Annuls(L, V \ {p, a}, policy, i)
      BY <1>4 DEF Annuls
    <2> QED BY <2>4, <2>5, <2>6 DEF Claim
  <1> QED BY <1>2, <1>3, <1>4 DEF ClaimsAlike

\* The walk sees the same live amounts as if neither had been written.
LEMMA ReversalVanishes ==
    ASSUME NEW L, Readable(L), NEW o, o = InOrder(L), NEW V \in SUBSET (1..Len(L)),
           NEW policy, Sound(policy), NEW doc, NEW p, NEW a, Reversal(L, policy, V, doc, p, a)
    PROVE  Walk(L, o, V, policy) = Walk(L, o, V \ {p, a}, policy)
  <1>1. Len(L) \in Nat /\ Lists(L, Len(L), o)
    BY InOrderFacts DEF Readable
  <1> DEFINE W == V \ {p, a}
  <1>2. PICK g : AnnulPass(L, o, V, policy, g)
    BY <1>1, AnnulRun
  <1>3. PICK h : AnnulPass(L, o, W, policy, h)
    BY <1>1, AnnulRun
  <1>4. /\ \A k \in 1..Len(L) : o[k] \in 1..Len(L)
        /\ \A x, y \in 1..Len(L) : x # y => o[x] # o[y]
    BY <1>1, ListedOnce
  <1>5. PICK z \in 1..Len(L) : o[z] = a
    BY <1>1 DEF Lists, Reversal
  <1> DEFINE S == {k \in 0..Len(L) : h[k] \subseteq W /\ g[k] = h[k] \cup (IF z <= k THEN {p, a} ELSE {})}
  <1>6. 0 \in S
    <2>1. g[0] = {} /\ h[0] = {} /\ 0 \in 0..Len(L) /\ ~(z <= 0)
      BY <1>1, <1>2, <1>3 DEF AnnulPass
    <2> QED BY <2>1
  <1>7. ASSUME NEW k \in 0..(Len(L) - 1), k \in S PROVE k + 1 \in S
    <2>1. k + 1 \in 1..Len(L) /\ k + 1 \in 0..Len(L) /\ o[k + 1] \in 1..Len(L)
      BY <1>1, <1>4
    <2>2. PICK i : i = o[k + 1]
      OBVIOUS
    <2>3. PICK c : c = h[k]
      OBVIOUS
    <2>4. c \in SUBSET W /\ g[k] = c \cup (IF z <= k THEN {p, a} ELSE {})
      BY <1>7, <2>3
    <2>5. g[k + 1] = Claim(L, V, policy, g[k], i) /\ h[k + 1] = Claim(L, W, policy, c, i)
      BY <1>2, <1>3, <2>2, <2>3 DEF AnnulPass
    <2>6. ClaimsAlike(L, V, W, policy, p, a, c, i)
      BY <2>1, <2>2, <2>4, ReversalClaims
    <2>7. i = a <=> z = k + 1
      BY <1>4, <1>5, <2>1, <2>2
    <2>8. Claim(L, W, policy, c, i) \subseteq W
      <3>1. \/ Claim(L, W, policy, c, i) = c
            \/ \E t \in W : Offsets(L, W, policy, c, i, t)
        <4>1. W \in SUBSET (1..Len(L)) /\ i \in 1..Len(L)
          BY <2>1, <2>2
        <4> QED BY <4>1, ClaimFacts
      <3> QED BY <2>4, <3>1 DEF Offsets
    <2> HIDE DEF W
    <2>9. h[k + 1] \subseteq W
      BY <2>5, <2>8
    <2>10. g[k + 1] = h[k + 1] \cup (IF z <= k + 1 THEN {p, a} ELSE {})
      <3>1. CASE z <= k
        <4>1. g[k] = c \cup {p, a} /\ i # a /\ z <= k + 1
          BY <1>5, <2>4, <2>7, <3>1
        <4>2. CASE i = p
          BY <2>5, <2>6, <4>1, <4>2 DEF ClaimsAlike
        <4>3. CASE i # p
          BY <2>5, <2>6, <4>1, <4>3 DEF ClaimsAlike
        <4> QED BY <4>2, <4>3
      <3>2. CASE z = k + 1
        <4>1. g[k] = c /\ i = a /\ z <= k + 1
          BY <1>5, <2>4, <2>7, <3>2
        <4> QED BY <2>5, <2>6, <4>1 DEF ClaimsAlike
      <3>3. CASE z > k + 1
        <4>1. g[k] = c /\ i # a /\ ~(z <= k + 1)
          BY <1>5, <2>4, <2>7, <3>3
        <4>2. CASE i = p
          BY <2>5, <2>6, <4>1, <4>2 DEF ClaimsAlike
        <4>3. CASE i # p
          BY <2>5, <2>6, <4>1, <4>3 DEF ClaimsAlike
        <4> QED BY <4>2, <4>3
      <3> QED BY <1>5, <3>1, <3>2, <3>3
    <2> QED BY <2>1, <2>9, <2>10
  <1>8. \A k \in 0..Len(L) : k \in S
    <2> HIDE DEF S
    <2> QED BY <1>1, <1>6, <1>7, UpTo
  <1>9. g[Len(L)] = h[Len(L)] \cup {p, a}
    BY <1>1, <1>5, <1>8
  <1>10. V \ g[Len(L)] = W \ h[Len(L)]
    BY <1>9
  <1>11. Live(L, o, V, policy) = Live(L, o, W, policy)
    <2>1. Annulled(L, o, V, policy) = g[Len(L)] /\ Annulled(L, o, W, policy) = h[Len(L)]
      BY <1>2, <1>3 DEF AnnulPass
    <2> HIDE DEF W
    <2> QED BY <1>10, <2>1 DEF Live
  <1> QED BY <1>11 DEF Walk
===============================================================================
