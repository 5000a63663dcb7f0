------------------------ MODULE LabDefinition_proofs ------------------------
(***************************************************************************)
(* Proofs about LabDefinition and LabGraph, for every set of names, every  *)
(* number of nodes and every script: what stands in lab.json once it is    *)
(* written.                                                                *)
(***************************************************************************)
EXTENDS LabGraph, FiniteSetTheorems, SequenceTheorems, WellFoundedInduction, TLAPS

-----------------------------------------------------------------------------
\* Sequences of sequences, laid end to end.

\* Induction over the naturals for a set that is closed under successor.
LEMMA NatClosed ==
  \A T \in SUBSET Nat : 0 \in T /\ (\A n \in T : n + 1 \in T) => T = Nat
<1>1. SUFFICES ASSUME NEW T \in SUBSET Nat, 0 \in T, \A n \in T : n + 1 \in T,
                      Nat \ T # {}
               PROVE  FALSE
  OBVIOUS
<1>2. PICK x \in Nat \ T : \A y \in Nat \ T : ~(y < x)
  <2>1. \E x \in Nat \ T : \A y \in Nat \ T : ~(<<y, x>> \in OpToRel(<, Nat))
    <3>1. Nat \ T \subseteq Nat
      OBVIOUS
    <3>2. QED
      BY <1>1, <3>1, WFMin, NatLessThanWellFounded, Zenon
  <2>2. QED
    BY <2>1 DEF OpToRel
<1>3. x # 0 /\ x - 1 \in Nat /\ x - 1 < x
  BY <1>1, <1>2
<1>4. x - 1 \in T
  BY <1>2, <1>3
<1>5. QED
  BY <1>1, <1>2, <1>3, <1>4

\* f[i] is the first i sequences of q, laid end to end.
LaysOut(f, q, n) ==
  \A i \in 1..n : f[i] = IF i = 1 THEN q[1] ELSE f[i - 1] \o q[i]

\* The function FlattenSeq is defined by exists.
LEMMA LaidOut ==
  ASSUME NEW X, NEW q \in Seq(Seq(X)), Len(q) # 0
  PROVE  \E f \in [1..Len(q) -> Seq(X)] :
           LaysOut(f, q, Len(q)) /\ FlattenSeq(q) = f[Len(q)]
<1> DEFINE N == Len(q)
<1> DEFINE T == {n \in Nat : n < N => \E f \in [1..(n + 1) -> Seq(X)] : LaysOut(f, q, n + 1)}
<1>0. N \in Nat /\ N >= 1 /\ \A i \in 1..N : q[i] \in Seq(X)
  OBVIOUS
<1>1. 0 \in T
  <2>1. LaysOut([i \in 1..1 |-> q[1]], q, 1) /\ [i \in 1..1 |-> q[1]] \in [1..1 -> Seq(X)]
    BY <1>0 DEF LaysOut
  <2>2. QED
    BY <2>1
<1>2. ASSUME NEW n \in T PROVE n + 1 \in T
  <2>1. SUFFICES ASSUME n + 1 < N
                 PROVE  \E g \in [1..(n + 1 + 1) -> Seq(X)] : LaysOut(g, q, n + 1 + 1)
    OBVIOUS
  <2>2. PICK f \in [1..(n + 1) -> Seq(X)] : LaysOut(f, q, n + 1)
    BY <1>0, <2>1
  <2>3. PICK m : m = n + 1 /\ m \in Nat /\ m >= 1
    OBVIOUS
  <2> DEFINE g == [i \in 1..(m + 1) |-> IF i = m + 1 THEN f[m] \o q[m + 1] ELSE f[i]]
  <2>4. f[m] \in Seq(X) /\ q[m + 1] \in Seq(X)
    BY <1>0, <2>1, <2>2, <2>3
  <2>5. f[m] \o q[m + 1] \in Seq(X)
    BY <2>4
  <2>6. g \in [1..(m + 1) -> Seq(X)]
    BY <2>2, <2>3, <2>5
  <2>7. ASSUME NEW i \in 1..(m + 1)
        PROVE  g[i] = IF i = 1 THEN q[1] ELSE g[i - 1] \o q[i]
    <3>1. CASE i = m + 1
      <4>1. i # 1 /\ i - 1 = m /\ m \in 1..(m + 1) /\ m # m + 1
        BY <2>3, <3>1
      <4>2. g[i] = f[m] \o q[i] /\ g[m] = f[m]
        BY <3>1, <4>1
      <4>3. QED
        BY <4>1, <4>2
    <3>2. CASE i # m + 1
      <4>1. i \in 1..m /\ (i # 1 => i - 1 \in 1..m)
        BY <2>3, <3>2
      <4>2. f[i] = IF i = 1 THEN q[1] ELSE f[i - 1] \o q[i]
        BY <2>2, <2>3, <4>1 DEF LaysOut
      <4>3. g[i] = f[i] /\ (i # 1 => g[i - 1] = f[i - 1])
        BY <2>3, <3>2, <4>1
      <4>4. QED
        BY <4>2, <4>3
    <3>3. QED
      BY <3>1, <3>2
  <2>8. LaysOut(g, q, m + 1)
    BY <2>7 DEF LaysOut
  <2>9. QED
    BY <2>3, <2>6, <2>8
<1>3. T = Nat
  BY <1>1, <1>2, NatClosed
<1>4. PICK f \in [1..N -> Seq(X)] : LaysOut(f, q, N)
  <2>1. PICK n \in Nat : N = n + 1
    <3>1. N - 1 \in Nat /\ N = (N - 1) + 1
      BY <1>0
    <3>2. QED
      BY <3>1
  <2>2. n \in T /\ n < N
    <3>1. n < N
      BY <2>1
    <3>2. QED
      BY <1>3, <3>1
  <2>3. QED
    BY <2>1, <2>2
<1>5. f = [i \in 1..N |-> IF i = 1 THEN q[i] ELSE f[i - 1] \o q[i]]
  BY <1>4 DEF LaysOut
<1> DEFINE fs == CHOOSE g : g = [i \in 1..N |-> IF i = 1 THEN q[i] ELSE g[i - 1] \o q[i]]
<1>6. fs = [i \in 1..N |-> IF i = 1 THEN q[i] ELSE fs[i - 1] \o q[i]]
  BY <1>5
<1>7. FlattenSeq(q) = fs[N]
  BY DEF FlattenSeq
<1> HIDE DEF fs
<1>8. \A i \in 1..N : fs[i] = IF i = 1 THEN q[1] ELSE fs[i - 1] \o q[i]
  BY <1>6
<1> DEFINE V == {n \in Nat : n < N => fs[n + 1] \in Seq(X)}
<1>9. 0 \in V
  BY <1>0, <1>8
<1>10. ASSUME NEW n \in V PROVE n + 1 \in V
  <2>1. SUFFICES ASSUME n + 1 < N PROVE fs[n + 1 + 1] \in Seq(X)
    OBVIOUS
  <2>2. PICK m : m = n + 1 + 1 /\ m - 1 = n + 1 /\ m \in 1..N /\ m # 1
    BY <2>1, <1>0
  <2>3. fs[m - 1] \in Seq(X) /\ q[m] \in Seq(X)
    BY <1>0, <2>1, <2>2
  <2>4. fs[m] = fs[m - 1] \o q[m]
    BY <1>8, <2>2
  <2>5. QED
    BY <2>2, <2>3, <2>4
<1>11. V = Nat
  BY <1>9, <1>10, NatClosed
<1>12. ASSUME NEW i \in 1..N PROVE fs[i] \in Seq(X)
  <2>1. PICK n \in Nat : i = n + 1
    <3>1. i - 1 \in Nat /\ i = (i - 1) + 1
      BY <1>0
    <3>2. QED
      BY <3>1
  <2>2. n < N
    BY <1>0, <2>1
  <2>3. fs[n + 1] \in Seq(X)
    BY <1>11, <2>2
  <2>4. QED
    BY <2>1, <2>3
<1>13. fs \in [1..N -> Seq(X)]
  BY <1>6, <1>12
<1>14. LaysOut(fs, q, N)
  BY <1>8 DEF LaysOut
<1>15. QED
  BY <1>7, <1>13, <1>14

\* What a sequence holds that is made of the first n of q: every element of those, and
\* no other, an element of an earlier one first, those of one in their order.
From(x, q, i) == \E a \in DOMAIN q[i] : x = q[i][a]
Ordered(x, y, q, n) ==
  \E i, j \in 1..n : \E a \in DOMAIN q[i], b \in DOMAIN q[j] :
    x = q[i][a] /\ y = q[j][b] /\ (i < j \/ (i = j /\ a < b))
Laid(s, q, n) ==
  /\ \A p \in DOMAIN s : \E i \in 1..n : From(s[p], q, i)
  /\ \A i \in 1..n : \A a \in DOMAIN q[i] : \E p \in DOMAIN s : s[p] = q[i][a]
  /\ \A p, r \in DOMAIN s : p < r => Ordered(s[p], s[r], q, n)
  /\ (\A i \in 1..n : Len(q[i]) <= 1) => Len(s) <= n

LEMMA LaidNext ==
  ASSUME NEW X, NEW q \in Seq(Seq(X)), NEW n \in Nat, n >= 1, n + 1 <= Len(q),
         NEW s \in Seq(X), Laid(s, q, n)
  PROVE  Laid(s \o q[n + 1], q, n + 1)
<1>0. PICK m \in 1..Len(q) : m = n + 1 /\ n < m /\ n \in 1..m /\ 1..m = 1..n \cup {m}
  OBVIOUS
<1>1. PICK b : b = q[m] /\ b \in Seq(X)
  BY <1>0
<1>2. PICK t : t = s \o b /\ t \in Seq(X)
  <2>1. s \o b \in Seq(X)
    BY <1>1
  <2>2. QED
    BY <2>1
<1>3. /\ Len(t) = Len(s) + Len(b) /\ Len(s) \in Nat /\ Len(b) \in Nat
      /\ DOMAIN t = 1..(Len(s) + Len(b)) /\ DOMAIN s = 1..Len(s) /\ DOMAIN b = 1..Len(b)
  BY <1>1, <1>2
<1>4. ASSUME NEW p \in DOMAIN t PROVE \/ p \in DOMAIN s /\ t[p] = s[p]
                                      \/ /\ p > Len(s) /\ p - Len(s) \in DOMAIN b
                                         /\ t[p] = b[p - Len(s)]
  <2>1. t[p] = IF p <= Len(s) THEN s[p] ELSE b[p - Len(s)]
    BY <1>1, <1>2, <1>3, ConcatProperties
  <2>2. QED
    BY <1>3, <2>1
<1>5. ASSUME NEW p \in DOMAIN s PROVE p \in DOMAIN t /\ t[p] = s[p]
  <2>1. p \in DOMAIN t /\ p <= Len(s)
    BY <1>3
  <2>2. QED
    BY <1>1, <1>2, <1>3, <2>1, ConcatProperties
<1>6. ASSUME NEW a \in DOMAIN b PROVE \E p \in DOMAIN t : t[p] = b[a]
  <2>1. PICK p : p = Len(s) + a /\ p \in DOMAIN t /\ ~(p <= Len(s)) /\ p - Len(s) = a
    BY <1>3
  <2>2. t[p] = b[a]
    BY <1>1, <1>2, <1>3, <2>1, ConcatProperties
  <2>3. QED
    BY <2>1, <2>2
<1>7. \A p \in DOMAIN t : \E i \in 1..m : From(t[p], q, i)
  <2>1. TAKE p \in DOMAIN t
  <2>2. CASE p \in DOMAIN s /\ t[p] = s[p]
    BY <1>0, <2>2 DEF Laid
  <2>3. CASE p - Len(s) \in DOMAIN b /\ t[p] = b[p - Len(s)]
    BY <1>0, <1>1, <2>3 DEF From
  <2>4. QED
    BY <1>4, <2>2, <2>3
<1>8. \A i \in 1..m : \A a \in DOMAIN q[i] : \E p \in DOMAIN t : t[p] = q[i][a]
  <2>1. TAKE i \in 1..m
  <2>2. CASE i \in 1..n
    BY <1>5, <2>2 DEF Laid
  <2>3. CASE i = m
    BY <1>1, <1>6, <2>3
  <2>4. QED
    BY <1>0, <2>2, <2>3
<1>9. ASSUME NEW p \in DOMAIN t, NEW r \in DOMAIN t, p < r PROVE Ordered(t[p], t[r], q, m)
  <2>1. CASE p \in DOMAIN s /\ t[p] = s[p] /\ r \in DOMAIN s /\ t[r] = s[r]
    <3>1. PICK i, j \in 1..n : \E a \in DOMAIN q[i], c \in DOMAIN q[j] :
                 s[p] = q[i][a] /\ s[r] = q[j][c] /\ (i < j \/ (i = j /\ a < c))
      <4>1. Ordered(s[p], s[r], q, n)
        BY <1>9, <2>1 DEF Laid
      <4>2. QED
        BY <4>1 DEF Ordered
    <3>2. i \in 1..m /\ j \in 1..m
      BY <1>0
    <3>3. QED
      BY <2>1, <3>1, <3>2 DEF Ordered
  <2>2. CASE p \in DOMAIN s /\ t[p] = s[p] /\ r - Len(s) \in DOMAIN b /\ t[r] = b[r - Len(s)]
    <3>1. PICK i \in 1..n : From(s[p], q, i)
      BY <2>2 DEF Laid
    <3>2. i \in 1..m /\ m \in 1..m /\ i < m
      BY <1>0
    <3>3. QED
      BY <1>1, <2>2, <3>1, <3>2 DEF Ordered, From
  <2>3. CASE /\ p - Len(s) \in DOMAIN b /\ t[p] = b[p - Len(s)]
             /\ r - Len(s) \in DOMAIN b /\ t[r] = b[r - Len(s)]
    <3>1. PICK u, v : u = p - Len(s) /\ v = r - Len(s) /\ u < v
      BY <1>3, <1>9
    <3>2. QED
      BY <1>0, <1>1, <2>3, <3>1 DEF Ordered
  <2>4. ~(p > Len(s) /\ r \in DOMAIN s)
    BY <1>3, <1>9
  <2>5. QED
    BY <1>4, <2>1, <2>2, <2>3, <2>4
<1>10. (\A i \in 1..m : Len(q[i]) <= 1) => Len(t) <= m
  <2>1. SUFFICES ASSUME \A i \in 1..m : Len(q[i]) <= 1 PROVE Len(t) <= m
    OBVIOUS
  <2>2. Len(s) <= n
    BY <1>0, <2>1 DEF Laid
  <2>3. Len(b) <= 1
    BY <1>0, <1>1, <2>1
  <2>4. QED
    BY <1>0, <1>3, <2>2, <2>3
<1>11. Laid(t, q, m)
  BY <1>7, <1>8, <1>9, <1>10 DEF Laid
<1>12. QED
  BY <1>0, <1>1, <1>2, <1>11

LEMMA LaidFirst ==
  ASSUME NEW X, NEW q \in Seq(Seq(X)), Len(q) # 0
  PROVE  Laid(q[1], q, 1)
<1>1. q[1] \in Seq(X) /\ DOMAIN q[1] \subseteq Nat /\ 1..1 = {1}
  OBVIOUS
<1>2. \A p, r \in DOMAIN q[1] : p < r => Ordered(q[1][p], q[1][r], q, 1)
  BY <1>1 DEF Ordered
<1>3. QED
  BY <1>1, <1>2 DEF Laid, From

\* FlattenSeq lays all of them out.
LEMMA Flattened ==
  ASSUME NEW X, NEW q \in Seq(Seq(X))
  PROVE  FlattenSeq(q) \in Seq(X) /\ Laid(FlattenSeq(q), q, Len(q))
<1>1. CASE Len(q) = 0
  <2>1. FlattenSeq(q) = q /\ q = <<>>
    BY <1>1 DEF FlattenSeq
  <2>2. QED
    BY <1>1, <2>1 DEF Laid
<1>2. CASE Len(q) # 0
  <2> DEFINE N == Len(q)
  <2>1. PICK f \in [1..N -> Seq(X)] : LaysOut(f, q, N) /\ FlattenSeq(q) = f[N]
    BY <1>2, LaidOut
  <2>2. N \in Nat /\ N >= 1
    BY <1>2
  <2> HIDE DEF N
  <2> DEFINE T == {n \in Nat : n < N => Laid(f[n + 1], q, n + 1)}
  <2>3. 0 \in T
    <3>1. f[1] = q[1]
      <4>1. 1 \in 1..N
        BY <2>2
      <4>2. QED
        BY <2>1, <4>1 DEF LaysOut
    <3>2. QED
      BY <1>2, <3>1, LaidFirst
  <2>4. ASSUME NEW n \in T PROVE n + 1 \in T
    <3>1. SUFFICES ASSUME n + 1 < N PROVE Laid(f[n + 1 + 1], q, n + 1 + 1)
      OBVIOUS
    <3>2. PICK m \in Nat : m = n + 1 /\ m >= 1 /\ m < N
      BY <3>1
    <3>3. Laid(f[m], q, m) /\ f[m] \in Seq(X)
      BY <2>1, <2>2, <3>1, <3>2
    <3>4. m + 1 \in 1..N /\ m + 1 # 1 /\ (m + 1) - 1 = m
      BY <2>2, <3>2
    <3>5. f[m + 1] = f[m] \o q[m + 1]
      BY <2>1, <3>4 DEF LaysOut
    <3>6. m + 1 <= Len(q)
      BY <3>4 DEF N
    <3>7. Laid(f[m] \o q[m + 1], q, m + 1)
      BY <3>2, <3>3, <3>6, LaidNext
    <3>8. QED
      BY <3>2, <3>5, <3>7
  <2>5. T = Nat
    BY <2>3, <2>4, NatClosed
  <2>6. PICK n \in Nat : N = n + 1
    <3>1. N - 1 \in Nat /\ N = (N - 1) + 1
      BY <2>2
    <3>2. QED
      BY <3>1
  <2>7. n < N
    BY <2>6
  <2>8. Laid(f[n + 1], q, n + 1)
    BY <2>5, <2>7
  <2>9. f[N] \in Seq(X)
    BY <2>1, <2>2
  <2>10. QED
    BY <2>1, <2>6, <2>8, <2>9 DEF N
<1>3. QED
  BY <1>1, <1>2

\* The elements of the whole are those of the parts.
LEMMA FlatSet ==
  ASSUME NEW X, NEW q \in Seq(Seq(X))
  PROVE  /\ FlattenSeq(q) \in Seq(X)
         /\ \A x : x \in ToSet(FlattenSeq(q)) <=> \E i \in DOMAIN q : x \in ToSet(q[i])
<1>1. FlattenSeq(q) \in Seq(X) /\ Laid(FlattenSeq(q), q, Len(q)) /\ DOMAIN q = 1..Len(q)
  BY Flattened
<1>2. ASSUME NEW x, x \in ToSet(FlattenSeq(q)) PROVE \E i \in DOMAIN q : x \in ToSet(q[i])
  <2>1. PICK p \in DOMAIN FlattenSeq(q) : x = FlattenSeq(q)[p]
    BY <1>2 DEF ToSet
  <2>2. PICK i \in 1..Len(q) : From(x, q, i)
    BY <1>1, <2>1 DEF Laid
  <2>3. QED
    BY <1>1, <2>2 DEF From, ToSet
<1>3. ASSUME NEW i \in DOMAIN q, NEW x \in ToSet(q[i]) PROVE x \in ToSet(FlattenSeq(q))
  BY <1>1 DEF Laid, ToSet
<1>4. QED
  BY <1>1, <1>2, <1>3

\* An element that stands before another is of the same part or an earlier one.
LEMMA FlatOrder ==
  ASSUME NEW X, NEW q \in Seq(Seq(X)),
         NEW p \in DOMAIN FlattenSeq(q), NEW r \in DOMAIN FlattenSeq(q), p < r
  PROVE  \E i, j \in DOMAIN q :
           /\ i <= j
           /\ FlattenSeq(q)[p] \in ToSet(q[i]) /\ FlattenSeq(q)[r] \in ToSet(q[j])
<1>1. Ordered(FlattenSeq(q)[p], FlattenSeq(q)[r], q, Len(q)) /\ DOMAIN q = 1..Len(q) /\ Len(q) \in Nat
  BY Flattened DEF Laid
<1>2. PICK i, j \in 1..Len(q) : \E a \in DOMAIN q[i], b \in DOMAIN q[j] :
           /\ FlattenSeq(q)[p] = q[i][a] /\ FlattenSeq(q)[r] = q[j][b]
           /\ i < j \/ (i = j /\ a < b)
  BY <1>1 DEF Ordered
<1>3. i <= j
  BY <1>1, <1>2
<1>4. QED
  BY <1>1, <1>2, <1>3 DEF ToSet

\* Nothing stands twice in the whole if nothing does in a part or in two parts.
LEMMA FlatInjective ==
  ASSUME NEW X, NEW q \in Seq(Seq(X)),
         \A i \in DOMAIN q : IsInjective(q[i]),
         \A i, j \in DOMAIN q : i # j => ToSet(q[i]) \cap ToSet(q[j]) = {}
  PROVE  IsInjective(FlattenSeq(q))
<1> DEFINE F == FlattenSeq(q)
<1>1. /\ F \in Seq(X) /\ DOMAIN F = 1..Len(F) /\ Len(F) \in Nat
      /\ Laid(F, q, Len(q)) /\ DOMAIN q = 1..Len(q) /\ Len(q) \in Nat
  BY Flattened
<1> HIDE DEF F
<1>2. ASSUME NEW p \in DOMAIN F, NEW r \in DOMAIN F, p < r, F[p] = F[r] PROVE FALSE
  <2>0. Ordered(F[p], F[r], q, Len(q))
    BY <1>1, <1>2 DEF Laid
  <2>1. PICK i, j \in DOMAIN q : \E a \in DOMAIN q[i], b \in DOMAIN q[j] :
             F[p] = q[i][a] /\ F[r] = q[j][b] /\ (i < j \/ (i = j /\ a < b))
    BY <1>1, <2>0 DEF Ordered
  <2>2. PICK a \in DOMAIN q[i], b \in DOMAIN q[j] :
             F[p] = q[i][a] /\ F[r] = q[j][b] /\ (i < j \/ (i = j /\ a < b))
    BY <2>1
  <2>3. CASE i = j /\ a < b
    <3>1. a = b
      BY <1>2, <2>2, <2>3 DEF IsInjective
    <3>2. DOMAIN q[i] \subseteq Nat
      BY <1>1
    <3>3. QED
      BY <2>3, <3>1, <3>2
  <2>4. CASE i < j
    <3>1. i # j
      BY <1>1, <2>4
    <3>2. q[i][a] \in ToSet(q[i]) /\ q[j][b] \in ToSet(q[j])
      BY DEF ToSet
    <3>3. QED
      BY <1>2, <2>2, <3>1, <3>2
  <2>5. QED
    BY <2>2, <2>3, <2>4
<1>3. ASSUME NEW p \in DOMAIN F, NEW r \in DOMAIN F, F[p] = F[r] PROVE p = r
  <2>1. p < r \/ p = r \/ r < p
    BY <1>1
  <2>2. QED
    BY <1>2, <1>3, <2>1
<1>4. QED
  BY <1>3 DEF IsInjective, F

-----------------------------------------------------------------------------
\* The elements of a sequence that are in a set.

Kept(seq, S) == [i \in DOMAIN seq |-> IF seq[i] \in S THEN <<seq[i]>> ELSE <<>>]

LEMMA KeptTyped ==
  ASSUME NEW X, NEW seq \in Seq(X), NEW S
  PROVE  /\ Kept(seq, S) \in Seq(Seq(X)) /\ DOMAIN Kept(seq, S) = DOMAIN seq
         /\ Len(Kept(seq, S)) = Len(seq)
         /\ \A i \in DOMAIN seq : Kept(seq, S)[i] = IF seq[i] \in S THEN <<seq[i]>> ELSE <<>>
         /\ Only(seq, S) = FlattenSeq(Kept(seq, S))
<1>1. DOMAIN seq = 1..Len(seq) /\ Len(seq) \in Nat
  OBVIOUS
<1>2. \A i \in 1..Len(seq) : <<seq[i]>> \in Seq(X) /\ <<>> \in Seq(X)
  OBVIOUS
<1>3. QED
  BY <1>1, <1>2 DEF Kept, Only

LEMMA OnlyThose ==
  ASSUME NEW X, NEW seq \in Seq(X), NEW S
  PROVE  /\ Only(seq, S) \in Seq(X)
         /\ ToSet(Only(seq, S)) = ToSet(seq) \cap S
         /\ Len(Only(seq, S)) <= Len(seq)
         /\ \A p, r \in DOMAIN Only(seq, S) : p < r =>
              \E i, j \in DOMAIN seq : i < j /\ Only(seq, S)[p] = seq[i] /\ Only(seq, S)[r] = seq[j]
         /\ IsInjective(seq) => IsInjective(Only(seq, S))
<1> DEFINE K == Kept(seq, S)
<1>1. PICK q \in Seq(Seq(X)) : q = K
  BY KeptTyped
<1>2. /\ DOMAIN q = DOMAIN seq /\ Len(q) = Len(seq) /\ Only(seq, S) = FlattenSeq(q)
      /\ \A i \in DOMAIN seq : q[i] = IF seq[i] \in S THEN <<seq[i]>> ELSE <<>>
  BY <1>1, KeptTyped
<1>3. DOMAIN seq = 1..Len(seq) /\ Len(seq) \in Nat /\ DOMAIN seq \subseteq Nat
  OBVIOUS
<1>4. \A i \in DOMAIN seq : Len(q[i]) <= 1 /\ DOMAIN q[i] \subseteq {1} /\ ToSet(q[i]) = {seq[i]} \cap S
  <2>1. TAKE i \in DOMAIN seq
  <2>2. CASE seq[i] \in S
    <3>1. q[i] = <<seq[i]>>
      BY <1>2, <2>2
    <3>2. DOMAIN <<seq[i]>> = {1} /\ Len(<<seq[i]>>) = 1 /\ <<seq[i]>>[1] = seq[i]
      OBVIOUS
    <3>3. QED
      BY <2>2, <3>1, <3>2 DEF ToSet
  <2>3. CASE seq[i] \notin S
    <3>1. q[i] = <<>>
      BY <1>2, <2>3
    <3>2. DOMAIN <<>> = {} /\ Len(<<>>) = 0
      OBVIOUS
    <3>3. QED
      BY <2>3, <3>1, <3>2 DEF ToSet
  <2>4. QED
    BY <2>2, <2>3
<1>5. PICK F \in Seq(X) : F = FlattenSeq(q) /\ Laid(F, q, Len(q)) /\ F = Only(seq, S)
  BY <1>2, Flattened
<1>6. ToSet(F) = ToSet(seq) \cap S
  <2>1. \A x : x \in ToSet(F) <=> \E i \in DOMAIN seq : x \in ToSet(q[i])
    BY <1>2, <1>5, FlatSet
  <2>2. ASSUME NEW x \in ToSet(F) PROVE x \in ToSet(seq) \cap S
    <3>1. PICK i \in DOMAIN seq : x \in ToSet(q[i])
      BY <2>1
    <3>2. x = seq[i] /\ x \in S
      BY <1>4, <3>1
    <3>3. QED
      BY <3>2 DEF ToSet
  <2>3. ASSUME NEW x \in ToSet(seq) \cap S PROVE x \in ToSet(F)
    <3>1. PICK i \in DOMAIN seq : x = seq[i]
      BY DEF ToSet
    <3>2. x \in ToSet(q[i])
      BY <1>4, <3>1
    <3>3. QED
      BY <2>1, <3>2
  <2>4. QED
    BY <2>2, <2>3
<1>7. Len(F) <= Len(seq)
  BY <1>2, <1>3, <1>4, <1>5 DEF Laid
<1>8. ASSUME NEW p \in DOMAIN F, NEW r \in DOMAIN F, p < r
      PROVE  \E i, j \in DOMAIN seq : i < j /\ F[p] = seq[i] /\ F[r] = seq[j]
  <2>0. Ordered(F[p], F[r], q, Len(q)) /\ DOMAIN q = 1..Len(q)
    BY <1>2, <1>3, <1>5, <1>8 DEF Laid
  <2>1. PICK i, j \in DOMAIN q : \E a \in DOMAIN q[i], b \in DOMAIN q[j] :
             F[p] = q[i][a] /\ F[r] = q[j][b] /\ (i < j \/ (i = j /\ a < b))
    BY <2>0 DEF Ordered
  <2>2. PICK a \in DOMAIN q[i], b \in DOMAIN q[j] :
             F[p] = q[i][a] /\ F[r] = q[j][b] /\ (i < j \/ (i = j /\ a < b))
    BY <2>1
  <2>3. a = 1 /\ b = 1 /\ i < j
    BY <1>2, <1>4, <2>2
  <2>4. F[p] \in ToSet(q[i]) /\ F[r] \in ToSet(q[j])
    BY <2>2 DEF ToSet
  <2>5. QED
    BY <1>2, <1>4, <2>3, <2>4
<1>9. ASSUME IsInjective(seq) PROVE IsInjective(F)
  <2>1. \A i \in DOMAIN q : IsInjective(q[i])
    BY <1>2, <1>4 DEF IsInjective
  <2>2. \A i, j \in DOMAIN q : i # j => ToSet(q[i]) \cap ToSet(q[j]) = {}
    BY <1>2, <1>4, <1>9 DEF IsInjective
  <2>3. QED
    BY <1>5, <2>1, <2>2, FlatInjective
<1>10. QED
  BY <1>5, <1>6, <1>7, <1>8, <1>9

\* The first of them, 0 if there is none: it stands before the others.
LEMMA FirstOfThose ==
  ASSUME NEW seq \in Seq(Nat \ {0}), NEW S
  PROVE  /\ First(seq, S) = 0 <=> ToSet(seq) \cap S = {}
         /\ First(seq, S) # 0 => First(seq, S) \in ToSet(seq) \cap S
         /\ \A y \in ToSet(seq) \cap S : y = First(seq, S)
              \/ \E i, j \in DOMAIN seq : i < j /\ seq[i] = First(seq, S) /\ seq[j] = y
<1>1. PICK F \in Seq(Nat \ {0}) : F = Only(seq, S)
  BY OnlyThose
<1>2. /\ ToSet(F) = ToSet(seq) \cap S
      /\ \A p, r \in DOMAIN F : p < r =>
              \E i, j \in DOMAIN seq : i < j /\ F[p] = seq[i] /\ F[r] = seq[j]
  BY <1>1, OnlyThose
<1>3. First(seq, S) = IF F = <<>> THEN 0 ELSE Head(F)
  BY <1>1 DEF First
<1>4. CASE F = <<>>
  <2>1. ToSet(F) = {}
    BY <1>4 DEF ToSet
  <2>2. QED
    BY <1>2, <1>3, <1>4, <2>1
<1>5. CASE F # <<>>
  <2>1. First(seq, S) = F[1] /\ 1 \in DOMAIN F /\ DOMAIN F = 1..Len(F) /\ Len(F) \in Nat
    BY <1>3, <1>5
  <2>2. F[1] \in ToSet(F) /\ F[1] # 0
    BY <2>1 DEF ToSet
  <2>3. ASSUME NEW y \in ToSet(F), y # F[1]
        PROVE  \E i, j \in DOMAIN seq : i < j /\ seq[i] = F[1] /\ seq[j] = y
    <3>1. PICK p \in DOMAIN F : y = F[p]
      BY DEF ToSet
    <3>2. 1 < p
      BY <2>1, <2>3, <3>1
    <3>3. QED
      BY <1>2, <2>1, <3>1, <3>2
  <2>4. QED
    BY <1>2, <2>1, <2>2, <2>3
<1>6. QED
  BY <1>4, <1>5

LEMMA LastOfThose ==
  ASSUME NEW X, NEW seq \in Seq(X), seq # <<>>
  PROVE  Last(seq) \in ToSet(seq)
BY DEF Last, ToSet

-----------------------------------------------------------------------------
\* The inductive invariant.

Index == Nat \ {0}
Names == [1..1 -> Nat] \cup [1..2 -> Nat]
NodeRecord == [name : Names, type : Type, ifcs : Seq(Index)]
NetRecord == [name : Nat, outer : Nat, gateway : Nat, nodes : Seq(Index)]
SubnetRecord == [name : Nat, net : Index, nodes : Seq(Index), gateway : Nat]
OverlayRecord ==
  [protocol : Protocols, net : Index, nodes : Seq(Index),
   announced : UNION {[S -> SUBSET Index] : S \in SUBSET Index}]

Tables ==
  /\ nodes \in Seq(NodeRecord) /\ Len(nodes) <= MaxNodes
  /\ nets \in Seq(NetRecord) /\ Main \in DOMAIN nets
  /\ subnets \in Seq(SubnetRecord)
  /\ overlays \in Seq(OverlayRecord)
  /\ configured \in BOOLEAN /\ raised \in BOOLEAN

\* A local network lies in an older one, and its gateway is a node of both.
Nested(m) ==
  /\ nets[m].outer \in DOMAIN nets /\ nets[m].outer < m
  /\ nets[m].gateway \in ToSet(nets[m].nodes)
  /\ nets[m].gateway \in ToSet(nets[nets[m].outer].nodes)
  /\ nodes[nets[m].gateway].type = "GATEWAY"
NetworksNested ==
  /\ nets[Main].outer = 0 /\ nets[Main].gateway = NoGateway
  /\ \A m \in DOMAIN nets : ToSet(nets[m].nodes) \subseteq DOMAIN nodes
  /\ \A m \in DOMAIN nets : Local(m) => Nested(m)

\* A node is made in one network, and is in others as their gateway only.
HomeOf(n, h) ==
  /\ n \in ToSet(nets[h].nodes)
  /\ \A m \in DOMAIN nets : n \in ToSet(nets[m].nodes) /\ m # h => Local(m) /\ nets[m].gateway = n
Homes == \A n \in DOMAIN nodes : \E h \in DOMAIN nets : HomeOf(n, h)

\* The gateway of a subnet is a router, and there is one if the network's is there.
Forwards(n) == nodes[n].type \in {"ROUTER", "GATEWAY"}
Placed(s) ==
  /\ subnets[s].net \in DOMAIN nets
  /\ ToSet(subnets[s].nodes) \subseteq ToSet(nets[subnets[s].net].nodes)
  /\ Len(subnets[s].nodes) \in 1..MaxNodes
  /\ subnets[s].gateway # NoGateway =>
       subnets[s].gateway \in ToSet(subnets[s].nodes) /\ Forwards(subnets[s].gateway)
  /\ nets[subnets[s].net].gateway \in ToSet(subnets[s].nodes) => subnets[s].gateway # NoGateway
SubnetsPlaced == \A s \in DOMAIN subnets : Placed(s)

\* No node is in two overlays of one protocol.
OverlaysApart ==
  /\ \A o \in DOMAIN overlays :
       overlays[o].net \in DOMAIN nets /\ ToSet(overlays[o].nodes) \subseteq DOMAIN nodes
  /\ \A o, p \in DOMAIN overlays :
       o # p /\ overlays[o].protocol = overlays[p].protocol =>
         ToSet(overlays[o].nodes) \cap ToSet(overlays[p].nodes) = {}

\* A configured node has an interface in each of its subnets, those of the main network
\* first, and announces in each overlay the subnets it shares there.
MainFirst(ifcs) ==
  \A i, j \in DOMAIN ifcs :
    subnets[ifcs[i]].net # Main /\ subnets[ifcs[j]].net = Main => j < i
Shared(o, n) ==
  {s \in DOMAIN subnets : /\ subnets[s].net = overlays[o].net /\ Has(s, n)
                          /\ \E k \in ToSet(overlays[o].nodes) \ {n} : Has(s, k)}
Wired ==
  IF configured
  THEN /\ \A n \in DOMAIN nodes : /\ ToSet(nodes[n].ifcs) = {s \in DOMAIN subnets : Has(s, n)}
                                  /\ MainFirst(nodes[n].ifcs)
       /\ \A o \in DOMAIN overlays : \A n \in ToSet(overlays[o].nodes) :
            Shared(o, n) \subseteq overlays[o].announced[n]
  ELSE \A n \in DOMAIN nodes : nodes[n].ifcs = <<>>

\* What stands in lab.json follows from the definitions, which change no more.
Written ==
  lab # NoLab => /\ configured /\ lab = LabJson
                 /\ \A m \in ToSet(LocalsOf(Main)) : OutNet(m) # 0

DefInv ==
  Tables /\ NetworksNested /\ Homes /\ SubnetsPlaced /\ OverlaysApart /\ Wired /\ Written

-----------------------------------------------------------------------------
\* The lists that are made of the tables.

LEMMA InOrderOf ==
  ASSUME NEW X, NEW table \in Seq(X)
  PROVE  /\ InOrder(table) \in Seq(Index) /\ ToSet(InOrder(table)) = DOMAIN table
         /\ Len(InOrder(table)) = Len(table) /\ IsInjective(InOrder(table))
<1>1. DOMAIN table = 1..Len(table) /\ Len(table) \in Nat
  OBVIOUS
<1>2. \A i \in 1..Len(table) : i \in Index
  BY <1>1 DEF Index
<1>3. InOrder(table) \in Seq(Index) /\ Len(InOrder(table)) = Len(table)
  BY <1>1, <1>2 DEF InOrder
<1>4. DOMAIN InOrder(table) = DOMAIN table /\ \A i \in DOMAIN table : InOrder(table)[i] = i
  BY DEF InOrder
<1>5. QED
  BY <1>3, <1>4 DEF ToSet, IsInjective

LEMMA Listed ==
  ASSUME Tables, NEW m
  PROVE  /\ LocalsOf(m) \in Seq(Index) /\ IsInjective(LocalsOf(m))
         /\ ToSet(LocalsOf(m)) = {k \in DOMAIN nets : nets[k].outer = m}
         /\ SubnetsOf(m) \in Seq(Index)
         /\ ToSet(SubnetsOf(m)) = {s \in DOMAIN subnets : subnets[s].net = m}
         /\ OverlaysOf(m) \in Seq(Index) /\ IsInjective(OverlaysOf(m))
         /\ ToSet(OverlaysOf(m)) = {o \in DOMAIN overlays : overlays[o].net = m}
<1>1. /\ LocalsOf(m) \in Seq(Index) /\ IsInjective(LocalsOf(m))
      /\ ToSet(LocalsOf(m)) = {k \in DOMAIN nets : nets[k].outer = m}
  <2>1. /\ InOrder(nets) \in Seq(Index) /\ ToSet(InOrder(nets)) = DOMAIN nets
        /\ IsInjective(InOrder(nets))
    BY InOrderOf DEF Tables
  <2>2. QED
    BY <2>1, OnlyThose DEF LocalsOf
<1>2. /\ SubnetsOf(m) \in Seq(Index)
      /\ ToSet(SubnetsOf(m)) = {s \in DOMAIN subnets : subnets[s].net = m}
  <2>1. InOrder(subnets) \in Seq(Index) /\ ToSet(InOrder(subnets)) = DOMAIN subnets
    BY InOrderOf DEF Tables
  <2>2. QED
    BY <2>1, OnlyThose DEF SubnetsOf
<1>3. /\ OverlaysOf(m) \in Seq(Index) /\ IsInjective(OverlaysOf(m))
      /\ ToSet(OverlaysOf(m)) = {o \in DOMAIN overlays : overlays[o].net = m}
  <2>1. /\ InOrder(overlays) \in Seq(Index) /\ ToSet(InOrder(overlays)) = DOMAIN overlays
        /\ IsInjective(InOrder(overlays))
    BY InOrderOf DEF Tables
  <2>2. QED
    BY <2>1, OnlyThose DEF OverlaysOf
<1>4. QED
  BY <1>1, <1>2, <1>3

\* Sorting by size loses no subnet: none is empty or has more nodes than there are.
LEMMA Sorted ==
  ASSUME Tables, SubnetsPlaced, NEW seq \in Seq(Index), ToSet(seq) \subseteq DOMAIN subnets
  PROVE  BySize(seq) \in Seq(Index) /\ ToSet(BySize(seq)) = ToSet(seq)
<1> DEFINE Of(size) == Only(seq, {s \in DOMAIN subnets : Len(subnets[s].nodes) = size})
           q == [size \in 1..MaxNodes |-> Of(size)]
<1>1. BySize(seq) = FlattenSeq(q)
  BY DEF BySize
<1>2. ASSUME NEW size \in 1..MaxNodes
      PROVE  /\ Of(size) \in Seq(Index)
             /\ ToSet(Of(size)) = {s \in ToSet(seq) : Len(subnets[s].nodes) = size}
  BY OnlyThose
<1> HIDE DEF Of
<1>3. q \in Seq(Seq(Index)) /\ DOMAIN q = 1..MaxNodes
  BY <1>2, BoundsAssumption
<1>4. \A size \in 1..MaxNodes : q[size] = Of(size)
  OBVIOUS
<1> HIDE DEF q
<1>5. \A s \in ToSet(seq) : Len(subnets[s].nodes) \in 1..MaxNodes
  BY DEF SubnetsPlaced, Placed
<1>6. FlattenSeq(q) \in Seq(Index)
  BY <1>3, FlatSet
<1>7. \A s : s \in ToSet(FlattenSeq(q)) <=> \E size \in 1..MaxNodes : s \in ToSet(q[size])
  BY <1>3, FlatSet
<1>8. \A s : s \in ToSet(FlattenSeq(q)) <=> s \in ToSet(seq)
  BY <1>2, <1>4, <1>5, <1>7
<1>9. QED
  BY <1>1, <1>6, <1>8

\* The subnets of networks in some order, those of the main network first if it is.
MainBegins(order) == \A i \in DOMAIN order : order[i] = Main => i = 1

LEMMA SubnetsListed ==
  ASSUME Tables, SubnetsPlaced, NEW order \in Seq(Index)
  PROVE  /\ SubnetsInOrder(order) \in Seq(Index)
         /\ ToSet(SubnetsInOrder(order)) = {s \in DOMAIN subnets : subnets[s].net \in ToSet(order)}
         /\ MainBegins(order) => MainFirst(SubnetsInOrder(order))
<1> DEFINE Of(i) == BySize(SubnetsOf(order[i]))
           q == [i \in DOMAIN order |-> Of(i)]
<1>1. SubnetsInOrder(order) = FlattenSeq(q)
  BY DEF SubnetsInOrder
<1>2. ASSUME NEW i \in DOMAIN order
      PROVE  /\ Of(i) \in Seq(Index)
             /\ ToSet(Of(i)) = {s \in DOMAIN subnets : subnets[s].net = order[i]}
  <2>1. /\ SubnetsOf(order[i]) \in Seq(Index)
        /\ ToSet(SubnetsOf(order[i])) = {s \in DOMAIN subnets : subnets[s].net = order[i]}
    BY Listed
  <2>2. QED
    BY <2>1, Sorted
<1> HIDE DEF Of
<1>3. DOMAIN order = 1..Len(order) /\ Len(order) \in Nat
  OBVIOUS
<1>4. q \in Seq(Seq(Index)) /\ DOMAIN q = DOMAIN order /\ \A i \in DOMAIN order : q[i] = Of(i)
  BY <1>2, <1>3
<1> HIDE DEF q
<1>5. FlattenSeq(q) \in Seq(Index)
  BY <1>4, FlatSet
<1>6. \A s : s \in ToSet(FlattenSeq(q)) <=> \E i \in DOMAIN order : s \in ToSet(q[i])
  BY <1>4, FlatSet
<1>7. ToSet(FlattenSeq(q)) = {s \in DOMAIN subnets : subnets[s].net \in ToSet(order)}
  <2>1. ASSUME NEW s \in ToSet(FlattenSeq(q))
        PROVE  s \in DOMAIN subnets /\ subnets[s].net \in ToSet(order)
    <3>1. PICK i \in DOMAIN order : s \in ToSet(q[i])
      BY <1>6
    <3>2. s \in DOMAIN subnets /\ subnets[s].net = order[i]
      BY <1>2, <1>4, <3>1
    <3>3. QED
      BY <3>2 DEF ToSet
  <2>2. ASSUME NEW s \in DOMAIN subnets, subnets[s].net \in ToSet(order)
        PROVE  s \in ToSet(FlattenSeq(q))
    <3>1. PICK i \in DOMAIN order : subnets[s].net = order[i]
      BY <2>2 DEF ToSet
    <3>2. QED
      BY <1>2, <1>4, <1>6, <3>1
  <2>3. QED
    BY <2>1, <2>2
<1>8. ASSUME MainBegins(order) PROVE MainFirst(FlattenSeq(q))
  <2>1. SUFFICES ASSUME NEW p \in DOMAIN FlattenSeq(q), NEW r \in DOMAIN FlattenSeq(q), p < r,
                        subnets[FlattenSeq(q)[p]].net # Main, subnets[FlattenSeq(q)[r]].net = Main
                 PROVE  FALSE
    <3>1. \A p, r \in DOMAIN FlattenSeq(q) : p \in Nat /\ r \in Nat
      BY <1>5
    <3>2. \A p, r \in DOMAIN FlattenSeq(q) : p < r \/ r < p \/ p = r
      BY <3>1
    <3>3. QED
      BY <2>1, <3>2 DEF MainFirst
  <2>2. PICK i, j \in DOMAIN q : /\ i <= j
                                 /\ FlattenSeq(q)[p] \in ToSet(q[i])
                                 /\ FlattenSeq(q)[r] \in ToSet(q[j])
    BY <1>4, <2>1, FlatOrder
  <2>3. order[i] # Main /\ order[j] = Main /\ i \in DOMAIN order /\ j \in DOMAIN order
    BY <1>2, <1>4, <2>1, <2>2
  <2>4. j = 1 /\ i # 1
    BY <1>8, <2>2, <2>3 DEF MainBegins
  <2>5. QED
    BY <1>3, <2>2, <2>3, <2>4
<1>9. QED
  BY <1>1, <1>5, <1>7, <1>8

LEMMA InterfacesListed ==
  ASSUME Tables, SubnetsPlaced, NEW order \in Seq(Index), NEW n
  PROVE  /\ Interfaces(n, order) \in Seq(Index)
         /\ ToSet(Interfaces(n, order)) =
              {s \in DOMAIN subnets : subnets[s].net \in ToSet(order) /\ Has(s, n)}
         /\ MainBegins(order) => MainFirst(Interfaces(n, order))
<1>1. PICK all \in Seq(Index) : all = SubnetsInOrder(order)
  BY SubnetsListed
<1>2. /\ ToSet(all) = {s \in DOMAIN subnets : subnets[s].net \in ToSet(order)}
      /\ MainBegins(order) => MainFirst(all)
  BY <1>1, SubnetsListed
<1>3. PICK S : S = {s \in DOMAIN subnets : Has(s, n)}
  OBVIOUS
<1>4. PICK ifcs \in Seq(Index) : ifcs = Interfaces(n, order) /\ ifcs = Only(all, S)
  BY <1>1, <1>3, OnlyThose DEF Interfaces
<1>5. /\ ToSet(ifcs) = ToSet(all) \cap S
      /\ \A p, r \in DOMAIN ifcs : p < r =>
           \E i, j \in DOMAIN all : i < j /\ ifcs[p] = all[i] /\ ifcs[r] = all[j]
  BY <1>4, OnlyThose
<1>6. ASSUME MainFirst(all), NEW p \in DOMAIN ifcs, NEW r \in DOMAIN ifcs,
             subnets[ifcs[p]].net # Main, subnets[ifcs[r]].net = Main
      PROVE  r < p
  <2>1. CASE p < r
    <3>1. PICK i, j \in DOMAIN all : i < j /\ ifcs[p] = all[i] /\ ifcs[r] = all[j]
      BY <1>5, <2>1
    <3>2. j < i
      BY <1>6, <3>1 DEF MainFirst
    <3>3. i \in Nat /\ j \in Nat
      OBVIOUS
    <3>4. QED
      BY <3>1, <3>2, <3>3
  <2>2. p # r /\ p \in Nat /\ r \in Nat
    BY <1>6
  <2>3. QED
    BY <2>1, <2>2
<1>7. MainFirst(all) => MainFirst(ifcs)
  BY <1>6 DEF MainFirst
<1>8. ToSet(ifcs) = {s \in DOMAIN subnets : subnets[s].net \in ToSet(order) /\ Has(s, n)}
  BY <1>2, <1>3, <1>5
<1>9. QED
  BY <1>2, <1>4, <1>7, <1>8

-----------------------------------------------------------------------------
\* The order in which networks are configured.

\* Induction over the networks, from the newest and from the oldest.
LEMMA FromNewest ==
  ASSUME NEW N \in Nat, NEW S \in SUBSET (1..N),
         \A m \in 1..N : (\A k \in 1..N : m < k => k \in S) => m \in S
  PROVE  S = 1..N
<1> DEFINE T == {d \in Nat : \A m \in 1..N : N <= m + d => m \in S}
<1>1. 0 \in T
  OBVIOUS
<1>2. ASSUME NEW d \in T PROVE d + 1 \in T
  <2>1. SUFFICES ASSUME NEW m \in 1..N, N <= m + (d + 1) PROVE m \in S
    OBVIOUS
  <2>2. \A k \in 1..N : m < k => N <= k + d
    BY <2>1
  <2>3. QED
    BY <1>2, <2>2
<1>3. T = Nat
  BY <1>1, <1>2, NatClosed
<1>4. ASSUME NEW m \in 1..N PROVE m \in S
  <2>1. N <= m + N
    OBVIOUS
  <2>2. N \in T
    BY <1>3
  <2>3. QED
    BY <2>1, <2>2
<1>5. QED
  BY <1>4

LEMMA FromOldest ==
  ASSUME NEW N \in Nat, NEW S \in SUBSET (1..N),
         \A m \in 1..N : (\A k \in 1..N : k < m => k \in S) => m \in S
  PROVE  S = 1..N
<1> DEFINE T == {d \in Nat : \A m \in 1..N : m <= d => m \in S}
<1>1. 0 \in T
  OBVIOUS
<1>2. ASSUME NEW d \in T PROVE d + 1 \in T
  <2>1. SUFFICES ASSUME NEW m \in 1..N, m <= d + 1 PROVE m \in S
    OBVIOUS
  <2>2. \A k \in 1..N : k < m => k <= d
    BY <2>1
  <2>3. QED
    BY <1>2, <2>2
<1>3. T = Nat
  BY <1>1, <1>2, NatClosed
<1>4. ASSUME NEW m \in 1..N PROVE m \in S
  <2>1. N \in T /\ m <= N
    BY <1>3
  <2>2. QED
    BY <2>1
<1>5. QED
  BY <1>4

\* A network and what f gives for its local networks.
Under(m, f) == [i \in DOMAIN LocalsOf(m) |-> f[LocalsOf(m)[i]]]
Below(m, f) == <<m>> \o FlattenSeq(Under(m, f))

LEMMA BelowSame ==
  ASSUME NEW m, NEW f, NEW g, \A k \in ToSet(LocalsOf(m)) : f[k] = g[k]
  PROVE  Below(m, f) = Below(m, g)
<1>1. \A i \in DOMAIN LocalsOf(m) : f[LocalsOf(m)[i]] = g[LocalsOf(m)[i]]
  BY DEF ToSet
<1>2. Under(m, f) = Under(m, g)
  BY <1>1 DEF Under
<1>3. QED
  BY <1>2 DEF Below

\* A sequence with an element put before it.
LEMMA Consed ==
  ASSUME NEW m \in Index, NEW s \in Seq(Index)
  PROVE  /\ <<m>> \o s \in Seq(Index)
         /\ \A x : x \in ToSet(<<m>> \o s) <=> x = m \/ x \in ToSet(s)
         /\ 1 \in DOMAIN (<<m>> \o s) /\ (<<m>> \o s)[1] = m
         /\ m \notin ToSet(s) => \A i \in DOMAIN (<<m>> \o s) : (<<m>> \o s)[i] = m => i = 1
         /\ m \notin ToSet(s) /\ IsInjective(s) => IsInjective(<<m>> \o s)
<1>1. PICK t \in Seq(Index) : t = <<m>> \o s
  <2>1. <<m>> \o s \in Seq(Index)
    OBVIOUS
  <2>2. QED
    BY <2>1
<1>2. /\ DOMAIN t = 1..(1 + Len(s)) /\ Len(s) \in Nat /\ DOMAIN s = 1..Len(s)
      /\ \A i \in DOMAIN t : t[i] = IF i = 1 THEN m ELSE s[i - 1]
  <2>1. <<m>> \in Seq(Index) /\ Len(<<m>>) = 1 /\ <<m>>[1] = m
    OBVIOUS
  <2>2. Len(t) = 1 + Len(s) /\ Len(s) \in Nat
    BY <1>1, <2>1, ConcatProperties
  <2>3. \A i \in 1..(1 + Len(s)) : t[i] = IF i <= 1 THEN <<m>>[i] ELSE s[i - 1]
    BY <1>1, <2>1, ConcatProperties
  <2>4. DOMAIN t = 1..(1 + Len(s)) /\ DOMAIN s = 1..Len(s)
    BY <2>2
  <2>5. QED
    BY <2>1, <2>2, <2>3, <2>4
<1>3. ASSUME NEW x PROVE x \in ToSet(t) <=> x = m \/ x \in ToSet(s)
  <2>1. ASSUME x \in ToSet(t) PROVE x = m \/ x \in ToSet(s)
    <3>1. PICK i \in DOMAIN t : x = t[i]
      BY <2>1 DEF ToSet
    <3>2. i # 1 => i - 1 \in DOMAIN s
      <4>1. i \in 1..(1 + Len(s)) /\ Len(s) \in Nat
        BY <1>2
      <4>2. i # 1 => i - 1 \in 1..Len(s)
        BY <4>1
      <4>3. QED
        BY <1>2, <4>2
    <3>3. t[i] = IF i = 1 THEN m ELSE s[i - 1]
      BY <1>2
    <3>4. QED
      BY <3>1, <3>2, <3>3 DEF ToSet
  <2>2. 1 \in DOMAIN t /\ t[1] = m
    <3>1. Len(s) \in Nat /\ DOMAIN t = 1..(1 + Len(s))
      BY <1>2
    <3>2. 1 \in 1..(1 + Len(s))
      BY <3>1
    <3>3. QED
      BY <1>2, <3>1, <3>2
  <2>3. ASSUME x \in ToSet(s) PROVE x \in ToSet(t)
    <3>1. PICK i \in DOMAIN s : x = s[i]
      BY <2>3 DEF ToSet
    <3>2. i + 1 \in DOMAIN t /\ i + 1 # 1 /\ (i + 1) - 1 = i
      <4>1. i \in 1..Len(s) /\ Len(s) \in Nat /\ DOMAIN t = 1..(1 + Len(s))
        BY <1>2
      <4>2. i + 1 \in 1..(1 + Len(s)) /\ i + 1 # 1 /\ (i + 1) - 1 = i
        BY <4>1
      <4>3. QED
        BY <4>1, <4>2
    <3>3. t[i + 1] = s[i]
      BY <1>2, <3>2
    <3>4. QED
      BY <3>1, <3>2, <3>3 DEF ToSet
  <2>4. QED
    BY <2>1, <2>2, <2>3 DEF ToSet
<1>4. 1 \in DOMAIN t /\ t[1] = m
  <2>1. Len(s) \in Nat /\ DOMAIN t = 1..(1 + Len(s))
    BY <1>2
  <2>2. 1 \in 1..(1 + Len(s))
    BY <2>1
  <2>3. QED
    BY <1>2, <2>1, <2>2
<1>5. ASSUME NEW i \in DOMAIN t, i # 1
      PROVE  i - 1 \in DOMAIN s /\ t[i] = s[i - 1] /\ t[i] \in ToSet(s)
  <2>1. i \in 1..(1 + Len(s)) /\ Len(s) \in Nat
    BY <1>2
  <2>2. i - 1 \in 1..Len(s)
    BY <1>5, <2>1
  <2>3. i - 1 \in DOMAIN s /\ t[i] = s[i - 1]
    BY <1>2, <1>5, <2>2
  <2>4. QED
    BY <2>3 DEF ToSet
<1>6. ASSUME m \notin ToSet(s), IsInjective(s) PROVE IsInjective(t)
  <2>1. SUFFICES ASSUME NEW i \in DOMAIN t, NEW j \in DOMAIN t, t[i] = t[j] PROVE i = j
    BY DEF IsInjective
  <2>2. CASE i = 1 \/ j = 1
    BY <1>4, <1>5, <1>6, <2>1, <2>2
  <2>3. CASE i # 1 /\ j # 1
    <3>1. i - 1 = j - 1
      BY <1>5, <1>6, <2>1, <2>3 DEF IsInjective
    <3>2. i \in Nat /\ j \in Nat
      OBVIOUS
    <3>3. QED
      BY <3>1, <3>2
  <2>4. QED
    BY <2>2, <2>3
<1>7. QED
  BY <1>1, <1>3, <1>4, <1>5, <1>6

LEMMA BelowTyped ==
  ASSUME Tables, NEW m \in Index, NEW f, \A k \in ToSet(LocalsOf(m)) : f[k] \in Seq(Index)
  PROVE  /\ Below(m, f) \in Seq(Index)
         /\ \A x : x \in ToSet(Below(m, f)) <=>
              x = m \/ \E k \in ToSet(LocalsOf(m)) : x \in ToSet(f[k])
         /\ (\A k \in ToSet(LocalsOf(m)) : m \notin ToSet(f[k])) =>
              \A i \in DOMAIN Below(m, f) : Below(m, f)[i] = m => i = 1
<1>1. PICK locals \in Seq(Index) : locals = LocalsOf(m)
  BY Listed
<1>2. PICK q \in Seq(Seq(Index)) : q = Under(m, f) /\ DOMAIN q = DOMAIN locals
                                   /\ \A i \in DOMAIN locals : q[i] = f[locals[i]]
  <2>1. DOMAIN locals = 1..Len(locals) /\ Len(locals) \in Nat
    OBVIOUS
  <2>2. \A i \in DOMAIN locals : f[locals[i]] \in Seq(Index)
    BY <1>1 DEF ToSet
  <2>3. [i \in DOMAIN locals |-> f[locals[i]]] \in Seq(Seq(Index))
    BY <2>1, <2>2
  <2>4. QED
    BY <1>1, <2>3 DEF Under
<1>3. PICK s \in Seq(Index) : s = FlattenSeq(q)
  BY FlatSet
<1>4. \A x : x \in ToSet(s) <=> \E k \in ToSet(LocalsOf(m)) : x \in ToSet(f[k])
  <2>1. \A x : x \in ToSet(s) <=> \E i \in DOMAIN locals : x \in ToSet(f[locals[i]])
    <3>1. \A x : x \in ToSet(s) <=> \E i \in DOMAIN q : x \in ToSet(q[i])
      BY <1>3, FlatSet
    <3>2. QED
      BY <1>2, <3>1
  <2>2. \A k : k \in ToSet(LocalsOf(m)) <=> \E i \in DOMAIN locals : k = locals[i]
    BY <1>1 DEF ToSet
  <2>3. QED
    BY <2>1, <2>2
<1>5. PICK t : t = Below(m, f)
  OBVIOUS
<1>6. t = <<m>> \o s
  BY <1>2, <1>3, <1>5 DEF Below
<1>7. /\ t \in Seq(Index)
      /\ \A x : x \in ToSet(t) <=> x = m \/ x \in ToSet(s)
      /\ m \notin ToSet(s) => \A i \in DOMAIN t : t[i] = m => i = 1
  BY <1>6, Consed
<1>8. /\ t \in Seq(Index)
      /\ \A x : x \in ToSet(t) <=> x = m \/ \E k \in ToSet(LocalsOf(m)) : x \in ToSet(f[k])
      /\ (\A k \in ToSet(LocalsOf(m)) : m \notin ToSet(f[k])) =>
           \A i \in DOMAIN t : t[i] = m => i = 1
  <2> HIDE <1>5, <1>6
  <2>1. QED
    BY <1>4, <1>7
<1>9. QED
  BY <1>5, <1>8

\* A local network is newer than the one it is in.
LEMMA LocalsNewer ==
  ASSUME Tables, NetworksNested, NEW m \in DOMAIN nets
  PROVE  \A k \in ToSet(LocalsOf(m)) : k \in DOMAIN nets /\ m < k
<1>1. \A k \in ToSet(LocalsOf(m)) : k \in DOMAIN nets /\ nets[k].outer = m
  BY Listed
<1>2. m \in Nat /\ m # 0
  BY DEF Tables
<1>3. \A k \in ToSet(LocalsOf(m)) : k # Main
  BY <1>1, <1>2 DEF NetworksNested, Nested
<1>4. QED
  BY <1>1, <1>3 DEF NetworksNested, Nested, Local

\* The function that ConfigureOrder is defined by exists.
LEMMA OrderExists ==
  ASSUME Tables, NetworksNested
  PROVE  \E f : f = [m \in DOMAIN nets |-> Below(m, f)]
<1>1. PICK N \in Nat : DOMAIN nets = 1..N /\ N >= 1
  BY DEF Tables, Main
<1> DEFINE S == {m \in 1..N : \E f \in [m..N -> Seq(Index)] : \A k \in m..N : f[k] = Below(k, f)}
<1>2. ASSUME NEW m \in 1..N, \A k \in 1..N : m < k => k \in S PROVE m \in S
  <2>1. PICK f : /\ DOMAIN f = (m + 1)..N
                 /\ \A k \in (m + 1)..N : f[k] \in Seq(Index) /\ f[k] = Below(k, f)
    <3>1. CASE m = N
      <4>1. \A k : k \notin (m + 1)..N
        BY <3>1
      <4>2. DOMAIN [k \in (m + 1)..N |-> <<>>] = (m + 1)..N
        OBVIOUS
      <4>3. QED
        BY <4>1, <4>2
    <3>2. CASE m # N
      <4>1. PICK n : n = m + 1 /\ n \in 1..N /\ m < n
        BY <3>2
      <4>2. QED
        BY <1>2, <4>1
    <3>3. QED
      BY <3>1, <3>2
  <2> DEFINE g == [k \in m..N |-> IF k = m THEN Below(m, f) ELSE f[k]]
  <2>2. \A k \in m..N : g[k] = IF k = m THEN Below(m, f) ELSE f[k]
    OBVIOUS
  <2>3. DOMAIN g = m..N
    OBVIOUS
  <2> HIDE DEF g
  <2>4. \A k \in m..N : k # m => k \in (m + 1)..N
    OBVIOUS
  <2>5. \A k \in m..N : \A j \in ToSet(LocalsOf(k)) : j \in (m + 1)..N /\ j # m /\ j \in m..N
    <3>1. ASSUME NEW k \in m..N, NEW j \in ToSet(LocalsOf(k)) PROVE j \in 1..N /\ k < j
      BY <1>1, LocalsNewer
    <3>2. QED
      BY <3>1
  <2>6. \A k \in m..N : Below(k, g) = Below(k, f)
    BY <2>2, <2>5, BelowSame
  <2>7. \A k \in m..N : g[k] = Below(k, g)
    BY <2>1, <2>2, <2>4, <2>6
  <2>8. \A k \in m..N : g[k] \in Seq(Index)
    <3>1. Below(m, f) \in Seq(Index)
      <4>1. m \in Index /\ m \in m..N
        BY DEF Index
      <4>2. \A j \in ToSet(LocalsOf(m)) : f[j] \in Seq(Index)
        BY <2>1, <2>5, <4>1
      <4>3. QED
        BY <4>1, <4>2, BelowTyped
    <3>2. QED
      BY <2>1, <2>2, <2>4, <3>1
  <2>9. g \in [m..N -> Seq(Index)]
    <3>1. g = [k \in m..N |-> g[k]]
      BY DEF g
    <3>2. QED
      BY <2>8, <3>1
  <2>10. QED
    BY <2>7, <2>9
<1>3. S = 1..N
  <2>1. S \in SUBSET (1..N)
    OBVIOUS
  <2> HIDE DEF S
  <2>2. QED
    BY <1>2, <2>1, FromNewest
<1>4. 1 \in S
  BY <1>1, <1>3
<1>5. PICK f \in [1..N -> Seq(Index)] : \A k \in 1..N : f[k] = Below(k, f)
  BY <1>4
<1>6. f = [m \in DOMAIN nets |-> Below(m, f)]
  BY <1>1, <1>5
<1>7. QED
  BY <1>6

\* Every network is configured, the main one first, and no other takes its place.
LEMMA Ordering ==
  ASSUME Tables, NetworksNested
  PROVE  /\ ConfigureOrder \in Seq(Index) /\ ToSet(ConfigureOrder) = DOMAIN nets
         /\ MainBegins(ConfigureOrder)
<1>1. PICK N \in Nat : DOMAIN nets = 1..N /\ N >= 1
  BY DEF Tables, Main
<1> DEFINE from == CHOOSE f : f = [m \in DOMAIN nets |-> Below(m, f)]
<1>2. from = [m \in DOMAIN nets |-> Below(m, from)]
  BY OrderExists
<1>3. ConfigureOrder = from[Main]
  BY DEF ConfigureOrder, Below, Under
<1> HIDE DEF from
<1>4. \A m \in 1..N : from[m] = Below(m, from)
  BY <1>1, <1>2
<1> DEFINE S == {m \in 1..N :
                   /\ from[m] \in Seq(Index)
                   /\ \A x \in ToSet(from[m]) :
                        /\ x \in 1..N /\ m <= x
                        /\ ToSet(LocalsOf(x)) \subseteq ToSet(from[m])
                   /\ m \in ToSet(from[m])}
<1>5. ASSUME NEW m \in 1..N, \A k \in 1..N : m < k => k \in S PROVE m \in S
  <2>1. \A k \in ToSet(LocalsOf(m)) : k \in 1..N /\ m < k /\ k \in S
    BY <1>1, <1>5, LocalsNewer
  <2>2. /\ Below(m, from) \in Seq(Index)
        /\ \A x : x \in ToSet(Below(m, from)) <=>
             x = m \/ \E k \in ToSet(LocalsOf(m)) : x \in ToSet(from[k])
    <3>1. m \in Index
      BY DEF Index
    <3>2. \A k \in ToSet(LocalsOf(m)) : from[k] \in Seq(Index)
      BY <2>1
    <3> HIDE DEF S
    <3>3. QED
      BY <3>1, <3>2, BelowTyped
  <2>3. \A k \in ToSet(LocalsOf(m)) : k \in ToSet(from[m])
    BY <1>4, <2>1, <2>2
  <2>4. ASSUME NEW x \in ToSet(from[m])
        PROVE  x \in 1..N /\ m <= x /\ ToSet(LocalsOf(x)) \subseteq ToSet(from[m])
    <3>1. CASE x = m
      <4>1. ToSet(LocalsOf(m)) \subseteq ToSet(from[m])
        BY <2>3
      <4>2. m \in 1..N /\ m <= m
        OBVIOUS
      <4>3. QED
        BY <3>1, <4>1, <4>2, Zenon
    <3>2. ASSUME NEW k \in ToSet(LocalsOf(m)), x \in ToSet(from[k])
          PROVE  x \in 1..N /\ m <= x /\ ToSet(LocalsOf(x)) \subseteq ToSet(from[m])
      <4>1. k \in 1..N /\ m < k /\ x \in 1..N /\ k <= x /\ ToSet(LocalsOf(x)) \subseteq ToSet(from[k])
        BY <2>1, <3>2
      <4>2. ToSet(from[k]) \subseteq ToSet(from[m])
        BY <1>4, <2>2
      <4>3. m <= x
        BY <4>1
      <4>4. QED
        BY <4>1, <4>2, <4>3
    <3>3. QED
      BY <1>4, <2>2, <3>1, <3>2
  <2>5. from[m] \in Seq(Index) /\ m \in ToSet(from[m])
    BY <1>4, <2>2
  <2>6. QED
    BY <2>4, <2>5
<1>6. S = 1..N
  <2>1. S \in SUBSET (1..N)
    OBVIOUS
  <2> HIDE DEF S
  <2>2. QED
    BY <1>5, <2>1, FromNewest
<1>7. Main \in 1..N
  BY <1>1 DEF Main
<1>8. ConfigureOrder \in Seq(Index) /\ \A x \in ToSet(ConfigureOrder) :
        x \in 1..N /\ ToSet(LocalsOf(x)) \subseteq ToSet(ConfigureOrder)
  BY <1>3, <1>6, <1>7
<1>9. Main \in ToSet(ConfigureOrder)
  BY <1>3, <1>6, <1>7
<1> DEFINE R == {m \in 1..N : m \in ToSet(ConfigureOrder)}
<1>10. ASSUME NEW m \in 1..N, \A k \in 1..N : k < m => k \in R PROVE m \in R
  <2>1. CASE m = Main
    BY <1>9, <2>1
  <2>2. CASE m # Main
    <3>1. nets[m].outer \in 1..N /\ nets[m].outer < m
      BY <1>1, <2>2 DEF NetworksNested, Nested, Local
    <3>2. m \in ToSet(LocalsOf(nets[m].outer))
      BY <1>1, Listed
    <3>3. nets[m].outer \in ToSet(ConfigureOrder)
      BY <1>10, <3>1
    <3>4. QED
      BY <1>8, <3>2, <3>3
  <2>3. QED
    BY <2>1, <2>2
<1>11. R = 1..N
  <2>1. R \in SUBSET (1..N)
    OBVIOUS
  <2> HIDE DEF R
  <2>2. QED
    BY <1>10, <2>1, FromOldest
<1>12. ToSet(ConfigureOrder) = DOMAIN nets
  BY <1>1, <1>8, <1>11
<1>13. MainBegins(ConfigureOrder)
  <2>1. \A k \in ToSet(LocalsOf(Main)) : k \in 1..N /\ Main < k /\ k \in S
    BY <1>1, <1>6, <1>7, LocalsNewer
  <2>2. \A k \in ToSet(LocalsOf(Main)) : from[k] \in Seq(Index) /\ Main \notin ToSet(from[k])
    <3>1. ASSUME NEW k \in ToSet(LocalsOf(Main)), Main \in ToSet(from[k]) PROVE FALSE
      BY <2>1, <3>1 DEF Main
    <3>2. QED
      BY <2>1, <3>1
  <2>3. Main \in Index
    BY DEF Main, Index
  <2> HIDE DEF S
  <2>4. \A i \in DOMAIN Below(Main, from) : Below(Main, from)[i] = Main => i = 1
    BY <2>2, <2>3, BelowTyped
  <2>5. QED
    BY <1>3, <1>4, <1>7, <2>4 DEF MainBegins
<1>14. QED
  BY <1>8, <1>12, <1>13

\* Up to a network: what has been configured by then, itself included.
LEMMA UpToIt ==
  ASSUME Tables, NetworksNested, NEW m \in DOMAIN nets
  PROVE  UpTo(m) \in Seq(Index) /\ m \in ToSet(UpTo(m))
<1>1. PICK order \in Seq(Index) : order = ConfigureOrder /\ ToSet(order) = DOMAIN nets
  BY Ordering
<1>2. PICK i : i = CHOOSE j \in DOMAIN order : order[j] = m
  OBVIOUS
<1>3. i \in DOMAIN order /\ order[i] = m
  BY <1>1, <1>2 DEF ToSet
<1>4. UpTo(m) = SubSeq(order, 1, i)
  BY <1>1, <1>2 DEF UpTo
<1>5. i \in 1..Len(order) /\ Len(order) \in Nat
  BY <1>3
<1>6. /\ SubSeq(order, 1, i) \in Seq(Index) /\ Len(SubSeq(order, 1, i)) = i
      /\ SubSeq(order, 1, i)[i] = order[i]
  <2>1. \A j \in 1..i : order[j] \in Index
    BY <1>5
  <2>2. /\ SubSeq(order, 1, i) \in Seq(Index)
        /\ Len(SubSeq(order, 1, i)) = IF 1 <= i THEN i - 1 + 1 ELSE 0
        /\ \A j \in 1..(i - 1 + 1) : SubSeq(order, 1, i)[j] = order[1 + j - 1]
    BY <1>5, <2>1, SubSeqProperties
  <2>3. 1 <= i /\ i - 1 + 1 = i /\ i \in 1..(i - 1 + 1) /\ 1 + i - 1 = i
    BY <1>5
  <2>4. QED
    BY <2>2, <2>3
<1>7. PICK s \in Seq(Index) : s = SubSeq(order, 1, i) /\ Len(s) = i /\ s[i] = order[i]
  BY <1>6
<1>8. i \in DOMAIN s
  BY <1>5, <1>7
<1>9. m \in ToSet(s)
  BY <1>3, <1>7, <1>8 DEF ToSet
<1>10. QED
  BY <1>4, <1>7, <1>9

\* What configure gives a node, and what an overlay has it announce.
LEMMA WiredUp ==
  ASSUME Tables, NetworksNested, SubnetsPlaced, OverlaysApart, NEW n
  PROVE  /\ Interfaces(n, ConfigureOrder) \in Seq(Index)
         /\ ToSet(Interfaces(n, ConfigureOrder)) = {s \in DOMAIN subnets : Has(s, n)}
         /\ MainFirst(Interfaces(n, ConfigureOrder))
         /\ \A o \in DOMAIN overlays : /\ Shared(o, n) \subseteq Announced(overlays[o], n)
                                       /\ Announced(overlays[o], n) \subseteq Index
<1>1. /\ ConfigureOrder \in Seq(Index) /\ ToSet(ConfigureOrder) = DOMAIN nets
      /\ MainBegins(ConfigureOrder)
  BY Ordering
<1>2. /\ Interfaces(n, ConfigureOrder) \in Seq(Index)
      /\ ToSet(Interfaces(n, ConfigureOrder)) =
           {s \in DOMAIN subnets : subnets[s].net \in DOMAIN nets /\ Has(s, n)}
      /\ MainFirst(Interfaces(n, ConfigureOrder))
  BY <1>1, InterfacesListed
<1>3. ToSet(Interfaces(n, ConfigureOrder)) = {s \in DOMAIN subnets : Has(s, n)}
  BY <1>2 DEF SubnetsPlaced, Placed
<1>4. ASSUME NEW o \in DOMAIN overlays
      PROVE  /\ Shared(o, n) \subseteq Announced(overlays[o], n)
             /\ Announced(overlays[o], n) \subseteq Index
  <2>1. overlays[o].net \in DOMAIN nets
    BY DEF OverlaysApart
  <2>2. PICK order \in Seq(Index) : order = UpTo(overlays[o].net) /\ overlays[o].net \in ToSet(order)
    BY <2>1, UpToIt
  <2>3. /\ Interfaces(n, order) \in Seq(Index)
        /\ ToSet(Interfaces(n, order)) =
              {s \in DOMAIN subnets : subnets[s].net \in ToSet(order) /\ Has(s, n)}
    BY InterfacesListed
  <2>4. Shared(o, n) \subseteq Announced(overlays[o], n)
    <3>1. SUFFICES ASSUME NEW s \in Shared(o, n) PROVE s \in Announced(overlays[o], n)
      OBVIOUS
    <3>2. /\ s \in DOMAIN subnets /\ subnets[s].net = overlays[o].net /\ Has(s, n)
          /\ \E k \in ToSet(overlays[o].nodes) \ {n} : Has(s, k)
      BY DEF Shared
    <3>3. s \in ToSet(Interfaces(n, order))
      BY <2>2, <2>3, <3>2
    <3>4. \E k \in ToSet(subnets[s].nodes) \ {n} : k \in ToSet(overlays[o].nodes)
      BY <3>2 DEF Has
    <3>5. QED
      BY <2>2, <3>3, <3>4 DEF Announced
  <2>5. Announced(overlays[o], n) \subseteq Index
    <3>1. ToSet(Interfaces(n, order)) \subseteq Index
      BY <2>3 DEF ToSet
    <3>2. QED
      BY <2>2, <3>1 DEF Announced
  <2>6. QED
    BY <2>4, <2>5
<1>5. QED
  BY <1>2, <1>3, <1>4

-----------------------------------------------------------------------------
\* The invariant, action by action.

\* A step that leaves the definitions alone leaves what is said of them.
LEMMA Unchanged ==
  ASSUME UNCHANGED definition
  PROVE  /\ LabJson' = LabJson
         /\ LocalsOf(Main)' = LocalsOf(Main)
         /\ \A m : OutNet(m)' = OutNet(m)
<1>1. UNCHANGED <<nodes, nets, subnets, overlays>>
  BY DEF definition
<1>2. (\A m : LocalsOf(m)' = LocalsOf(m)) /\ Rendered' = Rendered
  BY <1>1 DEF LocalsOf, Rendered
<1>3. \A m : OutNet(m)' = OutNet(m)
  BY <1>1 DEF OutNet
<1>4. \A n : Routes(n)' = Routes(n)
  <2>1. \A n : RouterHops(n)' = RouterHops(n)
    BY <1>1 DEF RouterHops, FindRouter, FirstOfType, Key, Local
  <2>2. \A n : GatewayHops(n)' = GatewayHops(n)
    BY <1>1 DEF GatewayHops
  <2>3. QED
    BY <2>1, <2>2 DEF Routes, AllHops
<1>5. \A n : Daemons(n)' = Daemons(n)
  <2>1. RenderedOverlays' = RenderedOverlays
    BY <1>1, <1>2 DEF RenderedOverlays, OverlaysOf
  <2>2. QED
    BY <1>1, <2>1 DEF Daemons, InOverlay
<1>6. \A seq : Named(seq)' = Named(seq)
  BY <1>1 DEF Named
<1>7. \A n, nat : Entry(n, nat)' = Entry(n, nat)
  BY <1>1, <1>4, <1>5, <1>6 DEF Entry
<1>8. \A m : EntriesOf(m)' = EntriesOf(m)
  BY <1>1, <1>3, <1>7 DEF EntriesOf, Local
<1>9. SubnetsInOrder(Rendered)' = SubnetsInOrder(Rendered)
  BY <1>1, <1>2 DEF SubnetsInOrder, SubnetsOf, BySize
<1>10. EntriesInOrder' = EntriesInOrder
  BY <1>2, <1>8 DEF EntriesInOrder
<1>11. LabJson' = LabJson
  BY <1>6, <1>9, <1>10 DEF LabJson
<1>12. QED
  BY <1>2, <1>3, <1>11

LEMMA StillDefined ==
  ASSUME DefInv, UNCHANGED <<definition, configured>>, raised' \in BOOLEAN
  PROVE  (Tables /\ NetworksNested /\ Homes /\ SubnetsPlaced /\ OverlaysApart /\ Wired)'
<1>1. /\ UNCHANGED <<nodes, nets, subnets, overlays, configured>>
      /\ Tables /\ NetworksNested /\ Homes /\ SubnetsPlaced /\ OverlaysApart /\ Wired
  BY DEF DefInv, definition
<1>2. Tables'
  BY <1>1 DEF Tables
<1>3. NetworksNested'
  BY <1>1 DEF NetworksNested, Nested, Local
<1>4. Homes'
  BY <1>1 DEF Homes, HomeOf, Local
<1>5. SubnetsPlaced'
  BY <1>1 DEF SubnetsPlaced, Placed, Forwards
<1>6. OverlaysApart'
  BY <1>1 DEF OverlaysApart
<1>7. Wired'
  <2>1. \A ifcs : MainFirst(ifcs)' = MainFirst(ifcs)
    BY <1>1 DEF MainFirst
  <2>2. \A o, n : Shared(o, n)' = Shared(o, n)
    BY <1>1 DEF Shared, Has
  <2>3. \A s, n : Has(s, n)' = Has(s, n)
    BY <1>1 DEF Has
  <2>4. QED
    BY <1>1, <2>1, <2>2, <2>3 DEF Wired
<1>8. QED
  BY <1>2, <1>3, <1>4, <1>5, <1>6, <1>7

LEMMA RaiseInv ==
  ASSUME DefInv, ~configured, Raise
  PROVE  DefInv'
<1>1. UNCHANGED <<definition, configured, lab>> /\ raised' \in BOOLEAN
  BY DEF Raise
<1>2. (Tables /\ NetworksNested /\ Homes /\ SubnetsPlaced /\ OverlaysApart /\ Wired)'
  BY <1>1, StillDefined
<1>3. Written'
  BY <1>1 DEF DefInv, Written
<1>4. QED
  BY <1>2, <1>3 DEF DefInv

LEMMA Appended ==
  ASSUME NEW X, NEW s \in Seq(X), NEW x \in X
  PROVE  /\ Append(s, x) \in Seq(X) /\ Len(Append(s, x)) = Len(s) + 1
         /\ DOMAIN Append(s, x) = DOMAIN s \cup {Len(s) + 1}
         /\ Len(s) + 1 \in Index /\ Len(s) + 1 \notin DOMAIN s
         /\ \A i \in DOMAIN s : Append(s, x)[i] = s[i]
         /\ Append(s, x)[Len(s) + 1] = x
         /\ ToSet(Append(s, x)) = ToSet(s) \cup {x}
<1>1. /\ Append(s, x) \in Seq(X) /\ Len(Append(s, x)) = Len(s) + 1
      /\ Len(s) \in Nat /\ DOMAIN s = 1..Len(s)
      /\ DOMAIN Append(s, x) = 1..(Len(s) + 1)
      /\ \A i \in 1..Len(s) : Append(s, x)[i] = s[i]
      /\ Append(s, x)[Len(s) + 1] = x
  OBVIOUS
<1>2. 1..(Len(s) + 1) = 1..Len(s) \cup {Len(s) + 1} /\ Len(s) + 1 \notin 1..Len(s)
  BY <1>1
<1>3. ToSet(Append(s, x)) = ToSet(s) \cup {x}
  BY <1>1, <1>2 DEF ToSet
<1>4. QED
  BY <1>1, <1>2, <1>3 DEF Index

\* The entries of the tables.
LEMMA Fields ==
  ASSUME Tables
  PROVE  /\ \A n \in DOMAIN nodes : /\ nodes[n] \in NodeRecord /\ n \in Index
                                    /\ nodes[n].name \in Names /\ nodes[n].type \in Type
         /\ \A m \in DOMAIN nets : /\ nets[m] \in NetRecord /\ m \in Index
                                   /\ nets[m].name \in Nat /\ nets[m].outer \in Nat
                                   /\ nets[m].gateway \in Nat /\ nets[m].nodes \in Seq(Index)
         /\ \A s \in DOMAIN subnets : /\ subnets[s] \in SubnetRecord /\ s \in Index
                                      /\ subnets[s].name \in Nat /\ subnets[s].net \in Index
                                      /\ subnets[s].nodes \in Seq(Index) /\ subnets[s].gateway \in Nat
         /\ \A o \in DOMAIN overlays : /\ overlays[o] \in OverlayRecord /\ o \in Index
                                       /\ overlays[o].protocol \in Protocols
                                       /\ overlays[o].nodes \in Seq(Index)
<1>1. /\ \A n \in DOMAIN nodes : nodes[n] \in NodeRecord /\ n \in Index
      /\ \A m \in DOMAIN nets : nets[m] \in NetRecord /\ m \in Index
      /\ \A s \in DOMAIN subnets : subnets[s] \in SubnetRecord /\ s \in Index
      /\ \A o \in DOMAIN overlays : overlays[o] \in OverlayRecord /\ o \in Index
  BY DEF Tables, Index
<1>2. \A r \in NodeRecord : r.name \in Names /\ r.type \in Type
  BY DEF NodeRecord
<1>3. \A r \in NetRecord :
        r.name \in Nat /\ r.outer \in Nat /\ r.gateway \in Nat /\ r.nodes \in Seq(Index)
  BY DEF NetRecord
<1>4. \A r \in SubnetRecord :
        r.name \in Nat /\ r.net \in Index /\ r.nodes \in Seq(Index) /\ r.gateway \in Nat
  BY DEF SubnetRecord
<1>5. \A r \in OverlayRecord : r.protocol \in Protocols /\ r.nodes \in Seq(Index)
  BY DEF OverlayRecord
<1>6. QED
  BY <1>1, <1>2, <1>3, <1>4, <1>5

\* What no step undoes: nodes keep forwarding, networks keep their place, and a node
\* does not join an older network.
Grown ==
  /\ DOMAIN nodes \subseteq DOMAIN nodes' /\ DOMAIN nets \subseteq DOMAIN nets'
  /\ \A n \in DOMAIN nodes : /\ nodes[n].type = "GATEWAY" => nodes'[n].type = "GATEWAY"
                             /\ Forwards(n) => Forwards(n)'
  /\ \A m \in DOMAIN nets : /\ nets'[m].outer = nets[m].outer
                            /\ nets'[m].gateway = nets[m].gateway
                            /\ ToSet(nets'[m].nodes) \subseteq DOMAIN nodes'
                            /\ ToSet(nets'[m].nodes) \cap DOMAIN nodes = ToSet(nets[m].nodes)

LEMMA GrownKeeps ==
  ASSUME DefInv, Grown
  PROVE  /\ \A m \in DOMAIN nets : Local(m) => Nested(m)'
         /\ nets'[Main].outer = 0 /\ nets'[Main].gateway = NoGateway
         /\ \A s \in DOMAIN subnets : subnets'[s] = subnets[s] => Placed(s)'
         /\ \A n \in DOMAIN nodes, h \in DOMAIN nets : HomeOf(n, h) =>
              /\ n \in ToSet(nets'[h].nodes)
              /\ \A m \in DOMAIN nets :
                   n \in ToSet(nets'[m].nodes) /\ m # h => Local(m) /\ nets'[m].gateway = n
<1>0. Tables /\ NetworksNested /\ Homes /\ SubnetsPlaced /\ OverlaysApart
  BY DEF DefInv
<1>1. ASSUME NEW m \in DOMAIN nets, Local(m) PROVE Nested(m)'
  <2>1. Nested(m) /\ ToSet(nets[m].nodes) \subseteq DOMAIN nodes /\ nets[m].outer \in DOMAIN nets
    BY <1>0, <1>1 DEF NetworksNested, Nested
  <2>2. nets[m].gateway \in DOMAIN nodes
    BY <2>1 DEF Nested
  <2>3. /\ nets'[m].outer \in DOMAIN nets' /\ nets'[m].outer < m
        /\ nodes'[nets'[m].gateway].type = "GATEWAY"
    BY <2>1, <2>2 DEF Nested, Grown
  <2>4. nets'[m].gateway \in ToSet(nets'[m].nodes)
    BY <2>1 DEF Nested, Grown
  <2>5. nets'[m].gateway \in ToSet(nets'[nets'[m].outer].nodes)
    BY <2>1 DEF Nested, Grown
  <2>6. QED
    BY <2>3, <2>4, <2>5 DEF Nested
<1>2. nets'[Main].outer = 0 /\ nets'[Main].gateway = NoGateway
  BY <1>0 DEF NetworksNested, Tables, Grown
<1>3. ASSUME NEW s \in DOMAIN subnets, subnets'[s] = subnets[s] PROVE Placed(s)'
  <2>1. Placed(s) /\ subnets[s].net \in DOMAIN nets
    BY <1>0 DEF SubnetsPlaced, Placed
  <2>2. /\ ToSet(nets[subnets[s].net].nodes) \subseteq DOMAIN nodes
        /\ ToSet(nets[subnets[s].net].nodes) \subseteq ToSet(nets'[subnets[s].net].nodes)
        /\ nets'[subnets[s].net].gateway = nets[subnets[s].net].gateway
        /\ subnets[s].net \in DOMAIN nets'
    BY <1>0, <2>1 DEF NetworksNested, Grown
  <2>3. ToSet(subnets[s].nodes) \subseteq DOMAIN nodes
    BY <2>1, <2>2 DEF Placed
  <2>4. \A n \in DOMAIN nodes : Forwards(n) => Forwards(n)'
    BY DEF Grown
  <2>5. PICK g : g = subnets[s].gateway /\ g = subnets'[s].gateway
    BY <1>3
  <2>6. g # NoGateway => g \in ToSet(subnets[s].nodes) /\ Forwards(g)
    BY <2>1, <2>5 DEF Placed
  <2>7. g # NoGateway => Forwards(g)'
    BY <2>3, <2>4, <2>6
  <2>8. QED
    BY <1>3, <2>1, <2>2, <2>5, <2>7 DEF Placed, Forwards
<1>4. ASSUME NEW n \in DOMAIN nodes, NEW h \in DOMAIN nets, HomeOf(n, h)
      PROVE  /\ n \in ToSet(nets'[h].nodes)
             /\ \A m \in DOMAIN nets :
                  n \in ToSet(nets'[m].nodes) /\ m # h => Local(m) /\ nets'[m].gateway = n
  BY <1>4 DEF HomeOf, Grown
<1>5. QED
  BY <1>1, <1>2, <1>3, <1>4

LEMMA CreateNodeInv ==
  ASSUME DefInv, NEW m \in DOMAIN nets, NEW name \in NodeNames, NEW pc \in BOOLEAN,
         CreateNode(m, name, pc)
  PROVE  DefInv'
<1>0. /\ Tables /\ NetworksNested /\ Homes /\ SubnetsPlaced /\ OverlaysApart /\ Wired /\ Written
      /\ ~configured
  BY DEF DefInv, CreateNode, Defining
<1>1. CASE Raise
  BY <1>0, <1>1, RaiseInv
<1>2. CASE ~Raise
  <2> DEFINE node == [name |-> FullName(m, name), type |-> IF pc THEN "PC" ELSE "None", ifcs |-> <<>>]
  <2>1. /\ nodes' = Append(nodes, node) /\ Len(nodes) < MaxNodes
        /\ nets' = [nets EXCEPT ![m].nodes = Append(@, Len(nodes'))]
        /\ UNCHANGED <<subnets, overlays, configured, lab, raised>>
    BY <1>2 DEF CreateNode
  <2>0. PICK v : v = Len(nodes) + 1
    OBVIOUS
  <2>2. node \in NodeRecord /\ node.ifcs = <<>>
    <3>1. name \in Nat /\ nets[m].name \in Nat
      BY <1>0, Fields, NamesAssumption
    <3>2. FullName(m, name) \in Names
      BY <3>1 DEF FullName, Names
    <3>3. <<>> \in Seq(Index)
      OBVIOUS
    <3>4. QED
      BY <3>2, <3>3 DEF NodeRecord, Type
  <2> HIDE DEF node
  <2>3. /\ nodes' \in Seq(NodeRecord) /\ Len(nodes') = v
        /\ DOMAIN nodes' = DOMAIN nodes \cup {v} /\ v \in Index /\ v \notin DOMAIN nodes
        /\ \A n \in DOMAIN nodes : nodes'[n] = nodes[n]
        /\ nodes'[v] = node
    BY <1>0, <2>0, <2>1, <2>2, Appended DEF Tables
  <2>4. Len(nodes) \in Nat /\ v <= MaxNodes
    BY <1>0, <2>0, <2>1, BoundsAssumption DEF Tables
  <2>5. nets[m].nodes \in Seq(Index)
    BY <1>0, Fields
  <2>6. PICK list \in Seq(Index) : list = Append(nets[m].nodes, v)
                                   /\ ToSet(list) = ToSet(nets[m].nodes) \cup {v}
    <3>1. /\ Append(nets[m].nodes, v) \in Seq(Index)
          /\ ToSet(Append(nets[m].nodes, v)) = ToSet(nets[m].nodes) \cup {v}
      BY <2>3, <2>5, Appended
    <3>2. QED
      BY <3>1
  <2>7. /\ nets' = [nets EXCEPT ![m].nodes = list] /\ nets' \in Seq(NetRecord)
        /\ DOMAIN nets' = DOMAIN nets
        /\ \A k \in DOMAIN nets : /\ nets'[k].outer = nets[k].outer
                                  /\ nets'[k].gateway = nets[k].gateway
                                  /\ k # m => nets'[k].nodes = nets[k].nodes
        /\ nets'[m].nodes = list
    <3>1. nets' = [nets EXCEPT ![m].nodes = list]
      BY <2>1, <2>3, <2>6
    <3>2. \A k \in DOMAIN nets : nets[k] \in NetRecord
      BY <1>0 DEF Tables
    <3>3. \A k \in DOMAIN nets : nets'[k] = IF k = m THEN [nets[k] EXCEPT !.nodes = list] ELSE nets[k]
      BY <3>1
    <3>4. [nets[m] EXCEPT !.nodes = list] \in NetRecord
      BY <2>6, <3>2 DEF NetRecord
    <3>5. nets' \in Seq(NetRecord) /\ DOMAIN nets' = DOMAIN nets
      BY <1>0, <3>1, <3>4 DEF Tables
    <3>6. QED
      BY <3>1, <3>2, <3>3, <3>5 DEF NetRecord
  <2>8. /\ \A k \in DOMAIN nets : ToSet(nets'[k].nodes) =
                                  ToSet(nets[k].nodes) \cup (IF k = m THEN {v} ELSE {})
    BY <2>6, <2>7
  <2>9. Tables'
    BY <1>0, <2>1, <2>3, <2>4, <2>7 DEF Tables
  <2>10. Grown
    <3>1. \A n \in DOMAIN nodes : Forwards(n) => Forwards(n)'
      BY <2>3 DEF Forwards
    <3>2. \A k \in DOMAIN nets : ToSet(nets[k].nodes) \subseteq DOMAIN nodes
      BY <1>0 DEF NetworksNested
    <3>3. \A k \in DOMAIN nets : /\ ToSet(nets'[k].nodes) \subseteq DOMAIN nodes'
                                 /\ ToSet(nets'[k].nodes) \cap DOMAIN nodes = ToSet(nets[k].nodes)
      BY <2>3, <2>8, <3>2
    <3>4. QED
      BY <2>3, <2>7, <3>1, <3>3 DEF Grown
  <2>11. NetworksNested'
    <3>1. \A k \in DOMAIN nets : ToSet(nets'[k].nodes) \subseteq DOMAIN nodes'
      BY <2>10 DEF Grown
    <3>2. QED
      BY <2>7, <2>10, <3>1, GrownKeeps DEF NetworksNested, Local
  <2>12. Homes' /\ SubnetsPlaced'
    <3>1. \A n \in DOMAIN nodes : \E h \in DOMAIN nets : HomeOf(n, h)'
      <4>1. TAKE n \in DOMAIN nodes
      <4>2. PICK h \in DOMAIN nets : HomeOf(n, h)
        BY <1>0 DEF Homes
      <4>3. HomeOf(n, h)'
        BY <2>7, <2>10, <4>2, GrownKeeps DEF HomeOf, Local
      <4>4. QED
        BY <4>3
    <3>2. HomeOf(v, m)'
      <4>1. \A k \in DOMAIN nets : v \notin ToSet(nets[k].nodes)
        BY <1>0, <2>3 DEF NetworksNested
      <4>2. v \in ToSet(nets'[m].nodes) /\ \A k \in DOMAIN nets' : k # m => v \notin ToSet(nets'[k].nodes)
        BY <2>7, <2>8, <4>1
      <4>3. QED
        BY <4>2 DEF HomeOf
    <3>3. Homes'
      BY <2>3, <2>7, <3>1, <3>2 DEF Homes
    <3>4. SubnetsPlaced'
      BY <2>1, <2>10, GrownKeeps DEF SubnetsPlaced
    <3>5. QED
      BY <3>3, <3>4
  <2>13. OverlaysApart'
    BY <1>0, <2>1, <2>3, <2>7 DEF OverlaysApart
  <2>14. Wired'
    BY <1>0, <2>1, <2>2, <2>3 DEF Wired
  <2>15. Written'
    BY <1>0, <2>1 DEF Written
  <2>16. QED
    BY <2>9, <2>10, <2>11, <2>12, <2>13, <2>14, <2>15 DEF DefInv
<1>3. QED
  BY <1>1, <1>2

LEMMA InitInv ==
  ASSUME Init
  PROVE  DefInv
<1>0. /\ nodes = <<>> /\ subnets = <<>> /\ overlays = <<>>
      /\ configured = FALSE /\ raised = FALSE /\ lab = NoLab
      /\ DOMAIN nodes = {} /\ DOMAIN subnets = {} /\ DOMAIN overlays = {}
  BY DEF Init
<1>1. /\ nets \in Seq(NetRecord) /\ DOMAIN nets = {Main}
      /\ nets[Main].outer = 0 /\ nets[Main].gateway = NoGateway /\ nets[Main].nodes = <<>>
  <2>1. PICK net : net = [name |-> 0, outer |-> 0, gateway |-> NoGateway, nodes |-> <<>>]
    OBVIOUS
  <2>2. net \in NetRecord /\ net.outer = 0 /\ net.gateway = NoGateway /\ net.nodes = <<>>
    BY <2>1 DEF NetRecord, NoGateway
  <2>3. nets = <<net>>
    BY <2>1 DEF Init
  <2>4. QED
    BY <2>2, <2>3 DEF Main
<1>2. Tables
  <2>1. <<>> \in Seq(NodeRecord) /\ <<>> \in Seq(SubnetRecord) /\ <<>> \in Seq(OverlayRecord)
    OBVIOUS
  <2>2. Len(nodes) <= MaxNodes
    BY <1>0, BoundsAssumption
  <2>3. QED
    BY <1>0, <1>1, <2>1, <2>2 DEF Tables
<1>3. NetworksNested
  BY <1>1 DEF NetworksNested, Local, ToSet
<1>4. Homes /\ SubnetsPlaced /\ OverlaysApart /\ Wired /\ Written
  BY <1>0 DEF Homes, SubnetsPlaced, OverlaysApart, Wired, Written
<1>5. QED
  BY <1>2, <1>3, <1>4 DEF DefInv

\* What a subnet or an overlay is made of: nodes of its network.
LEMMA MembersTyped ==
  ASSUME DefInv, NEW m \in DOMAIN nets, NEW members \in Members(m)
  PROVE  /\ members \in Seq(Index) /\ Len(members) \in 1..MaxNodes
         /\ ToSet(members) \subseteq ToSet(nets[m].nodes)
         /\ ToSet(members) \subseteq DOMAIN nodes
<1>1. PICK S \in SUBSET ToSet(nets[m].nodes) : members = Only(InOrder(nodes), S) /\ Cardinality(S) > 1
  BY DEF Members
<1>2. Tables /\ ToSet(nets[m].nodes) \subseteq DOMAIN nodes
  BY DEF DefInv, NetworksNested
<1>3. PICK all \in Seq(Index) : all = InOrder(nodes) /\ ToSet(all) = DOMAIN nodes /\ Len(all) = Len(nodes)
  BY <1>2, InOrderOf DEF Tables
<1>4. members \in Seq(Index) /\ ToSet(members) = ToSet(all) \cap S /\ Len(members) <= Len(all)
  BY <1>1, <1>3, OnlyThose
<1>5. ToSet(members) = S
  BY <1>2, <1>3, <1>4
<1>6. S # {}
  <2>1. SUFFICES ASSUME S = {} PROVE FALSE
    OBVIOUS
  <2>2. Cardinality(S) = 0
    BY <2>1, FS_EmptySet, Zenon
  <2>3. QED
    BY <1>1, <2>2
<1>7. Len(members) # 0
  <2>1. members # <<>>
    BY <1>5, <1>6 DEF ToSet
  <2>2. QED
    BY <1>4, <2>1
<1>8. Len(members) \in Nat /\ Len(nodes) \in Nat /\ Len(nodes) <= MaxNodes /\ MaxNodes \in Nat
  BY <1>2, <1>4, BoundsAssumption DEF Tables
<1>9. QED
  BY <1>2, <1>3, <1>4, <1>5, <1>7, <1>8

LEMMA FirstOfItsType ==
  ASSUME Tables, NEW members \in Seq(Index), NEW type
  PROVE  /\ FirstOfType(members, type) \in Nat
         /\ FirstOfType(members, type) # 0 =>
              /\ FirstOfType(members, type) \in ToSet(members) \cap DOMAIN nodes
              /\ nodes[FirstOfType(members, type)].type = type
         /\ (\E n \in ToSet(members) \cap DOMAIN nodes : nodes[n].type = type) =>
              FirstOfType(members, type) # 0
<1>1. PICK S : S = {n \in DOMAIN nodes : nodes[n].type = type}
  OBVIOUS
<1>2. PICK x : x = First(members, S) /\ x = FirstOfType(members, type)
  BY <1>1 DEF FirstOfType
<1>3. members \in Seq(Nat \ {0})
  BY DEF Index
<1>4. (x = 0 <=> ToSet(members) \cap S = {}) /\ (x # 0 => x \in ToSet(members) \cap S)
  <2>1. /\ First(members, S) = 0 <=> ToSet(members) \cap S = {}
        /\ First(members, S) # 0 => First(members, S) \in ToSet(members) \cap S
    BY <1>3, FirstOfThose
  <2>2. QED
    BY <1>2, <2>1
<1>5. S \subseteq Nat
  BY <1>1, Fields DEF Index
<1>6. QED
  BY <1>1, <1>2, <1>4, <1>5

LEMMA CreateSubnetInv ==
  ASSUME DefInv, NEW m \in DOMAIN nets, NEW members \in Members(m), NEW name \in SubnetNames,
         CreateSubnet(m, name, members)
  PROVE  DefInv'
<1>0. /\ Tables /\ NetworksNested /\ Homes /\ SubnetsPlaced /\ OverlaysApart /\ Wired /\ Written
      /\ ~configured
  BY DEF DefInv, CreateSubnet, Defining
<1>1. CASE Raise
  BY <1>0, <1>1, RaiseInv
<1>2. CASE ~Raise
  <2>1. PICK g : g = SubnetGateway(m, members)
    OBVIOUS
  <2>2. PICK subnet : subnet = [name |-> name, net |-> m, nodes |-> members, gateway |-> g]
    OBVIOUS
  <2>3. /\ subnets' = Append(subnets, subnet)
        /\ UNCHANGED <<nodes, nets, overlays, configured, lab, raised>>
    BY <1>2, <2>1, <2>2 DEF CreateSubnet
  <2>4. /\ members \in Seq(Index) /\ Len(members) \in 1..MaxNodes
        /\ ToSet(members) \subseteq ToSet(nets[m].nodes) /\ ToSet(members) \subseteq DOMAIN nodes
    BY MembersTyped
  <2>5. /\ g \in Nat
        /\ g # NoGateway => g \in ToSet(members) /\ Forwards(g)
        /\ nets[m].gateway \in ToSet(members) => g # NoGateway
    <3>1. CASE nets[m].gateway \in ToSet(members)
      <4>1. g = nets[m].gateway /\ g \in DOMAIN nodes
        BY <2>1, <2>4, <3>1 DEF SubnetGateway
      <4>2. g \in Index
        BY <1>0, <4>1, Fields
      <4>3. m # Main
        BY <4>1, <4>2, <1>0 DEF NetworksNested, NoGateway, Index
      <4>4. nodes[g].type = "GATEWAY"
        BY <1>0, <4>1, <4>3 DEF NetworksNested, Local, Nested
      <4>5. QED
        BY <3>1, <4>1, <4>2, <4>4 DEF Forwards, Index, NoGateway
    <3>2. CASE nets[m].gateway \notin ToSet(members)
      <4>1. g = IF FirstOfType(members, "GATEWAY") # 0 THEN FirstOfType(members, "GATEWAY")
                ELSE FirstOfType(members, "ROUTER")
        BY <2>1, <3>2 DEF SubnetGateway
      <4>2. /\ g \in Nat
            /\ g # 0 => g \in ToSet(members) /\ nodes[g].type \in {"GATEWAY", "ROUTER"}
        BY <1>0, <2>4, <4>1, FirstOfItsType
      <4>3. QED
        BY <3>2, <4>2 DEF Forwards, NoGateway
    <3>3. QED
      BY <3>1, <3>2
  <2>6. subnet \in SubnetRecord
    BY <1>0, <2>2, <2>4, <2>5, Fields, NamesAssumption DEF SubnetRecord
  <2>7. PICK v : v = Len(subnets) + 1
    OBVIOUS
  <2>8. /\ subnets' \in Seq(SubnetRecord) /\ DOMAIN subnets' = DOMAIN subnets \cup {v}
        /\ \A s \in DOMAIN subnets : subnets'[s] = subnets[s]
        /\ subnets'[v] = subnet
    BY <1>0, <2>3, <2>6, <2>7, Appended DEF Tables
  <2>9. Tables'
    BY <1>0, <2>3, <2>8 DEF Tables
  <2>10. Grown
    BY <1>0, <2>3 DEF Grown, Forwards, NetworksNested
  <2>11. NetworksNested'
    BY <1>0, <2>3 DEF NetworksNested, Local, Nested
  <2>12. Homes'
    BY <1>0, <2>3 DEF Homes, HomeOf, Local
  <2>13. SubnetsPlaced'
    <3>1. \A s \in DOMAIN subnets : Placed(s)'
      BY <2>8, <2>10, GrownKeeps
    <3>2. Placed(v)'
      <4>1. /\ subnets'[v].net = m /\ subnets'[v].nodes = members /\ subnets'[v].gateway = g
        BY <2>2, <2>8
      <4>2. QED
        BY <2>3, <2>4, <2>5, <4>1 DEF Placed, Forwards
    <3>3. QED
      BY <2>8, <3>1, <3>2 DEF SubnetsPlaced
  <2>14. OverlaysApart' /\ Wired' /\ Written'
    BY <1>0, <2>3 DEF OverlaysApart, Wired, Written
  <2>15. QED
    BY <2>9, <2>11, <2>12, <2>13, <2>14 DEF DefInv
<1>3. QED
  BY <1>1, <1>2

LEMMA CreateOverlayInv ==
  ASSUME DefInv, NEW m \in DOMAIN nets, NEW members \in Members(m), NEW protocol \in Protocols,
         CreateOverlay(m, protocol, members)
  PROVE  DefInv'
<1>0. /\ Tables /\ NetworksNested /\ Homes /\ SubnetsPlaced /\ OverlaysApart /\ Wired /\ Written
      /\ ~configured
  BY DEF DefInv, CreateOverlay, Defining
<1>1. CASE Raise
  BY <1>0, <1>1, RaiseInv
<1>2. CASE ~Raise
  <2>1. PICK overlay : overlay = [protocol |-> protocol, net |-> m, nodes |-> members,
                                  announced |-> <<>>]
    OBVIOUS
  <2>2. /\ overlays' = Append(overlays, overlay)
        /\ nodes' = [n \in DOMAIN nodes |->
                       IF n \in ToSet(members) /\ nodes[n].type # "GATEWAY"
                       THEN [nodes[n] EXCEPT !.type = "ROUTER"] ELSE nodes[n]]
        /\ UNCHANGED <<nets, subnets, configured, lab, raised>>
    BY <1>2, <2>1 DEF CreateOverlay
  <2>3. \A n \in ToSet(members) : ~InOverlay(n, protocol)
    BY <1>2 DEF CreateOverlay
  <2>4. members \in Seq(Index) /\ ToSet(members) \subseteq DOMAIN nodes
    BY MembersTyped
  <2>5. /\ nodes' \in Seq(NodeRecord) /\ Len(nodes') = Len(nodes) /\ DOMAIN nodes' = DOMAIN nodes
        /\ \A n \in DOMAIN nodes : /\ nodes[n].type = "GATEWAY" => nodes'[n].type = "GATEWAY"
                                   /\ Forwards(n) => nodes'[n].type \in {"ROUTER", "GATEWAY"}
                                   /\ nodes'[n].ifcs = nodes[n].ifcs
    <3>1. \A r \in NodeRecord : /\ [r EXCEPT !.type = "ROUTER"] \in NodeRecord
                                /\ [r EXCEPT !.type = "ROUTER"].type = "ROUTER"
                                /\ [r EXCEPT !.type = "ROUTER"].ifcs = r.ifcs
      BY DEF NodeRecord, Type
    <3>2. \A n \in DOMAIN nodes : nodes[n] \in NodeRecord
      BY <1>0, Fields
    <3>3. \A n \in DOMAIN nodes : /\ nodes'[n] \in NodeRecord
                                  /\ nodes'[n] = nodes[n] \/ nodes'[n].type = "ROUTER"
                                  /\ nodes'[n].ifcs = nodes[n].ifcs
                                  /\ nodes[n].type = "GATEWAY" => nodes'[n] = nodes[n]
      BY <2>2, <3>1, <3>2
    <3>4. DOMAIN nodes = 1..Len(nodes) /\ Len(nodes) \in Nat /\ DOMAIN nodes' = DOMAIN nodes
      BY <1>0, <2>2 DEF Tables
    <3>5. nodes' = [n \in 1..Len(nodes) |-> nodes'[n]]
      BY <2>2, <3>4
    <3>6. nodes' \in Seq(NodeRecord) /\ Len(nodes') = Len(nodes)
      BY <3>3, <3>4, <3>5
    <3>7. QED
      BY <3>3, <3>4, <3>6 DEF Forwards
  <2>6. overlay \in OverlayRecord
    <3>1. <<>> \in [{} -> SUBSET Index]
      OBVIOUS
    <3>2. m \in Index
      BY <1>0, Fields
    <3>3. QED
      BY <2>1, <2>4, <3>1, <3>2 DEF OverlayRecord
  <2>7. PICK v : v = Len(overlays) + 1
    OBVIOUS
  <2>8. /\ overlays' \in Seq(OverlayRecord) /\ DOMAIN overlays' = DOMAIN overlays \cup {v}
        /\ \A o \in DOMAIN overlays : overlays'[o] = overlays[o]
        /\ overlays'[v] = overlay
    BY <1>0, <2>2, <2>6, <2>7, Appended DEF Tables
  <2>9. Tables'
    BY <1>0, <2>2, <2>5, <2>8 DEF Tables
  <2>10. Grown
    <3>1. \A n \in DOMAIN nodes : Forwards(n) => Forwards(n)'
      BY <2>5 DEF Forwards
    <3>2. \A k \in DOMAIN nets : ToSet(nets[k].nodes) \subseteq DOMAIN nodes
      BY <1>0 DEF NetworksNested
    <3>3. QED
      BY <2>2, <2>5, <3>1, <3>2 DEF Grown
  <2>11. NetworksNested'
    <3>1. \A k \in DOMAIN nets' : ToSet(nets'[k].nodes) \subseteq DOMAIN nodes'
      BY <2>2, <2>10 DEF Grown
    <3>2. \A k \in DOMAIN nets' : Local(k) => Nested(k)'
      BY <2>2, <2>10, GrownKeeps
    <3>3. QED
      BY <2>10, <3>1, <3>2, GrownKeeps DEF NetworksNested, Local
  <2>12. Homes'
    BY <1>0, <2>2, <2>5 DEF Homes, HomeOf, Local
  <2>13. SubnetsPlaced'
    BY <2>2, <2>10, GrownKeeps DEF SubnetsPlaced
  <2>14. OverlaysApart'
    <3>1. overlays'[v].protocol = protocol /\ overlays'[v].net = m /\ overlays'[v].nodes = members
      BY <2>1, <2>8
    <3>2. \A o \in DOMAIN overlays' : overlays'[o].net \in DOMAIN nets'
                                      /\ ToSet(overlays'[o].nodes) \subseteq DOMAIN nodes'
      BY <1>0, <2>2, <2>4, <2>5, <2>8, <3>1 DEF OverlaysApart
    <3>3. \A o \in DOMAIN overlays :
            overlays[o].protocol = protocol => ToSet(overlays[o].nodes) \cap ToSet(members) = {}
      <4>1. \A o \in DOMAIN overlays : overlays[o] \in ToSet(overlays)
        BY DEF ToSet
      <4>2. QED
        BY <2>3, <4>1 DEF InOverlay
    <3>4. ASSUME NEW o \in DOMAIN overlays', NEW p \in DOMAIN overlays', o # p,
                 overlays'[o].protocol = overlays'[p].protocol
          PROVE  ToSet(overlays'[o].nodes) \cap ToSet(overlays'[p].nodes) = {}
      <4>1. CASE o \in DOMAIN overlays /\ p \in DOMAIN overlays
        BY <1>0, <2>8, <3>4, <4>1 DEF OverlaysApart
      <4>2. CASE o = v /\ p \in DOMAIN overlays
        BY <2>8, <3>1, <3>3, <3>4, <4>2
      <4>3. CASE o \in DOMAIN overlays /\ p = v
        BY <2>8, <3>1, <3>3, <3>4, <4>3
      <4>4. QED
        BY <2>8, <3>4, <4>1, <4>2, <4>3
    <3>5. QED
      BY <3>2, <3>4 DEF OverlaysApart
  <2>15. Wired' /\ Written'
    BY <1>0, <2>2, <2>5 DEF Wired, Written
  <2>16. QED
    BY <2>9, <2>11, <2>12, <2>13, <2>14, <2>15 DEF DefInv
<1>3. QED
  BY <1>1, <1>2

LEMMA NewLocalInv ==
  ASSUME DefInv, ~configured, NEW m \in DOMAIN nets, NEW gateway \in ToSet(nets[m].nodes),
         NEW name \in Nat, NewLocal(m, gateway, name)
  PROVE  DefInv'
<1>0. Tables /\ NetworksNested /\ Homes /\ SubnetsPlaced /\ OverlaysApart /\ Wired /\ Written
  BY DEF DefInv
<1>1. PICK net : net = [name |-> name, outer |-> m, gateway |-> gateway, nodes |-> <<gateway>>]
  OBVIOUS
<1>2. /\ nets' = Append(nets, net)
      /\ nodes' = [nodes EXCEPT ![gateway].type = "GATEWAY"]
      /\ UNCHANGED <<subnets, overlays, configured, lab, raised>>
  BY <1>1 DEF NewLocal
<1>3. gateway \in DOMAIN nodes /\ gateway \in Index /\ m \in Index
  BY <1>0, Fields DEF NetworksNested
<1>4. /\ nodes' \in Seq(NodeRecord) /\ Len(nodes') = Len(nodes) /\ DOMAIN nodes' = DOMAIN nodes
      /\ nodes'[gateway].type = "GATEWAY"
      /\ \A n \in DOMAIN nodes : /\ nodes[n].type = "GATEWAY" => nodes'[n].type = "GATEWAY"
                                 /\ Forwards(n) => nodes'[n].type \in {"ROUTER", "GATEWAY"}
                                 /\ nodes'[n].ifcs = nodes[n].ifcs
  <2>1. \A r \in NodeRecord : /\ [r EXCEPT !.type = "GATEWAY"] \in NodeRecord
                              /\ [r EXCEPT !.type = "GATEWAY"].type = "GATEWAY"
                              /\ [r EXCEPT !.type = "GATEWAY"].ifcs = r.ifcs
    BY DEF NodeRecord, Type
  <2>2. \A n \in DOMAIN nodes : nodes[n] \in NodeRecord
    BY <1>0, Fields
  <2>3. \A n \in DOMAIN nodes :
          nodes'[n] = IF n = gateway THEN [nodes[n] EXCEPT !.type = "GATEWAY"] ELSE nodes[n]
    BY <1>2
  <2>4. [nodes[gateway] EXCEPT !.type = "GATEWAY"] \in NodeRecord
    BY <1>3, <2>1, <2>2
  <2>5. nodes' \in Seq(NodeRecord) /\ Len(nodes') = Len(nodes) /\ DOMAIN nodes' = DOMAIN nodes
    BY <1>0, <1>2, <1>3, <2>4 DEF Tables
  <2>6. \A n \in DOMAIN nodes : \/ n # gateway /\ nodes'[n] = nodes[n]
                                \/ nodes'[n].type = "GATEWAY" /\ nodes'[n].ifcs = nodes[n].ifcs
    <3>1. ASSUME NEW n \in DOMAIN nodes
          PROVE  \/ n # gateway /\ nodes'[n] = nodes[n]
                 \/ nodes'[n].type = "GATEWAY" /\ nodes'[n].ifcs = nodes[n].ifcs
      <4>1. CASE n # gateway
        BY <2>3, <4>1
      <4>2. CASE n = gateway
        <5>1. nodes'[n] = [nodes[n] EXCEPT !.type = "GATEWAY"] /\ nodes[n] \in NodeRecord
          BY <2>2, <2>3, <4>2
        <5>2. QED
          BY <2>1, <5>1
      <4>3. QED
        BY <4>1, <4>2
    <3>2. QED
      BY <3>1
  <2>7. nodes'[gateway].type = "GATEWAY"
    BY <1>3, <2>6
  <2>8. QED
    BY <2>5, <2>6, <2>7 DEF Forwards
<1>5. net \in NetRecord /\ <<gateway>> \in Seq(Index) /\ ToSet(<<gateway>>) = {gateway}
  <2>1. <<gateway>> \in Seq(Index) /\ ToSet(<<gateway>>) = {gateway}
    BY <1>3 DEF ToSet
  <2>2. QED
    BY <1>1, <1>3, <2>1 DEF NetRecord, Index
<1>6. PICK v : v = Len(nets) + 1
  OBVIOUS
<1>7. /\ nets' \in Seq(NetRecord) /\ DOMAIN nets' = DOMAIN nets \cup {v} /\ v \notin DOMAIN nets
      /\ \A k \in DOMAIN nets : nets'[k] = nets[k] /\ k < v
      /\ nets'[v] = net
  <2>1. /\ nets' \in Seq(NetRecord) /\ DOMAIN nets' = DOMAIN nets \cup {v} /\ v \notin DOMAIN nets
        /\ \A k \in DOMAIN nets : nets'[k] = nets[k]
        /\ nets'[v] = net
    BY <1>0, <1>2, <1>5, <1>6, Appended DEF Tables
  <2>2. \A k \in DOMAIN nets : k < v
    BY <1>0, <1>6 DEF Tables
  <2>3. QED
    BY <2>1, <2>2
<1>8. v # Main /\ m # v
  BY <1>0, <1>7 DEF Tables
<1>9. /\ nets'[v].outer = m /\ nets'[v].gateway = gateway /\ ToSet(nets'[v].nodes) = {gateway}
  BY <1>1, <1>5, <1>7
<1>10. Tables'
  BY <1>0, <1>2, <1>4, <1>7 DEF Tables
<1>11. Grown
  <2>1. \A n \in DOMAIN nodes : Forwards(n) => Forwards(n)'
    BY <1>4 DEF Forwards
  <2>2. \A k \in DOMAIN nets : ToSet(nets[k].nodes) \subseteq DOMAIN nodes
    BY <1>0 DEF NetworksNested
  <2>3. QED
    BY <1>4, <1>7, <2>1, <2>2 DEF Grown
<1>12. NetworksNested'
  <2>1. \A k \in DOMAIN nets' : ToSet(nets'[k].nodes) \subseteq DOMAIN nodes'
    BY <1>3, <1>4, <1>7, <1>9, <1>11 DEF Grown
  <2>2. Nested(v)'
    BY <1>4, <1>7, <1>9 DEF Nested
  <2>3. \A k \in DOMAIN nets' : Local(k) => Nested(k)'
    BY <1>7, <1>11, <2>2, GrownKeeps
  <2>4. QED
    BY <1>11, <2>1, <2>3, GrownKeeps DEF NetworksNested, Local
<1>13. Homes'
  <2>1. ASSUME NEW n \in DOMAIN nodes PROVE \E h \in DOMAIN nets' : HomeOf(n, h)'
    <3>1. PICK h \in DOMAIN nets : HomeOf(n, h)
      BY <1>0 DEF Homes
    <3>2. /\ n \in ToSet(nets'[h].nodes)
          /\ \A k \in DOMAIN nets :
               n \in ToSet(nets'[k].nodes) /\ k # h => Local(k) /\ nets'[k].gateway = n
      BY <1>11, <3>1, GrownKeeps
    <3>3. \A k \in DOMAIN nets' :
            n \in ToSet(nets'[k].nodes) /\ k # h => Local(k) /\ nets'[k].gateway = n
      BY <1>7, <1>8, <1>9, <3>2 DEF Local
    <3>4. HomeOf(n, h)'
      BY <3>2, <3>3 DEF HomeOf, Local
    <3>5. QED
      BY <1>7, <3>4
  <2>2. QED
    BY <1>4, <2>1 DEF Homes
<1>14. SubnetsPlaced'
  BY <1>2, <1>11, GrownKeeps DEF SubnetsPlaced
<1>15. OverlaysApart' /\ Wired' /\ Written'
  BY <1>0, <1>2, <1>4, <1>7 DEF OverlaysApart, Wired, Written
<1>16. QED
  BY <1>10, <1>12, <1>13, <1>14, <1>15 DEF DefInv

LEMMA CreateLocalInv ==
  ASSUME DefInv, NEW m \in DOMAIN nets, NEW gateway \in ToSet(nets[m].nodes),
         CreateLocal(m, gateway) \/ \E name \in LocalNames : CreateNamedLocal(m, gateway, name)
  PROVE  DefInv'
<1>1. CASE CreateLocal(m, gateway)
  <2>1. Len(LocalsOf(m)) \in Nat
    BY Listed DEF DefInv
  <2>2. QED
    BY <1>1, <2>1, NewLocalInv DEF CreateLocal, Defining
<1>2. ASSUME NEW name \in LocalNames, CreateNamedLocal(m, gateway, name) PROVE DefInv'
  BY <1>2, RaiseInv, NewLocalInv, NamesAssumption DEF CreateNamedLocal, Defining
<1>3. QED
  BY <1>1, <1>2

LEMMA ConfigureInv ==
  ASSUME DefInv, Configure
  PROVE  DefInv'
<1>0. /\ Tables /\ NetworksNested /\ Homes /\ SubnetsPlaced /\ OverlaysApart /\ Written
      /\ ~configured
  BY DEF DefInv, Configure, Defining
<1>1. /\ nodes' = [n \in DOMAIN nodes |-> [nodes[n] EXCEPT !.ifcs = Interfaces(n, ConfigureOrder)]]
      /\ overlays' = [o \in DOMAIN overlays |->
                        [overlays[o] EXCEPT !.announced =
                           [n \in ToSet(overlays[o].nodes) |-> Announced(overlays[o], n)]]]
      /\ configured' = TRUE
      /\ UNCHANGED <<nets, subnets, lab, raised>>
  BY DEF Configure
<1>2. /\ nodes' \in Seq(NodeRecord) /\ Len(nodes') = Len(nodes) /\ DOMAIN nodes' = DOMAIN nodes
      /\ \A n \in DOMAIN nodes : /\ nodes'[n].type = nodes[n].type
                                 /\ nodes'[n].ifcs = Interfaces(n, ConfigureOrder)
  <2>1. \A r \in NodeRecord : \A s \in Seq(Index) :
           /\ [r EXCEPT !.ifcs = s] \in NodeRecord
           /\ [r EXCEPT !.ifcs = s].type = r.type /\ [r EXCEPT !.ifcs = s].ifcs = s
    BY DEF NodeRecord
  <2>2. \A n \in DOMAIN nodes : nodes[n] \in NodeRecord
    BY <1>0, Fields
  <2>3. \A n \in DOMAIN nodes : Interfaces(n, ConfigureOrder) \in Seq(Index)
    BY <1>0, WiredUp
  <2>4. \A n \in DOMAIN nodes : /\ nodes'[n] \in NodeRecord
                                /\ nodes'[n].type = nodes[n].type
                                /\ nodes'[n].ifcs = Interfaces(n, ConfigureOrder)
    BY <1>1, <2>1, <2>2, <2>3
  <2>5. DOMAIN nodes = 1..Len(nodes) /\ Len(nodes) \in Nat /\ DOMAIN nodes' = DOMAIN nodes
    BY <1>0, <1>1 DEF Tables
  <2>6. nodes' = [n \in 1..Len(nodes) |-> nodes'[n]]
    BY <1>1, <2>5
  <2>7. nodes' \in Seq(NodeRecord) /\ Len(nodes') = Len(nodes)
    BY <2>4, <2>5, <2>6
  <2>8. QED
    BY <2>4, <2>5, <2>7
<1>3. /\ overlays' \in Seq(OverlayRecord) /\ DOMAIN overlays' = DOMAIN overlays
      /\ \A o \in DOMAIN overlays :
           /\ overlays'[o].protocol = overlays[o].protocol /\ overlays'[o].net = overlays[o].net
           /\ overlays'[o].nodes = overlays[o].nodes
           /\ \A n \in ToSet(overlays[o].nodes) : overlays'[o].announced[n] = Announced(overlays[o], n)
  <2>1. \A r \in OverlayRecord : \A a \in UNION {[S -> SUBSET Index] : S \in SUBSET Index} :
           /\ [r EXCEPT !.announced = a] \in OverlayRecord
           /\ [r EXCEPT !.announced = a].protocol = r.protocol /\ [r EXCEPT !.announced = a].net = r.net
           /\ [r EXCEPT !.announced = a].nodes = r.nodes /\ [r EXCEPT !.announced = a].announced = a
    BY DEF OverlayRecord
  <2>2. \A o \in DOMAIN overlays : overlays[o] \in OverlayRecord /\ overlays[o].nodes \in Seq(Index)
    BY <1>0, Fields
  <2>3. ASSUME NEW o \in DOMAIN overlays
        PROVE  [n \in ToSet(overlays[o].nodes) |-> Announced(overlays[o], n)]
                 \in UNION {[S -> SUBSET Index] : S \in SUBSET Index}
    <3>1. ToSet(overlays[o].nodes) \in SUBSET Index
      BY <2>2 DEF ToSet
    <3>2. \A n : Announced(overlays[o], n) \in SUBSET Index
      BY <1>0, WiredUp
    <3>3. QED
      BY <3>1, <3>2
  <2>4. \A o \in DOMAIN overlays :
           /\ overlays'[o] \in OverlayRecord
           /\ overlays'[o].protocol = overlays[o].protocol /\ overlays'[o].net = overlays[o].net
           /\ overlays'[o].nodes = overlays[o].nodes
           /\ overlays'[o].announced = [n \in ToSet(overlays[o].nodes) |-> Announced(overlays[o], n)]
    BY <1>1, <2>1, <2>2, <2>3
  <2>5. /\ DOMAIN overlays = 1..Len(overlays) /\ Len(overlays) \in Nat
        /\ DOMAIN overlays' = DOMAIN overlays
    BY <1>0, <1>1 DEF Tables
  <2>6. overlays' = [o \in 1..Len(overlays) |-> overlays'[o]]
    BY <1>1, <2>5
  <2>7. overlays' \in Seq(OverlayRecord)
    <3>1. \A o \in 1..Len(overlays) : overlays'[o] \in OverlayRecord
      BY <2>4, <2>5
    <3>2. QED
      BY <2>5, <2>6, <3>1
  <2>8. QED
    BY <2>4, <2>5, <2>7
<1>4. Tables'
  BY <1>0, <1>1, <1>2, <1>3 DEF Tables
<1>5. NetworksNested'
  <2>1. \A m \in DOMAIN nets : Local(m) => nets[m].gateway \in DOMAIN nodes
    BY <1>0 DEF NetworksNested, Nested
  <2>2. QED
    BY <1>0, <1>1, <1>2, <2>1 DEF NetworksNested, Local, Nested
<1>6. Homes'
  BY <1>0, <1>1, <1>2 DEF Homes, HomeOf, Local
<1>7. SubnetsPlaced'
  <2>1. \A s \in DOMAIN subnets : ToSet(subnets[s].nodes) \subseteq DOMAIN nodes
    BY <1>0 DEF SubnetsPlaced, Placed, NetworksNested
  <2>2. QED
    BY <1>0, <1>1, <1>2, <2>1 DEF SubnetsPlaced, Placed, Forwards
<1>8. OverlaysApart'
  <2>1. \A o \in DOMAIN overlays' : overlays'[o].net \in DOMAIN nets'
                                    /\ ToSet(overlays'[o].nodes) \subseteq DOMAIN nodes'
    BY <1>0, <1>1, <1>2, <1>3 DEF OverlaysApart
  <2>2. \A o, p \in DOMAIN overlays' :
          o # p /\ overlays'[o].protocol = overlays'[p].protocol =>
            ToSet(overlays'[o].nodes) \cap ToSet(overlays'[p].nodes) = {}
    BY <1>0, <1>3 DEF OverlaysApart
  <2>3. QED
    BY <2>1, <2>2 DEF OverlaysApart
<1>9. Wired'
  <2>1. ASSUME NEW n \in DOMAIN nodes
        PROVE  ToSet(nodes'[n].ifcs) = {s \in DOMAIN subnets : Has(s, n)} /\ MainFirst(nodes'[n].ifcs)
    <3>1. nodes'[n].ifcs = Interfaces(n, ConfigureOrder)
      BY <1>2
    <3>2. QED
      BY <1>0, <3>1, WiredUp
  <2>2. ASSUME NEW o \in DOMAIN overlays, NEW n \in ToSet(overlays[o].nodes)
        PROVE  Shared(o, n) \subseteq overlays'[o].announced[n]
    <3>1. overlays'[o].announced[n] = Announced(overlays[o], n)
      BY <1>3
    <3>2. Shared(o, n) \subseteq Announced(overlays[o], n)
      BY <1>0, WiredUp
    <3>3. QED
      BY <3>1, <3>2
  <2>3. \A n \in DOMAIN nodes' : /\ ToSet(nodes'[n].ifcs) = {s \in DOMAIN subnets' : Has(s, n)'}
                                 /\ MainFirst(nodes[n].ifcs)'
    <3>1. SUFFICES ASSUME NEW n \in DOMAIN nodes'
                   PROVE  /\ ToSet(nodes'[n].ifcs) = {s \in DOMAIN subnets' : Has(s, n)'}
                          /\ MainFirst(nodes[n].ifcs)'
      OBVIOUS
    <3>2. PICK ifcs : ifcs = nodes'[n].ifcs
      OBVIOUS
    <3>3. ToSet(ifcs) = {s \in DOMAIN subnets : Has(s, n)} /\ MainFirst(ifcs)
      BY <1>2, <2>1, <3>2
    <3>4. MainFirst(nodes[n].ifcs)'
      BY <1>1, <3>2, <3>3 DEF MainFirst
    <3>5. QED
      BY <1>1, <3>2, <3>3, <3>4 DEF Has
  <2>4. \A o \in DOMAIN overlays' : \A n \in ToSet(overlays'[o].nodes) :
          Shared(o, n)' \subseteq overlays'[o].announced[n]
    <3>1. \A o \in DOMAIN overlays : \A n : Shared(o, n)' = Shared(o, n)
      BY <1>1, <1>3 DEF Shared, Has
    <3>2. QED
      BY <1>3, <2>2, <3>1
  <2>5. QED
    BY <1>1, <2>3, <2>4 DEF Wired
<1>10. Written'
  BY <1>0, <1>1 DEF Written
<1>11. QED
  BY <1>4, <1>5, <1>6, <1>7, <1>8, <1>9, <1>10 DEF DefInv

LEMMA RenderInv ==
  ASSUME DefInv, Render
  PROVE  DefInv'
<1>0. configured /\ UNCHANGED <<definition, configured>> /\ raised' \in BOOLEAN
  BY DEF Render, DefInv, Tables
<1>1. (Tables /\ NetworksNested /\ Homes /\ SubnetsPlaced /\ OverlaysApart /\ Wired)'
  BY <1>0, StillDefined
<1>2. /\ LabJson' = LabJson /\ LocalsOf(Main)' = LocalsOf(Main) /\ \A m : OutNet(m)' = OutNet(m)
  BY <1>0, Unchanged
<1>3. Written'
  <2>1. CASE lab' = NoLab
    BY <2>1 DEF Written
  <2>2. CASE lab' = LabJson /\ ~\E m \in ToSet(LocalsOf(Main)) : OutNet(m) = 0
    BY <1>0, <1>2, <2>2 DEF Written
  <2>3. QED
    BY <2>1, <2>2 DEF Render
<1>4. QED
  BY <1>1, <1>3 DEF DefInv

\* The invariant holds of every script.
THEOREM LabDefined == Spec => []DefInv
<1>1. Init => DefInv
  BY InitInv
<1>2. DefInv /\ [Next]_vars => DefInv'
  <2>1. SUFFICES ASSUME DefInv, [Next]_vars PROVE DefInv'
    OBVIOUS
  <2>2. CASE UNCHANGED vars
    <3>1. UNCHANGED <<definition, configured, lab>> /\ raised' \in BOOLEAN
      BY <2>1, <2>2 DEF vars, definition, DefInv, Tables
    <3>2. (Tables /\ NetworksNested /\ Homes /\ SubnetsPlaced /\ OverlaysApart /\ Wired)'
      BY <2>1, <3>1, StillDefined
    <3>3. /\ LabJson' = LabJson /\ LocalsOf(Main)' = LocalsOf(Main) /\ \A m : OutNet(m)' = OutNet(m)
      BY <3>1, Unchanged
    <3>4. Written'
      BY <2>1, <3>1, <3>3 DEF DefInv, Written
    <3>5. QED
      BY <3>2, <3>4 DEF DefInv
  <2>3. ASSUME NEW m \in DOMAIN nets, NEW name \in NodeNames, NEW pc \in BOOLEAN,
               CreateNode(m, name, pc)
        PROVE  DefInv'
    BY <2>1, <2>3, CreateNodeInv
  <2>4. ASSUME NEW m \in DOMAIN nets, NEW members \in Members(m), NEW name \in SubnetNames,
               CreateSubnet(m, name, members)
        PROVE  DefInv'
    BY <2>1, <2>4, CreateSubnetInv
  <2>5. ASSUME NEW m \in DOMAIN nets, NEW members \in Members(m), NEW protocol \in Protocols,
               CreateOverlay(m, protocol, members)
        PROVE  DefInv'
    BY <2>1, <2>5, CreateOverlayInv
  <2>6. ASSUME NEW m \in DOMAIN nets, NEW gateway \in ToSet(nets[m].nodes),
               CreateLocal(m, gateway) \/ \E name \in LocalNames : CreateNamedLocal(m, gateway, name)
        PROVE  DefInv'
    BY <2>1, <2>6, CreateLocalInv
  <2>7. CASE Configure
    BY <2>1, <2>7, ConfigureInv
  <2>8. CASE Render
    BY <2>1, <2>8, RenderInv
  <2>9. QED
    BY <2>1, <2>2, <2>3, <2>4, <2>5, <2>6, <2>7, <2>8 DEF Next
<1>3. QED
  BY <1>1, <1>2, PTL DEF Spec

-----------------------------------------------------------------------------
\* What lab.json holds.

\* The numbers in the tables name what they should, however the lab is defined: in
\* particular the gateway of every subnet is one of its own nodes.
THEOREM LabTyped == Spec => []TypeOK
<1>1. DefInv => TypeOK
  <2>1. SUFFICES ASSUME DefInv PROVE TypeOK
    OBVIOUS
  <2>2. /\ Tables /\ NetworksNested /\ SubnetsPlaced /\ Wired /\ Written
    BY <2>1 DEF DefInv
  <2>3. ASSUME NEW n \in DOMAIN nodes
        PROVE  nodes[n].type \in Type /\ ToSet(nodes[n].ifcs) \subseteq DOMAIN subnets
    BY <2>2, Fields DEF Wired, ToSet
  <2>4. ASSUME NEW m \in DOMAIN nets
        PROVE  /\ nets[m].outer \in 0..(m - 1)
               /\ ToSet(nets[m].nodes) \subseteq DOMAIN nodes
               /\ nets[m].gateway \in {NoGateway} \cup DOMAIN nodes
    <3>1. nets[m].outer \in Nat /\ m \in Index /\ Index \subseteq Nat
      BY <2>2, Fields DEF Index
    <3>2. nets[m].outer < m /\ nets[m].gateway \in {NoGateway} \cup DOMAIN nodes
      <4>1. CASE m = Main
        BY <2>2, <4>1 DEF NetworksNested, Main
      <4>2. CASE m # Main
        BY <2>2, <4>2 DEF NetworksNested, Local, Nested
      <4>3. QED
        BY <4>1, <4>2
    <3>3. nets[m].outer \in 0..(m - 1)
      BY <3>1, <3>2
    <3>4. QED
      BY <2>2, <3>2, <3>3 DEF NetworksNested
  <2>5. ASSUME NEW s \in DOMAIN subnets
        PROVE  /\ subnets[s].net \in DOMAIN nets
               /\ ToSet(subnets[s].nodes) \subseteq DOMAIN nodes
               /\ subnets[s].gateway \in {NoGateway} \cup ToSet(subnets[s].nodes)
    BY <2>2 DEF SubnetsPlaced, Placed, NetworksNested
  <2>6. \A o \in DOMAIN overlays : overlays[o].protocol \in Protocols
    BY <2>2, Fields
  <2>7. lab.written \in BOOLEAN
    <3>1. NoLab.written = FALSE
      BY DEF NoLab
    <3>2. LabJson.written = TRUE
      BY DEF LabJson
    <3>3. QED
      BY <2>2, <3>1, <3>2 DEF Written
  <2>8. QED
    BY <2>2, <2>3, <2>4, <2>5, <2>6, <2>7 DEF TypeOK, Tables
<1>2. QED
  BY <1>1, LabDefined, PTL

\* A set of positions has a first and a last one.
LEMMA Extremes ==
  ASSUME NEW N \in Nat, NEW S \in SUBSET (1..N), S # {}
  PROVE  /\ \E j \in S : \A k \in S : k <= j
         /\ \E j \in S : \A k \in S : j <= k
<1> DEFINE T == 1..N \ S
<1>1. ASSUME ~\E j \in S : \A k \in S : k <= j PROVE FALSE
  <2>1. \A m \in 1..N : (\A k \in 1..N : m < k => k \in T) => m \in T
    BY <1>1
  <2>2. T \in SUBSET (1..N)
    OBVIOUS
  <2> HIDE DEF T
  <2>3. T = 1..N
    BY <2>1, <2>2, FromNewest
  <2>4. QED
    BY <2>3 DEF T
<1>2. ASSUME ~\E j \in S : \A k \in S : j <= k PROVE FALSE
  <2>1. \A m \in 1..N : (\A k \in 1..N : k < m => k \in T) => m \in T
    BY <1>2
  <2>2. T \in SUBSET (1..N)
    OBVIOUS
  <2> HIDE DEF T
  <2>3. T = 1..N
    BY <2>1, <2>2, FromOldest
  <2>4. QED
    BY <2>3 DEF T
<1>3. QED
  BY <1>1, <1>2

\* A dictionary holds the last entry of every name, and one of each.
LEMMA UpdatedEntries ==
  ASSUME NEW X, NEW entries \in Seq(X)
  PROVE  /\ Updated(entries) \in Seq(X)
         /\ \A e \in ToSet(Updated(entries)) : \E p \in DOMAIN entries :
              /\ e = entries[p]
              /\ \A r \in DOMAIN entries : entries[r].name = e.name => r <= p
         /\ \A p \in DOMAIN entries : \E e \in ToSet(Updated(entries)) : e.name = entries[p].name
         /\ \A p, r \in DOMAIN Updated(entries) :
              Updated(entries)[p].name = Updated(entries)[r].name => p = r
<1> DEFINE Same(i) == {j \in DOMAIN entries : entries[j].name = entries[i].name}
           LastOne(i) == CHOOSE j \in Same(i) : \A k \in Same(i) : k <= j
           q == [i \in DOMAIN entries |->
                   IF \E j \in Same(i) : j < i THEN <<>> ELSE <<entries[LastOne(i)]>>]
<1>1. Updated(entries) = FlattenSeq(q)
  BY DEF Updated
<1>2. DOMAIN entries = 1..Len(entries) /\ Len(entries) \in Nat
  OBVIOUS
<1>3. ASSUME NEW i \in DOMAIN entries
      PROVE  /\ LastOne(i) \in DOMAIN entries /\ entries[LastOne(i)].name = entries[i].name
             /\ \A k \in DOMAIN entries : entries[k].name = entries[i].name => k <= LastOne(i)
             /\ \E j \in Same(i) : \A k \in Same(i) : j <= k
  <2>1. Same(i) \in SUBSET (1..Len(entries)) /\ i \in Same(i)
    BY <1>2
  <2> HIDE DEF Same
  <2>2. /\ \E j \in Same(i) : \A k \in Same(i) : k <= j
        /\ \E j \in Same(i) : \A k \in Same(i) : j <= k
    BY <1>2, <2>1, Extremes
  <2>3. LastOne(i) \in Same(i) /\ \A k \in Same(i) : k <= LastOne(i)
    BY <2>2
  <2> HIDE DEF LastOne
  <2>4. QED
    BY <2>2, <2>3 DEF Same
<1> HIDE DEF LastOne
<1>4. /\ q \in Seq(Seq(X)) /\ DOMAIN q = DOMAIN entries
      /\ \A i \in DOMAIN entries :
           q[i] = IF \E j \in Same(i) : j < i THEN <<>> ELSE <<entries[LastOne(i)]>>
  <2>1. \A i \in DOMAIN entries : entries[LastOne(i)] \in X
    BY <1>3
  <2>2. \A i \in DOMAIN entries : <<entries[LastOne(i)]>> \in Seq(X) /\ <<>> \in Seq(X)
    BY <2>1
  <2> HIDE DEF Same
  <2>3. QED
    BY <1>2, <2>2
<1> HIDE DEF q
<1>5. PICK u \in Seq(X) : u = FlattenSeq(q) /\ u = Updated(entries)
  BY <1>1, <1>4, FlatSet
<1>6. \A e : e \in ToSet(u) <=> \E i \in DOMAIN entries : e \in ToSet(q[i])
  BY <1>4, <1>5, FlatSet
<1>7. ASSUME NEW i \in DOMAIN entries, NEW e
      PROVE  e \in ToSet(q[i]) <=> e = entries[LastOne(i)] /\ \A j \in Same(i) : ~(j < i)
  <2>1. CASE \E j \in Same(i) : j < i
    <3>1. ToSet(<<>>) = {}
      BY DEF ToSet
    <3>2. QED
      BY <1>4, <2>1, <3>1
  <2>2. CASE ~\E j \in Same(i) : j < i
    <3>1. ToSet(<<entries[LastOne(i)]>>) = {entries[LastOne(i)]}
      BY DEF ToSet
    <3>2. QED
      BY <1>4, <2>2, <3>1
  <2>3. QED
    BY <2>1, <2>2
<1>8. ASSUME NEW e \in ToSet(u)
      PROVE  \E p \in DOMAIN entries : /\ e = entries[p]
               /\ \A r \in DOMAIN entries : entries[r].name = e.name => r <= p
  <2>1. PICK i \in DOMAIN entries : e = entries[LastOne(i)]
    BY <1>6, <1>7
  <2>2. QED
    BY <1>3, <2>1
<1>9. ASSUME NEW p \in DOMAIN entries PROVE \E e \in ToSet(u) : e.name = entries[p].name
  <2>1. PICK i \in Same(p) : \A k \in Same(p) : i <= k
    BY <1>3
  <2>2. i \in DOMAIN entries /\ Same(i) = Same(p) /\ entries[i].name = entries[p].name
    OBVIOUS
  <2>3. Same(i) \subseteq Nat /\ i \in Nat
    BY <1>2, <2>2
  <2>4. \A k \in Same(i) : ~(k < i)
    <3> HIDE DEF Same
    <3>1. QED
      BY <2>1, <2>2, <2>3
  <2>5. entries[LastOne(i)] \in ToSet(u)
    BY <1>6, <1>7, <2>2, <2>4
  <2>6. QED
    BY <1>3, <2>2, <2>5
<1>10. ASSUME NEW p \in DOMAIN u, NEW r \in DOMAIN u, p < r, u[p].name = u[r].name PROVE FALSE
  <2> HIDE DEF Same
  <2>0. Ordered(u[p], u[r], q, Len(q)) /\ DOMAIN q = 1..Len(q)
    <3>1. Laid(u, q, Len(q)) /\ DOMAIN q = 1..Len(q)
      <4>1. q \in Seq(Seq(X))
        BY <1>4
      <4>2. Laid(FlattenSeq(q), q, Len(q)) /\ DOMAIN q = 1..Len(q)
        BY <4>1, Flattened
      <4>3. QED
        BY <1>5, <4>2
    <3>2. \A a, b \in DOMAIN u : a < b => Ordered(u[a], u[b], q, Len(q))
      BY <3>1, Zenon DEF Laid
    <3>3. QED
      BY <1>10, <3>1, <3>2
  <2>1. PICK i, j \in DOMAIN q : \E a \in DOMAIN q[i], b \in DOMAIN q[j] :
             u[p] = q[i][a] /\ u[r] = q[j][b] /\ (i < j \/ (i = j /\ a < b))
    BY <2>0 DEF Ordered
  <2>2. PICK a \in DOMAIN q[i], b \in DOMAIN q[j] :
             u[p] = q[i][a] /\ u[r] = q[j][b] /\ (i < j \/ (i = j /\ a < b))
    BY <2>1
  <2>3. u[p] \in ToSet(q[i]) /\ u[r] \in ToSet(q[j]) /\ i \in DOMAIN entries /\ j \in DOMAIN entries
    BY <1>4, <2>2 DEF ToSet
  <2>4. u[p].name = entries[i].name /\ u[r].name = entries[j].name
    <3>1. u[p] = entries[LastOne(i)] /\ u[r] = entries[LastOne(j)]
      BY <1>7, <2>3
    <3>2. QED
      BY <1>3, <2>3, <3>1
  <2>5. i \in Same(j) /\ \A k \in Same(j) : ~(k < j)
    BY <1>7, <1>10, <2>3, <2>4 DEF Same
  <2>6. i = j /\ a < b
    BY <2>2, <2>5
  <2>7. a = 1 /\ b = 1
    <3>1. DOMAIN q[i] \subseteq {1}
      <4>1. DOMAIN <<>> = {} /\ DOMAIN <<entries[LastOne(i)]>> = {1}
        OBVIOUS
      <4>2. QED
        BY <1>4, <2>3, <4>1
    <3>2. QED
      BY <2>2, <2>6, <3>1
  <2>8. QED
    BY <2>6, <2>7
<1>11. \A p, r \in DOMAIN u : u[p].name = u[r].name => p = r
  <2>1. \A p, r \in DOMAIN u : p < r \/ p = r \/ r < p
    OBVIOUS
  <2>2. QED
    BY <1>10, <2>1
<1>12. QED
  BY <1>5, <1>8, <1>9, <1>11

\* The networks that are rendered: the main one, then its local networks, which are all
\* there are in a flat lab.
LEMMA RenderedNets ==
  ASSUME Tables, NetworksNested
  PROVE  /\ Rendered \in Seq(Index) /\ IsInjective(Rendered)
         /\ ToSet(Rendered) = {Main} \cup {k \in DOMAIN nets : nets[k].outer = Main}
         /\ 1 \in DOMAIN Rendered /\ Rendered[1] = Main /\ MainBegins(Rendered)
         /\ Flat => ToSet(Rendered) = DOMAIN nets
<1>1. /\ LocalsOf(Main) \in Seq(Index) /\ IsInjective(LocalsOf(Main))
      /\ ToSet(LocalsOf(Main)) = {k \in DOMAIN nets : nets[k].outer = Main}
  BY Listed
<1>2. Main \in DOMAIN nets /\ Main \in Index /\ Main # 0
  BY DEF Tables, Main, Index
<1>3. Main \notin ToSet(LocalsOf(Main))
  BY <1>1, <1>2 DEF NetworksNested
<1>4. /\ Rendered \in Seq(Index) /\ IsInjective(Rendered)
      /\ \A x : x \in ToSet(Rendered) <=> x = Main \/ x \in ToSet(LocalsOf(Main))
      /\ 1 \in DOMAIN Rendered /\ Rendered[1] = Main
      /\ \A i \in DOMAIN Rendered : Rendered[i] = Main => i = 1
  <2>1. PICK s \in Seq(Index) : s = LocalsOf(Main)
    BY <1>1
  <2>2. Rendered = <<Main>> \o s
    BY <2>1 DEF Rendered
  <2>3. IsInjective(s) /\ Main \notin ToSet(s)
    BY <1>1, <1>3, <2>1
  <2>4. QED
    BY <1>2, <2>1, <2>2, <2>3, Consed
<1>5. ToSet(Rendered) = {Main} \cup {k \in DOMAIN nets : nets[k].outer = Main}
  BY <1>1, <1>4
<1>6. ASSUME Flat PROVE ToSet(Rendered) = DOMAIN nets
  <2>1. \A m \in DOMAIN nets : m # Main => nets[m].outer = Main
    <3>1. 0 \notin DOMAIN nets
      BY DEF Tables
    <3>2. QED
      BY <1>6, <3>1 DEF Flat, NetworksNested, Nested, Local
  <2>2. QED
    BY <1>2, <1>5, <2>1
<1>7. QED
  BY <1>4, <1>5, <1>6 DEF MainBegins

\* The subnet by which the gateway of a local network leaves it: one of the main network
\* if it is in any.
LEMMA OutNetOf ==
  ASSUME Tables, NetworksNested, Wired, configured, NEW m \in DOMAIN nets, Local(m)
  PROVE  LET g == nets[m].gateway
         IN  /\ g \in DOMAIN nodes /\ OutNet(m) \in Nat
             /\ OutNet(m) # 0 => OutNet(m) \in DOMAIN subnets /\ Has(OutNet(m), g)
             /\ (\E s \in DOMAIN subnets : Has(s, g) /\ subnets[s].net = Main) =>
                  subnets[OutNet(m)].net = Main
<1>1. PICK g : g = nets[m].gateway
  OBVIOUS
<1>2. g \in DOMAIN nodes
  BY <1>1 DEF NetworksNested, Nested
<1>3. PICK ifcs \in Seq(Nat \ {0}) : ifcs = nodes[g].ifcs
  <2>1. nodes[g] \in NodeRecord
    BY <1>2, Fields
  <2>2. nodes[g].ifcs \in Seq(Index)
    BY <2>1 DEF NodeRecord
  <2>3. QED
    BY <2>2 DEF Index
<1>4. ToSet(ifcs) = {s \in DOMAIN subnets : Has(s, g)} /\ MainFirst(ifcs)
  BY <1>2, <1>3 DEF Wired
<1>5. PICK S : S = {s \in DOMAIN subnets : subnets[s].net # m}
  OBVIOUS
<1>6. OutNet(m) = First(ifcs, S)
  BY <1>1, <1>3, <1>5 DEF OutNet
<1>7. PICK o : o = OutNet(m)
  OBVIOUS
<1>8. /\ o = 0 <=> ToSet(ifcs) \cap S = {}
      /\ o # 0 => o \in ToSet(ifcs) \cap S
      /\ \A y \in ToSet(ifcs) \cap S : y = o \/ \E i, j \in DOMAIN ifcs : i < j /\ ifcs[i] = o /\ ifcs[j] = y
  BY <1>6, <1>7, FirstOfThose
<1>9. o \in Nat
  <2>1. ToSet(ifcs) \subseteq Nat
    BY DEF ToSet
  <2>2. QED
    BY <1>8, <2>1
<1>10. ASSUME NEW s \in DOMAIN subnets, Has(s, g), subnets[s].net = Main
       PROVE  subnets[o].net = Main
  <2>1. s \in ToSet(ifcs) \cap S
    BY <1>4, <1>5, <1>10 DEF Local
  <2>2. CASE s = o
    BY <1>10, <2>2
  <2>3. ASSUME NEW i \in DOMAIN ifcs, NEW j \in DOMAIN ifcs, i < j, ifcs[i] = o, ifcs[j] = s
        PROVE  subnets[o].net = Main
    <3>1. subnets[o].net # Main => j < i
      BY <1>4, <1>10, <2>3 DEF MainFirst
    <3>2. i \in Nat /\ j \in Nat
      OBVIOUS
    <3>3. QED
      BY <2>3, <3>1, <3>2
  <2>4. QED
    BY <1>8, <2>1, <2>2, <2>3
<1>11. QED
  BY <1>1, <1>2, <1>4, <1>7, <1>8, <1>9, <1>10

\* The names that a dictionary of subnets gives are unambiguous in a lab whose subnets
\* have different names.
LEMMA NamedOf ==
  ASSUME Distinct, NEW seq \in Seq(Index), ToSet(seq) \subseteq DOMAIN subnets
  PROVE  /\ DOMAIN Named(seq) = {subnets[s].name : s \in ToSet(seq)}
         /\ \A s \in ToSet(seq) : Named(seq)[subnets[s].name] = s
<1>1. DOMAIN Named(seq) = {subnets[s].name : s \in ToSet(seq)}
  BY DEF Named
<1>2. ASSUME NEW s \in ToSet(seq) PROVE Named(seq)[subnets[s].name] = s
  <2>1. PICK S : S = {t \in DOMAIN subnets : subnets[t].name = subnets[s].name}
    OBVIOUS
  <2>2. PICK those \in Seq(Index) : those = Only(seq, S) /\ ToSet(those) = ToSet(seq) \cap S
    BY OnlyThose
  <2>3. s \in ToSet(those)
    BY <2>1, <2>2
  <2>4. those # <<>>
    BY <2>3 DEF ToSet
  <2>5. Last(those) \in ToSet(those)
    BY <2>4, LastOfThose
  <2>6. subnets[Last(those)].name = subnets[s].name /\ Last(those) \in DOMAIN subnets
    BY <2>1, <2>2, <2>5
  <2>7. Last(those) = s
    <3>1. \A a, b \in DOMAIN subnets : subnets[a].name = subnets[b].name => a = b
      BY DEF Distinct, IsInjective
    <3>2. QED
      BY <2>6, <3>1
  <2>8. Named(seq)[subnets[s].name] = Last(those)
    BY <2>1, <2>2 DEF Named
  <2>9. QED
    BY <2>7, <2>8
<1>3. QED
  BY <1>1, <1>2

\* What Entry writes of a node.
NatOf(m, n) == IF Local(m) /\ n = nets[m].gateway THEN OutNet(m) ELSE 0
EntrySet == {Entry(n, nat) : n \in DOMAIN nodes, nat \in Nat}

LEMMA EntryFields ==
  ASSUME NEW n, NEW nat
  PROVE  /\ Entry(n, nat).name = nodes[n].name /\ Entry(n, nat).router = Forwards(n)
         /\ Entry(n, nat).routes = Routes(n) /\ Entry(n, nat).nat = nat
         /\ Entry(n, nat).daemons = Daemons(n)
         /\ DOMAIN Entry(n, nat).networks = DOMAIN Named(nodes[n].ifcs)
         /\ \A x \in DOMAIN Named(nodes[n].ifcs) :
              Entry(n, nat).networks[x] = Address(Named(nodes[n].ifcs)[x], n)
<1>1. PICK t : t = [name \in DOMAIN Named(nodes[n].ifcs) |-> Address(Named(nodes[n].ifcs)[name], n)]
  OBVIOUS
<1>2. Entry(n, nat) = [name |-> nodes[n].name, router |-> nodes[n].type \in {"ROUTER", "GATEWAY"},
                       networks |-> t, routes |-> Routes(n), nat |-> nat, daemons |-> Daemons(n)]
  BY <1>1 DEF Entry
<1>3. /\ DOMAIN t = DOMAIN Named(nodes[n].ifcs)
      /\ \A x \in DOMAIN Named(nodes[n].ifcs) : t[x] = Address(Named(nodes[n].ifcs)[x], n)
  BY <1>1
<1>4. Entry(n, nat).networks = t
  BY <1>2
<1>5. QED
  BY <1>2, <1>3, <1>4 DEF Forwards

\* What holds of a lab that has been written as it should be.
LEMMA SaneLab ==
  ASSUME DefInv, Sane
  PROVE  /\ configured /\ Flat /\ Distinct /\ lab = LabJson
         /\ ToSet(Rendered) = DOMAIN nets
         /\ \A m \in DOMAIN nets : Local(m) => OutNet(m) # 0
<1>1. lab.written /\ Flat /\ Distinct
  BY DEF Sane
<1>2. lab # NoLab
  BY <1>1 DEF NoLab
<1>3. configured /\ lab = LabJson /\ \A m \in ToSet(LocalsOf(Main)) : OutNet(m) # 0
  BY <1>2 DEF DefInv, Written
<1>4. ToSet(Rendered) = DOMAIN nets
  BY <1>1, RenderedNets DEF DefInv
<1>5. ASSUME NEW m \in DOMAIN nets, Local(m) PROVE OutNet(m) # 0
  <2>1. ToSet(Rendered) = {Main} \cup {k \in DOMAIN nets : nets[k].outer = Main}
    BY RenderedNets DEF DefInv
  <2>2. nets[m].outer = Main
    BY <1>4, <1>5, <2>1 DEF Local
  <2>3. ToSet(LocalsOf(Main)) = {k \in DOMAIN nets : nets[k].outer = Main}
    BY Listed DEF DefInv
  <2>4. QED
    BY <1>3, <1>5, <2>2, <2>3
<1>6. QED
  BY <1>1, <1>3, <1>4, <1>5

\* The entries of one network, and of all in order: those of the main network come first.
LEMMA EntriesListed ==
  ASSUME DefInv, configured
  PROVE  /\ EntriesInOrder \in Seq(EntrySet) /\ ToSet(Rendered) \subseteq DOMAIN nets
         /\ \A e : e \in ToSet(EntriesInOrder) <=>
              \E m \in ToSet(Rendered) : \E n \in ToSet(nets[m].nodes) : e = Entry(n, NatOf(m, n))
         /\ \A p, r \in DOMAIN EntriesInOrder : p < r =>
              \/ \E n \in ToSet(nets[Main].nodes) : EntriesInOrder[p] = Entry(n, 0)
              \/ \E m \in ToSet(Rendered) : \E n \in ToSet(nets[m].nodes) :
                   Local(m) /\ EntriesInOrder[r] = Entry(n, NatOf(m, n))
<1>1. PICK rendered \in Seq(Index) :
        /\ rendered = Rendered /\ ToSet(rendered) \subseteq DOMAIN nets
        /\ rendered[1] = Main /\ \A i \in DOMAIN rendered : rendered[i] = Main => i = 1
  <2>1. /\ Rendered \in Seq(Index) /\ Rendered[1] = Main /\ MainBegins(Rendered)
        /\ ToSet(Rendered) = {Main} \cup {k \in DOMAIN nets : nets[k].outer = Main}
    BY RenderedNets DEF DefInv
  <2>2. Main \in DOMAIN nets
    BY DEF DefInv, Tables
  <2>3. QED
    BY <2>1, <2>2 DEF MainBegins
<1>2. ASSUME NEW m \in DOMAIN nets
      PROVE  /\ EntriesOf(m) \in Seq(EntrySet)
             /\ \A e : e \in ToSet(EntriesOf(m)) <=>
                  \E n \in ToSet(nets[m].nodes) : e = Entry(n, NatOf(m, n))
  <2>1. PICK those \in Seq(Index) : those = nets[m].nodes
    BY <1>2, Fields DEF DefInv
  <2>2. ToSet(those) \subseteq DOMAIN nodes
    BY <1>2, <2>1 DEF DefInv, NetworksNested
  <2>3. EntriesOf(m) = [i \in DOMAIN those |-> Entry(those[i], NatOf(m, those[i]))]
    BY <2>1 DEF EntriesOf, NatOf
  <2>4. \A i \in DOMAIN those : those[i] \in ToSet(those)
    BY DEF ToSet
  <2>5. \A i \in DOMAIN those : Entry(those[i], NatOf(m, those[i])) \in EntrySet
    <3>1. Local(m) => OutNet(m) \in Nat
      BY <1>2, OutNetOf DEF DefInv
    <3>2. \A n : NatOf(m, n) \in Nat
      BY <3>1 DEF NatOf
    <3>3. QED
      BY <2>2, <2>4, <3>2 DEF EntrySet
  <2>6. DOMAIN those = 1..Len(those) /\ Len(those) \in Nat
    OBVIOUS
  <2>7. EntriesOf(m) \in Seq(EntrySet)
    BY <2>3, <2>5, <2>6
  <2>8. \A e : e \in ToSet(EntriesOf(m)) <=> \E i \in DOMAIN those : e = Entry(those[i], NatOf(m, those[i]))
    BY <2>3 DEF ToSet
  <2>9. \A n : n \in ToSet(those) <=> \E i \in DOMAIN those : n = those[i]
    BY DEF ToSet
  <2>10. QED
    BY <2>1, <2>7, <2>8, <2>9
<1>3. PICK q \in Seq(Seq(EntrySet)) :
        /\ DOMAIN q = DOMAIN rendered /\ EntriesInOrder = FlattenSeq(q)
        /\ \A i \in DOMAIN rendered : q[i] = EntriesOf(rendered[i])
  <2>1. \A i \in DOMAIN rendered : rendered[i] \in DOMAIN nets
    BY <1>1 DEF ToSet
  <2>2. \A i \in DOMAIN rendered : EntriesOf(rendered[i]) \in Seq(EntrySet)
    BY <1>2, <2>1
  <2>3. DOMAIN rendered = 1..Len(rendered) /\ Len(rendered) \in Nat
    OBVIOUS
  <2>4. [i \in DOMAIN rendered |-> EntriesOf(rendered[i])] \in Seq(Seq(EntrySet))
    BY <2>2, <2>3
  <2>5. EntriesInOrder = FlattenSeq([i \in DOMAIN rendered |-> EntriesOf(rendered[i])])
    BY <1>1 DEF EntriesInOrder
  <2>6. QED
    BY <2>4, <2>5
<1>4. \A i \in DOMAIN q : /\ q[i] = EntriesOf(rendered[i]) /\ rendered[i] \in DOMAIN nets
                          /\ rendered[i] \in ToSet(Rendered)
  BY <1>1, <1>3 DEF ToSet
<1>5. EntriesInOrder \in Seq(EntrySet) /\ \A e : e \in ToSet(EntriesInOrder) <=> \E i \in DOMAIN q : e \in ToSet(q[i])
  <2>1. FlattenSeq(q) \in Seq(EntrySet) /\ \A e : e \in ToSet(FlattenSeq(q)) <=> \E i \in DOMAIN q : e \in ToSet(q[i])
    BY FlatSet
  <2>2. QED
    BY <1>3, <2>1
<1>6. \A e : e \in ToSet(EntriesInOrder) <=>
        \E m \in ToSet(Rendered) : \E n \in ToSet(nets[m].nodes) : e = Entry(n, NatOf(m, n))
  <2>1. \A e : \A i \in DOMAIN q : e \in ToSet(q[i]) <=>
          \E n \in ToSet(nets[rendered[i]].nodes) : e = Entry(n, NatOf(rendered[i], n))
    BY <1>2, <1>4
  <2>2. \A m \in ToSet(Rendered) : \E i \in DOMAIN q : m = rendered[i]
    BY <1>1, <1>3 DEF ToSet
  <2>3. ASSUME NEW e, e \in ToSet(EntriesInOrder)
        PROVE  \E m \in ToSet(Rendered) : \E n \in ToSet(nets[m].nodes) : e = Entry(n, NatOf(m, n))
    <3>1. PICK i \in DOMAIN q : e \in ToSet(q[i])
      BY <1>5, <2>3
    <3>2. \E n \in ToSet(nets[rendered[i]].nodes) : e = Entry(n, NatOf(rendered[i], n))
      BY <2>1, <3>1
    <3>3. QED
      BY <1>4, <3>2
  <2>4. ASSUME NEW e, NEW m \in ToSet(Rendered), NEW n \in ToSet(nets[m].nodes), e = Entry(n, NatOf(m, n))
        PROVE  e \in ToSet(EntriesInOrder)
    <3>1. PICK i \in DOMAIN q : m = rendered[i]
      BY <2>2
    <3>2. e \in ToSet(q[i])
      BY <2>1, <2>4, <3>1
    <3>3. QED
      BY <1>5, <3>2
  <2>5. QED
    BY <2>3, <2>4
<1>7. ASSUME NEW p \in DOMAIN EntriesInOrder, NEW r \in DOMAIN EntriesInOrder, p < r
      PROVE  \/ \E n \in ToSet(nets[Main].nodes) : EntriesInOrder[p] = Entry(n, 0)
             \/ \E m \in ToSet(Rendered) : \E n \in ToSet(nets[m].nodes) :
                  Local(m) /\ EntriesInOrder[r] = Entry(n, NatOf(m, n))
  <2>1. PICK i, j \in DOMAIN q : /\ i <= j /\ EntriesInOrder[p] \in ToSet(q[i])
                                 /\ EntriesInOrder[r] \in ToSet(q[j])
    <3>1. \A a, b \in DOMAIN FlattenSeq(q) : a < b => \E i, j \in DOMAIN q :
            i <= j /\ FlattenSeq(q)[a] \in ToSet(q[i]) /\ FlattenSeq(q)[b] \in ToSet(q[j])
      BY FlatOrder
    <3>2. QED
      BY <1>3, <1>7, <3>1
  <2>2. i \in Nat /\ j \in Nat /\ i >= 1 /\ j >= 1 /\ i \in DOMAIN rendered /\ j \in DOMAIN rendered
    BY <1>3
  <2>3. CASE i = 1
    <3>1. PICK n \in ToSet(nets[Main].nodes) : EntriesInOrder[p] = Entry(n, NatOf(Main, n))
      <4>1. rendered[i] = Main /\ q[i] = EntriesOf(Main) /\ Main \in DOMAIN nets
        BY <1>1, <1>4, <2>3
      <4>2. EntriesInOrder[p] \in ToSet(EntriesOf(Main))
        BY <2>1, <4>1
      <4>3. QED
        BY <1>2, <4>1, <4>2
    <3>2. NatOf(Main, n) = 0
      BY DEF NatOf, Local
    <3>3. QED
      BY <3>1, <3>2
  <2>4. CASE i # 1
    <3>1. j # 1
      BY <2>1, <2>2, <2>4
    <3>2. Local(rendered[j])
      BY <1>1, <2>2, <3>1 DEF Local
    <3>3. PICK n \in ToSet(nets[rendered[j]].nodes) : EntriesInOrder[r] = Entry(n, NatOf(rendered[j], n))
      BY <1>2, <1>4, <2>1
    <3>4. QED
      BY <1>4, <3>2, <3>3
  <2>5. QED
    BY <2>3, <2>4
<1>8. QED
  BY <1>1, <1>5, <1>6, <1>7

\* Each node has one entry, and a gateway's is the one a local network of it wrote: in
\* the order of the networks, those come after the main network's.
LEMMA WrittenEntries ==
  ASSUME DefInv, Sane
  PROVE  /\ \A e \in Entries : \E n \in DOMAIN nodes, nat \in Nat : e = Entry(n, nat)
         /\ \A n \in DOMAIN nodes : /\ EntryOf(n) \in Entries
                                    /\ \E nat \in Nat : EntryOf(n) = Entry(n, nat)
         /\ \A m \in DOMAIN nets : Local(m) =>
              \E k \in DOMAIN nets : /\ Local(k) /\ nets[k].gateway = nets[m].gateway
                                     /\ EntryOf(nets[m].gateway) = Entry(nets[m].gateway, OutNet(k))
<1>1. PICK all \in Seq(EntrySet) :
        /\ all = EntriesInOrder
        /\ \A e : e \in ToSet(all) <=>
             \E m \in DOMAIN nets : \E n \in ToSet(nets[m].nodes) : e = Entry(n, NatOf(m, n))
        /\ \A p, r \in DOMAIN all : p < r =>
             \/ \E n \in ToSet(nets[Main].nodes) : all[p] = Entry(n, 0)
             \/ \E m \in DOMAIN nets : \E n \in ToSet(nets[m].nodes) :
                  Local(m) /\ all[r] = Entry(n, NatOf(m, n))
  <2>1. configured /\ ToSet(Rendered) = DOMAIN nets
    BY SaneLab
  <2>2. PICK all \in Seq(EntrySet) :
          /\ all = EntriesInOrder
          /\ \A e : e \in ToSet(all) <=>
               \E m \in ToSet(Rendered) : \E n \in ToSet(nets[m].nodes) : e = Entry(n, NatOf(m, n))
          /\ \A p, r \in DOMAIN all : p < r =>
               \/ \E n \in ToSet(nets[Main].nodes) : all[p] = Entry(n, 0)
               \/ \E m \in ToSet(Rendered) : \E n \in ToSet(nets[m].nodes) :
                    Local(m) /\ all[r] = Entry(n, NatOf(m, n))
    BY <2>1, EntriesListed
  <2>3. QED
    BY <2>1, <2>2
<1>2. Entries = ToSet(Updated(all))
  <2>1. lab = LabJson
    BY SaneLab
  <2>2. lab.entries = Updated(EntriesInOrder)
    BY <2>1 DEF LabJson
  <2>3. QED
    BY <1>1, <2>2 DEF Entries
<1>3. /\ \A e \in Entries : \E p \in DOMAIN all :
           e = all[p] /\ \A r \in DOMAIN all : all[r].name = e.name => r <= p
      /\ \A p \in DOMAIN all : \E e \in Entries : e.name = all[p].name
  <2>1. /\ \A e \in ToSet(Updated(all)) : \E p \in DOMAIN all :
             e = all[p] /\ \A r \in DOMAIN all : all[r].name = e.name => r <= p
        /\ \A p \in DOMAIN all : \E e \in ToSet(Updated(all)) : e.name = all[p].name
    BY UpdatedEntries
  <2>2. QED
    BY <1>2, <2>1
<1>4. \A n, k \in DOMAIN nodes : nodes[n].name = nodes[k].name => n = k
  BY SaneLab DEF Distinct, IsInjective
<1>5. \A e \in Entries : \E n \in DOMAIN nodes, nat \in Nat : e = Entry(n, nat)
  <2>1. \A e \in Entries : e \in EntrySet
    BY <1>3
  <2>2. QED
    BY <2>1 DEF EntrySet
<1>6. ASSUME NEW m \in DOMAIN nets, NEW n \in ToSet(nets[m].nodes)
      PROVE  \E p \in DOMAIN all : all[p] = Entry(n, NatOf(m, n))
  <2>1. Entry(n, NatOf(m, n)) \in ToSet(all)
    BY <1>1, <1>6
  <2>2. QED
    BY <2>1 DEF ToSet
<1>7. ASSUME NEW n \in DOMAIN nodes
      PROVE  EntryOf(n) \in Entries /\ \E nat \in Nat : EntryOf(n) = Entry(n, nat)
  <2>1. PICK h \in DOMAIN nets : n \in ToSet(nets[h].nodes)
    BY <1>7 DEF DefInv, Homes, HomeOf
  <2>2. PICK p \in DOMAIN all : all[p] = Entry(n, NatOf(h, n))
    BY <1>6, <2>1
  <2>3. \E e \in Entries : e.name = nodes[n].name
    BY <1>3, <2>2, EntryFields
  <2>4. EntryOf(n) \in Entries /\ EntryOf(n).name = nodes[n].name
    BY <2>3 DEF EntryOf
  <2>5. PICK k \in DOMAIN nodes, nat \in Nat : EntryOf(n) = Entry(k, nat)
    BY <1>5, <2>4
  <2>6. nodes[k].name = nodes[n].name
    BY <2>4, <2>5, EntryFields
  <2>7. k = n
    BY <1>4, <2>6
  <2>8. QED
    BY <2>4, <2>5, <2>7
<1>8. ASSUME NEW m \in DOMAIN nets, Local(m)
      PROVE  \E k \in DOMAIN nets : /\ Local(k) /\ nets[k].gateway = nets[m].gateway
                                    /\ EntryOf(nets[m].gateway) = Entry(nets[m].gateway, OutNet(k))
  <2>1. PICK g : g = nets[m].gateway
    OBVIOUS
  <2>2. /\ g \in ToSet(nets[m].nodes) /\ g \in DOMAIN nodes
        /\ nets[m].outer \in DOMAIN nets /\ g \in ToSet(nets[nets[m].outer].nodes)
    BY <1>8, <2>1 DEF DefInv, NetworksNested, Nested
  <2>3. g \in ToSet(nets[Main].nodes) /\ Main \in DOMAIN nets
    <3>1. nets[m].outer \in {0, Main} /\ 0 \notin DOMAIN nets /\ Main \in DOMAIN nets
      BY <1>8, SaneLab DEF Flat, DefInv, Tables
    <3>2. QED
      BY <2>2, <3>1
  <2>4. PICK e : e = EntryOf(g)
    OBVIOUS
  <2>5. PICK nat \in Nat : e = Entry(g, nat) /\ e \in Entries
    BY <1>7, <2>2, <2>4
  <2>6. e.name = nodes[g].name
    BY <2>5, EntryFields
  <2>7. PICK p \in DOMAIN all : e = all[p] /\ \A r \in DOMAIN all : all[r].name = e.name => r <= p
    BY <1>3, <2>5
  <2>8. PICK r \in DOMAIN all : all[r] = Entry(g, OutNet(m))
    <3>1. NatOf(m, g) = OutNet(m)
      BY <1>8, <2>1 DEF NatOf
    <3>2. QED
      BY <1>6, <2>2, <3>1
  <2>9. r <= p
    BY <2>6, <2>7, <2>8, EntryFields
  <2>10. CASE r = p
    BY <1>8, <2>1, <2>4, <2>7, <2>8, <2>10
  <2>11. CASE r # p
    <3>1. r < p
      <4>1. r \in Nat /\ p \in Nat
        OBVIOUS
      <4>2. QED
        BY <2>9, <2>11, <4>1
    <3>2. \A n : all[r] # Entry(n, 0)
      <4>1. OutNet(m) # 0
        BY <1>8, SaneLab
      <4>2. all[r].nat = OutNet(m)
        BY <2>8, EntryFields
      <4>3. \A n : Entry(n, 0).nat = 0
        BY EntryFields
      <4>4. QED
        BY <4>1, <4>2, <4>3
    <3>3. PICK k \in DOMAIN nets : Local(k) /\ \E n \in ToSet(nets[k].nodes) : e = Entry(n, NatOf(k, n))
      BY <1>1, <2>7, <3>1, <3>2
    <3>4. PICK n \in ToSet(nets[k].nodes) : e = Entry(n, NatOf(k, n))
      BY <3>3
    <3>5. n = g
      <4>1. nodes[n].name = nodes[g].name
        BY <2>6, <3>4, EntryFields
      <4>2. n \in DOMAIN nodes
        BY DEF DefInv, NetworksNested
      <4>3. QED
        BY <1>4, <2>2, <4>1, <4>2
    <3>6. nets[k].gateway = g
      <4>1. PICK h \in DOMAIN nets : HomeOf(g, h)
        BY <2>2 DEF DefInv, Homes
      <4>2. h = Main
        BY <2>3, <4>1 DEF HomeOf, Local
      <4>3. QED
        BY <3>3, <3>5, <4>1, <4>2 DEF HomeOf, Local
    <3>7. NatOf(k, g) = OutNet(k)
      BY <3>3, <3>6 DEF NatOf
    <3>8. QED
      BY <2>1, <2>4, <3>3, <3>4, <3>5, <3>6, <3>7
  <2>12. QED
    BY <2>10, <2>11
<1>9. QED
  BY <1>5, <1>7, <1>8

\* The addresses an entry lists: one in each subnet of its node, under the subnet's name.
LEMMA EntryAddresses ==
  ASSUME DefInv, Sane, NEW n \in DOMAIN nodes, NEW nat
  PROVE  /\ DOMAIN Entry(n, nat).networks =
              {subnets[s].name : s \in {t \in DOMAIN subnets : Has(t, n)}}
         /\ \A s \in DOMAIN subnets : Has(s, n) =>
              Entry(n, nat).networks[subnets[s].name] = Address(s, n)
         /\ Addresses(Entry(n, nat)) = {Address(s, n) : s \in {t \in DOMAIN subnets : Has(t, n)}}
<1>1. PICK ifcs \in Seq(Index) : ifcs = nodes[n].ifcs
  <2>1. nodes[n] \in NodeRecord
    BY Fields DEF DefInv
  <2>2. QED
    BY <2>1 DEF NodeRecord
<1>2. ToSet(ifcs) = {s \in DOMAIN subnets : Has(s, n)}
  BY <1>1, SaneLab DEF DefInv, Wired
<1>3. PICK named : named = Named(ifcs)
  OBVIOUS
<1>4. /\ DOMAIN named = {subnets[s].name : s \in ToSet(ifcs)}
      /\ \A s \in ToSet(ifcs) : named[subnets[s].name] = s
  <2>1. Distinct /\ ToSet(ifcs) \subseteq DOMAIN subnets
    BY <1>2, SaneLab
  <2>2. QED
    BY <1>3, <2>1, NamedOf
<1>5. PICK networks : networks = Entry(n, nat).networks
  OBVIOUS
<1>6. DOMAIN networks = DOMAIN named /\ \A x \in DOMAIN named : networks[x] = Address(named[x], n)
  BY <1>1, <1>3, <1>5, EntryFields
<1>7. \A s \in ToSet(ifcs) : networks[subnets[s].name] = Address(s, n)
  BY <1>4, <1>6
<1>8. Addresses(Entry(n, nat)) = {Address(s, n) : s \in ToSet(ifcs)}
  <2>1. Addresses(Entry(n, nat)) = {networks[x] : x \in DOMAIN networks}
    BY <1>5 DEF Addresses
  <2>2. QED
    BY <1>4, <1>6, <1>7, <2>1
<1>9. QED
  BY <1>2, <1>4, <1>5, <1>6, <1>7, <1>8
\* The networks that lab.json names are all there are.
LEMMA WrittenNetworks ==
  ASSUME DefInv, Sane, NEW s \in DOMAIN subnets
  PROVE  subnets[s].name \in DOMAIN lab.networks /\ lab.networks[subnets[s].name] = s
<1>1. PICK seq \in Seq(Index) : seq = SubnetsInOrder(Rendered)
                                /\ ToSet(seq) = {t \in DOMAIN subnets : subnets[t].net \in ToSet(Rendered)}
  BY RenderedNets, SubnetsListed DEF DefInv
<1>2. lab.networks = Named(seq)
  <2>1. lab = LabJson
    BY SaneLab
  <2>2. QED
    BY <1>1, <2>1 DEF LabJson
<1>3. s \in ToSet(seq) /\ ToSet(seq) \subseteq DOMAIN subnets
  <2>1. subnets[s].net \in DOMAIN nets
    BY DEF DefInv, SubnetsPlaced, Placed
  <2>2. QED
    BY <1>1, <2>1, SaneLab
<1>4. Distinct
  BY SaneLab
<1>5. DOMAIN Named(seq) = {subnets[t].name : t \in ToSet(seq)} /\ \A t \in ToSet(seq) : Named(seq)[subnets[t].name] = t
  BY <1>3, <1>4, NamedOf
<1>6. QED
  BY <1>2, <1>3, <1>5

LEMMA DefinedRendered == DefInv => RenderedWhole
<1>1. SUFFICES ASSUME DefInv, Sane
               PROVE  /\ {e.name : e \in Entries} = {nodes[n].name : n \in DOMAIN nodes}
                      /\ \A n \in DOMAIN nodes :
                           Addresses(EntryOf(n)) = {Address(s, n) : s \in {t \in DOMAIN subnets : Has(t, n)}}
                      /\ \A e \in Entries : \A x \in DOMAIN e.networks :
                           x \in DOMAIN lab.networks /\ lab.networks[x] = e.networks[x][1]
  BY DEF RenderedWhole
<1>2. \A e \in Entries : \E n \in DOMAIN nodes, nat \in Nat : e = Entry(n, nat)
  BY <1>1, WrittenEntries
<1>3. \A n \in DOMAIN nodes : EntryOf(n) \in Entries /\ \E nat \in Nat : EntryOf(n) = Entry(n, nat)
  BY <1>1, WrittenEntries
<1>4. {e.name : e \in Entries} = {nodes[n].name : n \in DOMAIN nodes}
  <2>1. \A e \in Entries : \E n \in DOMAIN nodes : e.name = nodes[n].name
    BY <1>2, EntryFields
  <2>2. \A n \in DOMAIN nodes : \E e \in Entries : e.name = nodes[n].name
    BY <1>3, EntryFields
  <2>3. QED
    BY <2>1, <2>2
<1>5. \A n \in DOMAIN nodes :
        Addresses(EntryOf(n)) = {Address(s, n) : s \in {t \in DOMAIN subnets : Has(t, n)}}
  BY <1>1, <1>3, EntryAddresses
<1>6. ASSUME NEW e \in Entries, NEW x \in DOMAIN e.networks
      PROVE  x \in DOMAIN lab.networks /\ lab.networks[x] = e.networks[x][1]
  <2>1. PICK n \in DOMAIN nodes, nat \in Nat : e = Entry(n, nat)
    BY <1>2
  <2>2. /\ DOMAIN e.networks = {subnets[s].name : s \in {t \in DOMAIN subnets : Has(t, n)}}
        /\ \A s \in DOMAIN subnets : Has(s, n) => e.networks[subnets[s].name] = Address(s, n)
    BY <1>1, <2>1, EntryAddresses
  <2>3. PICK s \in DOMAIN subnets : Has(s, n) /\ x = subnets[s].name
    BY <2>2
  <2>4. e.networks[x] = <<s, n>>
    BY <2>2, <2>3 DEF Address
  <2>5. e.networks[x][1] = s
    BY <2>4
  <2>6. QED
    BY <1>1, <2>3, <2>5, WrittenNetworks
<1>7. QED
  BY <1>4, <1>5, <1>6

\* In a lab whose nodes and subnets have different names, and whose local networks are
\* all of the main one, lab.json has one entry for every node, with an address in each of
\* its subnets whichever of its networks wrote the entry, and has the networks it names.
THEOREM LabRendered == Spec => []RenderedWhole
<1>1. Spec => []DefInv
  BY LabDefined
<1>2. DefInv => RenderedWhole
  BY DefinedRendered
<1>3. QED
  BY <1>1, <1>2, PTL

LEMMA DefinedNat == DefInv => NatOutside
<1>1. SUFFICES ASSUME DefInv, Sane, NEW m \in DOMAIN nets, Local(m)
               PROVE  /\ EntryOf(nets[m].gateway).router
                      /\ EntryOf(nets[m].gateway).nat # 0
                      /\ Has(EntryOf(nets[m].gateway).nat, nets[m].gateway)
                      /\ (\E s \in DOMAIN subnets : Has(s, nets[m].gateway) /\ subnets[s].net = Main)
                           => subnets[EntryOf(nets[m].gateway).nat].net = Main
  BY DEF NatOutside
<1>2. PICK g : g = nets[m].gateway
  OBVIOUS
<1>3. PICK k \in DOMAIN nets : Local(k) /\ nets[k].gateway = g /\ EntryOf(g) = Entry(g, OutNet(k))
  BY <1>1, <1>2, WrittenEntries
<1>4. /\ OutNet(k) # 0 => Has(OutNet(k), g)
      /\ (\E s \in DOMAIN subnets : Has(s, g) /\ subnets[s].net = Main) =>
           subnets[OutNet(k)].net = Main
  <2>1. configured /\ Tables /\ NetworksNested /\ Wired
    BY <1>1, SaneLab DEF DefInv
  <2>2. QED
    BY <1>3, <2>1, OutNetOf
<1>5. OutNet(k) # 0
  BY <1>1, <1>3, SaneLab
<1>6. EntryOf(g).nat = OutNet(k) /\ EntryOf(g).router = Forwards(g)
  BY <1>3, EntryFields
<1>7. Forwards(g)
  BY <1>1, <1>2 DEF DefInv, NetworksNested, Nested, Forwards
<1>8. QED
  BY <1>2, <1>4, <1>5, <1>6, <1>7

\* The gateway of a local network is a router that translates addresses towards a subnet
\* it is in, and towards one of the main network whenever it is in one.
THEOREM LabTranslated == Spec => []NatOutside
<1>1. Spec => []DefInv
  BY LabDefined
<1>2. DefInv => NatOutside
  BY DefinedNat
<1>3. QED
  BY <1>1, <1>2, PTL

\* The subnets by which a node has a router, and those of which another is the gateway.
RoutedBy(n, key) ==
  First(nodes[n].ifcs, {s \in DOMAIN subnets : Key(s) = key /\ FindRouter(s) # 0})
Gated(n) == Only(nodes[n].ifcs, {s \in DOMAIN subnets : subnets[s].gateway \notin {NoGateway, n}})

\* A hop leads to a neighbour that forwards.
HopOf(n, hop) ==
  \E s \in DOMAIN subnets, r \in DOMAIN nodes :
    hop = Address(s, r) /\ Has(s, n) /\ Has(s, r) /\ Forwards(r)

LEMMA InterfacesOf ==
  ASSUME DefInv, configured, NEW n \in DOMAIN nodes
  PROVE  /\ nodes[n].ifcs \in Seq(Index) /\ nodes[n].ifcs \in Seq(Nat \ {0})
         /\ ToSet(nodes[n].ifcs) = {s \in DOMAIN subnets : Has(s, n)}
<1>1. nodes[n] \in NodeRecord
  BY Fields DEF DefInv
<1>2. nodes[n].ifcs \in Seq(Index)
  BY <1>1 DEF NodeRecord
<1>3. nodes[n].ifcs \in Seq(Nat \ {0})
  BY <1>2 DEF Index
<1>4. QED
  BY <1>2, <1>3 DEF DefInv, Wired

LEMMA RouterOf ==
  ASSUME DefInv, NEW s \in DOMAIN subnets
  PROVE  /\ FindRouter(s) # 0 =>
              /\ FindRouter(s) \in DOMAIN nodes /\ Has(s, FindRouter(s)) /\ Forwards(FindRouter(s))
         /\ \A k \in DOMAIN nodes : Has(s, k) /\ nodes[k].type = "ROUTER" => FindRouter(s) # 0
<1>1. PICK members \in Seq(Index) : members = subnets[s].nodes
  BY Fields DEF DefInv
<1>2. /\ FirstOfType(members, "ROUTER") # 0 =>
           /\ FirstOfType(members, "ROUTER") \in ToSet(members) \cap DOMAIN nodes
           /\ nodes[FirstOfType(members, "ROUTER")].type = "ROUTER"
      /\ (\E n \in ToSet(members) \cap DOMAIN nodes : nodes[n].type = "ROUTER") =>
           FirstOfType(members, "ROUTER") # 0
  <2>1. Tables
    BY DEF DefInv
  <2>2. QED
    BY <2>1, FirstOfItsType
<1>3. FindRouter(s) = FirstOfType(members, "ROUTER")
  BY <1>1 DEF FindRouter
<1>4. QED
  BY <1>1, <1>2, <1>3 DEF Has, Forwards

LEMMA RouterHopsLead ==
  ASSUME DefInv, configured, NEW n \in DOMAIN nodes
  PROVE  /\ DOMAIN RouterHops(n) \subseteq {"default", "local"}
         /\ \A key \in DOMAIN RouterHops(n) : HopOf(n, RouterHops(n)[key])
         /\ \A s \in DOMAIN subnets : Has(s, n) /\ FindRouter(s) # 0 => Key(s) \in DOMAIN RouterHops(n)
<1>1. PICK ifcs \in Seq(Nat \ {0}) :
        ifcs = nodes[n].ifcs /\ ToSet(ifcs) = {s \in DOMAIN subnets : Has(s, n)}
  BY InterfacesOf
<1>2. ASSUME NEW key
      PROVE  /\ RoutedBy(n, key) # 0 =>
                  /\ RoutedBy(n, key) \in DOMAIN subnets /\ Has(RoutedBy(n, key), n)
                  /\ FindRouter(RoutedBy(n, key)) # 0
             /\ \A s \in DOMAIN subnets : Has(s, n) /\ Key(s) = key /\ FindRouter(s) # 0 =>
                  RoutedBy(n, key) # 0
  <2>1. PICK S : S = {s \in DOMAIN subnets : Key(s) = key /\ FindRouter(s) # 0}
    OBVIOUS
  <2>2. RoutedBy(n, key) = First(ifcs, S)
    BY <1>1, <2>1 DEF RoutedBy
  <2>3. /\ First(ifcs, S) = 0 <=> ToSet(ifcs) \cap S = {}
        /\ First(ifcs, S) # 0 => First(ifcs, S) \in ToSet(ifcs) \cap S
    BY FirstOfThose
  <2>4. QED
    BY <1>1, <2>1, <2>2, <2>3
<1>3. PICK hops : hops = RouterHops(n)
  OBVIOUS
<1>4. hops = [key \in {k \in {"default", "local"} : RoutedBy(n, k) # 0} |->
                Address(RoutedBy(n, key), FindRouter(RoutedBy(n, key)))]
  BY <1>3 DEF RouterHops, RoutedBy
<1>5. /\ DOMAIN hops = {k \in {"default", "local"} : RoutedBy(n, k) # 0}
      /\ \A key \in DOMAIN hops : hops[key] = Address(RoutedBy(n, key), FindRouter(RoutedBy(n, key)))
  BY <1>4
<1>6. ASSUME NEW key \in DOMAIN hops PROVE HopOf(n, hops[key])
  <2>1. RoutedBy(n, key) \in DOMAIN subnets /\ Has(RoutedBy(n, key), n) /\ FindRouter(RoutedBy(n, key)) # 0
    BY <1>2, <1>5
  <2>2. PICK s \in DOMAIN subnets : s = RoutedBy(n, key)
    BY <2>1
  <2>3. FindRouter(s) \in DOMAIN nodes /\ Has(s, FindRouter(s)) /\ Forwards(FindRouter(s))
    BY <2>1, <2>2, RouterOf
  <2>4. QED
    BY <1>5, <2>1, <2>2, <2>3 DEF HopOf
<1>7. \A s \in DOMAIN subnets : Has(s, n) /\ FindRouter(s) # 0 => Key(s) \in DOMAIN hops
  BY <1>2, <1>5 DEF Key
<1>8. QED
  BY <1>3, <1>5, <1>6, <1>7

LEMMA GatewayHopsLead ==
  ASSUME DefInv, configured, NEW n \in DOMAIN nodes
  PROVE  /\ DOMAIN GatewayHops(n) \subseteq {"default"}
         /\ \A key \in DOMAIN GatewayHops(n) : HopOf(n, GatewayHops(n)[key])
         /\ \A s \in DOMAIN subnets : Has(s, n) /\ subnets[s].gateway \notin {NoGateway, n} =>
              "default" \in DOMAIN GatewayHops(n)
<1>1. PICK ifcs \in Seq(Index) :
        ifcs = nodes[n].ifcs /\ ToSet(ifcs) = {s \in DOMAIN subnets : Has(s, n)}
  BY InterfacesOf
<1>2. PICK S : S = {s \in DOMAIN subnets : subnets[s].gateway \notin {NoGateway, n}}
  OBVIOUS
<1>3. PICK gated \in Seq(Index) : gated = Gated(n) /\ ToSet(gated) = ToSet(ifcs) \cap S
  <2>1. Gated(n) = Only(ifcs, S)
    BY <1>1, <1>2 DEF Gated
  <2>2. QED
    BY <2>1, OnlyThose
<1>4. GatewayHops(n) = IF gated = <<>> THEN <<>>
                       ELSE [key \in {"default"} |-> Address(Last(gated), subnets[Last(gated)].gateway)]
  BY <1>3 DEF GatewayHops, Gated
<1>5. CASE gated = <<>>
  <2>1. GatewayHops(n) = <<>> /\ DOMAIN <<>> = {}
    BY <1>4, <1>5
  <2>2. ToSet(gated) = {}
    BY <1>5 DEF ToSet
  <2>3. QED
    BY <1>1, <1>2, <1>3, <2>1, <2>2
<1>6. CASE gated # <<>>
  <2>1. PICK s \in DOMAIN subnets : s = Last(gated) /\ Has(s, n) /\ subnets[s].gateway \notin {NoGateway, n}
    <3>1. Last(gated) \in ToSet(gated)
      BY <1>6, LastOfThose
    <3>2. QED
      BY <1>1, <1>2, <1>3, <3>1
  <2>2. /\ DOMAIN GatewayHops(n) = {"default"}
        /\ GatewayHops(n)["default"] = Address(s, subnets[s].gateway)
    BY <1>4, <1>6, <2>1
  <2>3. PICK g : g = subnets[s].gateway
    OBVIOUS
  <2>4. Has(s, g) /\ Forwards(g) /\ g \in DOMAIN nodes
    <3>1. g \in ToSet(subnets[s].nodes) /\ Forwards(g)
      BY <2>1, <2>3 DEF DefInv, SubnetsPlaced, Placed
    <3>2. ToSet(subnets[s].nodes) \subseteq DOMAIN nodes
      BY DEF DefInv, SubnetsPlaced, Placed, NetworksNested
    <3>3. QED
      BY <3>1, <3>2 DEF Has
  <2>5. QED
    BY <2>1, <2>2, <2>3, <2>4 DEF HopOf
<1>7. QED
  BY <1>5, <1>6

\* Every route leads to a neighbour that forwards; a router or another gateway in one of
\* the node's subnets makes a default route.
LEMMA RoutesLead ==
  ASSUME DefInv, configured, NEW n \in DOMAIN nodes
  PROVE  /\ \A key \in DOMAIN Routes(n) : HopOf(n, Routes(n)[key])
         /\ \A s \in DOMAIN subnets :
              Has(s, n) /\ (FindRouter(s) # 0 \/ subnets[s].gateway \notin {NoGateway, n}) =>
                "default" \in DOMAIN Routes(n)
<1>1. PICK f : f = GatewayHops(n)
  OBVIOUS
<1>2. PICK g : g = RouterHops(n)
  OBVIOUS
<1>3. /\ DOMAIN f \subseteq {"default"} /\ \A key \in DOMAIN f : HopOf(n, f[key])
      /\ \A s \in DOMAIN subnets : Has(s, n) /\ subnets[s].gateway \notin {NoGateway, n} =>
           "default" \in DOMAIN f
  BY <1>1, GatewayHopsLead
<1>4. /\ DOMAIN g \subseteq {"default", "local"} /\ \A key \in DOMAIN g : HopOf(n, g[key])
      /\ \A s \in DOMAIN subnets : Has(s, n) /\ FindRouter(s) # 0 => Key(s) \in DOMAIN g
  BY <1>2, RouterHopsLead
<1>5. PICK hops : hops = AllHops(n)
  OBVIOUS
<1>6. hops = [x \in (DOMAIN f) \cup (DOMAIN g) |-> IF x \in DOMAIN f THEN f[x] ELSE g[x]]
  BY <1>1, <1>2, <1>5 DEF AllHops
<1>7. DOMAIN hops = (DOMAIN f) \cup (DOMAIN g) /\ \A key \in DOMAIN hops : HopOf(n, hops[key])
  BY <1>3, <1>4, <1>6
<1>8. PICK routes : routes = Routes(n)
  OBVIOUS
<1>9. routes = IF DOMAIN hops = {"local"} THEN [key \in {"default"} |-> hops["local"]] ELSE hops
  BY <1>5, <1>8 DEF Routes
<1>10. \A key \in DOMAIN routes : HopOf(n, routes[key])
  BY <1>7, <1>9
<1>11. ASSUME DOMAIN hops # {} PROVE "default" \in DOMAIN routes
  <2>1. DOMAIN hops \subseteq {"default", "local"}
    BY <1>3, <1>4, <1>7
  <2>2. CASE DOMAIN hops = {"local"}
    BY <1>9, <2>2
  <2>3. CASE DOMAIN hops # {"local"}
    <3>1. "default" \in DOMAIN hops
      BY <1>11, <2>1, <2>3
    <3>2. QED
      BY <1>9, <2>3, <3>1
  <2>4. QED
    BY <2>2, <2>3
<1>12. ASSUME NEW s \in DOMAIN subnets, Has(s, n), FindRouter(s) # 0 \/ subnets[s].gateway \notin {NoGateway, n}
       PROVE  "default" \in DOMAIN routes
  <2>1. DOMAIN f # {} \/ DOMAIN g # {}
    BY <1>3, <1>4, <1>12
  <2>2. QED
    BY <1>7, <1>11, <2>1
<1>13. QED
  BY <1>8, <1>10, <1>12

LEMMA DefinedRouted == DefInv => HostsRouted
<1>1. SUFFICES ASSUME DefInv, Sane, NEW n \in DOMAIN nodes, ~EntryOf(n).router
               PROVE  /\ (\E s \in DOMAIN subnets, k \in DOMAIN nodes :
                            /\ Has(s, n) /\ Has(s, k)
                            /\ nodes[k].type = "ROUTER" \/ k = nets[subnets[s].net].gateway)
                           => "default" \in DOMAIN EntryOf(n).routes
                      /\ \A key \in DOMAIN EntryOf(n).routes :
                           \E f \in Entries \ {EntryOf(n)} :
                             /\ EntryOf(n).routes[key] \in Addresses(f) /\ f.router
                             /\ \E a \in Addresses(EntryOf(n)) : a[1] = EntryOf(n).routes[key][1]
  BY DEF HostsRouted
<1>2. \A k \in DOMAIN nodes : EntryOf(k) \in Entries /\ \E nat \in Nat : EntryOf(k) = Entry(k, nat)
  BY <1>1, WrittenEntries
<1>3. \A k \in DOMAIN nodes : EntryOf(k).router = Forwards(k) /\ EntryOf(k).routes = Routes(k)
  BY <1>2, EntryFields
<1>4. ~Forwards(n) /\ EntryOf(n).routes = Routes(n)
  BY <1>1, <1>3
<1>5. \A k \in DOMAIN nodes : \A s \in DOMAIN subnets : Has(s, k) => Address(s, k) \in Addresses(EntryOf(k))
  <2>1. \A k \in DOMAIN nodes :
          Addresses(EntryOf(k)) = {Address(s, k) : s \in {t \in DOMAIN subnets : Has(t, k)}}
    BY <1>1, <1>2, EntryAddresses
  <2>2. QED
    BY <2>1
<1>6. configured
  BY <1>1, SaneLab
<1>7. ASSUME NEW s \in DOMAIN subnets, NEW k \in DOMAIN nodes, Has(s, n), Has(s, k),
             nodes[k].type = "ROUTER" \/ k = nets[subnets[s].net].gateway
      PROVE  "default" \in DOMAIN Routes(n)
  <2>1. CASE nodes[k].type = "ROUTER"
    BY <1>1, <1>6, <1>7, <2>1, RouterOf, RoutesLead
  <2>2. CASE k = nets[subnets[s].net].gateway
    <3>1. subnets[s].gateway # NoGateway /\ Forwards(subnets[s].gateway)
      BY <1>1, <1>7, <2>2 DEF DefInv, SubnetsPlaced, Placed, Has
    <3>2. subnets[s].gateway \notin {NoGateway, n}
      BY <1>4, <3>1
    <3>3. QED
      BY <1>1, <1>6, <1>7, <3>2, RoutesLead
  <2>3. QED
    BY <1>7, <2>1, <2>2
<1>8. ASSUME NEW key \in DOMAIN Routes(n)
      PROVE  \E f \in Entries \ {EntryOf(n)} :
               /\ Routes(n)[key] \in Addresses(f) /\ f.router
               /\ \E a \in Addresses(EntryOf(n)) : a[1] = Routes(n)[key][1]
  <2>1. PICK s \in DOMAIN subnets, r \in DOMAIN nodes :
          Routes(n)[key] = Address(s, r) /\ Has(s, n) /\ Has(s, r) /\ Forwards(r)
    BY <1>1, <1>6, RoutesLead DEF HopOf
  <2>2. EntryOf(r) \in Entries /\ EntryOf(r).router
    BY <1>2, <1>3, <2>1
  <2>3. EntryOf(r) # EntryOf(n)
    BY <1>1, <2>2
  <2>4. Routes(n)[key] \in Addresses(EntryOf(r)) /\ Address(s, n) \in Addresses(EntryOf(n))
    BY <1>5, <2>1
  <2>5. Address(s, n)[1] = Routes(n)[key][1]
    BY <2>1 DEF Address
  <2>6. QED
    BY <2>2, <2>3, <2>4, <2>5
<1>9. QED
  BY <1>4, <1>7, <1>8

\* A host that shares a subnet with a router or with the gateway of its network has a
\* default route, and each of its routes leads to a neighbour that forwards, however the
\* overlays and the local networks were made.
THEOREM LabRouted == Spec => []HostsRouted
<1>1. Spec => []DefInv
  BY LabDefined
<1>2. DefInv => HostsRouted
  BY DefinedRouted
<1>3. QED
  BY <1>1, <1>2, PTL

\* The overlays that are rendered, each once.
LEMMA OverlaysListed ==
  ASSUME DefInv, Sane
  PROVE  /\ RenderedOverlays \in Seq(Index) /\ IsInjective(RenderedOverlays)
         /\ ToSet(RenderedOverlays) = DOMAIN overlays
<1>1. PICK rendered \in Seq(Index) :
        rendered = Rendered /\ IsInjective(rendered) /\ ToSet(rendered) = DOMAIN nets
  BY RenderedNets, SaneLab DEF DefInv
<1>2. \A m : /\ OverlaysOf(m) \in Seq(Index) /\ IsInjective(OverlaysOf(m))
             /\ ToSet(OverlaysOf(m)) = {o \in DOMAIN overlays : overlays[o].net = m}
  BY Listed DEF DefInv
<1>3. PICK q \in Seq(Seq(Index)) :
        /\ DOMAIN q = DOMAIN rendered /\ RenderedOverlays = FlattenSeq(q)
        /\ \A i \in DOMAIN rendered : q[i] = OverlaysOf(rendered[i])
  <2>1. DOMAIN rendered = 1..Len(rendered) /\ Len(rendered) \in Nat
    OBVIOUS
  <2>2. [i \in DOMAIN rendered |-> OverlaysOf(rendered[i])] \in Seq(Seq(Index))
    BY <1>2, <2>1
  <2>3. RenderedOverlays = FlattenSeq([i \in DOMAIN rendered |-> OverlaysOf(rendered[i])])
    BY <1>1 DEF RenderedOverlays
  <2>4. QED
    BY <2>2, <2>3
<1>4. /\ FlattenSeq(q) \in Seq(Index)
      /\ \A x : x \in ToSet(FlattenSeq(q)) <=> \E i \in DOMAIN q : x \in ToSet(q[i])
  BY FlatSet
<1>5. IsInjective(FlattenSeq(q))
  <2>1. \A i \in DOMAIN q : IsInjective(q[i])
    BY <1>2, <1>3
  <2>2. ASSUME NEW i \in DOMAIN q, NEW j \in DOMAIN q, i # j PROVE ToSet(q[i]) \cap ToSet(q[j]) = {}
    <3>1. rendered[i] # rendered[j]
      BY <1>1, <1>3, <2>2 DEF IsInjective
    <3>2. QED
      BY <1>2, <1>3, <3>1
  <2>3. QED
    BY <2>1, <2>2, FlatInjective
<1>6. \A o : o \in ToSet(FlattenSeq(q)) <=> o \in DOMAIN overlays
  <2>1. \A o : \A i \in DOMAIN q : o \in ToSet(q[i]) <=> o \in DOMAIN overlays /\ overlays[o].net = rendered[i]
    BY <1>2, <1>3
  <2>2. \A o \in DOMAIN overlays : \E i \in DOMAIN q : overlays[o].net = rendered[i]
    <3>1. \A o \in DOMAIN overlays : overlays[o].net \in ToSet(rendered)
      BY <1>1 DEF DefInv, OverlaysApart
    <3>2. QED
      BY <1>3, <3>1 DEF ToSet
  <2>3. QED
    BY <1>4, <2>1, <2>2
<1>7. QED
  BY <1>3, <1>4, <1>5, <1>6

\* A node runs one daemon for each overlay that it is in.
LEMMA DaemonsOf ==
  ASSUME DefInv, Sane, NEW n
  PROVE  \E joined \in Seq(Index) :
           /\ IsInjective(joined) /\ DOMAIN Daemons(n) = DOMAIN joined
           /\ ToSet(joined) = {o \in DOMAIN overlays : n \in ToSet(overlays[o].nodes)}
           /\ \A i \in DOMAIN joined :
                /\ Daemons(n)[i].protocol = overlays[joined[i]].protocol
                /\ Daemons(n)[i].announced = overlays[joined[i]].announced[n]
                /\ Daemons(n)[i].redistributed =
                     {p \in Protocols \ {overlays[joined[i]].protocol} : InOverlay(n, p)}
<1>1. PICK all \in Seq(Index) :
        all = RenderedOverlays /\ IsInjective(all) /\ ToSet(all) = DOMAIN overlays
  BY OverlaysListed
<1>2. PICK S : S = {o \in DOMAIN overlays : n \in ToSet(overlays[o].nodes)}
  OBVIOUS
<1>3. PICK joined \in Seq(Index) :
        joined = Only(all, S) /\ IsInjective(joined) /\ ToSet(joined) = ToSet(all) \cap S
  <2>1. /\ Only(all, S) \in Seq(Index) /\ ToSet(Only(all, S)) = ToSet(all) \cap S
        /\ IsInjective(all) => IsInjective(Only(all, S))
    BY OnlyThose
  <2>2. QED
    BY <1>1, <2>1
<1>4. Daemons(n) =
        [i \in DOMAIN joined |->
          [protocol |-> overlays[joined[i]].protocol,
           announced |-> overlays[joined[i]].announced[n],
           redistributed |-> {p \in Protocols \ {overlays[joined[i]].protocol} : InOverlay(n, p)}]]
  BY <1>1, <1>2, <1>3 DEF Daemons
<1>5. /\ IsInjective(joined) /\ DOMAIN Daemons(n) = DOMAIN joined
      /\ ToSet(joined) = {o \in DOMAIN overlays : n \in ToSet(overlays[o].nodes)}
  BY <1>1, <1>2, <1>3, <1>4
<1>6. ASSUME NEW i \in DOMAIN joined
      PROVE  /\ Daemons(n)[i].protocol = overlays[joined[i]].protocol
             /\ Daemons(n)[i].announced = overlays[joined[i]].announced[n]
             /\ Daemons(n)[i].redistributed =
                  {p \in Protocols \ {overlays[joined[i]].protocol} : InOverlay(n, p)}
  BY <1>4
<1>7. QED
  BY <1>5, <1>6

LEMMA DefinedAgree == DefInv => OverlaysAgree
<1>1. SUFFICES ASSUME DefInv, Sane, NEW o \in DOMAIN overlays, NEW n \in ToSet(overlays[o].nodes)
               PROVE  \E i \in DOMAIN EntryOf(n).daemons :
                        /\ EntryOf(n).daemons[i].protocol = overlays[o].protocol
                        /\ \A s \in DOMAIN subnets, k \in ToSet(overlays[o].nodes) \ {n} :
                             Has(s, n) /\ Has(s, k) /\ subnets[s].net = overlays[o].net =>
                               s \in EntryOf(n).daemons[i].announced
                        /\ EntryOf(n).daemons[i].redistributed =
                             {EntryOf(n).daemons[j].protocol : j \in DOMAIN EntryOf(n).daemons \ {i}}
  BY DEF OverlaysAgree
<1>2. n \in DOMAIN nodes
  BY <1>1 DEF DefInv, OverlaysApart
<1>3. PICK daemons : daemons = Daemons(n)
  OBVIOUS
<1>4. EntryOf(n).daemons = daemons
  <2>1. PICK nat \in Nat : EntryOf(n) = Entry(n, nat)
    BY <1>1, <1>2, WrittenEntries
  <2>2. QED
    BY <1>3, <2>1, EntryFields
<1>5. PICK joined \in Seq(Index) :
        /\ IsInjective(joined) /\ DOMAIN daemons = DOMAIN joined
        /\ ToSet(joined) = {p \in DOMAIN overlays : n \in ToSet(overlays[p].nodes)}
        /\ \A i \in DOMAIN joined :
             /\ daemons[i].protocol = overlays[joined[i]].protocol
             /\ daemons[i].announced = overlays[joined[i]].announced[n]
             /\ daemons[i].redistributed =
                  {p \in Protocols \ {overlays[joined[i]].protocol} : InOverlay(n, p)}
  BY <1>1, <1>3, DaemonsOf
<1>6. \A j \in DOMAIN joined : joined[j] \in DOMAIN overlays /\ n \in ToSet(overlays[joined[j]].nodes)
  BY <1>5 DEF ToSet
<1>7. \A p \in DOMAIN overlays : n \in ToSet(overlays[p].nodes) => \E j \in DOMAIN joined : joined[j] = p
  BY <1>5 DEF ToSet
<1>8. PICK i \in DOMAIN joined : joined[i] = o
  BY <1>1, <1>7
<1>9. daemons[i].protocol = overlays[o].protocol
  BY <1>5, <1>8
<1>10. ASSUME NEW s \in DOMAIN subnets, NEW k \in ToSet(overlays[o].nodes) \ {n},
              Has(s, n), Has(s, k), subnets[s].net = overlays[o].net
       PROVE  s \in daemons[i].announced
  <2>1. s \in Shared(o, n)
    BY <1>10 DEF Shared
  <2>2. Shared(o, n) \subseteq overlays[o].announced[n]
    BY <1>1, SaneLab DEF DefInv, Wired
  <2>3. QED
    BY <1>5, <1>8, <2>1, <2>2
<1>11. daemons[i].redistributed = {daemons[j].protocol : j \in DOMAIN daemons \ {i}}
  <2>1. daemons[i].redistributed = {p \in Protocols \ {overlays[o].protocol} : InOverlay(n, p)}
    BY <1>5, <1>8
  <2>2. ASSUME NEW p \in Protocols, p # overlays[o].protocol, InOverlay(n, p)
        PROVE  \E j \in DOMAIN daemons \ {i} : daemons[j].protocol = p
    <3>1. PICK x \in DOMAIN overlays : overlays[x].protocol = p /\ n \in ToSet(overlays[x].nodes)
      BY <2>2 DEF InOverlay, ToSet
    <3>2. PICK j \in DOMAIN joined : joined[j] = x
      BY <1>7, <3>1
    <3>3. j # i
      BY <1>8, <2>2, <3>1, <3>2
    <3>4. QED
      BY <1>5, <3>1, <3>2, <3>3
  <2>3. ASSUME NEW j \in DOMAIN daemons, j # i
        PROVE  /\ daemons[j].protocol \in Protocols /\ daemons[j].protocol # overlays[o].protocol
               /\ InOverlay(n, daemons[j].protocol)
    <3>1. PICK x \in DOMAIN overlays : x = joined[j] /\ n \in ToSet(overlays[x].nodes)
      BY <1>5, <1>6
    <3>2. x # o
      BY <1>5, <1>8, <2>3, <3>1 DEF IsInjective
    <3>3. overlays[x].protocol # overlays[o].protocol
      BY <1>1, <3>1, <3>2 DEF DefInv, OverlaysApart
    <3>4. daemons[j].protocol = overlays[x].protocol
      BY <1>5, <2>3, <3>1
    <3>5. overlays[x].protocol \in Protocols
      BY <1>1, Fields DEF DefInv
    <3>6. InOverlay(n, overlays[x].protocol)
      BY <3>1 DEF InOverlay, ToSet
    <3>7. QED
      BY <3>3, <3>4, <3>5, <3>6
  <2>4. QED
    BY <2>1, <2>2, <2>3
<1>12. i \in DOMAIN daemons
  BY <1>5
<1>13. QED
  BY <1>4, <1>9, <1>10, <1>11, <1>12

\* Two nodes of one overlay that share a subnet of its network both run its daemon and
\* announce the subnet, and a node with two daemons has each redistribute the routes of
\* the other, in whatever order networks were made and configured.
THEOREM LabAgrees == Spec => []OverlaysAgree
<1>1. Spec => []DefInv
  BY LabDefined
<1>2. DefInv => OverlaysAgree
  BY DefinedAgree
<1>3. QED
  BY <1>1, <1>2, PTL

-----------------------------------------------------------------------------
\* The graph of a lab.

\* Two sequences, one after the other.
LEMMA Joined ==
  ASSUME NEW X, NEW s \in Seq(X), NEW t \in Seq(X)
  PROVE  /\ s \o t \in Seq(X) /\ Len(s \o t) = Len(s) + Len(t)
         /\ ToSet(s \o t) = ToSet(s) \cup ToSet(t)
         /\ IsInjective(s) /\ IsInjective(t) /\ ToSet(s) \cap ToSet(t) = {} => IsInjective(s \o t)
<1>1. PICK u \in Seq(X) : u = s \o t
  <2>1. s \o t \in Seq(X)
    OBVIOUS
  <2>2. QED
    BY <2>1
<1>2. PICK k \in Nat : k = Len(s)
  OBVIOUS
<1>3. PICK l \in Nat : l = Len(t)
  OBVIOUS
<1>4. /\ DOMAIN s = 1..k /\ DOMAIN t = 1..l /\ DOMAIN u = 1..(k + l) /\ Len(u) = k + l
      /\ \A i \in 1..k : u[i] = s[i]
      /\ \A i \in 1..(k + l) : i > k => u[i] = t[i - k]
  BY <1>1, <1>2, <1>3
<1>5. \A i \in 1..(k + l) : i > k => i - k \in 1..l
  OBVIOUS
<1>6. \A i \in 1..l : i + k \in 1..(k + l) /\ i + k > k /\ (i + k) - k = i
  OBVIOUS
<1>7. \A i \in 1..k : i \in 1..(k + l)
  OBVIOUS
<1>8. ToSet(u) = ToSet(s) \cup ToSet(t)
  <2>1. ASSUME NEW i \in DOMAIN u PROVE u[i] \in ToSet(s) \cup ToSet(t)
    <3>1. CASE i \in 1..k
      BY <1>4, <3>1 DEF ToSet
    <3>2. CASE i \notin 1..k
      <4>1. i > k /\ i \in 1..(k + l)
        BY <1>4, <3>2
      <4>2. u[i] = t[i - k] /\ i - k \in DOMAIN t
        BY <1>4, <1>5, <4>1
      <4>3. QED
        BY <4>2 DEF ToSet
    <3>3. QED
      BY <3>1, <3>2
  <2>2. ASSUME NEW i \in DOMAIN s PROVE s[i] \in ToSet(u)
    BY <1>4, <1>7 DEF ToSet
  <2>3. ASSUME NEW i \in DOMAIN t PROVE t[i] \in ToSet(u)
    <3>1. i + k \in DOMAIN u /\ u[i + k] = t[i]
      BY <1>4, <1>6
    <3>2. QED
      BY <3>1 DEF ToSet
  <2>4. QED
    BY <2>1, <2>2, <2>3 DEF ToSet
<1>9. ASSUME IsInjective(s), IsInjective(t), ToSet(s) \cap ToSet(t) = {}
      PROVE  IsInjective(u)
  <2>1. \A i \in 1..k, j \in 1..l : s[i] # t[j]
    BY <1>4, <1>9 DEF ToSet
  <2>2. SUFFICES ASSUME NEW i \in DOMAIN u, NEW j \in DOMAIN u, u[i] = u[j] PROVE i = j
    BY DEF IsInjective
  <2>3. i \in 1..(k + l) /\ j \in 1..(k + l)
    BY <1>4
  <2>4. CASE i > k /\ j > k
    <3>1. i - k \in 1..l /\ j - k \in 1..l
      BY <1>5, <2>3, <2>4
    <3>2. t[i - k] = t[j - k]
      BY <1>4, <2>2, <2>3, <2>4
    <3>3. i - k = j - k
      BY <1>4, <1>9, <3>1, <3>2 DEF IsInjective
    <3>4. QED
      BY <2>3, <3>3
  <2>5. CASE ~(i > k) /\ ~(j > k)
    <3>1. i \in 1..k /\ j \in 1..k
      BY <2>3, <2>5
    <3>2. QED
      BY <1>4, <1>9, <2>2, <3>1 DEF IsInjective
  <2>6. CASE i > k /\ ~(j > k)
    <3>1. i - k \in 1..l /\ j \in 1..k
      BY <1>5, <2>3, <2>6
    <3>2. QED
      BY <1>4, <2>1, <2>2, <2>3, <2>6, <3>1
  <2>7. CASE ~(i > k) /\ j > k
    <3>1. i \in 1..k /\ j - k \in 1..l
      BY <1>5, <2>3, <2>7
    <3>2. QED
      BY <1>4, <2>1, <2>2, <2>3, <2>7, <3>1
  <2>8. QED
    BY <2>4, <2>5, <2>6, <2>7
<1>10. QED
  BY <1>1, <1>2, <1>3, <1>4, <1>8, <1>9

\* A sequence without repetition is as long as the set of its elements is large.
LEMMA InjectiveLength ==
  ASSUME NEW X, NEW s \in Seq(X), IsInjective(s)
  PROVE  IsFiniteSet(ToSet(s)) /\ Cardinality(ToSet(s)) = Len(s)
<1>1. Len(s) \in Nat /\ DOMAIN s = 1..Len(s)
  OBVIOUS
<1>2. s \in [1..Len(s) -> ToSet(s)]
  <2>1. s = [i \in 1..Len(s) |-> s[i]]
    OBVIOUS
  <2>2. \A i \in 1..Len(s) : s[i] \in ToSet(s)
    BY <1>1 DEF ToSet
  <2>3. QED
    BY <2>1, <2>2
<1>3. s \in Bijection(1..Len(s), ToSet(s))
  <2>1. s \in Injection(1..Len(s), ToSet(s))
    BY <1>2 DEF Injection
  <2>2. \A x \in ToSet(s) : \E i \in 1..Len(s) : s[i] = x
    BY <1>1 DEF ToSet
  <2>3. QED
    BY <1>2, <2>1, <2>2 DEF Bijection, Surjection
<1>4. ExistsBijection(1..Len(s), ToSet(s))
  BY <1>3 DEF ExistsBijection
<1>5. QED
  BY <1>1, <1>4, FS_NatBijection, FS_CountingElements

\* The elements of a sequence are finitely many.
LEMMA FiniteElements ==
  ASSUME NEW X, NEW s \in Seq(X)
  PROVE  IsFiniteSet(ToSet(s))
<1>1. Len(s) \in Nat /\ DOMAIN s = 1..Len(s)
  OBVIOUS
<1>2. s \in [1..Len(s) -> ToSet(s)]
  <2>1. s = [i \in 1..Len(s) |-> s[i]]
    OBVIOUS
  <2>2. \A i \in 1..Len(s) : s[i] \in ToSet(s)
    BY <1>1 DEF ToSet
  <2>3. QED
    BY <2>1, <2>2
<1>3. \A x \in ToSet(s) : \E i \in 1..Len(s) : s[i] = x
  BY <1>1 DEF ToSet
<1>4. ExistsSurjection(1..Len(s), ToSet(s))
  BY <1>2, <1>3 DEF ExistsSurjection, Surjection
<1>5. QED
  BY <1>1, <1>4, FS_NatSurjection

\* SetToSeq lists a finite set, each element once.
LEMMA Enumerated ==
  ASSUME NEW S, IsFiniteSet(S)
  PROVE  /\ SetToSeq(S) \in Seq(S) /\ IsInjective(SetToSeq(S)) /\ ToSet(SetToSeq(S)) = S
         /\ Len(SetToSeq(S)) = Cardinality(S)
<1>1. PICK n \in Nat : n = Cardinality(S) /\ ExistsBijection(1..n, S)
  BY FS_CardinalityType
<1>2. \E f \in [1..n -> S] : IsInjective(f)
  BY <1>1 DEF ExistsBijection, Bijection, Injection
<1>3. PICK f \in [1..n -> S] : f = SetToSeq(S) /\ IsInjective(f)
  BY <1>1, <1>2 DEF SetToSeq
<1>4. f \in Seq(S) /\ Len(f) = n /\ DOMAIN f = 1..n
  OBVIOUS
<1>5. f \in Surjection(1..n, S)
  <2>1. f \in Injection(1..n, S)
    BY <1>3 DEF Injection
  <2>2. IsFiniteSet(1..n) /\ Cardinality(1..n) = n
    <3>1. 1 \in Int /\ n \in Int /\ (n >= 1 \/ n = 0)
      OBVIOUS
    <3>2. IsFiniteSet(1..n) /\ Cardinality(1..n) = IF 1 > n THEN 0 ELSE n - 1 + 1
      BY <3>1, FS_Interval
    <3>3. QED
      BY <3>1, <3>2
  <2>3. QED
    BY <1>1, <2>1, <2>2, FS_Injection
<1>6. ToSet(f) = S
  BY <1>4, <1>5 DEF Surjection, ToSet
<1>7. QED
  BY <1>1, <1>3, <1>4, <1>6

\* The drawing, visit by visit.
LEMMA DrawingSteps ==
  ASSUME NEW start, NEW visits, Len(visits) \in Nat
  PROVE  \E graph : /\ graph[0] = start /\ Drawing(start, visits) = graph[Len(visits)]
                    /\ \A i \in 1..Len(visits) : graph[i] = Visit(graph[i - 1], visits[i])
<1>1. PICK N \in Nat : N = Len(visits)
  OBVIOUS
<1> DEFINE Steps(f, n) == [i \in 0..n |-> IF i = 0 THEN start ELSE Visit(f[i - 1], visits[i])]
<1> DEFINE T == {n \in Nat : \E f : f = Steps(f, n)}
<1>2. 0 \in T
  <2>1. [i \in 0..0 |-> start] = Steps([i \in 0..0 |-> start], 0)
    OBVIOUS
  <2>2. QED
    BY <2>1
<1>3. ASSUME NEW n \in T PROVE n + 1 \in T
  <2>1. PICK f : f = Steps(f, n)
    BY <1>3
  <2>2. PICK m : m = n + 1 /\ m \in Nat /\ m # 0 /\ m - 1 = n /\ n \in Nat
    BY <1>3
  <2>3. PICK g : g = [i \in 0..m |-> IF i = m THEN Visit(f[n], visits[m]) ELSE f[i]]
    OBVIOUS
  <2>4. \A i \in 0..m : i # m => i \in 0..n /\ (i # 0 => i - 1 \in 0..n /\ i - 1 \in 0..m /\ i - 1 # m)
    BY <2>2
  <2>5. n \in 0..n /\ n \in 0..m /\ n # m
    BY <2>2
  <2>6. \A i \in 0..n : f[i] = IF i = 0 THEN start ELSE Visit(f[i - 1], visits[i])
    BY <2>1
  <2>7. \A i \in 0..m : g[i] = IF i = 0 THEN start ELSE Visit(g[i - 1], visits[i])
    <3>1. g[m] = Visit(f[n], visits[m]) /\ f[n] = g[n] /\ m \in 0..m
      BY <2>2, <2>3, <2>5
    <3>2. ASSUME NEW i \in 0..m, i # m
          PROVE  g[i] = IF i = 0 THEN start ELSE Visit(g[i - 1], visits[i])
      <4>1. g[i] = f[i] /\ (i # 0 => g[i - 1] = f[i - 1])
        BY <2>3, <2>4, <3>2
      <4>2. QED
        BY <2>4, <2>6, <3>2, <4>1
    <3>3. QED
      BY <2>2, <3>1, <3>2
  <2>8. g = Steps(g, m)
    BY <2>3, <2>7
  <2>9. QED
    BY <2>2, <2>8
<1>4. N \in T
  <2>1. T \in SUBSET Nat
    OBVIOUS
  <2> HIDE DEF T
  <2>2. T = Nat
    BY <1>2, <1>3, <2>1, NatClosed
  <2>3. QED
    BY <2>2
<1>5. PICK graph : graph = CHOOSE f : f = Steps(f, N)
  OBVIOUS
<1>6. graph = Steps(graph, N)
  BY <1>4, <1>5
<1>7. Drawing(start, visits) = graph[N]
  BY <1>1, <1>5 DEF Drawing
<1>8. \A i \in 0..N : graph[i] = IF i = 0 THEN start ELSE Visit(graph[i - 1], visits[i])
  BY <1>6
<1>9. graph[0] = start
  BY <1>8
<1>10. \A i \in 1..N : i \in 0..N /\ i # 0
  OBVIOUS
<1>11. \A i \in 1..N : graph[i] = Visit(graph[i - 1], visits[i])
  BY <1>8, <1>10
<1>12. QED
  BY <1>1, <1>7, <1>9, <1>11

\* What has been drawn once the members met[x] of each network x have been visited: the
\* parts of a graph.
Ends == Seq(Nat)
Couple(S, a, b) == S = {a, b} /\ a # b
Many(S) == \E a, b, c \in S : a # b /\ a # c /\ b # c

FirstDrawn(first, met) ==
  /\ DOMAIN first = {x \in Nat : met[x] # {}}
  /\ \A x \in DOMAIN first : \/ \E a : met[x] = {a} /\ first[x] = <<a>>
                             \/ first[x] = <<>> /\ \E a, b \in met[x] : a # b
PossibleDrawn(possible, met) ==
  /\ DOMAIN possible = {x \in Nat : \E a, b : Couple(met[x], a, b)}
  /\ \A x \in DOMAIN possible : \E a, b : Couple(met[x], a, b) /\ possible[x] = <<a, b>>
NodesDrawn(drawn, names, met) ==
  /\ drawn \in Seq(Ends) /\ IsInjective(drawn)
  /\ \A y : y \in ToSet(drawn) <=> y \in names \/ \E x \in Nat : Many(met[x]) /\ y = PseudoNode(x)
EdgesDrawn(edges, met) ==
  /\ edges \in Seq(Ends \X Ends) /\ IsInjective(edges)
  /\ \A e : e \in ToSet(edges) <=>
       \E x \in Nat : Many(met[x]) /\ \E a \in met[x] : e = <<a, PseudoNode(x)>>

Drawn(g, names, met) ==
  \E first, possible, drawn, edges :
    /\ g = [first |-> first, possible |-> possible, nodes |-> drawn, edges |-> edges]
    /\ FirstDrawn(first, met) /\ PossibleDrawn(possible, met)
    /\ NodesDrawn(drawn, names, met) /\ EdgesDrawn(edges, met)

\* No node has a name that a network has in the graph.
LEMMA PseudoNodes ==
  /\ \A x \in Nat : PseudoNode(x) \in Ends /\ PseudoNode(x) \notin Names
  /\ \A x, y : PseudoNode(x) = PseudoNode(y) => x = y
  /\ Names \subseteq Ends
<1>1. \A x : DOMAIN PseudoNode(x) = 1..3 /\ PseudoNode(x)[3] = x
  BY DEF PseudoNode
<1>2. \A a \in Names : DOMAIN a = 1..1 \/ DOMAIN a = 1..2
  BY DEF Names
<1>3. 3 \in 1..3 /\ 3 \notin 1..1 /\ 3 \notin 1..2
  OBVIOUS
<1>4. \A x \in Nat : PseudoNode(x) \notin Names
  <2>1. 1..3 # 1..1 /\ 1..3 # 1..2
    BY <1>3
  <2>2. QED
    BY <1>1, <1>2, <2>1
<1>5. \A x \in Nat : PseudoNode(x) \in Seq(Nat)
  BY DEF PseudoNode
<1>6. ASSUME NEW a \in Names PROVE a \in Seq(Nat)
  <2>1. PICK k \in Nat : a \in [1..k -> Nat]
    BY DEF Names
  <2>2. QED
    BY <2>1
<1>7. ASSUME NEW x, NEW y, PseudoNode(x) = PseudoNode(y) PROVE x = y
  BY <1>1, <1>7
<1>8. Ends = Seq(Nat)
  BY DEF Ends
<1>9. QED
  BY <1>4, <1>5, <1>6, <1>7, <1>8

\* The first, the second, the third and every later member of a network.
Meeting(met, x, a) == [met EXCEPT ![x] = met[x] \cup {a}]

LEMMA FirstVisit ==
  ASSUME NEW met \in [Nat -> SUBSET Names], NEW x \in Nat, NEW a \in Names \ met[x],
         NEW first, FirstDrawn(first, met)
  PROVE  /\ met[x] = {} => FirstDrawn(With(first, x, <<a>>), Meeting(met, x, a))
         /\ met[x] # {} /\ first[x] # <<>> =>
              /\ \E b : met[x] = {b} /\ first[x] = <<b>>
              /\ FirstDrawn([first EXCEPT ![x] = <<>>], Meeting(met, x, a))
         /\ met[x] # {} /\ first[x] = <<>> =>
              /\ \E b, c \in met[x] : b # c
              /\ FirstDrawn(first, Meeting(met, x, a))
<1>1. PICK next \in [Nat -> SUBSET Names] :
        /\ next = Meeting(met, x, a) /\ next[x] = met[x] \cup {a}
        /\ \A y \in Nat : y # x => next[y] = met[y]
  <2>1. Meeting(met, x, a) \in [Nat -> SUBSET Names]
    BY DEF Meeting
  <2>2. QED
    BY <2>1 DEF Meeting
<1>2. /\ DOMAIN first = {y \in Nat : met[y] # {}}
      /\ \A y \in DOMAIN first : \/ \E b : met[y] = {b} /\ first[y] = <<b>>
                                 \/ first[y] = <<>> /\ \E b, c \in met[y] : b # c
  BY DEF FirstDrawn
<1>3. \A b : <<b>> # <<>>
  OBVIOUS
<1>4. ASSUME met[x] = {} PROVE FirstDrawn(With(first, x, <<a>>), next)
  <2>1. PICK f : f = With(first, x, <<a>>)
    OBVIOUS
  <2>2. /\ DOMAIN f = DOMAIN first \cup {x} /\ f[x] = <<a>>
        /\ \A y \in DOMAIN first : y # x => f[y] = first[y]
    BY <2>1 DEF With
  <2>3. next[x] = {a}
    BY <1>1, <1>4
  <2>4. DOMAIN f = {y \in Nat : next[y] # {}}
    BY <1>1, <1>2, <2>2, <2>3
  <2>5. ASSUME NEW y \in DOMAIN f
        PROVE  \/ \E b : next[y] = {b} /\ f[y] = <<b>>
               \/ f[y] = <<>> /\ \E b, c \in next[y] : b # c
    <3>1. CASE y = x
      BY <2>2, <2>3, <3>1
    <3>2. CASE y # x
      <4>1. y \in DOMAIN first /\ f[y] = first[y] /\ next[y] = met[y]
        BY <1>1, <1>2, <2>2, <2>5, <3>2
      <4>2. QED
        BY <1>2, <4>1
    <3>3. QED
      BY <3>1, <3>2
  <2>6. FirstDrawn(f, next)
    BY <2>4, <2>5 DEF FirstDrawn
  <2>7. QED
    BY <2>1, <2>6
<1>5. ASSUME met[x] # {}, first[x] # <<>>
      PROVE  (\E b : met[x] = {b} /\ first[x] = <<b>>) /\ FirstDrawn([first EXCEPT ![x] = <<>>], next)
  <2>1. PICK b : met[x] = {b} /\ first[x] = <<b>>
    BY <1>2, <1>5
  <2>2. next[x] = {a, b} /\ a # b
    BY <1>1, <2>1
  <2>3. PICK f : f = [first EXCEPT ![x] = <<>>]
    OBVIOUS
  <2>4. x \in DOMAIN first
    BY <1>2, <1>5
  <2>5. DOMAIN f = DOMAIN first /\ f[x] = <<>> /\ \A y \in DOMAIN first : y # x => f[y] = first[y]
    BY <2>3, <2>4
  <2>6. DOMAIN f = {y \in Nat : next[y] # {}}
    BY <1>1, <1>2, <2>2, <2>4, <2>5
  <2>7. ASSUME NEW y \in DOMAIN f
        PROVE  \/ \E c : next[y] = {c} /\ f[y] = <<c>>
               \/ f[y] = <<>> /\ \E c, d \in next[y] : c # d
    <3>1. CASE y = x
      BY <2>2, <2>5, <3>1
    <3>2. CASE y # x
      <4>1. y \in DOMAIN first /\ f[y] = first[y] /\ next[y] = met[y]
        BY <1>1, <1>2, <2>5, <2>7, <3>2
      <4>2. QED
        BY <1>2, <4>1
    <3>3. QED
      BY <3>1, <3>2
  <2>8. FirstDrawn(f, next)
    BY <2>6, <2>7 DEF FirstDrawn
  <2>9. QED
    BY <2>1, <2>3, <2>8
<1>6. ASSUME met[x] # {}, first[x] = <<>>
      PROVE  (\E b, c \in met[x] : b # c) /\ FirstDrawn(first, next)
  <2>1. x \in DOMAIN first
    BY <1>2, <1>6
  <2>2. PICK b, c \in met[x] : b # c
    BY <1>2, <1>3, <1>6, <2>1
  <2>3. DOMAIN first = {y \in Nat : next[y] # {}}
    BY <1>1, <1>2, <2>1
  <2>4. ASSUME NEW y \in DOMAIN first
        PROVE  \/ \E d : next[y] = {d} /\ first[y] = <<d>>
               \/ first[y] = <<>> /\ \E d, e \in next[y] : d # e
    <3>1. CASE y = x
      BY <1>1, <1>6, <2>2, <3>1
    <3>2. CASE y # x
      <4>1. next[y] = met[y]
        BY <1>1, <1>2, <2>4, <3>2
      <4>2. QED
        BY <1>2, <2>4, <4>1
    <3>3. QED
      BY <3>1, <3>2
  <2>5. QED
    BY <2>2, <2>3, <2>4 DEF FirstDrawn
<1>7. QED
  BY <1>1, <1>4, <1>5, <1>6

LEMMA Met ==
  ASSUME NEW met \in [Nat -> SUBSET Names], NEW x \in Nat, NEW a \in Names
  PROVE  /\ Meeting(met, x, a) \in [Nat -> SUBSET Names]
         /\ Meeting(met, x, a)[x] = met[x] \cup {a}
         /\ \A y \in Nat : y # x => Meeting(met, x, a)[y] = met[y]
BY DEF Meeting

LEMMA PossibleVisit ==
  ASSUME NEW met \in [Nat -> SUBSET Names], NEW x \in Nat, NEW a \in Names \ met[x],
         NEW possible, PossibleDrawn(possible, met)
  PROVE  /\ met[x] = {} => PossibleDrawn(possible, Meeting(met, x, a))
         /\ \A b : met[x] = {b} => PossibleDrawn(With(possible, x, <<b, a>>), Meeting(met, x, a))
         /\ x \in DOMAIN possible =>
              /\ \E b, c : Couple(met[x], b, c) /\ possible[x] = <<b, c>>
              /\ PossibleDrawn(Without(possible, x), Meeting(met, x, a))
         /\ x \notin DOMAIN possible /\ (\E b, c \in met[x] : b # c) =>
              Many(met[x]) /\ PossibleDrawn(possible, Meeting(met, x, a))
<1>1. PICK next \in [Nat -> SUBSET Names] :
        /\ next = Meeting(met, x, a) /\ next[x] = met[x] \cup {a}
        /\ \A y \in Nat : y # x => next[y] = met[y]
  BY Met
<1>2. /\ DOMAIN possible = {y \in Nat : \E b, c : Couple(met[y], b, c)}
      /\ \A y \in DOMAIN possible : \E b, c : Couple(met[y], b, c) /\ possible[y] = <<b, c>>
  BY DEF PossibleDrawn
<1>3. \A y \in Nat : y # x => \A b, c : Couple(next[y], b, c) <=> Couple(met[y], b, c)
  BY <1>1
<1>4. ASSUME ~\E b, c : Couple(met[x], b, c), ~\E b, c : Couple(next[x], b, c)
      PROVE  PossibleDrawn(possible, next)
  <2>1. x \notin DOMAIN possible
    BY <1>2, <1>4
  <2>2. DOMAIN possible = {y \in Nat : \E b, c : Couple(next[y], b, c)}
    BY <1>2, <1>3, <1>4, <2>1
  <2>3. \A y \in DOMAIN possible : \E b, c : Couple(next[y], b, c) /\ possible[y] = <<b, c>>
    BY <1>2, <1>3, <2>1
  <2>4. QED
    BY <2>2, <2>3 DEF PossibleDrawn
<1>5. CASE met[x] = {}
  <2>1. next[x] = {a}
    BY <1>1, <1>5
  <2>2. PossibleDrawn(possible, next)
    BY <1>4, <1>5, <2>1 DEF Couple
  <2>3. x \notin DOMAIN possible
    BY <1>2, <1>5 DEF Couple
  <2>4. QED
    BY <1>1, <1>5, <2>2, <2>3
<1>6. ASSUME NEW b, met[x] = {b} PROVE PossibleDrawn(With(possible, x, <<b, a>>), next)
  <2>1. Couple(next[x], b, a)
    BY <1>1, <1>6 DEF Couple
  <2>2. PICK p : p = With(possible, x, <<b, a>>)
    OBVIOUS
  <2>3. /\ DOMAIN p = DOMAIN possible \cup {x} /\ p[x] = <<b, a>>
        /\ \A y \in DOMAIN possible : y # x => p[y] = possible[y]
    BY <2>2 DEF With
  <2>4. DOMAIN p = {y \in Nat : \E c, d : Couple(next[y], c, d)}
    BY <1>2, <1>3, <2>1, <2>3
  <2>5. ASSUME NEW y \in DOMAIN p PROVE \E c, d : Couple(next[y], c, d) /\ p[y] = <<c, d>>
    <3>1. CASE y = x
      BY <2>1, <2>3, <3>1
    <3>2. CASE y # x
      <4>1. y \in DOMAIN possible /\ p[y] = possible[y] /\ y \in Nat
        BY <1>2, <2>3, <2>5, <3>2
      <4>2. PICK c, d : Couple(met[y], c, d) /\ possible[y] = <<c, d>>
        BY <1>2, <4>1
      <4>3. QED
        BY <1>3, <3>2, <4>1, <4>2
    <3>3. QED
      BY <3>1, <3>2
  <2>6. QED
    BY <2>2, <2>4, <2>5 DEF PossibleDrawn
<1>7. ASSUME x \in DOMAIN possible
      PROVE  /\ \E b, c : Couple(met[x], b, c) /\ possible[x] = <<b, c>>
             /\ PossibleDrawn(Without(possible, x), next)
  <2>1. PICK b, c : Couple(met[x], b, c) /\ possible[x] = <<b, c>>
    BY <1>2, <1>7
  <2>2. ~\E d, e : Couple(next[x], d, e)
    BY <1>1, <2>1 DEF Couple
  <2>3. PICK p : p = Without(possible, x)
    OBVIOUS
  <2>4. DOMAIN p = DOMAIN possible \ {x} /\ \A y \in DOMAIN p : p[y] = possible[y]
    BY <2>3 DEF Without
  <2>5. DOMAIN p = {y \in Nat : \E d, e : Couple(next[y], d, e)}
    BY <1>2, <1>3, <2>2, <2>4
  <2>6. \A y \in DOMAIN p : \E d, e : Couple(next[y], d, e) /\ p[y] = <<d, e>>
    BY <1>2, <1>3, <2>4
  <2>7. PossibleDrawn(p, next)
    BY <2>5, <2>6 DEF PossibleDrawn
  <2>8. QED
    BY <2>1, <2>3, <2>7
<1>8. ASSUME x \notin DOMAIN possible, NEW b \in met[x], NEW c \in met[x], b # c
      PROVE  Many(met[x]) /\ PossibleDrawn(possible, next)
  <2>1. met[x] # {b, c}
    BY <1>2, <1>8 DEF Couple
  <2>2. PICK d \in met[x] : d # b /\ d # c
    BY <2>1
  <2>3. Many(met[x])
    BY <1>8, <2>2 DEF Many
  <2>4. ~\E e, f : Couple(next[x], e, f)
    BY <1>1, <1>8, <2>2 DEF Couple
  <2>5. ~\E e, f : Couple(met[x], e, f)
    BY <1>2, <1>8
  <2>6. QED
    BY <1>4, <2>3, <2>4, <2>5
<1>9. met[x] = {} => PossibleDrawn(possible, next)
  BY <1>1, <1>5
<1>10. QED
  BY <1>1, <1>6, <1>7, <1>8, <1>9

LEMMA NodesVisit ==
  ASSUME NEW met \in [Nat -> SUBSET Names], NEW x \in Nat, NEW a \in Names \ met[x],
         NEW names \in SUBSET Names, NEW drawn, NodesDrawn(drawn, names, met)
  PROVE  /\ Many(met[x]) \/ ~Many(met[x] \cup {a}) => NodesDrawn(drawn, names, Meeting(met, x, a))
         /\ \A b, c : Couple(met[x], b, c) =>
              NodesDrawn(Append(drawn, PseudoNode(x)), names, Meeting(met, x, a))
<1>1. PICK next \in [Nat -> SUBSET Names] :
        /\ next = Meeting(met, x, a) /\ next[x] = met[x] \cup {a}
        /\ \A y \in Nat : y # x => next[y] = met[y]
  BY Met
<1>2. /\ drawn \in Seq(Ends) /\ IsInjective(drawn)
      /\ \A y : y \in ToSet(drawn) <=> y \in names \/ \E z \in Nat : Many(met[z]) /\ y = PseudoNode(z)
  BY DEF NodesDrawn
<1>3. Many(met[x]) => Many(next[x])
  BY <1>1 DEF Many
<1>4. ASSUME Many(met[x]) <=> Many(next[x]) PROVE NodesDrawn(drawn, names, next)
  <2>1. \A z \in Nat : Many(next[z]) <=> Many(met[z])
    BY <1>1, <1>4
  <2>2. QED
    BY <1>2, <2>1 DEF NodesDrawn
<1>5. ASSUME NEW b, NEW c, Couple(met[x], b, c)
      PROVE  NodesDrawn(Append(drawn, PseudoNode(x)), names, next)
  <2>1. ~Many(met[x]) /\ Many(next[x])
    <3>1. met[x] = {b, c} /\ next[x] = {a, b, c} /\ a # b /\ a # c /\ b # c
      BY <1>1, <1>5 DEF Couple
    <3>2. QED
      BY <3>1 DEF Many
  <2>2. PseudoNode(x) \in Ends /\ PseudoNode(x) \notin names
    BY PseudoNodes
  <2>3. PseudoNode(x) \notin ToSet(drawn)
    BY <1>2, <2>1, <2>2, PseudoNodes
  <2>4. /\ Append(drawn, PseudoNode(x)) \in Seq(Ends)
        /\ ToSet(Append(drawn, PseudoNode(x))) = ToSet(drawn) \cup {PseudoNode(x)}
    BY <1>2, <2>2, Appended
  <2>5. IsInjective(Append(drawn, PseudoNode(x)))
    <3>1. PICK p \in Ends : p = PseudoNode(x)
      BY <2>2
    <3>2. PICK t : t = Append(drawn, p)
      OBVIOUS
    <3>3. /\ DOMAIN t = DOMAIN drawn \cup {Len(drawn) + 1} /\ t[Len(drawn) + 1] = p
          /\ \A i \in DOMAIN drawn : t[i] = drawn[i]
      BY <1>2, <3>2, Appended
    <3>4. \A i \in DOMAIN drawn : drawn[i] # p
      BY <2>3, <3>1 DEF ToSet
    <3>5. IsInjective(t)
      BY <1>2, <3>3, <3>4 DEF IsInjective
    <3>6. QED
      BY <3>1, <3>2, <3>5
  <2>6. \A z \in Nat : Many(next[z]) <=> Many(met[z]) \/ z = x
    BY <1>1, <2>1
  <2>7. \A y : y \in ToSet(Append(drawn, PseudoNode(x))) <=>
          y \in names \/ \E z \in Nat : Many(next[z]) /\ y = PseudoNode(z)
    BY <1>2, <2>4, <2>6
  <2>8. QED
    BY <2>4, <2>5, <2>7 DEF NodesDrawn
<1>6. QED
  BY <1>1, <1>3, <1>4, <1>5

LEMMA EdgesVisit ==
  ASSUME NEW met \in [Nat -> SUBSET Names], NEW x \in Nat, NEW a \in Names \ met[x],
         NEW edges, EdgesDrawn(edges, met)
  PROVE  /\ ~Many(met[x] \cup {a}) => EdgesDrawn(edges, Meeting(met, x, a))
         /\ Many(met[x]) => EdgesDrawn(Append(edges, <<a, PseudoNode(x)>>), Meeting(met, x, a))
         /\ \A b, c : Couple(met[x], b, c) =>
              EdgesDrawn(edges \o <<<<b, PseudoNode(x)>>, <<c, PseudoNode(x)>>, <<a, PseudoNode(x)>>>>,
                         Meeting(met, x, a))
<1>1. PICK next \in [Nat -> SUBSET Names] :
        /\ next = Meeting(met, x, a) /\ next[x] = met[x] \cup {a}
        /\ \A y \in Nat : y # x => next[y] = met[y]
  BY Met
<1>2. /\ edges \in Seq(Ends \X Ends) /\ IsInjective(edges)
      /\ \A e : e \in ToSet(edges) <=>
           \E z \in Nat : Many(met[z]) /\ \E k \in met[z] : e = <<k, PseudoNode(z)>>
  BY DEF EdgesDrawn
<1>3. PICK P \in Ends : P = PseudoNode(x) /\ \A z \in Nat : PseudoNode(z) = P => z = x
  BY PseudoNodes
<1>4. Many(met[x]) => Many(next[x])
  BY <1>1 DEF Many
<1>5. ASSUME ~Many(next[x]) PROVE EdgesDrawn(edges, next)
  <2>1. \A z \in Nat : Many(next[z]) <=> Many(met[z])
    BY <1>1, <1>4, <1>5
  <2>2. \A z \in Nat : Many(met[z]) => next[z] = met[z]
    BY <1>1, <1>4, <1>5
  <2>3. QED
    BY <1>2, <2>1, <2>2 DEF EdgesDrawn
<1>6. ASSUME Many(next[x]), NEW t \in Seq(Ends \X Ends), IsInjective(t),
             \A e : e \in ToSet(t) <=> \E k \in next[x] : e = <<k, P>> /\ (Many(met[x]) => k \notin met[x])
      PROVE  EdgesDrawn(edges \o t, next)
  <2>1. ToSet(edges) \cap ToSet(t) = {}
    <3>1. SUFFICES ASSUME NEW e, e \in ToSet(edges), e \in ToSet(t) PROVE FALSE
      OBVIOUS
    <3>2. PICK z \in Nat : Many(met[z]) /\ \E k \in met[z] : e = <<k, PseudoNode(z)>>
      BY <1>2, <3>1
    <3>3. PICK k \in met[z] : e = <<k, PseudoNode(z)>>
      BY <3>2
    <3>4. PICK l \in next[x] : e = <<l, P>> /\ (Many(met[x]) => l \notin met[x])
      BY <1>6, <3>1
    <3>5. PseudoNode(z) = P /\ k = l
      BY <3>3, <3>4
    <3>6. z = x
      BY <1>3, <3>5
    <3>7. QED
      BY <3>2, <3>4, <3>5, <3>6
  <2>2. /\ edges \o t \in Seq(Ends \X Ends) /\ IsInjective(edges \o t)
        /\ ToSet(edges \o t) = ToSet(edges) \cup ToSet(t)
    BY <1>2, <1>6, <2>1, Joined
  <2>3. ASSUME NEW e, e \in ToSet(edges) \cup ToSet(t)
        PROVE  \E z \in Nat : Many(next[z]) /\ \E k \in next[z] : e = <<k, PseudoNode(z)>>
    <3>1. CASE e \in ToSet(edges)
      <4>1. PICK z \in Nat : Many(met[z]) /\ \E k \in met[z] : e = <<k, PseudoNode(z)>>
        BY <1>2, <3>1
      <4>2. Many(next[z]) /\ met[z] \subseteq next[z]
        BY <1>1, <1>4, <4>1
      <4>3. QED
        BY <4>1, <4>2
    <3>2. CASE e \in ToSet(t)
      BY <1>3, <1>6, <3>2
    <3>3. QED
      BY <2>3, <3>1, <3>2
  <2>4. ASSUME NEW z \in Nat, Many(next[z]), NEW k \in next[z]
        PROVE  <<k, PseudoNode(z)>> \in ToSet(edges) \cup ToSet(t)
    <3>1. CASE z = x
      <4>1. CASE Many(met[x]) /\ k \in met[x]
        BY <1>2, <3>1, <4>1
      <4>2. CASE ~(Many(met[x]) /\ k \in met[x])
        <5>1. <<k, P>> \in ToSet(t)
          BY <1>6, <2>4, <3>1, <4>2
        <5>2. QED
          BY <1>3, <3>1, <5>1
      <4>3. QED
        BY <4>1, <4>2
    <3>2. CASE z # x
      <4>1. next[z] = met[z]
        BY <1>1, <3>2
      <4>2. QED
        BY <1>2, <2>4, <4>1
    <3>3. QED
      BY <3>1, <3>2
  <2>5. \A e : e \in ToSet(edges \o t) <=>
          \E z \in Nat : Many(next[z]) /\ \E k \in next[z] : e = <<k, PseudoNode(z)>>
    BY <2>2, <2>3, <2>4
  <2>6. QED
    BY <2>2, <2>5 DEF EdgesDrawn
<1>7. \A k \in next[x] : <<k, P>> \in Ends \X Ends
  BY PseudoNodes
<1>8. ASSUME Many(met[x]) PROVE EdgesDrawn(Append(edges, <<a, P>>), next)
  <2>1. PICK e \in Ends \X Ends : e = <<a, P>>
    BY <1>1, <1>7
  <2>2. PICK t : t = <<e>> /\ t \in Seq(Ends \X Ends)
    <3> DEFINE S == Ends \X Ends
    <3>1. e \in S
      OBVIOUS
    <3> HIDE DEF S
    <3>2. <<e>> \in Seq(S)
      BY <3>1
    <3>3. QED
      BY <3>2 DEF S
  <2>3. IsInjective(t) /\ ToSet(t) = {e}
    BY <2>2 DEF IsInjective, ToSet
  <2>4. \A d : d \in ToSet(t) <=> \E k \in next[x] : d = <<k, P>> /\ (Many(met[x]) => k \notin met[x])
    BY <1>1, <1>8, <2>1, <2>3
  <2>5. EdgesDrawn(edges \o t, next)
    BY <1>4, <1>6, <1>8, <2>2, <2>3, <2>4
  <2>6. edges \o t = Append(edges, e)
    BY <1>2, <2>2
  <2>7. QED
    BY <2>1, <2>5, <2>6
<1>9. ASSUME NEW b, NEW c, Couple(met[x], b, c)
      PROVE  EdgesDrawn(edges \o <<<<b, P>>, <<c, P>>, <<a, P>>>>, next)
  <2>1. met[x] = {b, c} /\ next[x] = {a, b, c} /\ a # b /\ a # c /\ b # c
    BY <1>1, <1>9 DEF Couple
  <2>2. ~Many(met[x]) /\ Many(next[x])
    BY <2>1 DEF Many
  <2>3. PICK e, f, g \in Ends \X Ends : e = <<b, P>> /\ f = <<c, P>> /\ g = <<a, P>>
    BY <1>7, <2>1
  <2>4. e # f /\ e # g /\ f # g
    BY <2>1, <2>3
  <2>5. PICK t : t = <<e, f, g>> /\ t \in Seq(Ends \X Ends)
    <3> DEFINE S == Ends \X Ends
    <3>1. e \in S /\ f \in S /\ g \in S
      OBVIOUS
    <3> HIDE DEF S
    <3>2. <<e, f, g>> \in Seq(S)
      BY <3>1
    <3>3. QED
      BY <3>2 DEF S
  <2>6. DOMAIN t = 1..3 /\ t[1] = e /\ t[2] = f /\ t[3] = g
    BY <2>5
  <2>7. \A i \in 1..3 : i = 1 \/ i = 2 \/ i = 3
    OBVIOUS
  <2>8. 1 \in 1..3 /\ 2 \in 1..3 /\ 3 \in 1..3
    OBVIOUS
  <2>9. IsInjective(t)
    BY <2>4, <2>6, <2>7 DEF IsInjective
  <2>10. ToSet(t) = {e, f, g}
    BY <2>6, <2>7, <2>8 DEF ToSet
  <2>11. \A d : d \in ToSet(t) <=> \E k \in next[x] : d = <<k, P>> /\ (Many(met[x]) => k \notin met[x])
    BY <2>1, <2>2, <2>3, <2>10
  <2>12. EdgesDrawn(edges \o t, next)
    BY <1>6, <2>2, <2>5, <2>9, <2>11
  <2>13. QED
    BY <2>3, <2>5, <2>12
<1>10. QED
  BY <1>1, <1>3, <1>5, <1>8, <1>9

\* A visit draws what the network's members by then call for.
LEMMA DrawnVisit ==
  ASSUME NEW met \in [Nat -> SUBSET Names], NEW x \in Nat, NEW a \in Names \ met[x],
         NEW names \in SUBSET Names, NEW g, Drawn(g, names, met)
  PROVE  Drawn(Visit(g, <<a, x>>), names, Meeting(met, x, a))
<1>1. PICK first, possible, drawn, edges :
        /\ g = [first |-> first, possible |-> possible, nodes |-> drawn, edges |-> edges]
        /\ FirstDrawn(first, met) /\ PossibleDrawn(possible, met)
        /\ NodesDrawn(drawn, names, met) /\ EdgesDrawn(edges, met)
  BY DEF Drawn
<1>2. PICK next : next = Meeting(met, x, a)
  OBVIOUS
<1>3. g.first = first /\ g.possible = possible /\ g.nodes = drawn /\ g.edges = edges
  BY <1>1
<1>4. Visit(g, <<a, x>>) =
        IF x \notin DOMAIN first THEN Seen(g, a, x)
        ELSE IF first[x] # <<>> THEN Pair(g, a, x)
        ELSE IF x \in DOMAIN possible THEN Star(g, a, x) ELSE Ray(g, a, x)
  BY <1>3 DEF Visit
<1>5. x \in DOMAIN first <=> met[x] # {}
  BY <1>1 DEF FirstDrawn
<1>6. CASE x \notin DOMAIN first
  <2>1. met[x] = {}
    BY <1>5, <1>6
  <2>2. FirstDrawn(With(first, x, <<a>>), next) /\ PossibleDrawn(possible, next)
    BY <1>1, <1>2, <2>1, FirstVisit, PossibleVisit
  <2>3. ~Many(met[x] \cup {a})
    BY <2>1 DEF Many
  <2>4. NodesDrawn(drawn, names, next) /\ EdgesDrawn(edges, next)
    BY <1>1, <1>2, <2>3, NodesVisit, EdgesVisit
  <2>5. Visit(g, <<a, x>>) = [first |-> With(first, x, <<a>>), possible |-> possible,
                              nodes |-> drawn, edges |-> edges]
    BY <1>1, <1>4, <1>6 DEF Seen
  <2>6. QED
    BY <1>2, <2>2, <2>4, <2>5 DEF Drawn
<1>7. CASE x \in DOMAIN first /\ first[x] # <<>>
  <2>1. /\ \E b : met[x] = {b} /\ first[x] = <<b>>
        /\ FirstDrawn([first EXCEPT ![x] = <<>>], next)
    <3>1. FirstDrawn(first, met) /\ met[x] # {} /\ first[x] # <<>>
      BY <1>1, <1>5, <1>7
    <3>2. /\ \E b : met[x] = {b} /\ first[x] = <<b>>
          /\ FirstDrawn([first EXCEPT ![x] = <<>>], Meeting(met, x, a))
      BY <3>1, FirstVisit, Zenon
    <3>3. QED
      BY <1>2, <3>2
  <2>2. PICK b : met[x] = {b} /\ first[x] = <<b>>
    BY <2>1
  <2>3. PossibleDrawn(With(possible, x, <<b, a>>), next)
    BY <1>1, <1>2, <2>2, PossibleVisit
  <2>4. ~Many(met[x] \cup {a})
    BY <2>2 DEF Many
  <2>5. NodesDrawn(drawn, names, next) /\ EdgesDrawn(edges, next)
    BY <1>1, <1>2, <2>4, NodesVisit, EdgesVisit
  <2>6. Visit(g, <<a, x>>) = [first |-> [first EXCEPT ![x] = <<>>],
                              possible |-> With(possible, x, <<b, a>>),
                              nodes |-> drawn, edges |-> edges]
    <3>1. first[x][1] = b
      BY <2>2
    <3>2. Visit(g, <<a, x>>) = Pair(g, a, x)
      BY <1>4, <1>7
    <3>3. QED
      BY <1>1, <3>1, <3>2 DEF Pair
  <2>7. PICK f, p : f = [first EXCEPT ![x] = <<>>] /\ p = With(possible, x, <<b, a>>)
    OBVIOUS
  <2>8. /\ Visit(g, <<a, x>>) = [first |-> f, possible |-> p, nodes |-> drawn, edges |-> edges]
        /\ FirstDrawn(f, next) /\ PossibleDrawn(p, next)
    BY <2>1, <2>3, <2>6, <2>7
  <2>9. Drawn(Visit(g, <<a, x>>), names, next)
    BY <2>5, <2>8 DEF Drawn
  <2>10. QED
    BY <1>2, <2>9
<1>8. ASSUME x \in DOMAIN first, first[x] = <<>>
      PROVE  (\E b, c \in met[x] : b # c) /\ FirstDrawn(first, next)
  <2>1. FirstDrawn(first, met) /\ met[x] # {}
    BY <1>1, <1>5, <1>8
  <2>2. (\E b, c \in met[x] : b # c) /\ FirstDrawn(first, Meeting(met, x, a))
    BY <1>8, <2>1, FirstVisit, Zenon
  <2>3. QED
    BY <1>2, <2>2
<1>9. CASE x \in DOMAIN first /\ first[x] = <<>> /\ x \in DOMAIN possible
  <2>1. /\ \E b, c : Couple(met[x], b, c) /\ possible[x] = <<b, c>>
        /\ PossibleDrawn(Without(possible, x), next)
    BY <1>1, <1>2, <1>9, PossibleVisit
  <2>2. PICK b, c : Couple(met[x], b, c) /\ possible[x] = <<b, c>>
    BY <2>1
  <2>3. NodesDrawn(Append(drawn, PseudoNode(x)), names, next)
    BY <1>1, <1>2, <2>2, NodesVisit
  <2>4. EdgesDrawn(edges \o <<<<b, PseudoNode(x)>>, <<c, PseudoNode(x)>>, <<a, PseudoNode(x)>>>>, next)
    BY <1>1, <1>2, <2>2, EdgesVisit
  <2>5. Visit(g, <<a, x>>) =
          [first |-> first, possible |-> Without(possible, x), nodes |-> Append(drawn, PseudoNode(x)),
           edges |-> edges \o <<<<b, PseudoNode(x)>>, <<c, PseudoNode(x)>>, <<a, PseudoNode(x)>>>>]
    <3>1. possible[x][1] = b /\ possible[x][2] = c
      BY <2>2
    <3>2. Visit(g, <<a, x>>) = Star(g, a, x)
      BY <1>4, <1>9
    <3>3. QED
      BY <1>1, <3>1, <3>2 DEF Star
  <2>6. QED
    BY <1>2, <1>8, <1>9, <2>1, <2>3, <2>4, <2>5 DEF Drawn
<1>10. CASE x \in DOMAIN first /\ first[x] = <<>> /\ x \notin DOMAIN possible
  <2>1. Many(met[x]) /\ PossibleDrawn(possible, next)
    BY <1>1, <1>2, <1>8, <1>10, PossibleVisit
  <2>2. NodesDrawn(drawn, names, next)
    BY <1>1, <1>2, <2>1, NodesVisit
  <2>3. EdgesDrawn(Append(edges, <<a, PseudoNode(x)>>), next)
    BY <1>1, <1>2, <2>1, EdgesVisit
  <2>4. Visit(g, <<a, x>>) = [first |-> first, possible |-> possible, nodes |-> drawn,
                              edges |-> Append(edges, <<a, PseudoNode(x)>>)]
    BY <1>1, <1>4, <1>10 DEF Ray
  <2>5. QED
    BY <1>2, <1>8, <1>10, <2>1, <2>2, <2>3, <2>4 DEF Drawn
<1>11. QED
  BY <1>6, <1>7, <1>9, <1>10

\* Two members, or more than two.
LEMMA Counted ==
  ASSUME NEW S, IsFiniteSet(S)
  PROVE  /\ Cardinality(S) = 2 <=> \E a, b : Couple(S, a, b)
         /\ Cardinality(S) > 2 <=> Many(S)
<1>1. \A T, x : IsFiniteSet(T) =>
        /\ IsFiniteSet(T \cup {x}) /\ IsFiniteSet(T \ {x})
        /\ x \notin T => Cardinality(T \cup {x}) = Cardinality(T) + 1
        /\ x \in T => Cardinality(T \ {x}) = Cardinality(T) - 1
  BY FS_AddElement, FS_RemoveElement
<1>2. \A T : IsFiniteSet(T) => Cardinality(T) \in Nat /\ (Cardinality(T) = 0 <=> T = {})
  BY FS_CardinalityType, FS_EmptySet
<1>3. ASSUME NEW a, NEW b, a # b
      PROVE  IsFiniteSet({a, b}) /\ Cardinality({a, b}) = 2
  <2>1. IsFiniteSet({a}) /\ Cardinality({a}) = 1
    BY FS_Singleton
  <2>2. {a, b} = {a} \cup {b} /\ b \notin {a}
    BY <1>3
  <2>3. IsFiniteSet({a} \cup {b}) /\ Cardinality({a} \cup {b}) = Cardinality({a}) + 1
    BY <1>1, <2>1, <2>2
  <2>4. QED
    BY <2>1, <2>2, <2>3
<1>4. ASSUME Many(S) PROVE Cardinality(S) > 2
  <2>1. PICK a, b, c \in S : a # b /\ a # c /\ b # c
    BY <1>4 DEF Many
  <2>2. IsFiniteSet({a, b}) /\ Cardinality({a, b}) = 2
    BY <1>3, <2>1
  <2>3. PICK T : T = {a, b} \cup {c} /\ Cardinality(T) = 3
    <3>1. c \notin {a, b}
      BY <2>1
    <3>2. Cardinality({a, b} \cup {c}) = Cardinality({a, b}) + 1
      BY <1>1, <2>2, <3>1
    <3>3. QED
      BY <2>2, <3>2
  <2>4. Cardinality(T) <= Cardinality(S)
    <3>1. T \in SUBSET S
      BY <2>1, <2>3
    <3>2. QED
      BY <3>1, FS_Subset
  <2>5. QED
    BY <1>2, <2>3, <2>4
<1>5. ASSUME Cardinality(S) >= 2
      PROVE  \E a, b \in S : a # b /\ Cardinality((S \ {a}) \ {b}) = Cardinality(S) - 2
                             /\ IsFiniteSet((S \ {a}) \ {b})
  <2>1. PICK a : a \in S
    BY <1>2, <1>5
  <2>2. IsFiniteSet(S \ {a}) /\ Cardinality(S \ {a}) = Cardinality(S) - 1
    BY <1>1, <2>1
  <2>3. Cardinality(S) \in Nat
    BY <1>2
  <2>4. S \ {a} # {}
    BY <1>2, <1>5, <2>2, <2>3
  <2>5. PICK b : b \in S \ {a}
    BY <2>4
  <2>6. IsFiniteSet((S \ {a}) \ {b}) /\ Cardinality((S \ {a}) \ {b}) = Cardinality(S \ {a}) - 1
    BY <1>1, <2>2, <2>5
  <2>7. Cardinality((S \ {a}) \ {b}) = Cardinality(S) - 2
    <3>1. PICK k \in Nat : k = Cardinality(S)
      BY <2>3
    <3>2. PICK l : l = Cardinality(S \ {a})
      OBVIOUS
    <3>3. l = k - 1 /\ Cardinality((S \ {a}) \ {b}) = l - 1
      BY <2>2, <2>6, <3>1, <3>2
    <3>4. QED
      BY <3>1, <3>3
  <2>8. a # b /\ b \in S
    BY <2>5
  <2>9. QED
    BY <2>1, <2>6, <2>7, <2>8, Zenon
<1>6. ASSUME Cardinality(S) > 2 PROVE Many(S)
  <2>1. Cardinality(S) \in Nat
    BY <1>2
  <2>2. PICK a, b \in S : a # b /\ Cardinality((S \ {a}) \ {b}) = Cardinality(S) - 2
                          /\ IsFiniteSet((S \ {a}) \ {b})
    BY <1>5, <1>6, <2>1
  <2>3. (S \ {a}) \ {b} # {}
    BY <1>2, <1>6, <2>1, <2>2
  <2>4. PICK c : c \in (S \ {a}) \ {b}
    BY <2>3
  <2>5. QED
    BY <2>2, <2>4 DEF Many
<1>7. ASSUME Cardinality(S) = 2 PROVE \E a, b : Couple(S, a, b)
  <2>1. PICK a, b \in S : a # b /\ Cardinality((S \ {a}) \ {b}) = Cardinality(S) - 2
                          /\ IsFiniteSet((S \ {a}) \ {b})
    BY <1>5, <1>7
  <2>2. (S \ {a}) \ {b} = {}
    BY <1>2, <1>7, <2>1
  <2>3. S = {a, b}
    BY <2>1, <2>2
  <2>4. QED
    BY <2>1, <2>3 DEF Couple
<1>8. ASSUME NEW a, NEW b, Couple(S, a, b) PROVE Cardinality(S) = 2
  BY <1>3, <1>8 DEF Couple
<1>9. QED
  BY <1>4, <1>6, <1>7, <1>8

\* The entries of lab.json, for any lab: one of each name, of a node, with finitely many
\* networks.
LEMMA EntryTyped ==
  ASSUME DefInv, NEW e \in EntrySet
  PROVE  e.name \in Names /\ DOMAIN e.networks \subseteq Nat /\ IsFiniteSet(DOMAIN e.networks)
<1>1. PICK n \in DOMAIN nodes, nat \in Nat : e = Entry(n, nat)
  BY DEF EntrySet
<1>2. e.name = nodes[n].name /\ DOMAIN e.networks = DOMAIN Named(nodes[n].ifcs)
  BY <1>1, EntryFields
<1>3. PICK ifcs \in Seq(Index) : ifcs = nodes[n].ifcs
  <2>1. nodes[n] \in NodeRecord
    BY Fields DEF DefInv
  <2>2. QED
    BY <2>1 DEF NodeRecord
<1>4. ToSet(ifcs) \subseteq DOMAIN subnets
  <2>1. CASE configured
    BY <1>3, <2>1 DEF DefInv, Wired
  <2>2. CASE ~configured
    <3>1. ifcs = <<>>
      BY <1>3, <2>2 DEF DefInv, Wired
    <3>2. QED
      BY <3>1 DEF ToSet
  <2>3. QED
    BY <2>1, <2>2
<1>5. DOMAIN Named(ifcs) = {subnets[s].name : s \in ToSet(ifcs)}
  BY DEF Named
<1>6. \A s \in DOMAIN subnets : subnets[s].name \in Nat
  BY Fields DEF DefInv
<1>7. DOMAIN Named(ifcs) \subseteq Nat
  BY <1>4, <1>5, <1>6
<1>8. IsFiniteSet(DOMAIN Named(ifcs))
  <2>1. DOMAIN ifcs = 1..Len(ifcs) /\ Len(ifcs) \in Nat /\ \A i \in DOMAIN ifcs : ifcs[i] \in DOMAIN subnets
    BY <1>4 DEF ToSet
  <2>2. [i \in DOMAIN ifcs |-> subnets[ifcs[i]].name] \in Seq(Nat)
    BY <1>6, <2>1
  <2>3. PICK s \in Seq(Nat) : s = [i \in DOMAIN ifcs |-> subnets[ifcs[i]].name]
    BY <2>2
  <2>4. ToSet(s) = DOMAIN Named(ifcs)
    BY <1>5, <2>3 DEF ToSet
  <2>5. QED
    BY <2>4, FiniteElements
<1>9. e.name \in Names
  BY <1>2, Fields DEF DefInv
<1>10. QED
  BY <1>2, <1>3, <1>7, <1>8, <1>9

LEMMA LabEntries ==
  ASSUME DefInv
  PROVE  /\ lab.entries \in Seq(EntrySet)
         /\ \A p, r \in DOMAIN lab.entries : lab.entries[p].name = lab.entries[r].name => p = r
<1>1. CASE lab = NoLab
  <2>1. lab.entries = <<>>
    BY <1>1 DEF NoLab
  <2>2. QED
    BY <2>1
<1>2. CASE lab # NoLab
  <2>1. configured /\ lab = LabJson
    BY <1>2 DEF DefInv, Written
  <2>2. lab.entries = Updated(EntriesInOrder)
    BY <2>1 DEF LabJson
  <2>3. EntriesInOrder \in Seq(EntrySet)
    BY <2>1, EntriesListed
  <2>4. QED
    BY <2>2, <2>3, UpdatedEntries
<1>3. QED
  BY <1>1, <1>2

\* Each node is visited once for each of its networks.
LEMMA VisitsOf ==
  ASSUME DefInv, NEW entries \in Seq(EntrySet),
         \A p, r \in DOMAIN entries : entries[p].name = entries[r].name => p = r
  PROVE  /\ Visits(entries) \in Seq(Names \X Nat) /\ IsInjective(Visits(entries))
         /\ \A a, x : <<a, x>> \in ToSet(Visits(entries)) <=>
              \E e \in ToSet(entries) : a = e.name /\ x \in DOMAIN e.networks
<1> DEFINE Listing(e) == LET names == SetToSeq(DOMAIN e.networks)
                         IN  [j \in DOMAIN names |-> <<e.name, names[j]>>]
<1>1. ASSUME NEW e \in EntrySet
      PROVE  /\ Listing(e) \in Seq(Names \X Nat) /\ IsInjective(Listing(e))
             /\ \A v : v \in ToSet(Listing(e)) <=> \E x \in DOMAIN e.networks : v = <<e.name, x>>
  <2>1. e.name \in Names /\ DOMAIN e.networks \subseteq Nat /\ IsFiniteSet(DOMAIN e.networks)
    BY <1>1, EntryTyped
  <2>2. PICK D : D = DOMAIN e.networks
    OBVIOUS
  <2>3. PICK names \in Seq(D) : names = SetToSeq(D) /\ IsInjective(names) /\ ToSet(names) = D
    BY <2>1, <2>2, Enumerated
  <2>4. PICK t : t = [j \in DOMAIN names |-> <<e.name, names[j]>>]
    OBVIOUS
  <2>5. Listing(e) = t
    BY <2>2, <2>3, <2>4
  <2>6. DOMAIN names = 1..Len(names) /\ Len(names) \in Nat /\ \A j \in DOMAIN names : names[j] \in Nat
    BY <2>1, <2>2, <2>3 DEF ToSet
  <2>7. t \in Seq(Names \X Nat)
    BY <2>1, <2>4, <2>6
  <2>8. IsInjective(t)
    BY <2>3, <2>4 DEF IsInjective
  <2>9. \A v : v \in ToSet(t) <=> \E j \in DOMAIN names : v = <<e.name, names[j]>>
    BY <2>4 DEF ToSet
  <2>10. \A x : x \in D <=> \E j \in DOMAIN names : x = names[j]
    BY <2>3 DEF ToSet
  <2>11. \A v : v \in ToSet(t) <=> \E x \in D : v = <<e.name, x>>
    BY <2>9, <2>10
  <2>12. QED
    BY <2>2, <2>5, <2>7, <2>8, <2>11
<1>2. Visits(entries) = FlattenSeq([i \in DOMAIN entries |-> Listing(entries[i])])
  BY DEF Visits
<1> HIDE DEF Listing
<1>3. PICK q \in Seq(Seq(Names \X Nat)) :
        /\ Visits(entries) = FlattenSeq(q) /\ DOMAIN q = DOMAIN entries
        /\ \A i \in DOMAIN entries : q[i] = Listing(entries[i])
  <2>1. DOMAIN entries = 1..Len(entries) /\ Len(entries) \in Nat /\ \A i \in DOMAIN entries : entries[i] \in EntrySet
    OBVIOUS
  <2>2. [i \in DOMAIN entries |-> Listing(entries[i])] \in Seq(Seq(Names \X Nat))
    BY <1>1, <2>1
  <2>3. QED
    BY <1>2, <2>2
<1>4. /\ FlattenSeq(q) \in Seq(Names \X Nat)
      /\ \A v : v \in ToSet(FlattenSeq(q)) <=> \E i \in DOMAIN q : v \in ToSet(q[i])
  BY FlatSet
<1>5. \A i \in DOMAIN q : \A v : v \in ToSet(q[i]) <=>
        \E x \in DOMAIN entries[i].networks : v = <<entries[i].name, x>>
  BY <1>1, <1>3
<1>6. IsInjective(FlattenSeq(q))
  <2>1. \A i \in DOMAIN q : IsInjective(q[i])
    BY <1>1, <1>3
  <2>2. ASSUME NEW i \in DOMAIN q, NEW j \in DOMAIN q, i # j PROVE ToSet(q[i]) \cap ToSet(q[j]) = {}
    <3>1. entries[i].name # entries[j].name
      BY <1>3, <2>2
    <3>2. QED
      BY <1>5, <3>1
  <2>3. QED
    BY <2>1, <2>2, FlatInjective
<1>7. ASSUME NEW a, NEW x
      PROVE  <<a, x>> \in ToSet(FlattenSeq(q)) <=>
               \E e \in ToSet(entries) : a = e.name /\ x \in DOMAIN e.networks
  <2>1. <<a, x>> \in ToSet(FlattenSeq(q)) <=>
          \E i \in DOMAIN entries : a = entries[i].name /\ x \in DOMAIN entries[i].networks
    BY <1>3, <1>4, <1>5
  <2>2. \A e : e \in ToSet(entries) <=> \E i \in DOMAIN entries : e = entries[i]
    BY DEF ToSet
  <2>3. QED
    BY <2>1, <2>2
<1>8. QED
  BY <1>3, <1>4, <1>6, <1>7

\* What is drawn when every visit has been made.
Visited(visits) == [x \in Nat |-> {a \in Names : <<a, x>> \in ToSet(visits)}]

LEMMA GraphDrawn ==
  ASSUME NEW visits \in Seq(Names \X Nat), IsInjective(visits),
         NEW drawn \in Seq(Names), IsInjective(drawn)
  PROVE  Drawn(Drawing([EmptyGraph EXCEPT !.nodes = drawn], visits), ToSet(drawn), Visited(visits))
<1>1. PICK N \in Nat : N = Len(visits) /\ DOMAIN visits = 1..N
  OBVIOUS
<1>2. PICK names \in SUBSET Names : names = ToSet(drawn)
  <2>1. ToSet(drawn) \subseteq Names
    BY DEF ToSet
  <2>2. QED
    BY <2>1
<1>3. PICK start : start = [EmptyGraph EXCEPT !.nodes = drawn]
  OBVIOUS
<1>4. PICK graph : /\ graph[0] = start /\ Drawing(start, visits) = graph[N]
                   /\ \A i \in 1..N : graph[i] = Visit(graph[i - 1], visits[i])
  <2>1. Len(visits) \in Nat
    BY <1>1
  <2>2. \E graph : /\ graph[0] = start /\ Drawing(start, visits) = graph[Len(visits)]
                   /\ \A i \in 1..Len(visits) : graph[i] = Visit(graph[i - 1], visits[i])
    BY <2>1, DrawingSteps
  <2>3. QED
    BY <1>1, <2>2
<1> DEFINE M(i) == [x \in Nat |-> {a \in Names : \E j \in 1..i : visits[j] = <<a, x>>}]
<1> DEFINE T == {i \in Nat : i <= N => Drawn(graph[i], names, M(i))}
<1>5. 0 \in T
  <2>1. \A x \in Nat : M(0)[x] = {}
    OBVIOUS
  <2>2. PICK met : met = M(0)
    OBVIOUS
  <2>3. \A x \in Nat : met[x] = {}
    BY <2>1, <2>2
  <2>4. start = [first |-> <<>>, possible |-> <<>>, nodes |-> drawn, edges |-> <<>>]
    BY <1>3 DEF EmptyGraph
  <2>5. DOMAIN <<>> = {}
    OBVIOUS
  <2>6. \A x \in Nat : ~Many(met[x]) /\ ~\E a, b : Couple(met[x], a, b)
    BY <2>3 DEF Many, Couple
  <2>7. FirstDrawn(<<>>, met)
    BY <2>3, <2>5 DEF FirstDrawn
  <2>8. PossibleDrawn(<<>>, met)
    BY <2>5, <2>6 DEF PossibleDrawn
  <2>9. NodesDrawn(drawn, names, met)
    <3>1. drawn \in Seq(Ends)
      <4>1. drawn \in Seq(Names) /\ Names \subseteq Ends
        BY PseudoNodes
      <4>2. QED
        BY <4>1
    <3>2. QED
      BY <1>2, <2>6, <3>1 DEF NodesDrawn
  <2>10. EdgesDrawn(<<>>, met)
    <3>1. <<>> \in Seq(Ends \X Ends) /\ IsInjective(<<>>) /\ ToSet(<<>>) = {}
      BY <2>5 DEF IsInjective, ToSet
    <3>2. QED
      BY <2>6, <3>1 DEF EdgesDrawn
  <2>11. Drawn(start, names, met)
    BY <2>4, <2>7, <2>8, <2>9, <2>10 DEF Drawn
  <2>12. QED
    BY <1>4, <2>2, <2>11
<1>6. ASSUME NEW i \in T PROVE i + 1 \in T
  <2>1. SUFFICES ASSUME i + 1 <= N PROVE Drawn(graph[i + 1], names, M(i + 1))
    OBVIOUS
  <2>2. PICK k : k = i + 1 /\ k \in Nat /\ k - 1 = i /\ k \in 1..N /\ i \in Nat /\ i <= N
    BY <1>6, <2>1
  <2>3. Drawn(graph[i], names, M(i))
    BY <1>6, <2>2
  <2>4. PICK a \in Names, x \in Nat : visits[k] = <<a, x>>
    BY <1>1, <2>2
  <2>5. PICK met : met = M(i)
    OBVIOUS
  <2>6. met \in [Nat -> SUBSET Names]
    BY <2>5
  <2>7. \A y \in Nat : \A b : b \in met[y] <=> b \in Names /\ \E j \in 1..i : visits[j] = <<b, y>>
    BY <2>5
  <2>8. PICK next : next = M(k)
    OBVIOUS
  <2>9. \A y \in Nat : \A b : b \in next[y] <=> b \in Names /\ \E j \in 1..k : visits[j] = <<b, y>>
    BY <2>8
  <2>10. DOMAIN next = Nat /\ next \in [Nat -> SUBSET Names]
    BY <2>8
  <2> HIDE DEF M, T
  <2>11. \A j : j \in 1..k <=> j \in 1..i \/ j = k
    BY <2>2
  <2>12. a \notin met[x]
    <3>1. \A j \in 1..i : j \in 1..N /\ j # k
      BY <2>2
    <3>2. \A j \in 1..i : visits[j] # visits[k]
      BY <1>1, <2>2, <3>1 DEF IsInjective
    <3>3. QED
      BY <2>4, <2>7, <3>2
  <2>13. next = Meeting(met, x, a)
    <3>1. PICK f \in [Nat -> SUBSET Names] :
            /\ f = Meeting(met, x, a) /\ f[x] = met[x] \cup {a}
            /\ \A y \in Nat : y # x => f[y] = met[y]
      <4>1. /\ Meeting(met, x, a) \in [Nat -> SUBSET Names] /\ Meeting(met, x, a)[x] = met[x] \cup {a}
            /\ \A y \in Nat : y # x => Meeting(met, x, a)[y] = met[y]
        BY <2>6, Met
      <4>2. QED
        BY <4>1
    <3>2. ASSUME NEW y \in Nat PROVE next[y] = f[y]
      <4>1. \A b : b \in next[y] <=> b \in Names /\ ((\E j \in 1..i : visits[j] = <<b, y>>) \/ visits[k] = <<b, y>>)
        BY <2>9, <2>11
      <4>2. \A b : b \in next[y] <=> b \in met[y] \/ (b = a /\ y = x)
        <5>1. \A b : visits[k] = <<b, y>> <=> b = a /\ y = x
          BY <2>4
        <5>2. \A b : b \in met[y] <=> b \in Names /\ \E j \in 1..i : visits[j] = <<b, y>>
          BY <2>7
        <5>3. a \in Names
          OBVIOUS
        <5>4. QED
          BY <4>1, <5>1, <5>2, <5>3, Zenon
      <4>3. \A b : b \in f[y] <=> b \in met[y] \/ (b = a /\ y = x)
        BY <3>1
      <4>4. next[y] \subseteq f[y] /\ f[y] \subseteq next[y]
        BY <4>2, <4>3
      <4>5. QED
        BY <4>4
    <3>3. next = f
      BY <2>10, <3>2
    <3>4. QED
      BY <3>1, <3>3
  <2>14. graph[k] = Visit(graph[i], <<a, x>>)
    BY <1>4, <2>2, <2>4
  <2>15. Drawn(graph[k], names, next)
    <3>1. PICK g : g = graph[i]
      OBVIOUS
    <3>2. Drawn(g, names, met) /\ a \in Names \ met[x]
      BY <2>3, <2>5, <2>12, <3>1
    <3>3. Drawn(Visit(g, <<a, x>>), names, Meeting(met, x, a))
      BY <2>6, <3>2, DrawnVisit
    <3>4. QED
      BY <2>13, <2>14, <3>1, <3>3
  <2>16. QED
    BY <2>2, <2>8, <2>15
<1>7. N \in T
  <2>1. T \in SUBSET Nat
    OBVIOUS
  <2> HIDE DEF T
  <2>2. T = Nat
    BY <1>5, <1>6, <2>1, NatClosed
  <2>3. QED
    BY <2>2
<1>8. Drawn(graph[N], names, M(N))
  BY <1>7
<1>9. M(N) = Visited(visits)
  <2>1. \A a, x : <<a, x>> \in ToSet(visits) <=> \E j \in 1..N : visits[j] = <<a, x>>
    BY <1>1 DEF ToSet
  <2>2. QED
    BY <2>1 DEF Visited
<1>10. QED
  BY <1>2, <1>3, <1>4, <1>8, <1>9

\* The nodes and the edges of a picture of the networks that met describes.
Pictured(drawn, edges, names, met) ==
  /\ IsInjective(drawn)
  /\ \A y : y \in ToSet(drawn) <=> y \in names \/ \E x \in Nat : Many(met[x]) /\ y = PseudoNode(x)
  /\ \A d : (\E e \in ToSet(edges) : d = {e[1], e[2]}) <=>
            \/ \E x \in Nat : (\E a, b : Couple(met[x], a, b)) /\ d = met[x]
            \/ \E x \in Nat : Many(met[x]) /\ \E a \in met[x] : d = {a, PseudoNode(x)}
  /\ Len(edges) = Cardinality({x \in Nat : \E a, b : Couple(met[x], a, b)})
       + Cardinality({e \in Names \X Nat : Many(met[e[2]]) /\ e[1] \in met[e[2]]})

\* What follows of a drawn graph, once the edges that are still possible are added.
LEMMA DrawnGraph ==
  ASSUME NEW met \in [Nat -> SUBSET Names], NEW names, NEW g, Drawn(g, names, met),
         IsFiniteSet({x \in Nat : met[x] # {}}),
         NEW left, left = SetToSeq(DOMAIN g.possible),
         NEW edges, edges = g.edges \o [i \in DOMAIN left |-> g.possible[left[i]]]
  PROVE  Pictured(g.nodes, edges, names, met)
<1>1. PICK first, possible, drawn, stars :
        /\ g = [first |-> first, possible |-> possible, nodes |-> drawn, edges |-> stars]
        /\ PossibleDrawn(possible, met) /\ NodesDrawn(drawn, names, met) /\ EdgesDrawn(stars, met)
  BY DEF Drawn
<1>2. g.possible = possible /\ g.nodes = drawn /\ g.edges = stars
  BY <1>1
<1>3. PICK pairs : pairs = {x \in Nat : \E a, b : Couple(met[x], a, b)}
  OBVIOUS
<1>4. DOMAIN possible = pairs /\ \A x \in pairs : \E a, b : Couple(met[x], a, b) /\ possible[x] = <<a, b>>
  BY <1>1, <1>3 DEF PossibleDrawn
<1>5. IsFiniteSet(pairs)
  <2>1. pairs \subseteq {x \in Nat : met[x] # {}}
    BY <1>3 DEF Couple
  <2>2. QED
    BY <2>1, FS_Subset
<1>6. /\ left \in Seq(pairs) /\ IsInjective(left) /\ ToSet(left) = pairs
      /\ Len(left) = Cardinality(pairs)
  <2>1. left = SetToSeq(pairs)
    BY <1>2, <1>4
  <2>2. QED
    BY <1>5, <2>1, Enumerated
<1>7. PICK rest : rest = [i \in DOMAIN left |-> possible[left[i]]]
  OBVIOUS
<1>8. rest \in Seq(Ends \X Ends) /\ Len(rest) = Cardinality(pairs)
      /\ \A e : e \in ToSet(rest) <=> \E x \in pairs : e = possible[x]
  <2>1. DOMAIN left = 1..Len(left) /\ Len(left) \in Nat
    BY <1>6
  <2>2. ASSUME NEW x \in pairs PROVE possible[x] \in Ends \X Ends
    <3>1. PICK a, b : Couple(met[x], a, b) /\ possible[x] = <<a, b>>
      BY <1>4
    <3>2. a \in Names /\ b \in Names
      BY <1>3, <3>1 DEF Couple
    <3>3. QED
      BY <3>1, <3>2, PseudoNodes
  <2>3. \A i \in DOMAIN left : left[i] \in pairs
    BY <1>6 DEF ToSet
  <2>4. rest \in Seq(Ends \X Ends) /\ Len(rest) = Len(left)
    <3>1. \A i \in 1..Len(left) : possible[left[i]] \in Ends \X Ends
      BY <2>1, <2>2, <2>3
    <3>2. rest = [i \in 1..Len(left) |-> possible[left[i]]]
      BY <1>7, <2>1
    <3>3. QED
      BY <2>1, <3>1, <3>2
  <2>5. \A e : e \in ToSet(rest) <=> \E i \in DOMAIN left : e = possible[left[i]]
    BY <1>7 DEF ToSet
  <2>6. \A x : x \in pairs <=> \E i \in DOMAIN left : x = left[i]
    BY <1>6 DEF ToSet
  <2>7. \A e : e \in ToSet(rest) <=> \E x \in pairs : e = possible[x]
    BY <2>5, <2>6
  <2>8. QED
    BY <1>6, <2>4, <2>7
<1>9. /\ stars \in Seq(Ends \X Ends) /\ IsInjective(stars)
      /\ \A e : e \in ToSet(stars) <=>
           \E x \in Nat : Many(met[x]) /\ \E a \in met[x] : e = <<a, PseudoNode(x)>>
  BY <1>1 DEF EdgesDrawn
<1>10. ToSet(edges) = ToSet(stars) \cup ToSet(rest) /\ Len(edges) = Len(stars) + Len(rest)
  <2>1. edges = stars \o rest
    BY <1>2, <1>7
  <2>2. rest \in Seq(Ends \X Ends) /\ stars \in Seq(Ends \X Ends)
    BY <1>8, <1>9
  <2>3. ToSet(stars \o rest) = ToSet(stars) \cup ToSet(rest) /\ Len(stars \o rest) = Len(stars) + Len(rest)
    BY <2>2, Joined
  <2>4. QED
    BY <2>1, <2>3
<1>11. ASSUME NEW x \in pairs
       PROVE {possible[x][1], possible[x][2]} = met[x]
  <2>1. PICK a, b : Couple(met[x], a, b) /\ possible[x] = <<a, b>>
    BY <1>4
  <2>2. possible[x][1] = a /\ possible[x][2] = b
    BY <2>1
  <2>3. QED
    BY <2>1, <2>2 DEF Couple
<1>12. ASSUME NEW d
       PROVE  (\E e \in ToSet(edges) : d = {e[1], e[2]}) <=>
                \/ \E x \in Nat : (\E a, b : Couple(met[x], a, b)) /\ d = met[x]
                \/ \E x \in Nat : Many(met[x]) /\ \E a \in met[x] : d = {a, PseudoNode(x)}
  <2>1. (\E e \in ToSet(rest) : d = {e[1], e[2]}) <=> \E x \in pairs : d = met[x]
    <3>1. \A e : e \in ToSet(rest) <=> \E x \in pairs : e = possible[x]
      BY <1>8
    <3>2. (\E e \in ToSet(rest) : d = {e[1], e[2]}) <=> \E x \in pairs : d = {possible[x][1], possible[x][2]}
      BY <3>1
    <3>3. QED
      BY <1>11, <3>2
  <2>2. (\E x \in pairs : d = met[x]) <=> \E x \in Nat : (\E a, b : Couple(met[x], a, b)) /\ d = met[x]
    BY <1>3
  <2>3. (\E e \in ToSet(stars) : d = {e[1], e[2]}) <=>
          \E x \in Nat : Many(met[x]) /\ \E a \in met[x] : d = {a, PseudoNode(x)}
    <3>1. ASSUME NEW e \in ToSet(stars), d = {e[1], e[2]}
          PROVE  \E x \in Nat : Many(met[x]) /\ \E a \in met[x] : d = {a, PseudoNode(x)}
      <4>1. PICK x \in Nat : Many(met[x]) /\ \E a \in met[x] : e = <<a, PseudoNode(x)>>
        BY <1>9
      <4>2. PICK a \in met[x] : e = <<a, PseudoNode(x)>>
        BY <4>1
      <4>3. e[1] = a /\ e[2] = PseudoNode(x)
        BY <4>2
      <4>4. QED
        BY <3>1, <4>1, <4>3
    <3>2. ASSUME NEW x \in Nat, Many(met[x]), NEW a \in met[x], d = {a, PseudoNode(x)}
          PROVE  \E e \in ToSet(stars) : d = {e[1], e[2]}
      <4>1. <<a, PseudoNode(x)>> \in ToSet(stars)
        BY <1>9, <3>2
      <4>2. <<a, PseudoNode(x)>>[1] = a /\ <<a, PseudoNode(x)>>[2] = PseudoNode(x)
        OBVIOUS
      <4>3. QED
        BY <3>2, <4>1, <4>2
    <3>3. QED
      BY <3>1, <3>2
  <2>4. QED
    BY <1>10, <2>1, <2>2, <2>3
<1>13. Len(stars) = Cardinality({e \in Names \X Nat : Many(met[e[2]]) /\ e[1] \in met[e[2]]})
  <2>1. PICK S : S = ToSet(stars)
    OBVIOUS
  <2>2. PICK R : R = {e \in Names \X Nat : Many(met[e[2]]) /\ e[1] \in met[e[2]]}
    OBVIOUS
  <2>3. IsFiniteSet(S) /\ Cardinality(S) = Len(stars)
    BY <1>9, <2>1, InjectiveLength
  <2>4. PICK f : f = [e \in S |-> <<e[1], e[2][3]>>]
    OBVIOUS
  <2>5. \A x : PseudoNode(x)[3] = x
    BY DEF PseudoNode
  <2>6. ASSUME NEW e \in S
        PROVE  \E x \in Nat : \E a \in met[x] :
                 /\ Many(met[x]) /\ e = <<a, PseudoNode(x)>> /\ f[e] = <<a, x>>
    <3>1. PICK x \in Nat : Many(met[x]) /\ \E a \in met[x] : e = <<a, PseudoNode(x)>>
      BY <1>9, <2>1
    <3>2. PICK a \in met[x] : e = <<a, PseudoNode(x)>>
      BY <3>1
    <3>3. e[1] = a /\ e[2] = PseudoNode(x)
      BY <3>2
    <3>4. f[e] = <<a, x>>
      BY <2>4, <2>5, <3>3
    <3>5. QED
      BY <3>1, <3>2, <3>4
  <2>7. ASSUME NEW x \in Nat, NEW a \in met[x], Many(met[x])
        PROVE  <<a, PseudoNode(x)>> \in S /\ f[<<a, PseudoNode(x)>>] = <<a, x>>
    <3>1. <<a, PseudoNode(x)>> \in S
      BY <1>9, <2>1, <2>7
    <3>2. <<a, PseudoNode(x)>>[1] = a /\ <<a, PseudoNode(x)>>[2] = PseudoNode(x)
      OBVIOUS
    <3>3. QED
      BY <2>4, <2>5, <3>1, <3>2
  <2>8. \A r : r \in R <=> \E x \in Nat : \E a \in met[x] : Many(met[x]) /\ r = <<a, x>>
    <3>1. ASSUME NEW r \in R
          PROVE  \E x \in Nat : \E a \in met[x] : Many(met[x]) /\ r = <<a, x>>
      BY <2>2
    <3>2. ASSUME NEW x \in Nat, NEW a \in met[x], Many(met[x]) PROVE <<a, x>> \in R
      <4>1. a \in Names /\ <<a, x>>[1] = a /\ <<a, x>>[2] = x
        OBVIOUS
      <4>2. QED
        BY <2>2, <3>2, <4>1
    <3>3. QED
      BY <3>1, <3>2
  <2>9. f \in [S -> R]
    <3>1. \A e \in S : f[e] \in R
      BY <2>6, <2>8
    <3>2. QED
      BY <2>4, <3>1
  <2>10. f \in Injection(S, R)
    <3>1. ASSUME NEW d \in S, NEW e \in S, f[d] = f[e] PROVE d = e
      <4>1. PICK a, x : d = <<a, PseudoNode(x)>> /\ f[d] = <<a, x>>
        BY <2>6
      <4>2. PICK b, y : e = <<b, PseudoNode(y)>> /\ f[e] = <<b, y>>
        BY <2>6
      <4>3. a = b /\ x = y
        BY <3>1, <4>1, <4>2
      <4>4. QED
        BY <4>1, <4>2, <4>3
    <3>2. \A d, e \in DOMAIN f : f[d] = f[e] => d = e
      BY <2>9, <3>1
    <3>3. QED
      BY <2>9, <3>2 DEF Injection, IsInjective
  <2>11. f \in Surjection(S, R)
    <3>1. \A r \in R : \E e \in S : f[e] = r
      BY <2>7, <2>8
    <3>2. QED
      BY <2>9, <3>1 DEF Surjection
  <2>12. ExistsBijection(S, R)
    BY <2>10, <2>11 DEF ExistsBijection, Bijection
  <2>13. Cardinality(R) = Cardinality(S)
    BY <2>3, <2>12, FS_Bijection
  <2>14. QED
    BY <2>2, <2>3, <2>13
<1>14. IsInjective(drawn)
       /\ \A y : y \in ToSet(drawn) <=> y \in names \/ \E x \in Nat : Many(met[x]) /\ y = PseudoNode(x)
  BY <1>1 DEF NodesDrawn
<1>15. Len(edges) = Cardinality(pairs)
              + Cardinality({e \in Names \X Nat : Many(met[e[2]]) /\ e[1] \in met[e[2]]})
  <2>1. PICK k \in Nat : k = Len(stars)
    BY <1>9
  <2>2. PICK l \in Nat : l = Len(rest)
    BY <1>8
  <2>3. Len(edges) = l + k
    BY <1>10, <2>1, <2>2
  <2>4. QED
    BY <1>8, <1>13, <2>1, <2>2, <2>3
<1>16. QED
  BY <1>2, <1>3, <1>12, <1>14, <1>15 DEF Pictured

\* The members of a network, as lab.json has them.
MembersOf(x) == {e.name : e \in {f \in Entries : x \in DOMAIN f.networks}}

LEMMA MembersVisited ==
  ASSUME DefInv, NEW met, met = Visited(Visits(lab.entries))
  PROVE  /\ met \in [Nat -> SUBSET Names] /\ IsFiniteSet({x \in Nat : met[x] # {}})
         /\ \A x \in Nat : met[x] = MembersOf(x) /\ IsFiniteSet(met[x])
         /\ \A x : x \in UNION {DOMAIN e.networks : e \in Entries} <=> x \in Nat /\ met[x] # {}
<1>1. PICK entries \in Seq(EntrySet) : entries = lab.entries
  BY LabEntries
<1>2. Entries = ToSet(entries) /\ \A e \in Entries : e \in EntrySet
  BY <1>1 DEF Entries, ToSet
<1>3. PICK visits \in Seq(Names \X Nat) :
        /\ visits = Visits(entries)
        /\ \A a, x : <<a, x>> \in ToSet(visits) <=>
             \E e \in ToSet(entries) : a = e.name /\ x \in DOMAIN e.networks
  <2>1. \A p, r \in DOMAIN entries : entries[p].name = entries[r].name => p = r
    BY <1>1, LabEntries
  <2>2. QED
    BY <2>1, VisitsOf
<1>4. met = [x \in Nat |-> {a \in Names : <<a, x>> \in ToSet(visits)}]
  BY <1>1, <1>3 DEF Visited
<1>5. met \in [Nat -> SUBSET Names]
  BY <1>4
<1>6. \A x \in Nat : \A a : a \in met[x] <=> \E e \in Entries : a = e.name /\ x \in DOMAIN e.networks
  <2>1. \A e \in Entries : e.name \in Names
    BY <1>2, EntryTyped
  <2>2. \A x \in Nat : \A a : a \in met[x] <=> a \in Names /\ <<a, x>> \in ToSet(visits)
    BY <1>4
  <2>3. QED
    BY <1>2, <1>3, <2>1, <2>2
<1>7. ASSUME NEW x \in Nat PROVE met[x] = MembersOf(x)
  <2>1. \A a : a \in MembersOf(x) <=> \E e \in Entries : a = e.name /\ x \in DOMAIN e.networks
    BY DEF MembersOf
  <2>2. met[x] \subseteq MembersOf(x) /\ MembersOf(x) \subseteq met[x]
    BY <1>6, <2>1
  <2>3. QED
    BY <2>2
<1>8. DOMAIN visits = 1..Len(visits) /\ Len(visits) \in Nat /\ \A i \in DOMAIN visits : visits[i] \in Names \X Nat
  OBVIOUS
<1>9. ASSUME NEW x \in Nat PROVE IsFiniteSet(met[x])
  <2>1. PICK s : s = [i \in DOMAIN visits |-> visits[i][1]]
    OBVIOUS
  <2>2. \A i \in DOMAIN visits : visits[i][1] \in Names
    BY <1>8
  <2>3. s \in Seq(Names)
    BY <1>8, <2>1, <2>2
  <2>4. met[x] \subseteq ToSet(s)
    <3>1. ASSUME NEW a \in met[x] PROVE a \in ToSet(s)
      <4>1. <<a, x>> \in ToSet(visits)
        BY <1>4, <3>1
      <4>2. PICK i \in DOMAIN visits : visits[i] = <<a, x>>
        BY <4>1 DEF ToSet
      <4>3. i \in DOMAIN s /\ s[i] = a
        BY <2>1, <4>2
      <4>4. QED
        BY <4>3 DEF ToSet
    <3>2. QED
      BY <3>1
  <2>5. IsFiniteSet(ToSet(s))
    BY <2>3, FiniteElements
  <2>6. QED
    BY <2>4, <2>5, FS_Subset
<1>10. IsFiniteSet({x \in Nat : met[x] # {}})
  <2>1. PICK s : s = [i \in DOMAIN visits |-> visits[i][2]]
    OBVIOUS
  <2>2. \A i \in DOMAIN visits : visits[i][2] \in Nat
    BY <1>8
  <2>3. s \in Seq(Nat)
    BY <1>8, <2>1, <2>2
  <2>4. ASSUME NEW x \in Nat, NEW a \in met[x] PROVE x \in ToSet(s)
    <3>1. <<a, x>> \in ToSet(visits)
      BY <1>4, <2>4
    <3>2. PICK i \in DOMAIN visits : visits[i] = <<a, x>>
      BY <3>1 DEF ToSet
    <3>3. i \in DOMAIN s /\ s[i] = x
      BY <2>1, <3>2
    <3>4. QED
      BY <3>3 DEF ToSet
  <2>5. {x \in Nat : met[x] # {}} \subseteq ToSet(s)
    BY <2>4
  <2>6. IsFiniteSet(ToSet(s))
    BY <2>3, FiniteElements
  <2>7. QED
    BY <2>5, <2>6, FS_Subset
<1>11. ASSUME NEW x PROVE x \in UNION {DOMAIN e.networks : e \in Entries} <=> x \in Nat /\ met[x] # {}
  <2>1. x \in UNION {DOMAIN e.networks : e \in Entries} <=> \E e \in Entries : x \in DOMAIN e.networks
    OBVIOUS
  <2>2. \A e \in Entries : DOMAIN e.networks \subseteq Nat
    BY <1>2, EntryTyped
  <2>3. QED
    BY <1>6, <2>1, <2>2
<1>12. QED
  BY <1>5, <1>7, <1>9, <1>10, <1>11

LEMMA DefinedGraph == DefInv => GraphFaithful
<1>1. SUFFICES ASSUME DefInv PROVE GraphFaithful
  OBVIOUS
<1>2. PICK entries \in Seq(EntrySet) :
        /\ entries = lab.entries
        /\ \A p, r \in DOMAIN entries : entries[p].name = entries[r].name => p = r
  BY <1>1, LabEntries
<1>3. PICK drawn \in Seq(Names) :
        /\ drawn = [i \in DOMAIN lab.entries |-> lab.entries[i].name] /\ IsInjective(drawn)
        /\ ToSet(drawn) = {e.name : e \in Entries}
  <2>1. DOMAIN entries = 1..Len(entries) /\ Len(entries) \in Nat /\ \A i \in DOMAIN entries : entries[i] \in EntrySet
    OBVIOUS
  <2>2. \A i \in DOMAIN entries : entries[i].name \in Names
    BY <1>1, <2>1, EntryTyped
  <2>3. PICK s : s = [i \in DOMAIN entries |-> entries[i].name]
    OBVIOUS
  <2>4. s \in Seq(Names)
    BY <2>1, <2>2, <2>3
  <2>5. IsInjective(s)
    BY <1>2, <2>3 DEF IsInjective
  <2>6. ToSet(s) = {e.name : e \in Entries}
    <3>1. Entries = ToSet(entries)
      BY <1>2 DEF Entries
    <3>2. \A e : e \in Entries <=> \E i \in DOMAIN entries : e = entries[i]
      BY <3>1 DEF ToSet
    <3>3. \A y : y \in ToSet(s) <=> \E i \in DOMAIN entries : y = entries[i].name
      BY <2>3 DEF ToSet
    <3>4. QED
      BY <3>2, <3>3
  <2>7. QED
    BY <1>2, <2>3, <2>4, <2>5, <2>6
<1>4. PICK visits \in Seq(Names \X Nat) : visits = Visits(lab.entries) /\ IsInjective(visits)
  BY <1>1, <1>2, VisitsOf
<1>5. PICK met : met = Visited(visits)
  OBVIOUS
<1>6. /\ met \in [Nat -> SUBSET Names] /\ IsFiniteSet({x \in Nat : met[x] # {}})
      /\ \A x \in Nat : met[x] = MembersOf(x) /\ IsFiniteSet(met[x])
      /\ \A x : x \in UNION {DOMAIN e.networks : e \in Entries} <=> x \in Nat /\ met[x] # {}
  BY <1>1, <1>4, <1>5, MembersVisited
<1>7. PICK g : g = Drawing([EmptyGraph EXCEPT !.nodes = drawn], visits)
  OBVIOUS
<1>8. Drawn(g, ToSet(drawn), met)
  BY <1>3, <1>4, <1>5, <1>7, GraphDrawn
<1>9. PICK left : left = SetToSeq(DOMAIN g.possible)
  OBVIOUS
<1>10. PICK edges : edges = g.edges \o [i \in DOMAIN left |-> g.possible[left[i]]]
  OBVIOUS
<1>11. from_config(lab) = [nodes |-> g.nodes, edges |-> edges]
  BY <1>3, <1>4, <1>7, <1>9, <1>10 DEF from_config
<1>12. from_config(lab).nodes = g.nodes /\ from_config(lab).edges = edges
  BY <1>11
<1>13. PICK couples : couples = {x \in Nat : \E a, b : Couple(met[x], a, b)}
  OBVIOUS
<1>14. PICK rays : rays = {e \in Names \X Nat : Many(met[e[2]]) /\ e[1] \in met[e[2]]}
  OBVIOUS
<1>15. /\ IsInjective(g.nodes)
       /\ \A y : y \in ToSet(g.nodes) <=>
            y \in ToSet(drawn) \/ \E x \in Nat : Many(met[x]) /\ y = PseudoNode(x)
       /\ \A d : (\E e \in ToSet(edges) : d = {e[1], e[2]}) <=>
                 \/ \E x \in Nat : (\E a, b : Couple(met[x], a, b)) /\ d = met[x]
                 \/ \E x \in Nat : Many(met[x]) /\ \E a \in met[x] : d = {a, PseudoNode(x)}
       /\ Len(edges) = Cardinality(couples) + Cardinality(rays)
  <2>1. PICK names : names = ToSet(drawn)
    OBVIOUS
  <2>2. met \in [Nat -> SUBSET Names] /\ IsFiniteSet({x \in Nat : met[x] # {}})
    BY <1>6
  <2>3. Drawn(g, names, met)
    BY <1>8, <2>1
  <2>4. Pictured(g.nodes, edges, names, met)
    BY <1>9, <1>10, <2>2, <2>3, DrawnGraph
  <2>5. Len(edges) = Cardinality(couples) + Cardinality(rays)
    BY <1>13, <1>14, <2>4 DEF Pictured
  <2>6. QED
    BY <2>1, <2>4, <2>5 DEF Pictured
<1>16. PICK used : used = UNION {DOMAIN e.networks : e \in Entries}
  OBVIOUS
<1>17. PICK stars : stars = {x \in used : Cardinality(MembersOf(x)) > 2}
  OBVIOUS
<1>18. PICK pairs : pairs = {x \in used : Cardinality(MembersOf(x)) = 2}
  OBVIOUS
<1>19. \A x : x \in stars <=> x \in Nat /\ Many(met[x])
  <2>1. \A x \in Nat : Cardinality(met[x]) > 2 <=> Many(met[x])
    BY <1>6, Counted
  <2>2. \A x \in Nat : Many(met[x]) => met[x] # {}
    BY DEF Many
  <2>3. QED
    BY <1>6, <1>16, <1>17, <2>1, <2>2
<1>20. \A x : x \in pairs <=> x \in Nat /\ \E a, b : Couple(met[x], a, b)
  <2>1. \A x \in Nat : Cardinality(met[x]) = 2 <=> \E a, b : Couple(met[x], a, b)
    BY <1>6, Counted
  <2>2. \A x \in Nat : (\E a, b : Couple(met[x], a, b)) => met[x] # {}
    BY DEF Couple
  <2>3. QED
    BY <1>6, <1>16, <1>18, <2>1, <2>2
<1>21. ToSet(g.nodes) = {e.name : e \in Entries} \cup {PseudoNode(x) : x \in stars}
  <2>1. \A y : y \in {PseudoNode(x) : x \in stars} <=> \E x \in Nat : Many(met[x]) /\ y = PseudoNode(x)
    BY <1>19
  <2>2. \A y : y \in ToSet(g.nodes) <=> y \in {e.name : e \in Entries} \/ y \in {PseudoNode(x) : x \in stars}
    BY <1>3, <1>15, <2>1
  <2>3. QED
    BY <2>2
<1>22. {{e[1], e[2]} : e \in ToSet(edges)} =
         {MembersOf(x) : x \in pairs}
           \cup UNION {{{a, PseudoNode(x)} : a \in MembersOf(x)} : x \in stars}
  <2>1. \A d : d \in {{e[1], e[2]} : e \in ToSet(edges)} <=> \E e \in ToSet(edges) : d = {e[1], e[2]}
    OBVIOUS
  <2>2. \A d : d \in {MembersOf(x) : x \in pairs} <=>
               \E x \in Nat : (\E a, b : Couple(met[x], a, b)) /\ d = met[x]
    BY <1>6, <1>20
  <2>3. ASSUME NEW d
        PROVE  d \in UNION {{{a, PseudoNode(x)} : a \in MembersOf(x)} : x \in stars} <=>
               \E x \in Nat : Many(met[x]) /\ \E a \in met[x] : d = {a, PseudoNode(x)}
    <3>1. d \in UNION {{{a, PseudoNode(x)} : a \in MembersOf(x)} : x \in stars} <=>
            \E x \in stars : \E a \in MembersOf(x) : d = {a, PseudoNode(x)}
      <4>1. ASSUME d \in UNION {{{a, PseudoNode(x)} : a \in MembersOf(x)} : x \in stars}
            PROVE  \E x \in stars : \E a \in MembersOf(x) : d = {a, PseudoNode(x)}
        <5>1. PICK s \in {{{a, PseudoNode(x)} : a \in MembersOf(x)} : x \in stars} : d \in s
          BY <4>1
        <5>2. PICK x \in stars : s = {{a, PseudoNode(x)} : a \in MembersOf(x)}
          BY <5>1
        <5>3. QED
          BY <5>1, <5>2
      <4>2. ASSUME NEW x \in stars, NEW a \in MembersOf(x), d = {a, PseudoNode(x)}
            PROVE  d \in UNION {{{b, PseudoNode(y)} : b \in MembersOf(y)} : y \in stars}
        <5>1. PICK s : s = {{b, PseudoNode(x)} : b \in MembersOf(x)}
          OBVIOUS
        <5>2. d \in s
          BY <4>2, <5>1
        <5>3. s \in {{{b, PseudoNode(y)} : b \in MembersOf(y)} : y \in stars}
          BY <4>2, <5>1
        <5>4. QED
          BY <5>2, <5>3
      <4>3. QED
        BY <4>1, <4>2
    <3>2. QED
      BY <1>6, <1>19, <3>1
  <2>4. PICK lines, double, star :
          /\ lines = {{e[1], e[2]} : e \in ToSet(edges)} /\ double = {MembersOf(x) : x \in pairs}
          /\ star = UNION {{{a, PseudoNode(x)} : a \in MembersOf(x)} : x \in stars}
    OBVIOUS
  <2>5. \A d : d \in lines <=> d \in double \/ d \in star
    <3>1. ASSUME NEW d PROVE d \in lines <=> d \in double \/ d \in star
      <4>1. d \in lines <=> \E e \in ToSet(edges) : d = {e[1], e[2]}
        BY <2>1, <2>4
      <4>2. d \in double <=> \E x \in Nat : (\E a, b : Couple(met[x], a, b)) /\ d = met[x]
        BY <2>2, <2>4
      <4>3. d \in star <=> \E x \in Nat : Many(met[x]) /\ \E a \in met[x] : d = {a, PseudoNode(x)}
        BY <2>3, <2>4
      <4>4. QED
        BY <1>15, <4>1, <4>2, <4>3
    <3>2. QED
      BY <3>1
  <2>6. lines = double \cup star
    BY <2>5
  <2>7. QED
    BY <2>4, <2>6
<1>23. couples = pairs
  BY <1>13, <1>20
<1>24. rays = UNION {{<<a, x>> : a \in MembersOf(x)} : x \in stars}
  <2>1. \A r : r \in UNION {{<<a, x>> : a \in MembersOf(x)} : x \in stars} <=>
          \E x \in stars : \E a \in MembersOf(x) : r = <<a, x>>
    <3>1. ASSUME NEW r, r \in UNION {{<<a, x>> : a \in MembersOf(x)} : x \in stars}
          PROVE  \E x \in stars : \E a \in MembersOf(x) : r = <<a, x>>
      <4>1. PICK s \in {{<<a, x>> : a \in MembersOf(x)} : x \in stars} : r \in s
        BY <3>1
      <4>2. PICK x \in stars : s = {<<a, x>> : a \in MembersOf(x)}
        BY <4>1
      <4>3. QED
        BY <4>1, <4>2
    <3>2. ASSUME NEW x \in stars, NEW a \in MembersOf(x)
          PROVE  <<a, x>> \in UNION {{<<b, y>> : b \in MembersOf(y)} : y \in stars}
      <4>1. PICK s : s = {<<b, x>> : b \in MembersOf(x)}
        OBVIOUS
      <4>2. <<a, x>> \in s
        BY <3>2, <4>1
      <4>3. s \in {{<<b, y>> : b \in MembersOf(y)} : y \in stars}
        BY <3>2, <4>1
      <4>4. QED
        BY <4>2, <4>3
    <3>3. QED
      BY <3>1, <3>2
  <2>2. ASSUME NEW r \in rays PROVE \E x \in stars : \E a \in MembersOf(x) : r = <<a, x>>
    <3>1. r \in Names \X Nat /\ Many(met[r[2]]) /\ r[1] \in met[r[2]]
      BY <1>14
    <3>2. r = <<r[1], r[2]>> /\ r[2] \in Nat
      BY <3>1
    <3>3. QED
      BY <1>6, <1>19, <3>1, <3>2
  <2>3. ASSUME NEW x \in stars, NEW a \in MembersOf(x) PROVE <<a, x>> \in rays
    <3>1. x \in Nat /\ Many(met[x]) /\ a \in met[x] /\ a \in Names
      BY <1>6, <1>19, <2>3
    <3>2. <<a, x>>[1] = a /\ <<a, x>>[2] = x /\ <<a, x>> \in Names \X Nat
      BY <3>1
    <3>3. QED
      BY <1>14, <3>1, <3>2
  <2>4. QED
    BY <2>1, <2>2, <2>3
<1>25. Len(edges) = Cardinality(pairs) + Cardinality(UNION {{<<a, x>> : a \in MembersOf(x)} : x \in stars})
  BY <1>15, <1>23, <1>24
<1>26. QED
  BY <1>12, <1>15, <1>16, <1>17, <1>18, <1>21, <1>22, <1>25 DEF GraphFaithful, MembersOf

\* However the lab was defined, the graph has one node for each node of the lab and for
\* each network of three or more, one edge for each network of two and for each member of
\* a larger network, and nothing else: though it is drawn in one pass that has to take
\* back the edge of a network once a third member is met.
THEOREM LabDrawn == Spec => []GraphFaithful
<1>1. Spec => []DefInv
  BY LabDefined
<1>2. DefInv => GraphFaithful
  BY DefinedGraph
<1>3. QED
  BY <1>1, <1>2, PTL

=============================================================================
