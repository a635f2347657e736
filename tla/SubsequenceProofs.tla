----------------------------- MODULE SubsequenceProofs -----------------------------
(***************************************************************************)
(* Lemmas about sequences from which entries are erased or into which they *)
(* are inserted, and about counting the places of an entry.                *)
(***************************************************************************)
EXTENDS Subsequences, SequencesExt, SequenceTheorems, FiniteSetTheorems,
        WellFoundedInduction, NaturalsInduction, TLAPS

(* Induction, for a set instead of a formula. *)
LEMMA SetInduction ==
  ASSUME NEW T \in SUBSET Nat, 0 \in T, \A n \in T : n + 1 \in T
  PROVE  T = Nat
<1>1. SUFFICES ASSUME Nat \ T # {} PROVE FALSE
  OBVIOUS
<1>2. PICK x \in Nat \ T : \A y \in Nat \ T : ~(<<y, x>> \in OpToRel(<, Nat))
  BY <1>1, NatLessThanWellFounded, WFMin
<1>3. x # 0 /\ x - 1 \in Nat /\ x - 1 < x
  BY SMT
<1>4. x - 1 \in T
  BY <1>2, <1>3 DEF OpToRel
<1>. QED BY <1>3, <1>4

(* A set of numbers that is not empty has a least one. *)
LEMMA LeastNumber ==
  ASSUME NEW T \in SUBSET Nat, T # {}
  PROVE  \E n \in T : \A m \in T : n <= m
<1>1. PICK x \in T : \A y \in T : ~(<<y, x>> \in OpToRel(<, Nat))
  BY NatLessThanWellFounded, WFMin
<1>2. \A y \in T : ~(y < x)
  BY <1>1 DEF OpToRel
<1>3. \A y \in T : y \in Nat /\ x \in Nat
  OBVIOUS
<1>4. \A y \in T : x <= y
  BY <1>2, <1>3
<1>. QED BY <1>4

-----------------------------------------------------------------------------
(* The positions that are kept. *)

Rising(f) == \A i, j \in DOMAIN f : i < j => f[i] < f[j]

LEMMA PositionsFinite ==
  ASSUME NEW n \in Nat, NEW K \in SUBSET (1 .. n)
  PROVE  IsFiniteSet(K) /\ Cardinality(K) \in Nat /\ K \subseteq Nat
<1>1. IsFiniteSet(1 .. n)
  BY FS_Interval
<1>2. IsFiniteSet(K)
  BY <1>1, FS_Subset
<1>. QED BY <1>2, FS_CardinalityType

LEMMA RisingExists ==
  ASSUME NEW n \in Nat, NEW K \in SUBSET (1 .. n)
  PROVE  \E f \in [1 .. Cardinality(K) -> K] : Rising(f)
<1>. DEFINE T == {m \in Nat : \A L \in SUBSET (1 .. m) :
                                 \E f \in [1 .. Cardinality(L) -> L] : Rising(f)}
<1>1. 0 \in T
  <2>1. ASSUME NEW L \in SUBSET (1 .. 0)
        PROVE  \E f \in [1 .. Cardinality(L) -> L] : Rising(f)
    <3>1. L = {}
      OBVIOUS
    <3>2. Cardinality(L) = 0
      BY <3>1, FS_EmptySet, Zenon
    <3>3. [i \in 1 .. 0 |-> i] \in [1 .. Cardinality(L) -> L]
      BY <3>2
    <3>4. Rising([i \in 1 .. 0 |-> i])
      BY DEF Rising
    <3>. QED BY <3>3, <3>4
  <2>. QED BY <2>1
<1>2. ASSUME NEW m \in T, NEW L \in SUBSET (1 .. m + 1)
      PROVE  \E f \in [1 .. Cardinality(L) -> L] : Rising(f)
  <2>. DEFINE M == L \ {m + 1}
  <2>1. m \in Nat /\ M \in SUBSET (1 .. m)
    <3>1. m \in Nat
      OBVIOUS
    <3>2. \A x \in M : x \in 1 .. m
      BY <3>1
    <3>. QED BY <3>1, <3>2
  <2>2. PICK f \in [1 .. Cardinality(M) -> M] : Rising(f)
    BY <2>1
  <2>3. IsFiniteSet(L) /\ Cardinality(L) \in Nat /\ Cardinality(M) \in Nat
    <3>1. m + 1 \in Nat
      BY <2>1
    <3>. QED BY <2>1, <3>1, PositionsFinite
  <2>4. CASE m + 1 \notin L
    <3>1. M = L
      BY <2>4
    <3>. QED BY <2>2, <3>1
  <2>5. CASE m + 1 \in L
    <3>1. Cardinality(M) = Cardinality(L) - 1
      BY <2>3, <2>5, FS_RemoveElement
    <3>. DEFINE c == Cardinality(L)
                g == [i \in 1 .. c |-> IF i = c THEN m + 1 ELSE f[i]]
    <3>2. c \in Nat \ {0} /\ Cardinality(M) = c - 1
      BY <2>3, <3>1
    <3>3. \A i \in 1 .. c - 1 : f[i] \in M /\ f[i] \in 1 .. m
      BY <2>1, <2>2, <3>2
    <3>4. \A i, j \in 1 .. c - 1 : i < j => f[i] < f[j]
      BY <2>2, <3>2 DEF Rising
    <3>. HIDE DEF c, M
    <3>5. g \in [1 .. c -> L]
      <4>1. \A i \in 1 .. c : i # c => i \in 1 .. c - 1
        BY <3>2
      <4>2. M \subseteq L
        BY DEF M
      <4>. QED BY <2>5, <3>3, <4>1, <4>2
    <3>6. Rising(g)
      <4>1. DOMAIN g = 1 .. c
        OBVIOUS
      <4>2. ASSUME NEW i \in 1 .. c, NEW j \in 1 .. c, i < j
            PROVE  g[i] < g[j]
        <5>1. i \in 1 .. c - 1 /\ i # c
          BY <3>2, <4>2
        <5>2. g[i] = f[i] /\ f[i] \in 1 .. m
          BY <3>3, <5>1
        <5>3. CASE j = c
          BY <2>1, <5>2, <5>3
        <5>4. CASE j # c
          <6>1. j \in 1 .. c - 1
            BY <3>2, <5>4
          <6>2. g[j] = f[j]
            BY <5>4
          <6>. QED BY <3>4, <4>2, <5>1, <5>2, <6>1, <6>2
        <5>. QED BY <5>3, <5>4
      <4>. HIDE DEF g
      <4>. QED BY <4>1, <4>2 DEF Rising
    <3>. QED BY <3>5, <3>6 DEF c
  <2>. QED BY <2>4, <2>5
<1>3. \A m \in T : m + 1 \in T
  <2>1. ASSUME NEW m \in T
        PROVE  m + 1 \in T
    <3>1. m + 1 \in Nat
      OBVIOUS
    <3>2. \A L \in SUBSET (1 .. m + 1) : \E f \in [1 .. Cardinality(L) -> L] : Rising(f)
      BY <1>2, Zenon
    <3>. QED BY <3>1, <3>2, Zenon
  <2>. QED BY <2>1
<1>4. T = Nat
  <2>. HIDE DEF T
  <2>1. T \subseteq Nat
    BY DEF T
  <2>. QED BY <1>1, <1>3, <2>1, SetInduction
<1>5. n \in T
  BY <1>4
<1>. QED BY <1>5

LEMMA RisingAhead ==
  ASSUME NEW n \in Nat, NEW f \in [1 .. n -> Nat \ {0}], Rising(f), NEW i \in 1 .. n
  PROVE  i <= f[i]
<1>. DEFINE T == {m \in Nat : m \in 1 .. n => m <= f[m]}
<1>1. 0 \in T
  OBVIOUS
<1>2. ASSUME NEW m \in T
      PROVE  m + 1 \in T
  <2>1. SUFFICES ASSUME m + 1 \in 1 .. n PROVE m + 1 <= f[m + 1]
    OBVIOUS
  <2>2. f[m + 1] \in Nat \ {0}
    BY <2>1
  <2>3. CASE m = 0
    BY <2>2, <2>3
  <2>4. CASE m # 0
    <3>1. m \in 1 .. n /\ m < m + 1 /\ m <= f[m] /\ f[m] \in Nat
      BY <2>1, <2>4
    <3>2. f[m] < f[m + 1]
      BY <2>1, <3>1 DEF Rising
    <3>. QED BY <2>2, <3>1, <3>2
  <2>. QED BY <2>3, <2>4
<1>3. T = Nat
  <2>. HIDE DEF T
  <2>1. T \subseteq Nat
    BY DEF T
  <2>. QED BY <1>1, <1>2, <2>1, SetInduction
<1>4. i \in T
  BY <1>3
<1>. QED BY <1>4

LEMMA AscendingProperties ==
  ASSUME NEW n \in Nat, NEW K \in SUBSET (1 .. n)
  PROVE  /\ Ascending(K) \in [1 .. Cardinality(K) -> K]
         /\ Rising(Ascending(K))
         /\ \A k \in K : \E i \in 1 .. Cardinality(K) : Ascending(K)[i] = k
         /\ \A i \in 1 .. Cardinality(K) : i <= Ascending(K)[i]
<1>1. \E f \in [1 .. Cardinality(K) -> K] : \A i, j \in DOMAIN f : i < j => f[i] < f[j]
  BY RisingExists, Zenon DEF Rising
<1>2. PICK f : f = Ascending(K)
  OBVIOUS
<1>3. f \in [1 .. Cardinality(K) -> K] /\ Rising(f)
  BY <1>1, <1>2, Zenon DEF Ascending, Rising
<1>4. IsFiniteSet(K) /\ Cardinality(K) \in Nat /\ K \subseteq Nat /\ K \subseteq Nat \ {0}
  <2>1. \A x \in 1 .. n : x \in Nat \ {0}
    OBVIOUS
  <2>. QED BY <2>1, PositionsFinite
<1>5. \A i \in 1 .. Cardinality(K) : i <= f[i]
  <2>1. f \in [1 .. Cardinality(K) -> Nat \ {0}]
    BY <1>3, <1>4
  <2>. QED BY <1>3, <1>4, <2>1, RisingAhead
<1>6. f \in Injection(1 .. Cardinality(K), K)
  <2>1. ASSUME NEW i \in 1 .. Cardinality(K), NEW j \in 1 .. Cardinality(K), f[i] = f[j]
        PROVE  i = j
    <3>1. i \in Nat /\ j \in Nat /\ f[i] \in Nat
      <4>1. f[i] \in K
        BY <1>3
      <4>2. f[i] \in Nat
        BY <1>4, <4>1, Zenon
      <4>3. \A x \in 1 .. Cardinality(K) : x \in Nat
        BY <1>4
      <4>. QED BY <4>2, <4>3, Zenon
    <3>2. ~(i < j) /\ ~(j < i)
      BY <1>3, <2>1, <3>1 DEF Rising
    <3>. QED BY <3>1, <3>2
  <2>. QED BY <1>3, <2>1 DEF Injection, IsInjective
<1>7. Cardinality(1 .. Cardinality(K)) = Cardinality(K)
  BY <1>4, FS_Interval
<1>8. f \in Surjection(1 .. Cardinality(K), K)
  BY <1>4, <1>6, <1>7, FS_Injection
<1>9. \A k \in K : \E i \in 1 .. Cardinality(K) : f[i] = k
  BY <1>8 DEF Surjection
<1>. QED BY <1>2, <1>3, <1>5, <1>9

LEMMA KeptProperties ==
  ASSUME NEW S, NEW s \in Seq(S), NEW K \in SUBSET DOMAIN s
  PROVE  /\ Kept(s, K) \in Seq(S)
         /\ Len(Kept(s, K)) = Cardinality(K)
         /\ Cardinality(K) \in Nat
         /\ Ascending(K) \in [1 .. Cardinality(K) -> K]
         /\ \A i \in 1 .. Cardinality(K) : Kept(s, K)[i] = s[Ascending(K)[i]]
<1>1. DOMAIN s = 1 .. Len(s) /\ Len(s) \in Nat /\ \A i \in 1 .. Len(s) : s[i] \in S
  OBVIOUS
<1>2. Cardinality(K) \in Nat
  BY <1>1, PositionsFinite
<1>3. PICK f \in [1 .. Cardinality(K) -> K] : f = Ascending(K)
  BY <1>1, AscendingProperties
<1>4. Kept(s, K) = [i \in 1 .. Cardinality(K) |-> s[f[i]]]
  BY <1>3 DEF Kept
<1>5. \A i \in 1 .. Cardinality(K) : s[f[i]] \in S
  BY <1>1, <1>3
<1>6. Kept(s, K) \in Seq(S) /\ Len(Kept(s, K)) = Cardinality(K)
  BY <1>2, <1>4, <1>5
<1>7. \A i \in 1 .. Cardinality(K) : Kept(s, K)[i] = s[f[i]]
  BY <1>3, <1>4
<1>. QED BY <1>2, <1>3, <1>6, <1>7

(* An entry that is kept moves forward when one in front of it is not. *)
LEMMA KeptPast ==
  ASSUME NEW n \in Nat, NEW f \in [1 .. n -> Nat \ {0}], Rising(f),
         NEW k \in Nat \ {0}, \A i \in 1 .. n : f[i] # k,
         NEW i \in 1 .. n, f[i] > k
  PROVE  i < f[i]
<1>. DEFINE T == {m \in Nat : m \in 1 .. n /\ f[m] > k => m < f[m]}
<1>1. 0 \in T
  OBVIOUS
<1>2. ASSUME NEW m \in T
      PROVE  m + 1 \in T
  <2>1. SUFFICES ASSUME m + 1 \in 1 .. n, f[m + 1] > k PROVE m + 1 < f[m + 1]
    OBVIOUS
  <2>2. f[m + 1] \in Nat /\ m \in Nat
    BY <2>1
  <2>3. CASE m = 0
    BY <2>1, <2>2, <2>3
  <2>4. CASE m # 0
    <3>1. m \in 1 .. n /\ m < m + 1
      BY <2>1, <2>4
    <3>2. f[m] \in Nat /\ f[m] # k /\ (f[m] > k => m < f[m])
      BY <3>1
    <3>3. f[m] < f[m + 1] /\ m <= f[m]
      BY <2>1, <3>1, RisingAhead DEF Rising
    <3>. QED BY <2>1, <2>2, <3>2, <3>3
  <2>. QED BY <2>3, <2>4
<1>3. T = Nat
  <2>. HIDE DEF T
  <2>1. T \subseteq Nat
    BY DEF T
  <2>. QED BY <1>1, <1>2, <2>1, SetInduction
<1>4. i \in T
  BY <1>3
<1>. QED BY <1>4

-----------------------------------------------------------------------------
(* One entry is erased or inserted. *)

LEMMA RemoveAtProperties ==
  ASSUME NEW S, NEW s \in Seq(S), NEW i \in 1 .. Len(s)
  PROVE  /\ RemoveAt(s, i) \in Seq(S)
         /\ Len(RemoveAt(s, i)) = Len(s) - 1
         /\ \A j \in 1 .. Len(s) - 1 : RemoveAt(s, i)[j] = IF j < i THEN s[j] ELSE s[j + 1]
<1>. DEFINE t == SubSeq(s, 1, i - 1)
            u == SubSeq(s, i + 1, Len(s))
<1>1. Len(s) \in Nat /\ i \in Nat /\ 1 <= i /\ i <= Len(s) /\ \A j \in 1 .. Len(s) : s[j] \in S
  OBVIOUS
<1>2. t \in Seq(S) /\ Len(t) = i - 1 /\ \A j \in 1 .. i - 1 : t[j] = s[j]
  BY <1>1
<1>3. u \in Seq(S) /\ Len(u) = Len(s) - i /\ \A j \in 1 .. Len(s) - i : u[j] = s[i + j]
  BY <1>1
<1>. HIDE DEF t, u
<1>4. /\ t \o u \in Seq(S) /\ Len(t \o u) = Len(s) - 1
      /\ \A j \in 1 .. Len(s) - 1 : (t \o u)[j] = IF j <= i - 1 THEN t[j] ELSE u[j - (i - 1)]
  <2>1. /\ t \o u \in Seq(S) /\ Len(t \o u) = Len(t) + Len(u)
        /\ \A j \in 1 .. Len(t) + Len(u) :
             (t \o u)[j] = IF j <= Len(t) THEN t[j] ELSE u[j - Len(t)]
    BY <1>2, <1>3, ConcatProperties
  <2>2. Len(t) = i - 1 /\ Len(t) + Len(u) = Len(s) - 1
    BY <1>1, <1>2, <1>3
  <2>. QED BY <2>1, <2>2
<1>5. ASSUME NEW j \in 1 .. Len(s) - 1
      PROVE  (t \o u)[j] = IF j < i THEN s[j] ELSE s[j + 1]
  <2>1. CASE j < i
    <3>1. j <= i - 1 /\ j \in 1 .. i - 1
      BY <1>1, <2>1
    <3>. QED BY <1>2, <1>4, <2>1, <3>1
  <2>2. CASE ~(j < i)
    <3>1. ~(j <= i - 1) /\ j - (i - 1) \in 1 .. Len(s) - i /\ i + (j - (i - 1)) = j + 1
      BY <1>1, <2>2
    <3>. QED BY <1>3, <1>4, <2>2, <3>1
  <2>. QED BY <2>1, <2>2
<1>6. RemoveAt(s, i) = t \o u
  BY DEF RemoveAt, t, u
<1>. QED BY <1>4, <1>5, <1>6

LEMMA InsertAtProperties ==
  ASSUME NEW S, NEW s \in Seq(S), NEW i \in 1 .. Len(s) + 1, NEW e \in S
  PROVE  /\ InsertAt(s, i, e) \in Seq(S)
         /\ Len(InsertAt(s, i, e)) = Len(s) + 1
         /\ InsertAt(s, i, e)[i] = e
         /\ \A j \in 1 .. i - 1 : InsertAt(s, i, e)[j] = s[j]
         /\ \A j \in i .. Len(s) : InsertAt(s, i, e)[j + 1] = s[j]
<1>. DEFINE t == SubSeq(s, 1, i - 1)
            u == SubSeq(s, i, Len(s))
<1>1. Len(s) \in Nat /\ i \in Nat /\ 1 <= i /\ i <= Len(s) + 1 /\ \A j \in 1 .. Len(s) : s[j] \in S
  OBVIOUS
<1>2. t \in Seq(S) /\ Len(t) = i - 1 /\ \A j \in 1 .. i - 1 : t[j] = s[j]
  BY <1>1
<1>3. u \in Seq(S) /\ Len(u) = Len(s) + 1 - i /\ \A j \in 1 .. Len(s) + 1 - i : u[j] = s[i + j - 1]
  BY <1>1
<1>. HIDE DEF t, u
<1>. DEFINE v == t \o <<e>>
<1>4. v \in Seq(S) /\ Len(v) = i /\ v[i] = e /\ \A j \in 1 .. i - 1 : v[j] = t[j]
  BY <1>1, <1>2
<1>. HIDE DEF v
<1>5. /\ v \o u \in Seq(S) /\ Len(v \o u) = Len(s) + 1
      /\ \A j \in 1 .. Len(s) + 1 : (v \o u)[j] = IF j <= i THEN v[j] ELSE u[j - i]
  BY <1>1, <1>3, <1>4
<1>6. (v \o u)[i] = e
  BY <1>1, <1>4, <1>5
<1>7. ASSUME NEW j \in 1 .. i - 1
      PROVE  (v \o u)[j] = s[j]
  <2>1. j \in 1 .. Len(s) + 1 /\ j <= i
    BY <1>1
  <2>. QED BY <1>2, <1>4, <1>5, <2>1
<1>8. ASSUME NEW j \in i .. Len(s)
      PROVE  (v \o u)[j + 1] = s[j]
  <2>1. j + 1 \in 1 .. Len(s) + 1 /\ ~(j + 1 <= i) /\ (j + 1) - i \in 1 .. Len(s) + 1 - i
        /\ i + ((j + 1) - i) - 1 = j
    BY <1>1
  <2>. QED BY <1>3, <1>5, <2>1
<1>9. InsertAt(s, i, e) = v \o u
  BY DEF InsertAt, t, u, v
<1>. QED BY <1>5, <1>6, <1>7, <1>8, <1>9

-----------------------------------------------------------------------------
(* Lists that have no entry twice. *)

Once(s) == \A i, j \in 1 .. Len(s) : s[i] = s[j] => i = j

LEMMA EntriesOf ==
  ASSUME NEW S, NEW s \in Seq(S), NEW e
  PROVE  /\ e \in ToSet(s) <=> \E i \in 1 .. Len(s) : s[i] = e
         /\ ToSet(s) \subseteq S /\ Len(s) \in Nat
BY DEF ToSet

LEMMA AppendOnce ==
  ASSUME NEW S, NEW s \in Seq(S), Once(s), NEW e \in S, e \notin ToSet(s)
  PROVE  /\ Append(s, e) \in Seq(S) /\ Once(Append(s, e))
         /\ ToSet(Append(s, e)) = ToSet(s) \cup {e}
<1>. DEFINE t == Append(s, e)
<1>1. /\ t \in Seq(S) /\ Len(t) = Len(s) + 1 /\ Len(s) \in Nat
      /\ t[Len(s) + 1] = e /\ \A i \in 1 .. Len(s) : t[i] = s[i]
  BY AppendProperties
<1>. HIDE DEF t
<1>2. \A i \in 1 .. Len(s) : s[i] # e
  BY EntriesOf
<1>3. ASSUME NEW i \in 1 .. Len(t), NEW j \in 1 .. Len(t), t[i] = t[j]
      PROVE  i = j
  <2>1. (i \in 1 .. Len(s) \/ i = Len(s) + 1) /\ (j \in 1 .. Len(s) \/ j = Len(s) + 1)
    BY <1>1
  <2>. QED BY <1>1, <1>2, <1>3, <2>1 DEF Once
<1>4. ASSUME NEW x
      PROVE  x \in ToSet(t) <=> x \in ToSet(s) \cup {e}
  <2>1. ASSUME NEW i \in 1 .. Len(t), t[i] = x
        PROVE  x = e \/ \E j \in 1 .. Len(s) : s[j] = x
    <3>1. i \in 1 .. Len(s) \/ i = Len(s) + 1
      BY <1>1
    <3>. QED BY <1>1, <2>1, <3>1
  <2>2. ASSUME NEW j \in 1 .. Len(s), s[j] = x
        PROVE  j \in 1 .. Len(t) /\ t[j] = x
    BY <1>1, <2>2
  <2>3. Len(s) + 1 \in 1 .. Len(t)
    BY <1>1
  <2>. QED BY <1>1, <2>1, <2>2, <2>3, EntriesOf
<1>. QED BY <1>1, <1>3, <1>4 DEF t, Once

LEMMA ConcatOnce ==
  ASSUME NEW S, NEW s \in Seq(S), NEW t \in Seq(S), Once(s), Once(t),
         ToSet(s) \cap ToSet(t) = {}
  PROVE  /\ s \o t \in Seq(S) /\ Once(s \o t)
         /\ ToSet(s \o t) = ToSet(s) \cup ToSet(t)
<1>. DEFINE u == s \o t
<1>1. /\ u \in Seq(S) /\ Len(u) = Len(s) + Len(t) /\ Len(s) \in Nat /\ Len(t) \in Nat
      /\ \A i \in 1 .. Len(s) + Len(t) : u[i] = IF i <= Len(s) THEN s[i] ELSE t[i - Len(s)]
  BY ConcatProperties
<1>. HIDE DEF u
<1>2. \A i \in 1 .. Len(u) :
        \/ i \in 1 .. Len(s) /\ u[i] = s[i]
        \/ i - Len(s) \in 1 .. Len(t) /\ u[i] = t[i - Len(s)]
  BY <1>1
<1>3. /\ \A i \in 1 .. Len(s) : i \in 1 .. Len(u) /\ u[i] = s[i]
      /\ \A i \in 1 .. Len(t) : i + Len(s) \in 1 .. Len(u) /\ u[i + Len(s)] = t[i]
  <2>1. \A i \in 1 .. Len(s) : i \in 1 .. Len(s) + Len(t) /\ i <= Len(s)
    BY <1>1
  <2>2. \A i \in 1 .. Len(t) :
          /\ i + Len(s) \in 1 .. Len(s) + Len(t)
          /\ ~(i + Len(s) <= Len(s)) /\ (i + Len(s)) - Len(s) = i
    BY <1>1
  <2>. QED BY <1>1, <2>1, <2>2
<1>4. \A i \in 1 .. Len(s), j \in 1 .. Len(t) : s[i] # t[j]
  BY EntriesOf
<1>5. ASSUME NEW i \in 1 .. Len(u), NEW j \in 1 .. Len(u), u[i] = u[j]
      PROVE  i = j
  <2>1. CASE i \in 1 .. Len(s) /\ u[i] = s[i] /\ j \in 1 .. Len(s) /\ u[j] = s[j]
    BY <1>5, <2>1 DEF Once
  <2>2. CASE /\ i - Len(s) \in 1 .. Len(t) /\ u[i] = t[i - Len(s)]
             /\ j - Len(s) \in 1 .. Len(t) /\ u[j] = t[j - Len(s)]
    <3>1. i - Len(s) = j - Len(s)
      BY <1>5, <2>2 DEF Once
    <3>. QED BY <1>1, <3>1
  <2>. QED BY <1>2, <1>4, <1>5, <2>1, <2>2
<1>6. ASSUME NEW x
      PROVE  x \in ToSet(u) <=> x \in ToSet(s) \cup ToSet(t)
  <2>1. /\ x \in ToSet(u) <=> \E i \in 1 .. Len(u) : u[i] = x
        /\ x \in ToSet(s) <=> \E i \in 1 .. Len(s) : s[i] = x
        /\ x \in ToSet(t) <=> \E i \in 1 .. Len(t) : t[i] = x
    <3>1. DOMAIN u = 1 .. Len(u) /\ DOMAIN s = 1 .. Len(s) /\ DOMAIN t = 1 .. Len(t)
      BY <1>1
    <3>. QED BY <3>1, Zenon DEF ToSet
  <2>. QED BY <1>2, <1>3, <2>1, Zenon
<1>. QED BY <1>1, <1>5, <1>6 DEF u, Once

LEMMA RemoveAtOnce ==
  ASSUME NEW S, NEW s \in Seq(S), Once(s), NEW i \in 1 .. Len(s)
  PROVE  /\ RemoveAt(s, i) \in Seq(S) /\ Once(RemoveAt(s, i))
         /\ ToSet(RemoveAt(s, i)) = ToSet(s) \ {s[i]}
<1>. DEFINE t == RemoveAt(s, i)
            from(x) == IF x < i THEN x ELSE x + 1
<1>1. /\ t \in Seq(S) /\ Len(t) = Len(s) - 1 /\ Len(s) \in Nat
      /\ \A j \in 1 .. Len(s) - 1 : t[j] = s[from(j)]
  <2>1. Len(s) \in Nat
    OBVIOUS
  <2>2. /\ t \in Seq(S) /\ Len(t) = Len(s) - 1
        /\ \A j \in 1 .. Len(s) - 1 : t[j] = IF j < i THEN s[j] ELSE s[j + 1]
    BY RemoveAtProperties
  <2>. HIDE DEF t
  <2>. QED BY <2>1, <2>2
<1>2. \A j \in 1 .. Len(t) : from(j) \in 1 .. Len(s) /\ from(j) # i
  BY <1>1
<1>3. \A j, k \in 1 .. Len(t) : from(j) = from(k) => j = k
  BY <1>1
<1>4. \A k \in 1 .. Len(s) : k # i => \E j \in 1 .. Len(t) : from(j) = k
  <2>1. ASSUME NEW k \in 1 .. Len(s), k # i
        PROVE  \E j \in 1 .. Len(t) : from(j) = k
    <3>1. CASE k < i
      <4>1. k \in 1 .. Len(t) /\ from(k) = k
        BY <1>1, <3>1
      <4>. QED BY <4>1
    <3>2. CASE ~(k < i)
      <4>1. k - 1 \in 1 .. Len(t) /\ from(k - 1) = k
        BY <1>1, <2>1, <3>2
      <4>. QED BY <4>1
    <3>. QED BY <3>1, <3>2
  <2>. QED BY <2>1
<1>. HIDE DEF t, from
<1>5. \A j \in 1 .. Len(t) : t[j] = s[from(j)]
  BY <1>1
<1>6. Once(t)
  BY <1>2, <1>3, <1>5 DEF Once
<1>7. ASSUME NEW x
      PROVE  x \in ToSet(t) <=> x \in ToSet(s) \ {s[i]}
  <2>1. \A k \in 1 .. Len(s) : s[k] = s[i] => k = i
    BY DEF Once
  <2>2. /\ x \in ToSet(t) <=> \E j \in 1 .. Len(t) : t[j] = x
        /\ x \in ToSet(s) <=> \E j \in 1 .. Len(s) : s[j] = x
    BY <1>1, EntriesOf
  <2>. QED BY <1>2, <1>4, <1>5, <2>1, <2>2
<1>. QED BY <1>1, <1>6, <1>7 DEF t

LEMMA KeptOnce ==
  ASSUME NEW S, NEW s \in Seq(S), Once(s), NEW K \in SUBSET DOMAIN s
  PROVE  /\ Kept(s, K) \in Seq(S) /\ Once(Kept(s, K))
         /\ ToSet(Kept(s, K)) = {s[k] : k \in K}
<1>. DEFINE t == Kept(s, K)
            n == Cardinality(K)
            f == Ascending(K)
<1>1. DOMAIN s = 1 .. Len(s) /\ Len(s) \in Nat
  OBVIOUS
<1>2. /\ t \in Seq(S) /\ Len(t) = n /\ n \in Nat /\ f \in [1 .. n -> K]
      /\ \A i \in 1 .. n : t[i] = s[f[i]]
  BY KeptProperties
<1>3. /\ \A i, j \in 1 .. n : i < j => f[i] < f[j]
      /\ \A k \in K : \E i \in 1 .. n : f[i] = k
  BY <1>1, <1>2, AscendingProperties DEF Rising
<1>. HIDE DEF t, n, f
<1>4. \A i \in 1 .. n : f[i] \in K /\ f[i] \in 1 .. Len(s) /\ f[i] \in Nat
  BY <1>1, <1>2
<1>5. ASSUME NEW i \in 1 .. n, NEW j \in 1 .. n, t[i] = t[j]
      PROVE  i = j
  <2>1. f[i] = f[j]
    BY <1>2, <1>4, <1>5 DEF Once
  <2>2. ~(i < j) /\ ~(j < i)
    BY <1>3, <1>4, <2>1
  <2>. QED BY <1>2, <2>2
<1>6. Once(t)
  BY <1>2, <1>5 DEF Once
<1>7. ToSet(t) = {t[i] : i \in 1 .. n}
  BY <1>2 DEF ToSet
<1>8. ToSet(t) = {s[k] : k \in K}
  BY <1>2, <1>3, <1>4, <1>7
<1>. QED BY <1>2, <1>6, <1>8 DEF t

(* How often an entry is in such a list. *)
LEMMA CountOnce ==
  ASSUME NEW S, NEW s \in Seq(S), Once(s), NEW e
  PROVE  Cardinality({i \in DOMAIN s : s[i] = e}) = IF e \in ToSet(s) THEN 1 ELSE 0
<1>1. DOMAIN s = 1 .. Len(s)
  OBVIOUS
<1>2. CASE e \in ToSet(s)
  <2>1. PICK k \in 1 .. Len(s) : s[k] = e
    BY <1>2, EntriesOf
  <2>2. {i \in DOMAIN s : s[i] = e} = {k}
    BY <1>1, <2>1 DEF Once
  <2>. QED BY <1>2, <2>2, FS_Singleton
<1>3. CASE e \notin ToSet(s)
  <2>1. {i \in DOMAIN s : s[i] = e} = {}
    BY <1>1, <1>3, EntriesOf
  <2>. QED BY <1>3, <2>1, FS_EmptySet
<1>. QED BY <1>2, <1>3
=============================================================================
