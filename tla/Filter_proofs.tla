--------------------------- MODULE Filter_proofs ---------------------------
(***************************************************************************)
(* What a filtered sequence has, and in which order, for sequences of any  *)
(* length.  The filter is defined by positions, so that a least-element    *)
(* argument on natural numbers takes the place of induction.               *)
(***************************************************************************)
EXTENDS Filter, TLAPS, FiniteSetTheorems, WellFoundedInduction

(* A set of natural numbers that is not empty has a least element. *)
LEMMA LeastElement ==
  ASSUME NEW T \in SUBSET Nat, T # {}
  PROVE  \E m \in T : \A n \in T : m <= n
<1>1. PICK m \in T : \A n \in T : ~ (<<n, m>> \in OpToRel(<, Nat))
  BY WFMin, NatLessThanWellFounded, Zenon
<1>2. \A n \in T : ~ (n < m)
  BY <1>1 DEF OpToRel
<1> QED BY <1>2

(* Counting the members of I up to n in steps of one. *)
LEMMA UpToStep ==
  ASSUME NEW n \in Nat, NEW I \in SUBSET (1 .. n), NEW m \in Nat
  PROVE  /\ IsFiniteSet(UpTo(I, m))
         /\ Cardinality(UpTo(I, m)) \in Nat
         /\ Cardinality(UpTo(I, m + 1)) =
              IF m + 1 \in I THEN Cardinality(UpTo(I, m)) + 1 ELSE Cardinality(UpTo(I, m))
<1>1. IsFiniteSet(1 .. n)
  BY FS_Interval
<1>2. UpTo(I, m) \in SUBSET (1 .. n)
  BY DEF UpTo
<1>3. IsFiniteSet(UpTo(I, m)) /\ Cardinality(UpTo(I, m)) \in Nat
  BY <1>1, <1>2, FS_Subset, FS_CardinalityType
<1>4. m + 1 \notin UpTo(I, m)
  BY DEF UpTo
<1>0. \A x \in I : x <= m + 1 <=> x <= m \/ x = m + 1
  OBVIOUS
<1>5. CASE m + 1 \in I
  <2>1. UpTo(I, m + 1) = UpTo(I, m) \cup {m + 1}
    BY <1>5, <1>0, Zenon DEF UpTo
  <2> QED BY <1>3, <1>4, <1>5, <2>1, FS_AddElement
<1>6. CASE m + 1 \notin I
  <2>1. UpTo(I, m + 1) = UpTo(I, m)
    BY <1>6, <1>0, Zenon DEF UpTo
  <2> QED BY <1>3, <1>6, <2>1
<1> QED BY <1>3, <1>5, <1>6

(* Every rank up to the size of I is the rank of a member of I: of Nth.    *)
LEMMA NthExists ==
  ASSUME NEW n \in Nat, NEW I \in SUBSET (1 .. n), NEW k \in 1 .. Cardinality(I)
  PROVE  Nth(I, k) \in I /\ Cardinality(UpTo(I, Nth(I, k))) = k
<1> DEFINE T == {m \in Nat : Cardinality(UpTo(I, m)) >= k}
<1>1. UpTo(I, n) = I
  <2>1. \A x \in I : x <= n
    OBVIOUS
  <2> QED BY <2>1, Zenon DEF UpTo
<1>2. Cardinality(I) \in Nat
  BY <1>1, UpToStep
<1>3. n \in T
  BY <1>1, <1>2
<1>4. PICK m \in T : \A j \in T : m <= j
  BY <1>3, LeastElement
<1>5. m # 0
  <2>1. UpTo(I, 0) = {}
    <3>1. \A x \in I : ~ (x <= 0)
      OBVIOUS
    <3> QED BY <3>1, Zenon DEF UpTo
  <2>2. Cardinality(UpTo(I, 0)) = 0
    BY <2>1, FS_EmptySet
  <2> QED BY <2>2
<1>6. m - 1 \in Nat /\ m - 1 \notin T
  BY <1>4, <1>5
<1> DEFINE p == m - 1
<1>7. p \in Nat /\ p + 1 = m
  BY <1>6
<1>8. /\ Cardinality(UpTo(I, p)) \in Nat
      /\ Cardinality(UpTo(I, m)) =
           IF m \in I THEN Cardinality(UpTo(I, p)) + 1 ELSE Cardinality(UpTo(I, p))
  <2> HIDE DEF p
  <2> QED BY <1>7, UpToStep
<1>9. m \in I /\ Cardinality(UpTo(I, m)) = k
  BY <1>4, <1>6, <1>8
<1> HIDE DEF T
<1> QED BY <1>9 DEF Nth

(* A higher rank is that of a later member. *)
LEMMA NthIncreases ==
  ASSUME NEW n \in Nat, NEW I \in SUBSET (1 .. n),
         NEW j \in 1 .. Cardinality(I), NEW k \in 1 .. Cardinality(I), j < k
  PROVE  Nth(I, j) < Nth(I, k)
<1>1. /\ Nth(I, j) \in I /\ Cardinality(UpTo(I, Nth(I, j))) = j
      /\ Nth(I, k) \in I /\ Cardinality(UpTo(I, Nth(I, k))) = k
  BY NthExists
<1>0. \A x \in I : x \in Nat
  OBVIOUS
<1>2. Nth(I, j) \in Nat /\ Nth(I, k) \in Nat
  BY <1>0, <1>1
<1>3. IsFiniteSet(UpTo(I, Nth(I, j)))
  BY <1>2, UpToStep
<1>4. CASE Nth(I, k) <= Nth(I, j)
  <2>1. UpTo(I, Nth(I, k)) \in SUBSET UpTo(I, Nth(I, j))
    <3>1. \A x \in I : x <= Nth(I, k) => x <= Nth(I, j)
      BY <1>0, <1>2, <1>4
    <3> QED BY <3>1, Zenon DEF UpTo
  <2>2. Cardinality(UpTo(I, Nth(I, k))) <= Cardinality(UpTo(I, Nth(I, j)))
    BY <1>3, <2>1, FS_Subset
  <2> QED BY <1>1, <2>2
<1> QED BY <1>2, <1>4

(* Every member of I has a rank. *)
LEMMA NthReaches ==
  ASSUME NEW n \in Nat, NEW I \in SUBSET (1 .. n), NEW i \in I
  PROVE  \E k \in 1 .. Cardinality(I) : Nth(I, k) = i
<1> DEFINE k == Cardinality(UpTo(I, i))
<1>0. \A x \in I : x \in Nat
  OBVIOUS
<1>1. IsFiniteSet(I) /\ Cardinality(I) \in Nat
  <2>1. IsFiniteSet(1 .. n)
    BY FS_Interval
  <2> QED BY <2>1, FS_Subset, FS_CardinalityType
<1>2. IsFiniteSet(UpTo(I, i)) /\ k \in Nat
  BY <1>0, UpToStep
<1>3. UpTo(I, i) \in SUBSET I
  BY DEF UpTo
<1>4. k <= Cardinality(I)
  BY <1>1, <1>3, FS_Subset
<1>5. k # 0
  <2>1. i \in UpTo(I, i)
    BY <1>0 DEF UpTo
  <2> QED BY <1>2, <2>1, FS_EmptySet
<1>6. k \in 1 .. Cardinality(I)
  BY <1>1, <1>2, <1>4, <1>5
<1> DEFINE j == Nth(I, k)
<1>7. j \in I /\ Cardinality(UpTo(I, j)) = k
  BY <1>6, NthExists
<1> HIDE DEF k, j
<1>8. ASSUME NEW a \in I, NEW b \in I, a < b,
             Cardinality(UpTo(I, a)) = k, Cardinality(UpTo(I, b)) = k
      PROVE  FALSE
  <2>1. /\ IsFiniteSet(UpTo(I, a)) /\ IsFiniteSet(UpTo(I, b))
        /\ b \notin UpTo(I, a)
    <3>1. a \in Nat /\ b \in Nat /\ ~ (b <= a)
      BY <1>0, <1>8
    <3>2. b \notin UpTo(I, a)
      BY <3>1, Zenon DEF UpTo
    <3> QED BY <3>1, <3>2, UpToStep
  <2>2. UpTo(I, a) \cup {b} \in SUBSET UpTo(I, b)
    <3>1. \A x \in I : x <= a => x <= b
      BY <1>0, <1>8
    <3>2. b <= b
      BY <1>0
    <3> QED BY <3>1, <3>2, Zenon DEF UpTo
  <2>3. Cardinality(UpTo(I, a) \cup {b}) = k + 1
    BY <1>8, <2>1, FS_AddElement
  <2>4. Cardinality(UpTo(I, a) \cup {b}) <= k
    BY <1>8, <2>1, <2>2, FS_Subset
  <2> QED BY <1>2, <2>3, <2>4
<1>9. j = i
  <2>1. Cardinality(UpTo(I, i)) = k
    BY DEF k
  <2>2. ~ (i < j) /\ ~ (j < i)
    BY <1>7, <1>8, <2>1
  <2> QED BY <1>0, <1>7, <2>2
<1> QED BY <1>6, <1>9 DEF j

(* The positions that are kept, and where each goes. *)
LEMMA OnlyPlaces ==
  ASSUME NEW T, NEW q \in Seq(T), NEW S
  PROVE  LET I == Places(q, S) IN
         /\ Cardinality(I) \in Nat
         /\ DOMAIN Only(q, S) = 1 .. Cardinality(I)
         /\ \A k \in DOMAIN Only(q, S) :
              Nth(I, k) \in DOMAIN q /\ Only(q, S)[k] = q[Nth(I, k)] /\ q[Nth(I, k)] \in S
         /\ \A i \in DOMAIN q : q[i] \in S => \E k \in DOMAIN Only(q, S) : Nth(I, k) = i
         /\ \A j, k \in DOMAIN Only(q, S) : j < k <=> Nth(I, j) < Nth(I, k)
<1> DEFINE I == Places(q, S)
           p == Only(q, S)
<1>1. Len(q) \in Nat /\ DOMAIN q = 1 .. Len(q) /\ I \in SUBSET (1 .. Len(q))
  BY DEF Places
<1>2. Cardinality(I) \in Nat
  <2>1. IsFiniteSet(1 .. Len(q))
    BY <1>1, FS_Interval
  <2> QED BY <1>1, <2>1, FS_Subset, FS_CardinalityType
<1>3. DOMAIN p = 1 .. Cardinality(I) /\ \A k \in DOMAIN p : p[k] = q[Nth(I, k)]
  BY DEF Only
<1>4. \A k \in 1 .. Cardinality(I) : Nth(I, k) \in I
  BY <1>1, NthExists
<1>5. \A i \in I : i \in DOMAIN q /\ q[i] \in S
  BY DEF Places
<1>6. \A i \in DOMAIN q : q[i] \in S => i \in I
  BY DEF Places
<1>7. \A j, k \in 1 .. Cardinality(I) : j < k => Nth(I, j) < Nth(I, k)
  BY <1>1, NthIncreases
<1>8. \A i \in I : \E k \in 1 .. Cardinality(I) : Nth(I, k) = i
  BY <1>1, NthReaches
<1> HIDE DEF I, p
<1>9. \A j, k \in 1 .. Cardinality(I) : j < k <=> Nth(I, j) < Nth(I, k)
  <2> SUFFICES ASSUME NEW j \in 1 .. Cardinality(I), NEW k \in 1 .. Cardinality(I),
                      Nth(I, j) < Nth(I, k)
               PROVE  j < k
    BY <1>7
  <2>0. \A i \in I : i \in Nat
    BY <1>1
  <2>1. Nth(I, j) \in Nat /\ Nth(I, k) \in Nat
    BY <1>4, <2>0
  <2>2. CASE k < j
    BY <1>7, <2>1, <2>2
  <2>3. CASE k = j
    BY <2>1, <2>3
  <2> QED BY <1>2, <2>2, <2>3
<1> QED BY <1>2, <1>3, <1>4, <1>5, <1>6, <1>8, <1>9 DEF I, p

(* A filtered sequence has the entries of the sequence that are in S, and  *)
(* no others.                                                              *)
LEMMA OnlyHas ==
  ASSUME NEW T, NEW q \in Seq(T), NEW S
  PROVE  /\ Only(q, S) \in Seq(T)
         /\ \A k \in DOMAIN Only(q, S) : \E i \in DOMAIN q : Only(q, S)[k] = q[i] /\ q[i] \in S
         /\ \A i \in DOMAIN q : q[i] \in S => \E k \in DOMAIN Only(q, S) : Only(q, S)[k] = q[i]
<1> DEFINE I == Places(q, S)
           p == Only(q, S)
<1>1. /\ Cardinality(I) \in Nat /\ DOMAIN p = 1 .. Cardinality(I)
      /\ \A k \in DOMAIN p : Nth(I, k) \in DOMAIN q /\ p[k] = q[Nth(I, k)] /\ q[Nth(I, k)] \in S
      /\ \A i \in DOMAIN q : q[i] \in S => \E k \in DOMAIN p : Nth(I, k) = i
  BY OnlyPlaces
<1>2. p = [k \in 1 .. Cardinality(I) |-> p[k]]
  BY DEF Only
<1> HIDE DEF I, p
<1>3. \A k \in DOMAIN p : p[k] \in T
  BY <1>1
<1>4. p \in Seq(T)
  BY <1>1, <1>2, <1>3
<1> QED BY <1>1, <1>4 DEF p

(* It repeats nothing that the sequence does not repeat. *)
LEMMA OnlyOnce ==
  ASSUME NEW T, NEW q \in Seq(T), NEW S, \A i, j \in DOMAIN q : q[i] = q[j] => i = j
  PROVE  \A i, j \in DOMAIN Only(q, S) : Only(q, S)[i] = Only(q, S)[j] => i = j
<1> DEFINE I == Places(q, S)
           p == Only(q, S)
<1>1. /\ Cardinality(I) \in Nat /\ DOMAIN p = 1 .. Cardinality(I)
      /\ \A k \in DOMAIN p : Nth(I, k) \in DOMAIN q /\ p[k] = q[Nth(I, k)]
      /\ \A j, k \in DOMAIN p : j < k <=> Nth(I, j) < Nth(I, k)
  BY OnlyPlaces
<1> HIDE DEF I, p
<1>2. ASSUME NEW i \in DOMAIN p, NEW j \in DOMAIN p, p[i] = p[j]
      PROVE  i = j
  <2>1. Nth(I, i) = Nth(I, j) /\ Nth(I, i) \in Nat
    BY <1>1, <1>2
  <2>2. ~ (i < j) /\ ~ (j < i)
    BY <1>1, <2>1
  <2> QED BY <1>1, <2>2
<1> QED BY <1>2 DEF p

(* It keeps their order. *)
LEMMA OnlyPrecedes ==
  ASSUME NEW T, NEW q \in Seq(T), NEW S, NEW x, NEW y
  PROVE  Precedes(Only(q, S), x, y) <=> Precedes(q, x, y) /\ x \in S /\ y \in S
<1> DEFINE I == Places(q, S)
           p == Only(q, S)
<1>1. /\ \A k \in DOMAIN p : Nth(I, k) \in DOMAIN q /\ p[k] = q[Nth(I, k)] /\ q[Nth(I, k)] \in S
      /\ \A i \in DOMAIN q : q[i] \in S => \E k \in DOMAIN p : Nth(I, k) = i
      /\ \A j, k \in DOMAIN p : j < k <=> Nth(I, j) < Nth(I, k)
  BY OnlyPlaces
<1> HIDE DEF I, p
<1>2. ASSUME Precedes(p, x, y)
      PROVE  Precedes(q, x, y) /\ x \in S /\ y \in S
  <2>1. PICK i \in DOMAIN p, j \in DOMAIN p : i < j /\ p[i] = x /\ p[j] = y
    BY <1>2 DEF Precedes
  <2>2. /\ Nth(I, i) \in DOMAIN q /\ Nth(I, j) \in DOMAIN q /\ Nth(I, i) < Nth(I, j)
        /\ q[Nth(I, i)] = x /\ q[Nth(I, j)] = y
    BY <1>1, <2>1
  <2> QED BY <1>1, <2>1, <2>2 DEF Precedes
<1>3. ASSUME Precedes(q, x, y), x \in S, y \in S
      PROVE  Precedes(p, x, y)
  <2>1. PICK i \in DOMAIN q, j \in DOMAIN q : i < j /\ q[i] = x /\ q[j] = y
    BY <1>3 DEF Precedes
  <2>2. PICK k \in DOMAIN p : Nth(I, k) = i
    BY <1>1, <1>3, <2>1
  <2>3. PICK m \in DOMAIN p : Nth(I, m) = j
    BY <1>1, <1>3, <2>1
  <2>4. k < m /\ p[k] = x /\ p[m] = y
    BY <1>1, <2>1, <2>2, <2>3
  <2> QED BY <2>4 DEF Precedes
<1> QED BY <1>2, <1>3 DEF p
=============================================================================
