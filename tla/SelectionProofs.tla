--------------------------- MODULE SelectionProofs ---------------------------
(* Lists, their parts, and what is picked of a list when the places are next *)
(* to each other.                                                            *)
EXTENDS Selection, FiniteSetTheorems, WellFoundedInduction, TLAPS

\* A set of numbers has a least one.
LEMMA LeastOf ==
    ASSUME NEW T \in SUBSET Nat, T # {}
    PROVE  \E m \in T : \A y \in T : m <= y
  <1>1. PICK m \in T : \A y \in T : ~ (<<y, m>> \in OpToRel(<, Nat))
    BY NatLessThanWellFounded, WFMin
  <1>2. \A y \in T : ~ (y < m)
    BY <1>1 DEF OpToRel
  <1> QED
    BY <1>2

\* Places next to each other are the part of the list between the first and
\* the last of them.
LEMMA PickedInterval ==
  ASSUME NEW S, NEW s \in Seq(S), NEW a \in Nat \ {0}, NEW b \in Nat, b <= Len(s)
  PROVE  Picked(s, a .. b) = SubSeq(s, a, b)
  <1> DEFINE n == IF a > b THEN 0 ELSE b - a + 1
  <1>1. Cardinality(a .. b) = n /\ n \in Nat
    BY FS_Interval
  <1>2. ASSUME NEW i \in a .. b PROVE UpTo(a .. b, i) = i - a + 1
    <2>1. {j \in a .. b : j <= i} = a .. i
      OBVIOUS
    <2>2. Cardinality(a .. i) = i - a + 1
      BY FS_Interval
    <2> QED BY <2>1, <2>2 DEF UpTo
  <1>3. ASSUME NEW k \in 1 .. n PROVE Place(a .. b, k) = k + a - 1
    <2>1. k + a - 1 \in a .. b
      OBVIOUS
    <2>2. \A i \in a .. b : UpTo(a .. b, i) = k <=> i = k + a - 1
      BY <1>2
    <2> QED BY <2>1, <2>2 DEF Place
  <1>4. Picked(s, a .. b) = [k \in 1 .. n |-> s[k + a - 1]]
    BY <1>1, <1>3 DEF Picked
  <1>5. SubSeq(s, a, b) = [k \in 1 .. n |-> s[k + a - 1]]
    <2>1. SubSeq(s, a, b) \in Seq(S) /\ Len(SubSeq(s, a, b)) = n
      OBVIOUS
    <2>2. \A k \in 1 .. n : SubSeq(s, a, b)[k] = s[k + a - 1]
      OBVIOUS
    <2> QED BY <2>1, <2>2, SMTT(60)
  <1> QED
    BY <1>4, <1>5

\* Lists of the same length are the same if they agree everywhere.
LEMMA SameParts ==
    ASSUME NEW S, NEW s \in Seq(S), NEW t \in Seq(S), Len(s) = Len(t),
           \A i \in 1 .. Len(s) : s[i] = t[i]
    PROVE  s = t
  OBVIOUS

\* What a part of a list is.
LEMMA PartOf ==
    ASSUME NEW S, NEW s \in Seq(S), NEW a \in Nat \ {0}, NEW b \in Nat, b <= Len(s), a <= b + 1
    PROVE  /\ SubSeq(s, a, b) \in Seq(S) /\ Len(SubSeq(s, a, b)) = b - a + 1
           /\ \A i \in 1 .. (b - a + 1) : SubSeq(s, a, b)[i] = s[a + i - 1]
  OBVIOUS

\* Counting up to a place: one more for every place that is counted.
LEMMA UpToCounts ==
    ASSUME NEW n \in Nat, NEW I \in SUBSET (1 .. n)
    PROVE  /\ IsFiniteSet(I) /\ Cardinality(I) \in Nat
           /\ \A m \in Nat : UpTo(I, m) \in 0 .. Cardinality(I)
           /\ UpTo(I, 0) = 0 /\ UpTo(I, n) = Cardinality(I)
           /\ \A m \in Nat : UpTo(I, m + 1) = UpTo(I, m) + IF m + 1 \in I THEN 1 ELSE 0
  <1> DEFINE L(m) == {j \in I : j <= m}
  <1>0. \A j \in I : j \in Nat /\ 1 <= j /\ j <= n
    OBVIOUS
  <1>1. IsFiniteSet(1 .. n)
    BY FS_Interval
  <1>2. IsFiniteSet(I) /\ Cardinality(I) \in Nat
    BY <1>1, FS_Subset, FS_CardinalityType
  <1>3. ASSUME NEW m \in Nat
        PROVE  IsFiniteSet(L(m)) /\ UpTo(I, m) \in 0 .. Cardinality(I)
    <2>1. L(m) \subseteq I
      OBVIOUS
    <2>2. IsFiniteSet(L(m)) /\ Cardinality(L(m)) <= Cardinality(I) /\ Cardinality(L(m)) \in Nat
      BY <1>2, <2>1, FS_Subset, FS_CardinalityType
    <2> QED BY <1>2, <2>2 DEF UpTo
  <1>4. UpTo(I, 0) = 0
    <2>1. \A j \in I : ~ (j <= 0)
      BY <1>0
    <2>2. L(0) = {}
      BY <2>1
    <2> QED BY <2>2, FS_EmptySet DEF UpTo
  <1>5. UpTo(I, n) = Cardinality(I)
    <2>1. L(n) = I
      BY <1>0
    <2> QED BY <2>1 DEF UpTo
  <1>6. ASSUME NEW m \in Nat
        PROVE  UpTo(I, m + 1) = UpTo(I, m) + IF m + 1 \in I THEN 1 ELSE 0
    <2>1. \A j \in I : j <= m + 1 <=> j <= m \/ j = m + 1
      BY <1>0
    <2>2. ~ (m + 1 <= m)
      OBVIOUS
    <2>3. CASE m + 1 \in I
      <3>1. L(m + 1) = L(m) \cup {m + 1} /\ m + 1 \notin L(m)
        <4>1. m + 1 <= m + 1
          OBVIOUS
        <4> QED BY <2>1, <2>2, <2>3, <4>1
      <3>2. Cardinality(L(m + 1)) = Cardinality(L(m)) + 1
        BY <1>3, <3>1, FS_AddElement
      <3> QED BY <2>3, <3>2 DEF UpTo
    <2>4. CASE m + 1 \notin I
      <3>1. L(m + 1) = L(m)
        <4>1. \A j \in I : j # m + 1
          BY <2>4
        <4>2. \A j \in I : j <= m + 1 <=> j <= m
          BY <2>1, <4>1
        <4> QED BY <4>2
      <3>2. UpTo(I, m) \in Nat
        <4>1. UpTo(I, m) \in 0 .. Cardinality(I)
          BY <1>3
        <4> QED BY <1>2, <4>1
      <3>3. UpTo(I, m + 1) = UpTo(I, m)
        BY <3>1 DEF UpTo
      <3> QED BY <2>4, <3>2, <3>3
    <2> QED BY <2>3, <2>4
  <1> QED
    BY <1>2, <1>3, <1>4, <1>5, <1>6

\* Every rank has its place, and only one.
LEMMA PlaceOf ==
    ASSUME NEW n \in Nat, NEW I \in SUBSET (1 .. n), NEW k \in 1 .. Cardinality(I)
    PROVE  Place(I, k) \in I /\ UpTo(I, Place(I, k)) = k
  <1>0. /\ Cardinality(I) \in Nat /\ k \in Nat \ {0} /\ k <= Cardinality(I)
        /\ UpTo(I, 0) = 0 /\ UpTo(I, n) = Cardinality(I)
        /\ \A m \in Nat : UpTo(I, m) \in Nat
        /\ \A m \in Nat : UpTo(I, m + 1) = UpTo(I, m) + IF m + 1 \in I THEN 1 ELSE 0
    BY UpToCounts
  <1> DEFINE T == {m \in 0 .. n : UpTo(I, m) >= k}
  <1>1. T \in SUBSET Nat /\ n \in T
    BY <1>0
  <1>2. PICK m \in T : \A y \in T : m <= y
    BY <1>1, LeastOf
  <1>3. m \in 0 .. n /\ UpTo(I, m) >= k /\ m # 0
    BY <1>0, <1>2
  <1> DEFINE p == m - 1
  <1>4. p \in Nat /\ m = p + 1 /\ p \in 0 .. n /\ p < m
    BY <1>3
  <1>5. ~ (UpTo(I, p) >= k) /\ UpTo(I, p) \in Nat
    <2>1. p \notin T
      BY <1>2, <1>4
    <2> QED BY <1>0, <1>4, <2>1
  <1>6. UpTo(I, m) = UpTo(I, p) + IF m \in I THEN 1 ELSE 0
    BY <1>0, <1>4
  <1> HIDE DEF p, T
  <1>7. m \in I /\ UpTo(I, m) = k
    BY <1>0, <1>3, <1>5, <1>6
  <1> QED
    BY <1>7 DEF Place

\* Counting further never counts less, and a place that is counted counts.
LEMMA UpToGrows ==
    ASSUME NEW n \in Nat, NEW I \in SUBSET (1 .. n), NEW i \in I, NEW j \in I, i < j
    PROVE  UpTo(I, i) < UpTo(I, j)
  <1> DEFINE A == {x \in I : x <= i}
             B == {x \in I : x <= j}
  <1>0. \A x \in I : x \in Nat
    OBVIOUS
  <1>1. A \subseteq B /\ j \in B /\ j \notin A
    <2>1. \A x \in I : x <= i => x <= j
      BY <1>0
    <2>2. ~ (j <= i) /\ j <= j
      BY <1>0
    <2> QED BY <2>1, <2>2
  <1>2. IsFiniteSet(I)
    BY UpToCounts
  <1>3. IsFiniteSet(B) /\ IsFiniteSet(A)
    BY <1>2, FS_Subset
  <1>4. Cardinality(A) \in Nat /\ Cardinality(A \cup {j}) = Cardinality(A) + 1
    BY <1>1, <1>3, FS_AddElement, FS_CardinalityType
  <1>5. Cardinality(A \cup {j}) <= Cardinality(B)
    <2>1. A \cup {j} \subseteq B
      BY <1>1
    <2> QED BY <1>3, <2>1, FS_Subset
  <1>6. Cardinality(B) \in Nat
    BY <1>3, FS_CardinalityType
  <1> QED
    BY <1>4, <1>5, <1>6 DEF UpTo

\* Where the picked elements come from: other ones from other places, and
\* nothing that is to be picked is left out.
LEMMA PlacesMatch ==
    ASSUME NEW n \in Nat, NEW I \in SUBSET (1 .. n)
    PROVE  /\ Cardinality(I) \in Nat
           /\ \A k \in 1 .. Cardinality(I) : Place(I, k) \in I
           /\ \A k, l \in 1 .. Cardinality(I) : Place(I, k) = Place(I, l) => k = l
           /\ \A i \in I : \E k \in 1 .. Cardinality(I) : Place(I, k) = i
  <1>1. Cardinality(I) \in Nat
    BY UpToCounts
  <1>2. \A k \in 1 .. Cardinality(I) : Place(I, k) \in I /\ UpTo(I, Place(I, k)) = k
    BY PlaceOf
  <1>3. ASSUME NEW i \in I
        PROVE  \E k \in 1 .. Cardinality(I) : Place(I, k) = i
    <2> DEFINE k == UpTo(I, i)
               p == i - 1
    <2>1. i \in Nat /\ p \in Nat /\ i = p + 1
      OBVIOUS
    <2> HIDE DEF p
    <2>2. k = UpTo(I, p) + 1 /\ UpTo(I, p) \in 0 .. Cardinality(I) /\ k \in 0 .. Cardinality(I)
      BY <2>1, UpToCounts
    <2> HIDE DEF k
    <2>3. k \in 1 .. Cardinality(I)
      BY <1>1, <2>2
    <2> DEFINE j == Place(I, k)
    <2>4. j \in I /\ UpTo(I, j) = k
      BY <1>2, <2>3
    <2> HIDE DEF j
    <2>5. j \in Nat /\ ~ (k < k)
      BY <1>1, <2>3, <2>4
    <2>6. ~ (i < j) /\ ~ (j < i)
      BY <2>4, <2>5, UpToGrows DEF k
    <2>7. j = i
      BY <2>1, <2>5, <2>6
    <2> QED BY <2>3, <2>7 DEF j
  <1> QED
    BY <1>1, <1>2, <1>3

\* What is picked is a list of elements.
LEMMA PickedIsAList ==
    ASSUME NEW S, NEW s \in Seq(S), NEW I \in SUBSET (1 .. Len(s))
    PROVE  /\ Picked(s, I) \in Seq(S) /\ Len(Picked(s, I)) = Cardinality(I) /\ Cardinality(I) \in Nat
           /\ \A k \in 1 .. Cardinality(I) : Place(I, k) \in I /\ Picked(s, I)[k] = s[Place(I, k)]
  <1>1. Len(s) \in Nat
    OBVIOUS
  <1>2. Cardinality(I) \in Nat /\ \A k \in 1 .. Cardinality(I) : Place(I, k) \in I
    BY <1>1, PlacesMatch
  <1>3. \A i \in I : s[i] \in S
    BY <1>1
  <1>4. \A k \in 1 .. Cardinality(I) : s[Place(I, k)] \in S
    BY <1>2, <1>3
  <1>5. [k \in 1 .. Cardinality(I) |-> s[Place(I, k)]] \in Seq(S)
    BY <1>2, <1>4
  <1> QED
    BY <1>2, <1>5 DEF Picked

\* A place is known by its rank.
LEMMA PlaceIs ==
    ASSUME NEW n \in Nat, NEW I \in SUBSET (1 .. n), NEW i \in I
    PROVE  Place(I, UpTo(I, i)) = i /\ UpTo(I, i) \in 1 .. Cardinality(I)
  <1>1. PICK k \in 1 .. Cardinality(I) : Place(I, k) = i
    BY PlacesMatch
  <1>2. UpTo(I, i) = k
    BY <1>1, PlaceOf
  <1> QED
    BY <1>1, <1>2

\* The places of a list that goes on: those of its beginning, and those of the
\* rest, counted on from n.
JoinedPlaces(I, n, J) == I \cup {n + j : j \in J}

\* How many there are of them up to each.
LEMMA UpToJoined ==
    ASSUME NEW n \in Nat, NEW m \in Nat, NEW I \in SUBSET (1 .. n), NEW J \in SUBSET (1 .. m),
           NEW K \in SUBSET (1 .. n + m), K = I \cup {n + j : j \in J}
    PROVE  /\ Cardinality(K) = Cardinality(I) + Cardinality(J)
           /\ \A i \in I : UpTo(K, i) = UpTo(I, i)
           /\ \A j \in J : UpTo(K, n + j) = Cardinality(I) + UpTo(J, j)
  <1>0. /\ \A i \in I : i \in Nat /\ 1 <= i /\ i <= n
        /\ \A j \in J : j \in Nat /\ 1 <= j /\ j <= m /\ ~ (n + j <= n)
        /\ IsFiniteSet(I) /\ Cardinality(I) \in Nat /\ IsFiniteSet(J) /\ Cardinality(J) \in Nat
    BY UpToCounts
  <1>1. ASSUME NEW i \in I PROVE UpTo(K, i) = UpTo(I, i)
    <2>1. \A j \in J : ~ (n + j <= i)
      BY <1>0
    <2>2. {x \in K : x <= i} = {x \in I : x <= i}
      BY <2>1
    <2> QED BY <2>2 DEF UpTo
  <1>2. ASSUME NEW T \in SUBSET J
        PROVE  LET S == {n + j : j \in T}
               IN  IsFiniteSet(S) /\ Cardinality(S) = Cardinality(T) /\ Cardinality(I \cup S) = Cardinality(I) + Cardinality(T)
    <2> DEFINE S == {n + j : j \in T}
               g == [j \in T |-> n + j]
    <2>1. IsFiniteSet(T) /\ Cardinality(T) \in Nat
      BY <1>0, FS_Subset, FS_CardinalityType
    <2>2. g \in [T -> S] /\ \A x \in S : \E j \in T : g[j] = x
      OBVIOUS
    <2>3. \A a, b \in T : g[a] = g[b] => a = b
      <3>1. \A a, b \in T : a \in Nat /\ b \in Nat
        BY <1>0
      <3>2. \A a, b \in T : n + a = n + b => a = b
        BY <3>1
      <3> QED BY <3>2
    <2> HIDE DEF g
    <2>4. g \in Bijection(T, S)
      BY <2>2, <2>3 DEF Bijection, Injection, Surjection, IsInjective
    <2>5. IsFiniteSet(S) /\ Cardinality(S) = Cardinality(T)
      <3>1. ExistsBijection(T, S)
        BY <2>4 DEF ExistsBijection
      <3> QED BY <2>1, <3>1, FS_Bijection
    <2>6. I \cap S = {}
      BY <1>0
    <2>7. Cardinality(I \cup S) = Cardinality(I) + Cardinality(T)
      <3> HIDE DEF S
      <3>1. Cardinality(I \cup S) = Cardinality(I) + Cardinality(S) - Cardinality(I \cap S)
        BY <1>0, <2>5, FS_Union
      <3>2. Cardinality(I \cap S) = 0
        BY <2>6, FS_EmptySet
      <3> QED BY <1>0, <2>1, <2>5, <3>1, <3>2
    <2> QED BY <2>5, <2>7
  <1>3. Cardinality(K) = Cardinality(I) + Cardinality(J)
    BY <1>2
  <1>4. ASSUME NEW j \in J PROVE UpTo(K, n + j) = Cardinality(I) + UpTo(J, j)
    <2> DEFINE T == {x \in J : x <= j}
    <2>1. {x \in K : x <= n + j} = I \cup {n + x : x \in T}
      <3>1. \A i \in I : i <= n + j
        BY <1>0
      <3>2. \A x \in J : n + x <= n + j <=> x <= j
        BY <1>0
      <3> QED BY <3>1, <3>2
    <2>2. Cardinality(I \cup {n + x : x \in T}) = Cardinality(I) + Cardinality(T)
      BY <1>2
    <2> QED BY <2>1, <2>2 DEF UpTo
  <1> QED
    BY <1>1, <1>3, <1>4

\* A list whose beginning is one list, and whose rest is another.
LEMMA IsJoin ==
    ASSUME NEW S, NEW p \in Seq(S), NEW q \in Seq(S), NEW r \in Seq(S), Len(p) = Len(q) + Len(r),
           \A k \in 1 .. Len(q) : p[k] = q[k], \A k \in 1 .. Len(r) : p[Len(q) + k] = r[k]
    PROVE  p = q \o r
  <1> DEFINE u == q \o r
             a == Len(q)
             b == Len(r)
  <1>0. a \in Nat /\ b \in Nat
    OBVIOUS
  <1>1. u \in Seq(S) /\ Len(u) = a + b
    OBVIOUS
  <1>2. \A k \in 1 .. a : u[k] = q[k]
    OBVIOUS
  <1>3. \A k \in 1 .. b : u[a + k] = r[k]
    OBVIOUS
  <1> HIDE DEF u
  <1>4. ASSUME NEW k \in 1 .. a + b PROVE p[k] = u[k]
    <2>1. CASE k \in 1 .. a
      BY <1>2, <2>1
    <2>2. CASE k \notin 1 .. a
      <3>1. k - a \in 1 .. b /\ k = a + (k - a)
        BY <2>2
      <3>2. p[a + (k - a)] = u[a + (k - a)]
        BY <1>3, <3>1
      <3> QED BY <3>1, <3>2
    <2> QED BY <2>1, <2>2
  <1>5. p = u
    BY <1>1, <1>4
  <1> QED
    BY <1>5 DEF u

\* One list after another, with a name that the provers leave alone.
Joined(s, t) == s \o t

\* What is picked of two lists together is picked of each.
LEMMA PickedJoined ==
    ASSUME NEW S, NEW s \in Seq(S), NEW t \in Seq(S),
           NEW I \in SUBSET (1 .. Len(s)), NEW J \in SUBSET (1 .. Len(t))
    PROVE  Picked(Joined(s, t), JoinedPlaces(I, Len(s), J)) = Joined(Picked(s, I), Picked(t, J))
  <1> DEFINE K == JoinedPlaces(I, Len(s), J)
             n == Len(s)
             m == Len(t)
             u == s \o t
             a == Cardinality(I)
             b == Cardinality(J)
  <1>1. /\ n \in Nat /\ m \in Nat /\ u \in Seq(S) /\ Len(u) = n + m
        /\ \A i \in 1 .. n : u[i] = s[i]
        /\ \A j \in 1 .. m : u[n + j] = t[j]
    OBVIOUS
  <1> HIDE DEF u, n, m
  <1>2. K \in SUBSET (1 .. n + m)
    <2>1. \A i \in 1 .. n : i \in 1 .. n + m
      BY <1>1
    <2>2. \A j \in 1 .. m : n + j \in 1 .. n + m
      BY <1>1
    <2> QED BY <2>1, <2>2 DEF n, m, JoinedPlaces
  <1>3. I \in SUBSET (1 .. n) /\ J \in SUBSET (1 .. m) /\ K = I \cup {n + j : j \in J}
    BY DEF n, m, JoinedPlaces
  <1>4. /\ Cardinality(K) = a + b /\ a \in Nat /\ b \in Nat
        /\ \A i \in I : UpTo(K, i) = UpTo(I, i)
        /\ \A j \in J : UpTo(K, n + j) = a + UpTo(J, j)
    <2>1. a \in Nat /\ b \in Nat
      BY <1>1, <1>3, UpToCounts
    <2>2. /\ Cardinality(K) = Cardinality(I) + Cardinality(J)
          /\ \A i \in I : UpTo(K, i) = UpTo(I, i)
          /\ \A j \in J : UpTo(K, n + j) = Cardinality(I) + UpTo(J, j)
      <3> HIDE DEF a, b
      <3> QED BY <1>1, <1>2, <1>3, UpToJoined
    <2> QED BY <2>1, <2>2
  <1> HIDE DEF a, b, K
  <1>5. /\ Picked(s, I) \in Seq(S) /\ Len(Picked(s, I)) = a
        /\ \A k \in 1 .. a : Place(I, k) \in I /\ Picked(s, I)[k] = s[Place(I, k)]
    BY <1>3, PickedIsAList DEF a
  <1>6. /\ Picked(t, J) \in Seq(S) /\ Len(Picked(t, J)) = b
        /\ \A k \in 1 .. b : Place(J, k) \in J /\ Picked(t, J)[k] = t[Place(J, k)]
    BY <1>3, PickedIsAList DEF b
  <1>7. /\ Picked(u, K) \in Seq(S) /\ Len(Picked(u, K)) = a + b
        /\ \A k \in 1 .. a + b : Place(K, k) \in K /\ Picked(u, K)[k] = u[Place(K, k)]
    <2>1. K \in SUBSET (1 .. Len(u))
      BY <1>1, <1>2
    <2>2. u \in Seq(S)
      BY <1>1
    <2>3. /\ Picked(u, K) \in Seq(S) /\ Len(Picked(u, K)) = Cardinality(K)
          /\ \A k \in 1 .. Cardinality(K) : Place(K, k) \in K /\ Picked(u, K)[k] = u[Place(K, k)]
      BY <2>1, <2>2, PickedIsAList
    <2>4. Cardinality(K) = a + b
      BY <1>4
    <2> QED BY <2>3, <2>4
  <1>8. ASSUME NEW k \in 1 .. a
        PROVE  Picked(u, K)[k] = Picked(s, I)[k] /\ k \in 1 .. a + b
    <2>1. k \in 1 .. a + b
      BY <1>4
    <2> DEFINE i == Place(I, k)
    <2>2. i \in I /\ UpTo(I, i) = k
      BY <1>1, <1>3, PlaceOf DEF a
    <2>3. Place(K, k) = i
      <3>1. UpTo(K, i) = k /\ i \in K
        BY <1>3, <1>4, <2>2
      <3>2. n + m \in Nat
        BY <1>1
      <3> QED BY <1>2, <3>1, <3>2, PlaceIs
    <2>4. u[i] = s[i]
      BY <1>1, <1>3, <2>2
    <2> QED BY <1>5, <1>7, <2>1, <2>3, <2>4
  <1>9. ASSUME NEW k \in 1 .. b
        PROVE  Picked(u, K)[a + k] = Picked(t, J)[k] /\ a + k \in 1 .. a + b
    <2>1. a + k \in 1 .. a + b
      BY <1>4
    <2> DEFINE j == Place(J, k)
    <2>2. j \in J /\ UpTo(J, j) = k
      BY <1>1, <1>3, PlaceOf DEF b
    <2> HIDE DEF j
    <2>3. Place(K, a + k) = n + j
      <3>1. UpTo(K, n + j) = a + k /\ n + j \in K
        BY <1>3, <1>4, <2>2
      <3>2. n + m \in Nat
        BY <1>1
      <3> QED BY <1>2, <3>1, <3>2, PlaceIs
    <2>4. u[n + j] = t[j]
      BY <1>1, <1>3, <2>2
    <2> QED BY <1>6, <1>7, <2>1, <2>3, <2>4 DEF j
  <1> DEFINE p == Picked(u, K)
             q == Picked(s, I)
             r == Picked(t, J)
  <1>10. p = q \o r
    <2>1. p \in Seq(S) /\ q \in Seq(S) /\ r \in Seq(S) /\ Len(p) = a + b /\ Len(q) = a /\ Len(r) = b
      BY <1>5, <1>6, <1>7
    <2>2. (\A k \in 1 .. a : p[k] = q[k]) /\ \A k \in 1 .. b : p[a + k] = r[k]
      BY <1>8, <1>9
    <2> HIDE DEF p, q, r
    <2>3. Len(p) = Len(q) + Len(r) /\ (\A k \in 1 .. Len(q) : p[k] = q[k]) /\ \A k \in 1 .. Len(r) : p[Len(q) + k] = r[k]
      BY <2>1, <2>2
    <2> QED BY <2>1, <2>3, IsJoin
  <1> QED
    BY <1>10 DEF u, K, Joined

\* Where two lists together have elements of a set.
PlacesOf(s, T) == {i \in DOMAIN s : s[i] \in T}

\* Those of one list after another are those of each.
LEMMA PlacesJoined ==
    ASSUME NEW S, NEW s \in Seq(S), NEW t \in Seq(S), NEW T
    PROVE  /\ PlacesOf(s, T) \in SUBSET (1 .. Len(s)) /\ PlacesOf(t, T) \in SUBSET (1 .. Len(t))
           /\ PlacesOf(s \o t, T) = JoinedPlaces(PlacesOf(s, T), Len(s), PlacesOf(t, T))
  <1> DEFINE I == {i \in DOMAIN s : s[i] \in T}
             J == {i \in DOMAIN t : t[i] \in T}
             K == {i \in DOMAIN (s \o t) : (s \o t)[i] \in T}
             n == Len(s)
             m == Len(t)
             u == s \o t
  <1>1. /\ n \in Nat /\ m \in Nat /\ DOMAIN s = 1 .. n /\ DOMAIN t = 1 .. m /\ DOMAIN u = 1 .. n + m
        /\ \A i \in 1 .. n : u[i] = s[i]
        /\ \A j \in 1 .. m : u[n + j] = t[j]
    OBVIOUS
  <1> HIDE DEF n, m, u
  <1>2. K = {i \in 1 .. n + m : u[i] \in T}
    BY <1>1 DEF u
  <1>3. I = {i \in 1 .. n : s[i] \in T} /\ J = {i \in 1 .. m : t[i] \in T}
    BY <1>1
  <1> HIDE DEF I, J, K
  <1>4. \A k \in 1 .. n + m : k \in 1 .. n \/ (k - n \in 1 .. m /\ k = n + (k - n))
    BY <1>1
  <1>5. (\A i \in 1 .. n : i \in 1 .. n + m) /\ \A j \in 1 .. m : n + j \in 1 .. n + m
    BY <1>1
  <1>6. K = I \cup {n + j : j \in J}
    <2>1. ASSUME NEW k \in K PROVE k \in I \cup {n + j : j \in J}
      <3>1. k \in 1 .. n + m /\ u[k] \in T
        BY <1>2
      <3>2. CASE k \in 1 .. n
        BY <1>1, <1>3, <3>1, <3>2
      <3>3. CASE k - n \in 1 .. m /\ k = n + (k - n)
        <4>1. k - n \in J
          <5>1. u[n + (k - n)] = t[k - n]
            BY <1>1, <3>3
          <5> QED BY <1>3, <3>1, <3>3, <5>1
        <4> QED BY <3>3, <4>1
      <3> QED BY <1>4, <3>1, <3>2, <3>3
    <2>2. \A i \in I : i \in K
      BY <1>1, <1>2, <1>3, <1>5
    <2>3. \A j \in J : n + j \in K
      BY <1>1, <1>2, <1>3, <1>5
    <2> QED BY <2>1, <2>2, <2>3
  <1> QED
    BY <1>3, <1>6 DEF PlacesOf, JoinedPlaces, I, J, K, n, m, u

\* What two lists together have of a set.
LEMMA OnlyJoined ==
    ASSUME NEW S, NEW s \in Seq(S), NEW t \in Seq(S), NEW T
    PROVE  Only(s \o t, T) = Only(s, T) \o Only(t, T)
  <1>1. /\ PlacesOf(s, T) \in SUBSET (1 .. Len(s)) /\ PlacesOf(t, T) \in SUBSET (1 .. Len(t))
        /\ PlacesOf(s \o t, T) = JoinedPlaces(PlacesOf(s, T), Len(s), PlacesOf(t, T))
    BY PlacesJoined
  <1>2. Picked(Joined(s, t), JoinedPlaces(PlacesOf(s, T), Len(s), PlacesOf(t, T)))
            = Joined(Picked(s, PlacesOf(s, T)), Picked(t, PlacesOf(t, T)))
    <2>1. ASSUME NEW A \in SUBSET (1 .. Len(s)), NEW B \in SUBSET (1 .. Len(t))
          PROVE  Picked(Joined(s, t), JoinedPlaces(A, Len(s), B)) = Joined(Picked(s, A), Picked(t, B))
      BY PickedJoined
    <2> QED BY <1>1, <2>1
  <1> QED
    BY <1>1, <1>2 DEF Only, PlacesOf, Joined

\* What a list has of a set is a list of elements of both.
LEMMA OnlyIsAList ==
    ASSUME NEW S, NEW s \in Seq(S), NEW T
    PROVE  Only(s, T) \in Seq(S \cap T) /\ Len(Only(s, T)) <= Len(s)
  <1> DEFINE I == {i \in DOMAIN s : s[i] \in T}
  <1>1. Len(s) \in Nat /\ DOMAIN s = 1 .. Len(s) /\ I \in SUBSET (1 .. Len(s))
    OBVIOUS
  <1>2. \A i \in I : s[i] \in S \cap T
    BY <1>1
  <1>3. /\ Picked(s, I) \in Seq(S) /\ Len(Picked(s, I)) = Cardinality(I) /\ Cardinality(I) \in Nat
        /\ \A k \in 1 .. Cardinality(I) : Place(I, k) \in I /\ Picked(s, I)[k] = s[Place(I, k)]
    BY <1>1, PickedIsAList
  <1>4. Cardinality(I) <= Len(s)
    <2> DEFINE n == Len(s)
    <2>1. n \in Nat /\ I \subseteq 1 .. n
      BY <1>1
    <2> HIDE DEF n, I
    <2>2. IsFiniteSet(1 .. n) /\ Cardinality(1 .. n) = n
      BY <2>1, FS_Interval
    <2>3. Cardinality(I) <= n
      BY <2>1, <2>2, FS_Subset
    <2> QED BY <2>3 DEF n
  <1> DEFINE p == Picked(s, I)
             c == Cardinality(I)
  <1> HIDE DEF I
  <1>7. p \in Seq(S \cap T)
    <2>1. p \in Seq(S) /\ Len(p) = c /\ \A k \in 1 .. c : p[k] \in S \cap T
      BY <1>2, <1>3
    <2> HIDE DEF p, c
    <2> QED BY <2>1
  <1>8. p = Only(s, T) /\ Len(p) = c
    BY <1>3 DEF Only, I
  <1> QED
    BY <1>4, <1>7, <1>8

\* .. and has all of it.
LEMMA OnlyHasAll ==
    ASSUME NEW S, NEW s \in Seq(S), NEW T, NEW i \in 1 .. Len(s), s[i] \in T
    PROVE  \E k \in 1 .. Len(Only(s, T)) : Only(s, T)[k] = s[i]
  <1> DEFINE I == {j \in DOMAIN s : s[j] \in T}
  <1>1. Len(s) \in Nat /\ I \in SUBSET (1 .. Len(s)) /\ i \in I
    OBVIOUS
  <1>2. PICK k \in 1 .. Cardinality(I) : Place(I, k) = i
    BY <1>1, PlacesMatch
  <1> HIDE DEF I
  <1>3. Len(Picked(s, I)) = Cardinality(I) /\ Picked(s, I)[k] = s[i]
    BY <1>1, <1>2, PickedIsAList
  <1> QED
    BY <1>2, <1>3 DEF Only, I

\* What a list has of a set when it ends with one more element.
LEMMA OnlyAppended ==
    ASSUME NEW S, NEW s \in Seq(S), NEW x \in S, NEW T
    PROVE  Only(Append(s, x), T) = IF x \in T THEN Append(Only(s, T), x) ELSE Only(s, T)
  <1> DEFINE o == <<x>>
             p == Only(s, T)
             q == Only(o, T)
  <1>1. o \in Seq(S) /\ Len(o) = 1 /\ o[1] = x /\ DOMAIN o = 1 .. 1 /\ Append(s, x) = s \o o
    OBVIOUS
  <1> HIDE DEF o
  <1>2. p \in Seq(S \cap T)
    BY OnlyIsAList
  <1>3. q \in Seq(S \cap T) /\ Len(q) <= 1
    BY <1>1, OnlyIsAList
  <1>4. x \in T => \E k \in 1 .. Len(q) : q[k] = x
    <2>0. o \in Seq(S)
      BY <1>1
    <2>1. ASSUME x \in T PROVE \E k \in 1 .. Len(Only(o, T)) : Only(o, T)[k] = o[1]
      <3>1. 1 \in 1 .. Len(o) /\ o[1] \in T
        BY <1>1, <2>1
      <3> QED BY <2>0, <3>1, OnlyHasAll
    <2> QED BY <1>1, <2>1
  <1>5. Only(s \o o, T) = p \o q
    BY <1>1, OnlyJoined
  <1>6. x \notin T => Len(q) = 0
    <2>1. SUFFICES ASSUME x \notin T PROVE Len(q) = 0
      OBVIOUS
    <2>2. {i \in DOMAIN o : o[i] \in T} = {}
      BY <1>1, <2>1
    <2>3. q = Picked(o, {})
      BY <2>2 DEF Only
    <2>4. Cardinality({}) = 0 /\ {} \in SUBSET (1 .. Len(o))
      BY FS_EmptySet
    <2>5. Len(Picked(o, {})) = 0
      BY <1>1, <2>4, PickedIsAList
    <2> QED BY <2>3, <2>5
  <1> HIDE DEF p, q
  <1>7. CASE x \in T
    <2>1. PICK k \in 1 .. Len(q) : q[k] = x
      BY <1>4, <1>7
    <2>2. Len(q) = 1 /\ q[1] = x
      <3> DEFINE l == Len(q)
      <3>1. l \in Nat /\ l <= 1 /\ k \in 1 .. l
        BY <1>3
      <3> HIDE DEF l
      <3>2. l = 1 /\ k = 1
        BY <3>1
      <3> QED BY <2>1, <3>2 DEF l
    <2>3. p \o q = Append(p, x)
      <3>1. q = <<x>>
        BY <1>3, <2>2
      <3> QED BY <1>2, <3>1
    <2> QED BY <1>1, <1>5, <1>7, <2>3 DEF p
  <1>8. CASE x \notin T
    <2>1. q = <<>>
      BY <1>3, <1>6, <1>8
    <2>2. p \o q = p
      BY <1>2, <2>1
    <2> QED BY <1>1, <1>5, <1>8, <2>2 DEF p
  <1> QED
    BY <1>7, <1>8

=============================================================================
