-------------------------- MODULE Subsequences_proofs --------------------------
(***************************************************************************)
(* What Among keeps, and in which order, and the facts about numbers in    *)
(* rising order that proofs about queues and streams keep needing.         *)
(***************************************************************************)
EXTENDS Subsequences, SequencesExt, SequenceTheorems, FiniteSetTheorems, TLAPS

LEMMA RankInRange ==
    ASSUME NEW I, IsFiniteSet(I), I \subseteq Nat, NEW i \in I
    PROVE  Rank(i, I) \in 1 .. Cardinality(I)
<1> DEFINE below == {j \in I : j <= i}
<1>1. /\ IsFiniteSet(below) /\ Cardinality(below) <= Cardinality(I)
      /\ Cardinality(below) \in Nat /\ Cardinality(I) \in Nat
  BY FS_Subset, FS_CardinalityType
<1>2. i \in below
  OBVIOUS
<1>3. Cardinality(below) # 0
  BY <1>1, <1>2, FS_EmptySet
<1> QED
  BY <1>1, <1>3 DEF Rank

LEMMA RankRises ==
    ASSUME NEW I, IsFiniteSet(I), I \subseteq Nat, NEW i \in I, NEW j \in I, i < j
    PROVE  Rank(i, I) < Rank(j, I)
<1> DEFINE upTo(n) == {k \in I : k <= n}
<1>1. /\ upTo(i) \subseteq upTo(j) /\ j \in upTo(j) /\ j \notin upTo(i)
  <2>1. i \in Nat /\ j \in Nat /\ \A k \in I : k \in Nat
    OBVIOUS
  <2>2. \A k \in I : k <= i => k <= j
    BY <2>1
  <2>3. j <= j /\ ~(j <= i)
    BY <2>1
  <2> QED
    BY <2>2, <2>3
<1>2. IsFiniteSet(upTo(i)) /\ IsFiniteSet(upTo(j))
  BY FS_Subset
<1>3. /\ Cardinality(upTo(i)) <= Cardinality(upTo(j))
      /\ Cardinality(upTo(i)) # Cardinality(upTo(j))
      /\ Cardinality(upTo(i)) \in Nat /\ Cardinality(upTo(j)) \in Nat
  <2> HIDE DEF upTo
  <2> QED
    BY <1>1, <1>2, FS_Subset, FS_CardinalityType
<1> QED
  BY <1>3 DEF Rank

(* Every rank is taken, by one member. *)
LEMMA RankTaken ==
    ASSUME NEW I, IsFiniteSet(I), I \subseteq Nat, NEW k \in 1 .. Cardinality(I)
    PROVE  \E i \in I : Rank(i, I) = k
<1> DEFINE n == Cardinality(I)
           f == [i \in I |-> Rank(i, I)]
<1>1. n \in Nat
  BY FS_CardinalityType
<1>2. f \in [I -> 1 .. n]
  BY RankInRange
<1>3. \A i, j \in I : f[i] = f[j] => i = j
  <2> SUFFICES ASSUME NEW i \in I, NEW j \in I, i < j PROVE f[i] # f[j]
    OBVIOUS
  <2>1. /\ Rank(i, I) < Rank(j, I)
        /\ Rank(i, I) \in 1 .. n /\ Rank(j, I) \in 1 .. n
    BY RankRises, RankInRange
  <2> QED
    BY <2>1
<1>4. f \in Injection(I, 1 .. n)
  BY <1>2, <1>3 DEF Injection, IsInjective
<1>5. IsFiniteSet(1 .. n) /\ Cardinality(1 .. n) = n
  BY <1>1, FS_Interval
<1> HIDE DEF f
<1>6. f \in Surjection(I, 1 .. n)
  BY <1>4, <1>5, FS_Injection
<1>7. PICK i \in I : f[i] = k
  BY <1>6 DEF Surjection
<1> QED
  BY <1>7 DEF f

LEMMA InOrderRises ==
    ASSUME NEW I, IsFiniteSet(I), I \subseteq Nat
    PROVE  /\ InOrder(I) \in [1 .. Cardinality(I) -> I]
           /\ \A k, l \in 1 .. Cardinality(I) : k < l => InOrder(I)[k] < InOrder(I)[l]
           /\ \A i \in I : InOrder(I)[Rank(i, I)] = i
<1> DEFINE n == Cardinality(I)
           at == InOrder(I)
<1>1. \A k \in 1 .. n : at[k] \in I /\ Rank(at[k], I) = k
  BY RankTaken DEF InOrder
<1>2. at \in [1 .. n -> I]
  BY <1>1 DEF InOrder
<1>3. ASSUME NEW k \in 1 .. n, NEW l \in 1 .. n, k < l PROVE at[k] < at[l]
  <2>1. at[k] \in I /\ at[l] \in I /\ Rank(at[k], I) = k /\ Rank(at[l], I) = l
    BY <1>1
  <2>2. at[k] # at[l] /\ n \in Nat
    BY <1>3, <2>1, FS_CardinalityType
  <2>3. at[k] \in Nat /\ at[l] \in Nat
    BY <2>1
  <2> HIDE DEF at
  <2>4. at[l] < at[k] => Rank(at[l], I) < Rank(at[k], I)
    BY <2>1, RankRises
  <2>5. at[l] < at[k] => l < k
    BY <2>1, <2>4
  <2>6. k \in Nat /\ l \in Nat
    BY <2>2
  <2>7. ~(at[l] < at[k])
    BY <1>3, <2>5, <2>6
  <2> QED
    BY <2>2, <2>3, <2>7
<1>4. ASSUME NEW i \in I PROVE at[Rank(i, I)] = i
  <2> DEFINE k == Rank(i, I)
  <2>1. k \in 1 .. n
    BY RankInRange
  <2>2. at[k] \in I /\ Rank(at[k], I) = k
    BY <1>1, <2>1
  <2>3. at[k] \in Nat /\ i \in Nat
    BY <2>2
  <2>8. k \in Nat
    BY <2>1
  <2> HIDE DEF at, k
  <2>4. at[k] < i => Rank(at[k], I) < Rank(i, I)
    BY <2>2, RankRises
  <2>5. i < at[k] => Rank(i, I) < Rank(at[k], I)
    BY <2>2, RankRises
  <2>6. Rank(i, I) = k
    BY DEF k
  <2>7. ~(at[k] < i) /\ ~(i < at[k])
    BY <2>2, <2>4, <2>5, <2>6, <2>8
  <2>9. at[k] = i
    BY <2>3, <2>7
  <2> QED
    BY <2>9 DEF k
<1> QED
  BY <1>2, <1>3, <1>4

(* The places that Among keeps. *)
Places(s, S) == {i \in DOMAIN s : s[i] \in S}

LEMMA AmongPlaces ==
    ASSUME NEW T, NEW s \in Seq(T), NEW S
    PROVE  /\ IsFiniteSet(Places(s, S)) /\ Places(s, S) \subseteq Nat
           /\ Places(s, S) \subseteq 1 .. Len(s) /\ Cardinality(Places(s, S)) \in Nat
           /\ InOrder(Places(s, S)) \in [1 .. Cardinality(Places(s, S)) -> Places(s, S)]
           /\ Among(s, S) = [k \in 1 .. Cardinality(Places(s, S)) |-> s[InOrder(Places(s, S))[k]]]
           /\ Among(s, S) \in Seq(T) /\ Len(Among(s, S)) = Cardinality(Places(s, S))
<1> DEFINE I == Places(s, S)
           n == Cardinality(I)
           at == InOrder(I)
<1>1. I \subseteq 1 .. Len(s) /\ Len(s) \in Nat /\ DOMAIN s = 1 .. Len(s)
  BY DEF Places
<1>2. IsFiniteSet(I) /\ I \subseteq Nat /\ n \in Nat
  <2>1. IsFiniteSet(1 .. Len(s)) /\ 1 .. Len(s) \subseteq Nat
    BY <1>1, FS_Interval
  <2>2. IsFiniteSet(I)
    BY <1>1, <2>1, FS_Subset
  <2> QED
    BY <1>1, <2>1, <2>2, FS_CardinalityType
<1>3. at \in [1 .. n -> I]
  BY <1>2, InOrderRises
<1>4. Among(s, S) = [k \in 1 .. n |-> s[at[k]]]
  <2>1. DOMAIN at = 1 .. n
    BY <1>3
  <2> QED
    BY <2>1 DEF Among, Places
<1>5. \A k \in 1 .. n : s[at[k]] \in T
  BY <1>1, <1>3
<1> HIDE DEF at, n
<1>6. Among(s, S) \in Seq(T) /\ Len(Among(s, S)) = n
  BY <1>2, <1>4, <1>5
<1> QED
  BY <1>1, <1>2, <1>3, <1>4, <1>6 DEF at, n

(* It takes from different places, and in their order. *)
THEOREM AmongRises ==
    ASSUME NEW T, NEW s \in Seq(T), NEW S
    PROVE  \E at \in [1 .. Len(Among(s, S)) -> 1 .. Len(s)] :
                /\ \A k, l \in 1 .. Len(Among(s, S)) : k < l => at[k] < at[l]
                /\ \A k \in 1 .. Len(Among(s, S)) : Among(s, S)[k] = s[at[k]]
<1> DEFINE I == Places(s, S)
           n == Cardinality(I)
           at == InOrder(I)
<1>1. /\ IsFiniteSet(I) /\ I \subseteq Nat /\ I \subseteq 1 .. Len(s)
      /\ at \in [1 .. n -> I]
      /\ Among(s, S) = [k \in 1 .. n |-> s[at[k]]]
      /\ Len(Among(s, S)) = n
  BY AmongPlaces
<1>2. \A k, l \in 1 .. n : k < l => at[k] < at[l]
  <2> HIDE DEF I
  <2> QED
    BY <1>1, InOrderRises
<1> HIDE DEF at, n, I
<1>3. at \in [1 .. n -> 1 .. Len(s)]
  BY <1>1
<1>4. \A k \in 1 .. n : Among(s, S)[k] = s[at[k]]
  BY <1>1
<1> QED
  BY <1>1, <1>2, <1>3, <1>4

(* It keeps what is in the set, and its head if that is. *)
THEOREM AmongKeeps ==
    ASSUME NEW T, NEW s \in Seq(T), NEW S
    PROVE  /\ Among(s, S) \in Seq(T)
           /\ ToSet(Among(s, S)) = ToSet(s) \cap S
           /\ s # << >> /\ Head(s) \in S =>
                Among(s, S) # << >> /\ Head(Among(s, S)) = Head(s)
<1> DEFINE I == Places(s, S)
           n == Cardinality(I)
           at == InOrder(I)
           kept == Among(s, S)
<1>1. I \subseteq 1 .. Len(s) /\ Len(s) \in Nat /\ DOMAIN s = 1 .. Len(s)
  BY DEF Places
<1>2. /\ IsFiniteSet(I) /\ I \subseteq Nat /\ n \in Nat
      /\ kept = [k \in 1 .. n |-> s[at[k]]]
      /\ kept \in Seq(T) /\ Len(kept) = n
  BY AmongPlaces
<1>3. /\ at \in [1 .. n -> I]
      /\ \A k, l \in 1 .. n : k < l => at[k] < at[l]
      /\ \A i \in I : at[Rank(i, I)] = i /\ Rank(i, I) \in 1 .. n
  <2> HIDE DEF I
  <2> QED
    BY <1>2, InOrderRises, RankInRange
<1> HIDE DEF at, kept, n
<1>4. ToSet(kept) = ToSet(s) \cap S
  <2>1. \A k \in 1 .. n : kept[k] \in ToSet(s) /\ kept[k] \in S
    BY <1>2, <1>3 DEF ToSet, Places
  <2>2. \A i \in I : kept[Rank(i, I)] = s[i] /\ Rank(i, I) \in 1 .. n
    BY <1>2, <1>3
  <2>3. DOMAIN kept = 1 .. n
    BY <1>2
  <2>4. ToSet(kept) \subseteq ToSet(s) \cap S
    BY <2>1, <2>3 DEF ToSet
  <2>5. ToSet(s) \cap S \subseteq ToSet(kept)
    <3>1. \A i \in DOMAIN s : s[i] \in S => i \in I
      BY <1>1 DEF Places
    <3> QED
      BY <2>2, <2>3, <3>1 DEF ToSet
  <2> QED
    BY <2>4, <2>5
<1>5. ASSUME s # << >>, Head(s) \in S
      PROVE  kept # << >> /\ Head(kept) = Head(s)
  <2>1. 1 \in I /\ s[1] = Head(s)
    BY <1>1, <1>5, EmptySeq DEF Places
  <2>2. Rank(1, I) \in 1 .. n /\ at[Rank(1, I)] = 1
    BY <1>3, <2>1
  <2>3. n >= 1 /\ 1 \in 1 .. n
    BY <1>2, <2>2
  <2>4. at[1] = 1
    <3>1. at[1] \in Nat /\ at[1] >= 1
      BY <1>1, <1>3, <2>3
    <3>2. ~(1 < Rank(1, I))
      <4>1. 1 < Rank(1, I) => at[1] < at[Rank(1, I)]
        BY <1>3, <2>2, <2>3
      <4> QED
        BY <2>2, <3>1, <4>1
    <3>3. Rank(1, I) = 1
      BY <2>2, <3>2, <1>2
    <3> QED
      BY <2>2, <3>3
  <2>5. kept[1] = s[1]
    BY <1>2, <2>3, <2>4
  <2> QED
    BY <1>2, <2>1, <2>3, <2>5
<1> QED
  BY <1>2, <1>4, <1>5 DEF kept

-----------------------------------------------------------------------------
(* Sequences of numbers in rising order. *)

LEMMA FirstNumbers ==
    ASSUME NEW n \in Nat
    PROVE  IsFiniteSet(1 .. n) /\ 1 .. n \subseteq Nat
<1>1. 1 \in Int /\ n \in Int
  OBVIOUS
<1>2. IsFiniteSet(1 .. n)
  BY ONLY <1>1, FS_Interval
<1> QED BY <1>2

(* The greatest and the least of some numbers. *)
LEMMA Extremes ==
    ASSUME NEW I, IsFiniteSet(I), I \subseteq Nat, I # {}
    PROVE  /\ \E m \in I : \A i \in I : i <= m
           /\ \E m \in I : \A i \in I : m <= i
<1> DEFINE n == Cardinality(I)
           at == InOrder(I)
<1>1. /\ at \in [1 .. n -> I]
      /\ \A k, l \in 1 .. n : k < l => at[k] < at[l]
      /\ \A i \in I : at[Rank(i, I)] = i /\ Rank(i, I) \in 1 .. n
  BY InOrderRises, RankInRange
<1>2. n \in Nat /\ n # 0
  BY FS_CardinalityType, FS_EmptySet
<1> HIDE DEF at, n
<1>3. 1 \in 1 .. n /\ n \in 1 .. n
  BY <1>2
<1>4. at[1] \in I /\ at[n] \in I
  BY <1>1, <1>3
<1>5. ASSUME NEW i \in I PROVE i <= at[n] /\ at[1] <= i
  <2> DEFINE k == Rank(i, I)
  <2>1. k \in 1 .. n /\ at[k] = i
    BY <1>1
  <2> HIDE DEF k
  <2>2. (k < n => at[k] < at[n]) /\ (1 < k => at[1] < at[k])
    BY <1>1, <1>3, <2>1
  <2>3. k = n \/ k < n
    BY <1>2, <2>1
  <2>4. k = 1 \/ 1 < k
    BY <1>2, <2>1
  <2>5. at[1] \in Nat /\ at[n] \in Nat /\ i \in Nat
    BY <1>4
  <2> QED BY <2>1, <2>2, <2>3, <2>4, <2>5
<1> QED BY <1>4, <1>5

Rising(s) == \A k, l \in DOMAIN s : k < l => s[k] < s[l]

Before(A, B) == \A x \in A, y \in B : x < y

(* The numbers of a set in rising order. *)
LEMMA InOrderLists ==
    ASSUME NEW I, IsFiniteSet(I), I \subseteq Nat
    PROVE  InOrder(I) \in Seq(I) /\ Rising(InOrder(I)) /\ ToSet(InOrder(I)) = I
<1> DEFINE n == Cardinality(I)
           at == InOrder(I)
<1>1. /\ at \in [1 .. n -> I] /\ n \in Nat
      /\ \A k, l \in 1 .. n : k < l => at[k] < at[l]
      /\ \A i \in I : at[Rank(i, I)] = i /\ Rank(i, I) \in 1 .. n
  BY InOrderRises, RankInRange, FS_CardinalityType
<1> HIDE DEF at, n
<1>2. at \in Seq(I) /\ DOMAIN at = 1 .. n
  BY <1>1
<1>3. Rising(at)
  BY <1>1, <1>2 DEF Rising
<1>4. ToSet(at) = I
  BY <1>1, <1>2 DEF ToSet
<1> QED BY <1>2, <1>3, <1>4 DEF at

LEMMA SetOfMember ==
    ASSUME NEW T, NEW s \in Seq(T)
    PROVE  /\ ToSet(s) \subseteq T /\ DOMAIN s = 1 .. Len(s) /\ Len(s) \in Nat
           /\ \A k \in 1 .. Len(s) : s[k] \in ToSet(s) /\ s[k] \in T
           /\ \A x \in ToSet(s) : \E k \in 1 .. Len(s) : s[k] = x
           /\ ToSet(s) = {} <=> s = << >>
<1>1. DOMAIN s = 1 .. Len(s) /\ Len(s) \in Nat /\ \A k \in 1 .. Len(s) : s[k] \in T
  OBVIOUS
<1>2. ToSet(s) = {} => Len(s) = 0
  <2>1. ASSUME Len(s) # 0 PROVE s[1] \in ToSet(s)
    BY <1>1, <2>1 DEF ToSet
  <2> QED BY <2>1
<1>3. s = << >> => ToSet(s) = {}
  BY <1>1 DEF ToSet
<1>4. Len(s) = 0 => s = << >>
  BY EmptySeq
<1>5. /\ ToSet(s) \subseteq T /\ \A k \in 1 .. Len(s) : s[k] \in ToSet(s)
      /\ \A x \in ToSet(s) : \E k \in 1 .. Len(s) : s[k] = x
  BY <1>1 DEF ToSet
<1> QED BY <1>1, <1>2, <1>3, <1>4, <1>5

LEMMA NothingRises == Rising(<< >>) /\ ToSet(<< >>) = {}
BY DEF Rising, ToSet

LEMMA AppendRises ==
    ASSUME NEW T \in SUBSET Nat, NEW s \in Seq(T), NEW x \in T
    PROVE  /\ Append(s, x) \in Seq(T) /\ ToSet(Append(s, x)) = ToSet(s) \cup {x}
           /\ Rising(s) /\ (\A y \in ToSet(s) : y < x) => Rising(Append(s, x))
<1> DEFINE r == Append(s, x)
<1>1. /\ r \in Seq(T) /\ DOMAIN r = 1 .. Len(s) + 1 /\ Len(s) \in Nat /\ DOMAIN s = 1 .. Len(s)
      /\ r[Len(s) + 1] = x /\ \A k \in 1 .. Len(s) : r[k] = s[k]
  OBVIOUS
<1> HIDE DEF r
<1>2. ToSet(r) = ToSet(s) \cup {x}
  <2>1. \A k \in 1 .. Len(s) : r[k] = s[k] /\ k \in DOMAIN r
    BY <1>1
  <2>2. \A k \in DOMAIN r : k \in 1 .. Len(s) \/ k = Len(s) + 1
    BY <1>1
  <2>3. Len(s) + 1 \in DOMAIN r
    BY <1>1
  <2>4. ToSet(r) \subseteq ToSet(s) \cup {x}
    BY <1>1, <2>1, <2>2 DEF ToSet
  <2>5. ToSet(s) \cup {x} \subseteq ToSet(r)
    BY <1>1, <2>1, <2>3 DEF ToSet
  <2> QED BY <2>4, <2>5
<1>3. ASSUME Rising(s), \A y \in ToSet(s) : y < x PROVE Rising(r)
  <2> SUFFICES ASSUME NEW k \in DOMAIN r, NEW l \in DOMAIN r, k < l PROVE r[k] < r[l]
    BY DEF Rising
  <2>1. k \in 1 .. Len(s) /\ r[k] = s[k] /\ s[k] \in ToSet(s)
    BY <1>1 DEF ToSet
  <2>2. CASE l = Len(s) + 1
    BY <1>1, <1>3, <2>1, <2>2
  <2>3. CASE l # Len(s) + 1
    BY <1>1, <1>3, <2>1, <2>3 DEF Rising
  <2> QED BY <2>2, <2>3
<1> QED BY <1>1, <1>2, <1>3 DEF r

LEMMA JoinRises ==
    ASSUME NEW T \in SUBSET Nat, NEW s \in Seq(T), NEW r \in Seq(T)
    PROVE  /\ s \o r \in Seq(T) /\ ToSet(s \o r) = ToSet(s) \cup ToSet(r)
           /\ Rising(s) /\ Rising(r) /\ Before(ToSet(s), ToSet(r)) => Rising(s \o r)
<1> DEFINE q == s \o r
           m == Len(s)
           n == Len(r)
<1>1. /\ q \in Seq(T) /\ DOMAIN q = 1 .. m + n /\ m \in Nat /\ n \in Nat
      /\ DOMAIN s = 1 .. m /\ DOMAIN r = 1 .. n
      /\ \A k \in 1 .. m + n : q[k] = IF k <= m THEN s[k] ELSE r[k - m]
  OBVIOUS
<1> HIDE DEF q, m, n
<1>2. /\ \A k \in 1 .. m : k \in DOMAIN q /\ q[k] = s[k]
      /\ \A k \in 1 .. n : m + k \in DOMAIN q /\ q[m + k] = r[k]
  BY <1>1
<1>3. \A k \in DOMAIN q : k \in 1 .. m \/ (k - m \in 1 .. n /\ k = m + (k - m))
  BY <1>1
<1>4. ToSet(q) = ToSet(s) \cup ToSet(r)
  <2>1. ToSet(s) \subseteq ToSet(q) /\ ToSet(r) \subseteq ToSet(q)
    <3>1. \A k \in 1 .. m : s[k] \in ToSet(q)
      BY <1>2 DEF ToSet
    <3>2. \A k \in 1 .. n : r[k] \in ToSet(q)
      BY <1>2 DEF ToSet
    <3> QED BY <1>1, <3>1, <3>2 DEF ToSet
  <2>2. ASSUME NEW x \in ToSet(q) PROVE x \in ToSet(s) \cup ToSet(r)
    <3>1. PICK k \in DOMAIN q : q[k] = x
      BY DEF ToSet
    <3>2. CASE k \in 1 .. m
      BY <1>1, <1>2, <3>1, <3>2 DEF ToSet
    <3>3. CASE k - m \in 1 .. n /\ k = m + (k - m)
      BY <1>1, <1>2, <3>1, <3>3 DEF ToSet
    <3> QED BY <1>3, <3>2, <3>3
  <2> QED BY <2>1, <2>2
<1>5. ASSUME Rising(s), Rising(r), Before(ToSet(s), ToSet(r)) PROVE Rising(q)
  <2> SUFFICES ASSUME NEW k \in DOMAIN q, NEW l \in DOMAIN q, k < l PROVE q[k] < q[l]
    BY DEF Rising
  <2>1. k \in Nat /\ l \in Nat
    BY <1>1
  <2>2. CASE k \in 1 .. m /\ l \in 1 .. m
    BY <1>1, <1>2, <1>5, <2>2 DEF Rising
  <2>3. CASE k \in 1 .. m /\ l \notin 1 .. m
    <3>1. l - m \in 1 .. n /\ q[l] = r[l - m] /\ q[k] = s[k]
      BY <1>1, <2>3
    <3>2. s[k] \in ToSet(s) /\ r[l - m] \in ToSet(r)
      BY <1>1, <2>3, <3>1 DEF ToSet
    <3> QED BY <1>5, <3>1, <3>2 DEF Before
  <2>4. CASE k \notin 1 .. m
    <3>1. k - m \in 1 .. n /\ l - m \in 1 .. n /\ q[k] = r[k - m] /\ q[l] = r[l - m] /\ k - m < l - m
      BY <1>1, <2>1, <2>4
    <3> QED BY <1>1, <1>5, <3>1 DEF Rising
  <2> QED BY <2>2, <2>3, <2>4
<1> QED BY <1>1, <1>4, <1>5 DEF q

LEMMA TailRises ==
    ASSUME NEW T \in SUBSET Nat, NEW s \in Seq(T), s # << >>
    PROVE  /\ Head(s) \in T /\ Tail(s) \in Seq(T) /\ ToSet(s) = {Head(s)} \cup ToSet(Tail(s))
           /\ Rising(s) => Rising(Tail(s)) /\ \A x \in ToSet(Tail(s)) : Head(s) < x
<1> DEFINE r == Tail(s)
           n == Len(s)
<1>1. /\ r \in Seq(T) /\ n \in Nat /\ n >= 1 /\ DOMAIN s = 1 .. n /\ DOMAIN r = 1 .. n - 1
      /\ Head(s) = s[1] /\ \A k \in 1 .. n - 1 : r[k] = s[k + 1]
  BY EmptySeq
<1> HIDE DEF r, n
<1>2. ToSet(s) = {s[1]} \cup ToSet(r)
  <2>1. 1 \in DOMAIN s /\ \A k \in 1 .. n - 1 : k + 1 \in DOMAIN s /\ r[k] = s[k + 1]
    BY <1>1
  <2>2. {s[1]} \cup ToSet(r) \subseteq ToSet(s)
    BY <1>1, <2>1 DEF ToSet
  <2>3. ASSUME NEW k \in DOMAIN s, k # 1 PROVE s[k] \in ToSet(r)
    <3>1. k - 1 \in 1 .. n - 1 /\ r[k - 1] = s[k]
      BY <1>1, <2>3
    <3> QED BY <1>1, <3>1 DEF ToSet
  <2> QED BY <2>2, <2>3 DEF ToSet
<1>3. ASSUME Rising(s) PROVE Rising(r) /\ \A x \in ToSet(r) : s[1] < x
  <2>1. Rising(r)
    <3> SUFFICES ASSUME NEW k \in 1 .. n - 1, NEW l \in 1 .. n - 1, k < l PROVE r[k] < r[l]
      BY <1>1 DEF Rising
    <3>1. k + 1 \in DOMAIN s /\ l + 1 \in DOMAIN s /\ k + 1 < l + 1
      BY <1>1
    <3> QED BY <1>1, <1>3, <3>1 DEF Rising
  <2>2. ASSUME NEW k \in 1 .. n - 1 PROVE s[1] < r[k]
    <3>1. 1 \in DOMAIN s /\ k + 1 \in DOMAIN s /\ 1 < k + 1
      BY <1>1
    <3> QED BY <1>1, <1>3, <3>1 DEF Rising
  <2> QED BY <1>1, <2>1, <2>2 DEF ToSet
<1>4. s[1] \in T
  BY <1>1
<1> QED BY <1>1, <1>2, <1>3, <1>4 DEF r

LEMMA AmongRising ==
    ASSUME NEW T \in SUBSET Nat, NEW s \in Seq(T), NEW S, Rising(s)
    PROVE  Rising(Among(s, S))
<1> DEFINE r == Among(s, S)
<1>1. r \in Seq(T)
  BY AmongKeeps
<1>2. PICK at \in [1 .. Len(r) -> 1 .. Len(s)] :
        /\ \A k, l \in 1 .. Len(r) : k < l => at[k] < at[l]
        /\ \A k \in 1 .. Len(r) : r[k] = s[at[k]]
  BY AmongRises
<1> HIDE DEF r
<1>3. DOMAIN r = 1 .. Len(r) /\ DOMAIN s = 1 .. Len(s)
  BY <1>1
<1>4. Rising(r)
  BY <1>2, <1>3 DEF Rising
<1> QED BY <1>4 DEF r

(* A first part of a sequence: what is not in it comes after it. *)
LEMMA FrontRises ==
    ASSUME NEW T \in SUBSET Nat, NEW s \in Seq(T), NEW n \in 0 .. Len(s), Rising(s)
    PROVE  LET front == SubSeq(s, 1, n)
           IN  /\ front \in Seq(T) /\ Len(front) = n /\ Rising(front)
               /\ ToSet(front) \subseteq ToSet(s)
               /\ \A x \in ToSet(front), y \in ToSet(s) \ ToSet(front) : x < y
               /\ n = Len(s) => front = s
               /\ n # 0 => Last(front) \in ToSet(front) /\ \A x \in ToSet(front) : x <= Last(front)
<1> DEFINE front == SubSeq(s, 1, n)
<1>1. /\ front \in Seq(T) /\ Len(front) = n /\ DOMAIN front = 1 .. n /\ DOMAIN s = 1 .. Len(s)
      /\ Len(s) \in Nat /\ n \in Nat /\ n <= Len(s) /\ \A k \in 1 .. n : front[k] = s[k]
  OBVIOUS
<1>2. n = Len(s) => front = s
  BY <1>1, SeqEqual
<1> HIDE DEF front
<1>3. Rising(front)
  BY <1>1 DEF Rising
<1>4. ToSet(front) \subseteq ToSet(s)
  BY <1>1 DEF ToSet
<1>5. ASSUME NEW x \in ToSet(front), NEW y \in ToSet(s) \ ToSet(front) PROVE x < y
  <2>1. PICK k \in 1 .. n : x = s[k]
    BY <1>1 DEF ToSet
  <2>2. PICK l \in 1 .. Len(s) : y = s[l]
    BY <1>1 DEF ToSet
  <2>3. l \notin 1 .. n
    BY <1>1, <2>2 DEF ToSet
  <2>4. k \in DOMAIN s /\ l \in DOMAIN s /\ k < l
    BY <1>1, <2>3
  <2> QED BY <2>1, <2>2, <2>4 DEF Rising
<1>6. ASSUME n # 0 PROVE Last(front) \in ToSet(front) /\ \A x \in ToSet(front) : x <= Last(front)
  <2>1. Last(front) = front[n] /\ n \in 1 .. n
    BY <1>1, <1>6 DEF Last
  <2>2. front[n] \in ToSet(front)
    BY <1>1, <2>1 DEF ToSet
  <2>3. ASSUME NEW k \in 1 .. n PROVE front[k] <= front[n]
    <3>0. \A l \in 1 .. n : front[l] \in T
      BY <1>1
    <3>1. front[k] \in Nat /\ front[n] \in Nat
      BY <2>1, <3>0
    <3>3. k = n \/ k < n
      BY <1>1
    <3>2. k < n => front[k] < front[n]
      BY <1>1, <1>3, <2>1 DEF Rising
    <3> QED BY <3>1, <3>2, <3>3
  <2> QED BY <1>1, <2>1, <2>2, <2>3 DEF ToSet
<1> QED BY <1>1, <1>2, <1>3, <1>4, <1>5, <1>6 DEF front
=============================================================================
