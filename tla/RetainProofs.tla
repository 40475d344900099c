---------------------------- MODULE RetainProofs ----------------------------
(***************************************************************************)
(* What Retain leaves of any sequence: the elements at the positions, each *)
(* once and in order.                                                      *)
(***************************************************************************)
EXTENDS Retain, FiniteSetTheorems, TLAPS

LEMMA RankType ==
  ASSUME NEW n \in Nat, NEW I \in SUBSET (1..n)
  PROVE  /\ IsFiniteSet(I) /\ Cardinality(I) \in Nat
         /\ \A i \in I : Rank(i, I) \in 1..Cardinality(I)
<1>1. IsFiniteSet(1..n)
  BY FS_Interval
<1>2. IsFiniteSet(I) /\ Cardinality(I) \in Nat
  BY <1>1, FS_Subset, FS_CardinalityType
<1>3. ASSUME NEW i \in I PROVE Rank(i, I) \in 1..Cardinality(I)
  <2> DEFINE upto == {h \in I : h <= i}
  <2>1. i \in upto
    OBVIOUS
  <2>2. IsFiniteSet(upto) /\ Cardinality(upto) <= Cardinality(I)
    BY <1>2, FS_Subset
  <2>3. Cardinality(upto) \in Nat /\ Cardinality(upto) # 0
    BY <2>1, <2>2, FS_CardinalityType, FS_EmptySet
  <2>. QED
    BY <1>2, <2>2, <2>3 DEF Rank
<1>. QED
  BY <1>2, <1>3

\* Of two positions the later one has the higher rank.
LEMMA RankMonotone ==
  ASSUME NEW n \in Nat, NEW I \in SUBSET (1..n), NEW i \in I, NEW k \in I, i < k
  PROVE  Rank(i, I) < Rank(k, I)
<1> DEFINE low  == {h \in I : h <= i}
           high == {h \in I : h <= k}
<1>0. i \in Nat /\ k \in Nat /\ \A h \in I : h \in Nat
  OBVIOUS
<1>1. low \subseteq high /\ k \in high /\ k \notin low
  <2>1. \A h \in I : h <= i => h <= k
    BY <1>0
  <2>2. k <= k /\ ~ k <= i
    BY <1>0
  <2>. QED
    BY <2>1, <2>2
<1>2. IsFiniteSet(high)
  BY RankType, FS_Subset
<1>3. Cardinality(low) <= Cardinality(high) /\ Cardinality(low) # Cardinality(high)
  BY <1>1, <1>2, FS_Subset
<1>4. Cardinality(low) \in Nat /\ Cardinality(high) \in Nat
  BY <1>1, <1>2, FS_Subset, FS_CardinalityType
<1>. QED
  BY <1>3, <1>4 DEF Rank

\* Every rank is taken: there are as many as positions.
LEMMA RankOnto ==
  ASSUME NEW n \in Nat, NEW I \in SUBSET (1..n), NEW j \in 1..Cardinality(I)
  PROVE  \E i \in I : Rank(i, I) = j
<1> DEFINE f == [i \in I |-> Rank(i, I)]
           J == 1..Cardinality(I)
<1>1. Cardinality(I) \in Nat /\ \A i \in I : Rank(i, I) \in J
  BY RankType
<1>2. \A i, k \in I : Rank(i, I) = Rank(k, I) => i = k
  <2> SUFFICES ASSUME NEW i \in I, NEW k \in I, i # k PROVE Rank(i, I) # Rank(k, I)
    OBVIOUS
  <2>1. i < k \/ k < i
    OBVIOUS
  <2>2. Rank(i, I) \in Nat /\ Rank(k, I) \in Nat
    BY <1>1
  <2>3. ASSUME i < k PROVE Rank(i, I) < Rank(k, I)
    BY <2>3, RankMonotone
  <2>4. ASSUME k < i PROVE Rank(k, I) < Rank(i, I)
    BY <2>4, RankMonotone
  <2>. QED
    BY <2>1, <2>2, <2>3, <2>4
<1>3. f \in Injection(I, J)
  BY <1>1, <1>2 DEF Injection, IsInjective
<1>4. IsFiniteSet(J) /\ Cardinality(J) = Cardinality(I)
  BY <1>1, FS_Interval
<1> HIDE DEF J
<1>5. f \in Surjection(I, J)
  BY <1>3, <1>4, FS_Injection
<1>. QED
  BY <1>5 DEF Surjection, J

\* Retain goes through the positions in order, leaving none out.
LEMMA OrderKept ==
  ASSUME NEW n \in Nat, NEW I \in SUBSET (1..n), NEW s
  PROVE  /\ Cardinality(I) \in Nat
         /\ DOMAIN Retain(s, I) = 1..Cardinality(I)
         /\ \A j \in 1..Cardinality(I) :
              Position(j, I) \in I /\ Retain(s, I)[j] = s[Position(j, I)]
         /\ \A j, k \in 1..Cardinality(I) : j < k => Position(j, I) < Position(k, I)
         /\ \A i \in I : \E j \in 1..Cardinality(I) : Position(j, I) = i
<1> DEFINE J == 1..Cardinality(I)
<1>1. Cardinality(I) \in Nat
  BY RankType
<1>2. \A j \in J : Position(j, I) \in I /\ Rank(Position(j, I), I) = j
  BY RankOnto DEF Position
<1>3. DOMAIN Retain(s, I) = J /\ \A j \in J : Retain(s, I)[j] = s[Position(j, I)]
  BY DEF Retain
<1>4. I \subseteq Nat
  OBVIOUS
<1>5. ASSUME NEW i \in I, NEW k \in I
      PROVE  /\ Rank(i, I) \in J /\ Rank(k, I) \in J
             /\ i < k => Rank(i, I) < Rank(k, I)
  <2>1. Rank(i, I) \in J /\ Rank(k, I) \in J
    BY RankType
  <2>2. ASSUME i < k PROVE Rank(i, I) < Rank(k, I)
    BY <2>2, RankMonotone
  <2>. QED
    BY <2>1, <2>2
<1>6. ASSUME NEW j \in J, NEW k \in J, j < k PROVE Position(j, I) < Position(k, I)
  <2> DEFINE x == Position(j, I)
             y == Position(k, I)
  <2>1. x \in I /\ y \in I /\ Rank(x, I) = j /\ Rank(y, I) = k
    BY <1>2
  <2> HIDE DEF x, y
  <2>2. x \in Nat /\ y \in Nat /\ j \in Nat /\ k \in Nat
    BY <1>1, <1>4, <2>1
  <2>3. y < x => Rank(y, I) < Rank(x, I)
    BY <1>5, <2>1
  <2>4. x < y
    BY <1>6, <2>1, <2>2, <2>3
  <2>. QED
    BY <2>4 DEF x, y
<1>7. ASSUME NEW i \in I PROVE \E j \in J : Position(j, I) = i
  <2> DEFINE j == Rank(i, I)
             x == Position(j, I)
  <2>1. j \in J
    BY <1>5
  <2>2. x \in I /\ Rank(x, I) = j
    BY <1>2, <2>1
  <2> HIDE DEF x
  <2>3. /\ x < i => Rank(x, I) < j
        /\ i < x => j < Rank(x, I)
    BY <1>5, <2>2
  <2>4. j \in Nat /\ x \in Nat /\ i \in Nat
    BY <1>1, <1>4, <2>1, <2>2
  <2> HIDE DEF j
  <2>5. x = i
    BY <2>2, <2>3, <2>4
  <2>. QED
    BY <2>1, <2>5 DEF x
<1>. QED
  BY <1>1, <1>2, <1>3, <1>6, <1>7

\* Retaining every position changes nothing.
LEMMA RetainAll ==
  ASSUME NEW S, NEW s \in Seq(S)
  PROVE  Retain(s, DOMAIN s) = s
<1>1. Len(s) \in Nat /\ DOMAIN s = 1..Len(s) /\ s = [i \in 1..Len(s) |-> s[i]]
  OBVIOUS
<1> DEFINE I == 1..Len(s)
<1>2. Cardinality(I) = Len(s)
  BY <1>1, FS_Interval
<1>3. \A i \in I : {h \in I : h <= i} = 1..i /\ Rank(i, I) = i
  <2> SUFFICES ASSUME NEW i \in I PROVE {h \in I : h <= i} = 1..i /\ Rank(i, I) = i
    OBVIOUS
  <2>0. i \in Nat /\ i <= Len(s)
    BY <1>1
  <2>1. {h \in I : h <= i} = 1..i
    BY <1>1, <2>0
  <2>2. Cardinality(1..i) = i
    BY <2>0, FS_Interval
  <2>. QED
    BY <2>1, <2>2 DEF Rank
<1>4. \A j \in I : Position(j, I) = j
  BY <1>3 DEF Position
<1> HIDE DEF I
<1>5. Retain(s, I) = [j \in I |-> s[j]]
  BY <1>1, <1>2, <1>4 DEF Retain, I
<1>. QED
  BY <1>1, <1>5 DEF I

=============================================================================
