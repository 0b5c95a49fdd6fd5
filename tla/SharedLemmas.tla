---------------------------- MODULE SharedLemmas ----------------------------
(***************************************************************************)
(* What the proofs of several modules need: the least element of a set of  *)
(* numbers; lists picked by rank, as the radius search and the pages of    *)
(* events are; and the spatial index, which the engine keeps in step with  *)
(* its drivers and recovery builds again.                                  *)
(***************************************************************************)
EXTENDS SpatialIndex, Naturals, Sequences, FiniteSets, FiniteSetsExt, FiniteSetTheorems,
        WellFoundedInduction, TLAPS

-----------------------------------------------------------------------------
(* Every set of natural numbers that is not empty has a least element.     *)

LEMMA LessThanWellFounded == IsWellFoundedOn({p \in Nat \X Nat : p[1] < p[2]}, Nat)
  BY NatLessThanWellFounded, SMT DEF OpToRel

LEMMA HasMinimal ==
  ASSUME NEW R, IsWellFoundedOn(R, Nat), NEW S, S \subseteq Nat, S # {}
  PROVE  \E m \in S : \A n \in S : ~ (<<n, m>> \in R)
  BY WFMin, Zenon

LEMMA HasLeast ==
  ASSUME NEW S, S \subseteq Nat, S # {}
  PROVE  \E m \in S : \A n \in S : m <= n
<1> DEFINE R == {p \in Nat \X Nat : p[1] < p[2]}
<1>1. \A a, b \in Nat : a < b => <<a, b>> \in R
  OBVIOUS
<1>2. IsWellFoundedOn(R, Nat)
  BY LessThanWellFounded
<1> HIDE DEF R
<1>3. PICK m \in S : \A n \in S : ~ (<<n, m>> \in R)
  BY <1>2, HasMinimal
<1>4. m \in Nat /\ \A n \in S : n \in Nat /\ ~ (n < m)
  BY <1>1, <1>3
<1> QED BY <1>4

(* The smaller of two. *)
LEMMA Lesser ==
  ASSUME NEW a \in Nat, NEW b \in Nat
  PROVE  Min({a, b}) = IF a <= b THEN a ELSE b
<1>1. \E x \in {a, b} : \A y \in {a, b} : x <= y
  OBVIOUS
<1>2. Min({a, b}) \in {a, b} /\ \A y \in {a, b} : Min({a, b}) <= y
  BY <1>1 DEF Min
<1> QED BY <1>2

-----------------------------------------------------------------------------
(* Lists in which an element's place is one more than the number of those  *)
(* ahead of it.                                                            *)

(* R orders S. *)
Orders(R, S) ==
  /\ \A e \in S : <<e, e>> \notin R
  /\ \A e, f, g \in S : <<e, f>> \in R /\ <<f, g>> \in R => <<e, g>> \in R
  /\ \A e, f \in S : e # f => <<e, f>> \in R \/ <<f, e>> \in R

Ahead(e, R, S) == {f \in S : <<f, e>> \in R}

(* s lists the first n of S: in order, nothing passed over. *)
ListsFirst(s, n, R, S) ==
  /\ s \in Seq(S) /\ Len(s) = n
  /\ \A i \in 1..n : Cardinality(Ahead(s[i], R, S)) = i - 1
  /\ \A i, j \in 1..n : i < j => <<s[i], s[j]>> \in R
  /\ \A e \in S : (\E i \in 1..n : s[i] = e) \/ (\A i \in 1..n : <<s[i], e>> \in R)
  /\ n = Cardinality(S) => \A e \in S : \E i \in 1..n : s[i] = e

LEMMA RankGrows ==
  ASSUME NEW S, IsFiniteSet(S), NEW R, Orders(R, S),
         NEW e \in S, NEW f \in S, <<e, f>> \in R
  PROVE  Cardinality(Ahead(e, R, S)) < Cardinality(Ahead(f, R, S))
<1> DEFINE A == Ahead(e, R, S)
           B == Ahead(f, R, S)
<1>1. A \in SUBSET S /\ e \notin A
  BY DEF Orders, Ahead
<1>2. A \cup {e} \in SUBSET B
  BY DEF Orders, Ahead
<1>3. B \in SUBSET S
  BY DEF Ahead
<1> HIDE DEF A, B
<1>4. IsFiniteSet(A) /\ IsFiniteSet(B)
  BY <1>1, <1>3, FS_Subset
<1>5. Cardinality(A \cup {e}) = Cardinality(A) + 1
  BY <1>1, <1>4, FS_AddElement
<1>6. Cardinality(A \cup {e}) <= Cardinality(B)
  BY <1>2, <1>4, FS_Subset
<1>7. Cardinality(A) \in Nat /\ Cardinality(B) \in Nat
  BY <1>4, FS_CardinalityType
<1>8. Cardinality(A) < Cardinality(B)
  BY <1>5, <1>6, <1>7
<1> QED BY <1>8 DEF A, B

LEMMA RankIsBelow ==
  ASSUME NEW S, IsFiniteSet(S), NEW R, Orders(R, S), NEW e \in S
  PROVE  Cardinality(Ahead(e, R, S)) \in 0..(Cardinality(S) - 1)
<1> DEFINE A == Ahead(e, R, S)
<1>1. A \in SUBSET S /\ e \notin A
  BY DEF Orders, Ahead
<1> HIDE DEF A
<1>2. IsFiniteSet(A) /\ Cardinality(A) <= Cardinality(S)
      /\ (Cardinality(S) = Cardinality(A) => S = A)
  BY <1>1, FS_Subset
<1>3. Cardinality(A) \in Nat /\ Cardinality(S) \in Nat
  BY <1>2, FS_CardinalityType
<1>4. Cardinality(A) \in 0..(Cardinality(S) - 1)
  BY <1>1, <1>2, <1>3
<1> QED BY <1>4 DEF A

(* Every rank is taken, by one element only. *)
LEMMA RankIsTaken ==
  ASSUME NEW S, IsFiniteSet(S), NEW R, Orders(R, S), NEW i \in 1..Cardinality(S)
  PROVE  \E e \in S : Cardinality(Ahead(e, R, S)) = i - 1
<1> DEFINE n == Cardinality(S)
           rank == [e \in S |-> Cardinality(Ahead(e, R, S)) + 1]
<1>1. n \in Nat
  BY FS_CardinalityType
<1>2. \A e \in S : rank[e] \in 1..n
  <2> SUFFICES ASSUME NEW e \in S PROVE rank[e] \in 1..n
    OBVIOUS
  <2>1. Cardinality(Ahead(e, R, S)) \in 0..(n - 1)
    BY RankIsBelow
  <2> QED BY <1>1, <2>1
<1>3. \A e, f \in S : e # f => rank[e] # rank[f]
  <2> SUFFICES ASSUME NEW e \in S, NEW f \in S, e # f PROVE rank[e] # rank[f]
    OBVIOUS
  <2>1. <<e, f>> \in R \/ <<f, e>> \in R
    BY DEF Orders
  <2>2. /\ <<e, f>> \in R => Cardinality(Ahead(e, R, S)) < Cardinality(Ahead(f, R, S))
        /\ <<f, e>> \in R => Cardinality(Ahead(f, R, S)) < Cardinality(Ahead(e, R, S))
    BY RankGrows
  <2>3. Cardinality(Ahead(e, R, S)) \in Nat /\ Cardinality(Ahead(f, R, S)) \in Nat
    BY RankIsBelow, <1>1
  <2> QED BY <2>1, <2>2, <2>3
<1>4. rank \in Injection(S, 1..n)
  BY <1>2, <1>3 DEF Injection, IsInjective
<1>5. IsFiniteSet(1..n) /\ Cardinality(1..n) = n
  BY <1>1, FS_Interval
<1>6. rank \in Surjection(S, 1..n)
  <2> HIDE DEF rank, n
  <2>1. Cardinality(S) = Cardinality(1..n)
    BY <1>5 DEF n
  <2> QED BY <1>4, <1>5, <2>1, FS_Injection
<1>7. PICK e \in S : rank[e] = i
  BY <1>6 DEF Surjection
<1>8. Cardinality(Ahead(e, R, S)) \in Nat
  BY RankIsBelow, <1>1
<1> QED BY <1>7, <1>8

(* What comes of picking the elements by their rank, the first n of them. *)
LEMMA PickedByRank ==
  ASSUME NEW S, IsFiniteSet(S), NEW R, Orders(R, S), NEW n \in 0..Cardinality(S),
         NEW s \in [1..n -> S],
         \A i \in 1..n : Cardinality(Ahead(s[i], R, S)) = i - 1
  PROVE  ListsFirst(s, n, R, S)
<1>0. n \in Nat /\ Cardinality(S) \in Nat /\ n <= Cardinality(S)
  BY FS_CardinalityType
<1>1. \A i \in 1..n : s[i] \in S /\ Cardinality(Ahead(s[i], R, S)) = i - 1
  OBVIOUS
<1>3. s \in Seq(S) /\ Len(s) = n
  BY <1>0
<1>4. ASSUME NEW i \in 1..n, NEW e \in S,
             s[i] # e, <<s[i], e>> \notin R
      PROVE  Cardinality(Ahead(e, R, S)) < i - 1
  <2>1. s[i] \in S /\ Cardinality(Ahead(s[i], R, S)) = i - 1
    BY <1>1
  <2>2. <<e, s[i]>> \in R
    BY <1>4, <2>1 DEF Orders
  <2>3. Cardinality(Ahead(e, R, S)) < Cardinality(Ahead(s[i], R, S))
    BY <2>1, <2>2, RankGrows
  <2> QED BY <2>1, <2>3
<1>5. \A i, j \in 1..n : i < j => <<s[i], s[j]>> \in R
  <2> SUFFICES ASSUME NEW i \in 1..n, NEW j \in 1..n, i < j, <<s[i], s[j]>> \notin R
               PROVE  FALSE
    OBVIOUS
  <2>1. s[j] \in S /\ Cardinality(Ahead(s[j], R, S)) = j - 1
    BY <1>1
  <2>2. s[i] # s[j]
    BY <1>1, <1>0
  <2>3. j - 1 < i - 1
    BY <1>4, <2>1, <2>2
  <2> QED BY <2>3, <1>0
<1>6. ASSUME NEW e \in S, NEW i \in 1..n, <<s[i], e>> \notin R
      PROVE  \E k \in 1..n : s[k] = e
  <2> SUFFICES ASSUME s[i] # e PROVE \E k \in 1..n : s[k] = e
    OBVIOUS
  <2> DEFINE k == Cardinality(Ahead(e, R, S)) + 1
  <2>1. k - 1 < i - 1
    <3>1. Cardinality(Ahead(e, R, S)) < i - 1
      BY <1>4, <1>6
    <3>2. Cardinality(Ahead(e, R, S)) \in Nat
      BY RankIsBelow, <1>0
    <3> QED BY <3>1, <3>2
  <2>2. k \in Nat \ {0} /\ k - 1 = Cardinality(Ahead(e, R, S))
    BY RankIsBelow, <1>0
  <2> HIDE DEF k
  <2>3. k \in 1..n
    BY <2>1, <2>2, <1>0
  <2>4. s[k] \in S /\ Cardinality(Ahead(s[k], R, S)) = k - 1
    BY <1>1, <2>3
  <2>5. s[k] = e
    <3> SUFFICES ASSUME s[k] # e PROVE FALSE
      OBVIOUS
    <3>1. <<s[k], e>> \in R \/ <<e, s[k]>> \in R
      BY <2>4 DEF Orders
    <3>2. /\ <<s[k], e>> \in R => Cardinality(Ahead(s[k], R, S)) < Cardinality(Ahead(e, R, S))
          /\ <<e, s[k]>> \in R => Cardinality(Ahead(e, R, S)) < Cardinality(Ahead(s[k], R, S))
      BY <2>4, RankGrows
    <3> QED BY <3>1, <3>2, <2>2, <2>4
  <2> QED BY <2>3, <2>5
<1>7. ASSUME n = Cardinality(S), NEW e \in S
      PROVE  \E i \in 1..n : s[i] = e
  <2>1. Cardinality(Ahead(e, R, S)) \in 0..(n - 1)
    BY <1>7, RankIsBelow
  <2>2. n \in 1..n
    BY <1>0, <2>1
  <2>3. ~ (<<s[n], e>> \in R)
    <3> SUFFICES ASSUME <<s[n], e>> \in R PROVE FALSE
      OBVIOUS
    <3>1. s[n] \in S /\ Cardinality(Ahead(s[n], R, S)) = n - 1
      BY <1>1, <2>2
    <3>2. Cardinality(Ahead(s[n], R, S)) < Cardinality(Ahead(e, R, S))
      BY <3>1, RankGrows
    <3> QED BY <2>1, <3>1, <3>2, <1>0
  <2> QED BY <1>6, <2>2, <2>3
<1> QED BY <1>1, <1>3, <1>5, <1>6, <1>7 DEF ListsFirst

-----------------------------------------------------------------------------
(* Taking a driver out of the index and putting it in.                     *)

LEMMA RemovalMirrors ==
  ASSUME NEW index, NEW fleet, NEW d, Mirrors(index, fleet)
  PROVE  Mirrors(RemoveFromIndex(index, d), Without(fleet, d))
<1> DEFINE rest == Without(fleet, d)
<1>1. /\ DOMAIN rest = DOMAIN fleet \ {d}
      /\ \A x \in DOMAIN rest : rest[x] = fleet[x]
  BY DEF Without
<1>2. CASE d \notin DOMAIN fleet
  BY <1>1, <1>2 DEF Mirrors, RemoveFromIndex
<1>3. CASE d \in DOMAIN fleet
  <2> DEFINE c == index.driver_cells[d]
             b == Vacate(index.buckets, c, d)
             cells == Without(index.driver_cells, d)
  <2>1. RemoveFromIndex(index, d) = [buckets |-> b, driver_cells |-> cells]
    BY <1>3 DEF Mirrors, RemoveFromIndex
  <2>2. /\ c = CellOf[fleet[d].position]
        /\ c \in DOMAIN index.buckets
        /\ index.buckets[c] = {x \in DOMAIN fleet : CellOf[fleet[x].position] = c}
    BY <1>3 DEF Mirrors
  <2>3. DOMAIN cells = DOMAIN rest /\ \A x \in DOMAIN rest : cells[x] = CellOf[rest[x].position]
    BY <1>1 DEF Mirrors, Without
  <2>4. CASE index.buckets[c] \subseteq {d}
    <3>1. b = Without(index.buckets, c)
      BY <2>2, <2>4 DEF Vacate
    <3>2. \A x \in DOMAIN rest : CellOf[rest[x].position] # c
      BY <1>1, <2>2, <2>4
    <3>3. DOMAIN b = {CellOf[rest[x].position] : x \in DOMAIN rest}
      BY <1>1, <2>2, <3>1, <3>2 DEF Mirrors, Without
    <3>4. \A k \in DOMAIN b : b[k] = {x \in DOMAIN rest : CellOf[rest[x].position] = k}
      BY <1>1, <2>2, <3>1 DEF Mirrors, Without
    <3>5. QED
      BY <2>1, <2>3, <3>3, <3>4 DEF Mirrors
  <2>5. CASE ~ (index.buckets[c] \subseteq {d})
    <3>1. b = With(index.buckets, c, index.buckets[c] \ {d})
      BY <2>2, <2>5 DEF Vacate
    <3>2. PICK y \in DOMAIN rest : CellOf[rest[y].position] = c
      BY <1>1, <2>2, <2>5
    <3>3. DOMAIN b = {CellOf[rest[x].position] : x \in DOMAIN rest}
      <4>1. DOMAIN b = {CellOf[fleet[x].position] : x \in DOMAIN fleet}
        BY <2>2, <3>1 DEF Mirrors, With
      <4>2. {CellOf[fleet[x].position] : x \in DOMAIN fleet}
              = {CellOf[rest[x].position] : x \in DOMAIN rest}
        BY <1>1, <2>2, <3>2
      <4>3. QED
        BY <4>1, <4>2
    <3>4. \A k \in DOMAIN b : b[k] = {x \in DOMAIN rest : CellOf[rest[x].position] = k}
      BY <1>1, <2>2, <3>1 DEF Mirrors, With
    <3>5. QED
      BY <2>1, <2>3, <3>3, <3>4 DEF Mirrors
  <2>6. QED
    BY <2>4, <2>5
<1>4. QED
  BY <1>2, <1>3

LEMMA UpsertMirrors ==
  ASSUME NEW index, NEW fleet, NEW d, NEW report, Mirrors(index, fleet)
  PROVE  Mirrors(UpsertIntoIndex(index, d, report.position), With(fleet, d, report))
<1> DEFINE left == RemoveFromIndex(index, d)
           others == Without(fleet, d)
           fleet2 == With(fleet, d, report)
           c == CellOf[report.position]
           b == AddToBucket(left.buckets, c, d)
           cells == With(left.driver_cells, d, c)
<1>1. Mirrors(left, others)
  BY RemovalMirrors
<1>2. UpsertIntoIndex(index, d, report.position) = [buckets |-> b, driver_cells |-> cells]
  BY DEF UpsertIntoIndex
<1>3. /\ DOMAIN others = DOMAIN fleet \ {d}
      /\ DOMAIN fleet2 = DOMAIN others \cup {d}
      /\ fleet2[d] = report
      /\ d \notin DOMAIN others
      /\ \A x \in DOMAIN others : fleet2[x] = others[x]
  BY DEF With, Without
<1>4. DOMAIN cells = DOMAIN fleet2 /\ \A x \in DOMAIN fleet2 : cells[x] = CellOf[fleet2[x].position]
  BY <1>1, <1>3 DEF Mirrors, With
<1>5. DOMAIN b = DOMAIN left.buckets \cup {c}
  BY DEF AddToBucket, With
<1>6. DOMAIN b = {CellOf[fleet2[x].position] : x \in DOMAIN fleet2}
  BY <1>1, <1>3, <1>5 DEF Mirrors
<1>7. ASSUME NEW k \in DOMAIN b
      PROVE  b[k] = {x \in DOMAIN fleet2 : CellOf[fleet2[x].position] = k}
  <2>1. CASE k # c
    BY <1>1, <1>3, <1>5, <1>7, <2>1 DEF Mirrors, AddToBucket, With
  <2>2. CASE k = c /\ c \in DOMAIN left.buckets
    BY <1>1, <1>3, <2>2 DEF Mirrors, AddToBucket, With
  <2>3. CASE k = c /\ c \notin DOMAIN left.buckets
    <3>1. \A x \in DOMAIN others : CellOf[others[x].position] # c
      BY <1>1, <2>3 DEF Mirrors
    <3>2. QED
      BY <1>3, <2>3, <3>1 DEF AddToBucket, With
  <2>4. QED
    BY <2>1, <2>2, <2>3
<1>8. QED
  BY <1>2, <1>4, <1>6, <1>7 DEF Mirrors

=============================================================================
