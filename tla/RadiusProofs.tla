---------------------------- MODULE RadiusProofs ----------------------------
(***************************************************************************)
(* Theorems about RadiusSearch: the radius stays in bounds, and the loop   *)
(* ends as the closed form says that the engine's model uses.              *)
(***************************************************************************)
EXTENDS RadiusSearch, SharedLemmas, TLAPS

(* The list the search would look at with radius r. *)
ListAt(r) ==
  [i \in 1..Min({limit, Cardinality(Candidates(fleet, req, r))}) |->
     CHOOSE d \in Candidates(fleet, req, r) :
       Cardinality({e \in Candidates(fleet, req, r) : Precedes(e, d)}) = i - 1]

(* What the search does not change, and where it stands. *)
SearchTypeOK ==
  /\ req \in Request /\ limit \in Limits
  /\ DOMAIN fleet \subseteq DriverId
  /\ \A d \in DOMAIN fleet : fleet[d].position \in Position
  /\ order \in SetToSeqs(DOMAIN fleet)

OnGrid(r) ==
  /\ r \in Nat /\ r <= RadiusLimit(req)
  /\ \E k \in Nat : r = FirstRadius(req) + RadiusStep * k

-----------------------------------------------------------------------------
LEMMA Radii ==
  ASSUME SearchTypeOK
  PROVE  /\ FirstRadius(req) \in Nat /\ RadiusLimit(req) \in Nat
         /\ FirstRadius(req) <= RadiusLimit(req)
<1>1. req.initial_radius \in Nat /\ req.max_radius \in Nat
  BY RequestAssumption DEF SearchTypeOK
<1> QED BY <1>1, RadiusAssumption DEF FirstRadius, RadiusLimit

LEMMA StepsAreMonotone ==
  ASSUME NEW b \in Nat \ {0}, NEW x \in Nat, NEW y \in Nat, x < y
  PROVE  b * x \in Nat /\ b * y \in Nat /\ b * x + b <= b * y
<1>1. PICK z \in Nat : y = x + 1 + z
  <2>1. y - x - 1 \in Nat /\ y = x + 1 + (y - x - 1)
    OBVIOUS
  <2> QED BY <2>1
<1>2. b * y = b * x + b + b * z /\ b * z \in Nat /\ b * x \in Nat
  BY <1>1
<1> QED BY <1>2

(* No radius that is searched lies past LastRadius, and the one from which *)
(* the next step leaves the limit is it.                                   *)
LEMMA LastOnGrid ==
  ASSUME SearchTypeOK, NEW r, OnGrid(r)
  PROVE  /\ LastRadius(req) \in Nat /\ r <= LastRadius(req)
         /\ r + RadiusStep > RadiusLimit(req) => r = LastRadius(req)
<1> DEFINE F == FirstRadius(req)
           L == RadiusLimit(req)
           b == RadiusStep
<1>1. F \in Nat /\ L \in Nat /\ F <= L /\ b \in Nat \ {0}
  BY Radii, RadiusAssumption
<1>2. PICK k \in Nat : r = F + b * k
  BY DEF OnGrid
<1>3. r \in Nat /\ r <= L
  BY DEF OnGrid
<1>4. LastRadius(req) = F + b * ((L - F) \div b)
  BY DEF LastRadius
<1> HIDE DEF F, L, b
<1>5. PICK a \in Nat : a = L - F
  BY <1>1
<1>6. PICK q \in Nat : q = a \div b /\ b * q <= a /\ a < b * q + b
  <2>1. a \div b \in Nat /\ b * (a \div b) <= a /\ a < b * (a \div b) + b
    BY <1>1
  <2> QED BY <2>1
<1>7. LastRadius(req) = F + b * q
  BY <1>4, <1>5, <1>6
<1>8. b * k \in Nat /\ b * q \in Nat
  BY <1>1
<1>9. b * k <= a
  BY <1>1, <1>2, <1>3, <1>5, <1>8
<1>10. k <= q
  <2> SUFFICES ASSUME q < k PROVE FALSE
    OBVIOUS
  <2>1. b * q + b <= b * k
    BY <1>1, StepsAreMonotone
  <2> QED BY <2>1, <1>1, <1>6, <1>8, <1>9
<1>11. b * k <= b * q
  <2>1. k = q \/ k < q
    BY <1>10
  <2>2. k < q => b * k + b <= b * q
    BY <1>1, StepsAreMonotone
  <2> QED BY <2>1, <2>2, <1>1, <1>8
<1>12. ASSUME r + b > L PROVE k = q
  <2> SUFFICES ASSUME k < q PROVE FALSE
    BY <1>10
  <2>1. b * k + b <= b * q
    BY <1>1, StepsAreMonotone
  <2> QED BY <2>1, <1>1, <1>2, <1>5, <1>6, <1>8, <1>12
<1> QED BY <1>1, <1>2, <1>7, <1>8, <1>11, <1>12 DEF b, L

(* The list is ordered by distance, and by hash order among equals. *)
LEMMA RanksDiffer ==
  ASSUME SearchTypeOK
  PROVE  /\ \A d \in DOMAIN fleet : Rank(d) \in Nat
         /\ \A d, e \in DOMAIN fleet : Rank(d) = Rank(e) => d = e
         /\ IsFiniteSet(DOMAIN fleet)
<1> DEFINE S == DOMAIN fleet
           n == Cardinality(S)
<1>1. IsFiniteSet(S) /\ n \in Nat
  BY DriverAssumption, FS_Subset, FS_CardinalityType DEF SearchTypeOK
<1>2. order \in [1..n -> S] /\ \A i, j \in 1..n : i # j => order[i] # order[j]
  BY DEF SearchTypeOK, SetToSeqs
<1> HIDE DEF S, n
<1>3. order \in Injection(1..n, S)
  BY <1>2 DEF Injection, IsInjective
<1>4. Cardinality(1..n) = n /\ IsFiniteSet(1..n)
  BY <1>1, FS_Interval
<1>5. Cardinality(1..n) = Cardinality(S)
  BY <1>4 DEF n
<1>6. order \in Surjection(1..n, S)
  BY <1>1, <1>3, <1>5, FS_Injection
<1>7. ASSUME NEW d \in S PROVE Rank(d) \in 1..n /\ order[Rank(d)] = d
  <2>1. DOMAIN order = 1..n /\ \E i \in 1..n : order[i] = d
    BY <1>2, <1>6 DEF Surjection
  <2> QED BY <2>1 DEF Rank
<1> QED BY <1>1, <1>7 DEF S

Way(d) == Distance[<<req.pickup, fleet[d].position>>]

LEMMA WaysAreNumbers ==
  ASSUME SearchTypeOK, NEW d \in DOMAIN fleet
  PROVE  Way(d) \in Nat
<1>1. req.pickup \in Position /\ fleet[d].position \in Position
  BY RequestAssumption DEF SearchTypeOK
<1> QED BY <1>1, DistanceAssumption DEF Way

InList(S) == {p \in S \X S : Precedes(p[1], p[2])}

LEMMA PrecedesOrders ==
  ASSUME SearchTypeOK, NEW S \in SUBSET DOMAIN fleet
  PROVE  Orders(InList(S), S)
<1>1. \A d, e \in S :
        Precedes(d, e) <=> (Way(d) < Way(e) \/ (~ (Way(e) < Way(d)) /\ Rank(d) < Rank(e)))
  BY DEF Precedes, Closer, Way
<1>2. \A d \in S : Way(d) \in Nat /\ Rank(d) \in Nat
  BY WaysAreNumbers, RanksDiffer
<1>3. \A d, e \in S : <<d, e>> \in InList(S) <=> Precedes(d, e)
  BY DEF InList
<1>4. \A d \in S : ~ Precedes(d, d)
  BY <1>1, <1>2
<1>5. \A d, e, f \in S : Precedes(d, e) /\ Precedes(e, f) => Precedes(d, f)
  <2> SUFFICES ASSUME NEW d \in S, NEW e \in S, NEW f \in S, Precedes(d, e), Precedes(e, f)
               PROVE  Precedes(d, f)
    OBVIOUS
  <2>1. Way(d) \in Nat /\ Way(e) \in Nat /\ Way(f) \in Nat
        /\ Rank(d) \in Nat /\ Rank(e) \in Nat /\ Rank(f) \in Nat
    BY <1>2
  <2>2. /\ Way(d) < Way(e) \/ (~ (Way(e) < Way(d)) /\ Rank(d) < Rank(e))
        /\ Way(e) < Way(f) \/ (~ (Way(f) < Way(e)) /\ Rank(e) < Rank(f))
    BY <1>1
  <2>3. Way(d) < Way(f) \/ (~ (Way(f) < Way(d)) /\ Rank(d) < Rank(f))
    BY <2>1, <2>2
  <2> QED BY <1>1, <2>3
<1>6. \A d, e \in S : d # e => Precedes(d, e) \/ Precedes(e, d)
  <2> SUFFICES ASSUME NEW d \in S, NEW e \in S, d # e
               PROVE  Precedes(d, e) \/ Precedes(e, d)
    OBVIOUS
  <2>1. Rank(d) # Rank(e)
    BY RanksDiffer
  <2>2. Rank(d) < Rank(e) \/ Rank(e) < Rank(d)
    BY <1>2, <2>1
  <2> QED BY <1>1, <1>2, <2>2
<1> QED BY <1>3, <1>4, <1>5, <1>6 DEF Orders

LEMMA ListIsSorted ==
  ASSUME SearchTypeOK, NEW r
  PROVE  /\ Min({limit, Cardinality(Candidates(fleet, req, r))})
              = (IF Cardinality(Candidates(fleet, req, r)) < limit
                 THEN Cardinality(Candidates(fleet, req, r)) ELSE limit)
         /\ limit \in Nat /\ Cardinality(Candidates(fleet, req, r)) \in Nat
         /\ IsFiniteSet(Candidates(fleet, req, r))
         /\ ListsFirst(ListAt(r), Min({limit, Cardinality(Candidates(fleet, req, r))}),
                       InList(Candidates(fleet, req, r)), Candidates(fleet, req, r))
<1> DEFINE S == Candidates(fleet, req, r)
           R == InList(S)
           n == Min({limit, Cardinality(S)})
           Pick(i) == CHOOSE d \in S : Cardinality({e \in S : Precedes(e, d)}) = i - 1
<1>1. S \in SUBSET DOMAIN fleet
  BY DEF Candidates
<1>2. IsFiniteSet(S) /\ Orders(R, S)
  BY <1>1, PrecedesOrders, RanksDiffer, FS_Subset
<1>3. Cardinality(S) \in Nat
  BY <1>2, FS_CardinalityType
<1>4. limit \in Nat \ {0}
  BY LimitAssumption DEF SearchTypeOK
<1>5. n = (IF Cardinality(S) < limit THEN Cardinality(S) ELSE limit) /\ n \in 0..Cardinality(S)
  <2>1. n = IF limit <= Cardinality(S) THEN limit ELSE Cardinality(S)
    BY <1>3, <1>4, Lesser
  <2> QED BY <2>1, <1>3, <1>4
<1>6. \A d \in S : {e \in S : Precedes(e, d)} = Ahead(d, R, S)
  <2> HIDE DEF S
  <2> QED BY DEF Ahead, InList
<1>7. ListAt(r) = [i \in 1..n |-> Pick(i)]
  BY DEF ListAt
<1> HIDE DEF S, R, n, Pick
<1>8. ASSUME NEW i \in 1..n
      PROVE  ListAt(r)[i] \in S /\ Cardinality(Ahead(ListAt(r)[i], R, S)) = i - 1
  <2>1. i \in 1..Cardinality(S)
    BY <1>3, <1>5
  <2>2. \E d \in S : Cardinality(Ahead(d, R, S)) = i - 1
    BY <1>2, <2>1, RankIsTaken
  <2>3. \E d \in S : Cardinality({e \in S : Precedes(e, d)}) = i - 1
    BY <1>6, <2>2
  <2>4. Pick(i) \in S /\ Cardinality({e \in S : Precedes(e, Pick(i))}) = i - 1
    BY <2>3 DEF Pick
  <2>5. ListAt(r)[i] = Pick(i)
    BY <1>7
  <2> QED BY <1>6, <2>4, <2>5
<1>9. ListAt(r) \in [1..n -> S]
  BY <1>7, <1>8
<1>10. ListsFirst(ListAt(r), n, R, S)
  BY <1>2, <1>5, <1>8, <1>9, PickedByRank
<1> QED BY <1>2, <1>3, <1>4, <1>5, <1>10 DEF S, R, n

Listed(r) == {ListAt(r)[i] : i \in DOMAIN ListAt(r)}

(* The drivers on the list are one of the lists of the closed form. *)
LEMMA ListIsBatch ==
  ASSUME SearchTypeOK, NEW r
  PROVE  Listed(r) \in Batches(fleet, req, r, limit)
<1> DEFINE S == Candidates(fleet, req, r)
           n == Min({limit, Cardinality(S)})
           R == InList(S)
           s == ListAt(r)
<1>1. /\ n = (IF Cardinality(S) < limit THEN Cardinality(S) ELSE limit)
      /\ Cardinality(S) \in Nat /\ limit \in Nat
      /\ ListsFirst(s, n, R, S)
  BY ListIsSorted
<1>2. S \in SUBSET DOMAIN fleet
  BY DEF Candidates
<1>3. Orders(R, S)
  BY <1>2, PrecedesOrders
<1>4. Listed(r) = {s[i] : i \in DOMAIN s}
  BY DEF Listed
<1> HIDE DEF S, n, R, s
<1>5. /\ n \in Nat /\ s \in Seq(S) /\ Len(s) = n
      /\ \A i, j \in 1..n : i < j => <<s[i], s[j]>> \in R
      /\ \A e \in S : (\E i \in 1..n : s[i] = e) \/ (\A i \in 1..n : <<s[i], e>> \in R)
  BY <1>1 DEF ListsFirst
<1>6. DOMAIN s = 1..n /\ (\A i \in 1..n : s[i] \in S)
  BY <1>5
<1>7. \A i, j \in 1..n : i # j => s[i] # s[j]
  <2> SUFFICES ASSUME NEW i \in 1..n, NEW j \in 1..n, i < j PROVE s[i] # s[j]
    BY <1>5
  <2>1. <<s[i], s[j]>> \in R /\ s[i] \in S
    BY <1>5, <1>6
  <2> QED BY <2>1, <1>3 DEF Orders
<1>8. Cardinality(Listed(r)) = n
  <2>1. s \in Bijection(1..n, Listed(r))
    <3>1. s \in [1..n -> Listed(r)]
      BY <1>4, <1>5, <1>6
    <3>2. \A e \in Listed(r) : \E i \in 1..n : s[i] = e
      BY <1>4, <1>6
    <3> QED BY <3>1, <3>2, <1>7 DEF Bijection, Injection, Surjection, IsInjective
  <2>2. ExistsBijection(1..n, Listed(r))
    BY <2>1 DEF ExistsBijection
  <2> QED BY <2>2, <1>5, FS_CountingElements
<1>9. Listed(r) \in SUBSET S
  BY <1>4, <1>6
<1>10. \A d \in Listed(r), e \in S \ Listed(r) : ~ Closer(fleet, req, e, d)
  <2> SUFFICES ASSUME NEW d \in Listed(r), NEW e \in S \ Listed(r)
               PROVE  ~ Closer(fleet, req, e, d)
    OBVIOUS
  <2>1. PICK i \in 1..n : s[i] = d
    BY <1>4, <1>6
  <2>2. <<d, e>> \in R
    <3>1. ~ (\E j \in 1..n : s[j] = e)
      BY <1>4, <1>6
    <3>2. \A j \in 1..n : <<s[j], e>> \in R
      BY <3>1, <1>5
    <3>3. <<s[i], e>> \in R
      BY <3>2, <2>1
    <3> QED BY <2>1, <3>3
  <2>3. Precedes(d, e)
    BY <2>2 DEF R, InList
  <2>4. Way(d) \in Nat /\ Way(e) \in Nat
    BY <1>2, <1>9, WaysAreNumbers
  <2> QED BY <2>3, <2>4 DEF Precedes, Closer, Way
<1> QED BY <1>1, <1>8, <1>9, <1>10 DEF Batches, S

(* Who is first among the untried of one list is nearest among those of    *)
(* the last list too: whom a wider radius adds is farther away.            *)
LEMMA FoundIsPicked ==
  ASSUME SearchTypeOK, NEW r, OnGrid(r),
         NEW i \in DOMAIN ListAt(r), Untried(ListAt(r)[i]),
         \A j \in DOMAIN ListAt(r) : Untried(ListAt(r)[j]) => i <= j
  PROVE  /\ ListAt(r)[i] \in DOMAIN fleet
         /\ MayPick(fleet, req, tried, limit, ListAt(r)[i])
<1> DEFINE z == LastRadius(req)
           S == Candidates(fleet, req, r)
           T == Candidates(fleet, req, z)
           n == Min({limit, Cardinality(S)})
           m == Min({limit, Cardinality(T)})
           s == ListAt(r)
           t == ListAt(z)
           B == Listed(z)
           d == s[i]
<1>1. /\ m = (IF Cardinality(T) < limit THEN Cardinality(T) ELSE limit)
      /\ n = (IF Cardinality(S) < limit THEN Cardinality(S) ELSE limit)
      /\ Cardinality(T) \in Nat /\ Cardinality(S) \in Nat /\ limit \in Nat
      /\ IsFiniteSet(S) /\ IsFiniteSet(T)
      /\ ListsFirst(s, n, InList(S), S) /\ ListsFirst(t, m, InList(T), T)
  BY ListIsSorted
<1>2. z \in Nat /\ r <= z /\ r \in Nat
  BY LastOnGrid DEF OnGrid
<1>3. /\ \A e : e \in S <=> /\ e \in DOMAIN fleet /\ fleet[e].status = "Available"
                            /\ fleet[e].category = req.category /\ Way(e) <= r
      /\ \A e : e \in T <=> /\ e \in DOMAIN fleet /\ fleet[e].status = "Available"
                            /\ fleet[e].category = req.category /\ Way(e) <= z
  BY DEF Candidates, Way
<1>4. \A e \in DOMAIN fleet : Way(e) \in Nat
  BY WaysAreNumbers
<1>5. B \in Batches(fleet, req, z, limit) /\ B = {t[j] : j \in DOMAIN t}
  BY ListIsBatch DEF Listed
<1>6. Cardinality(B) = m /\ B \in SUBSET T
  BY <1>1, <1>5 DEF Batches
<1> HIDE DEF S, T, z, n, m, s, t, B
<1>7. S \subseteq T
  BY <1>2, <1>3, <1>4
<1>8. /\ DOMAIN s = 1..n /\ DOMAIN t = 1..m /\ n \in Nat /\ m \in Nat
      /\ \A j \in 1..n : s[j] \in S
      /\ \A j \in 1..m : t[j] \in T
  BY <1>1 DEF ListsFirst
<1>9. i \in 1..n /\ d \in S /\ d \in T /\ d \in DOMAIN fleet /\ d \notin tried
  BY <1>3, <1>7, <1>8 DEF s, Untried
<1>10. d \in B
  <2> SUFFICES ASSUME d \notin B PROVE FALSE
    OBVIOUS
  <2>1. \A j \in 1..m : <<t[j], d>> \in InList(T)
    BY <1>1, <1>5, <1>8, <1>9 DEF ListsFirst
  <2>2. \A e \in B : Precedes(e, d)
    BY <2>1, <1>5, <1>8 DEF InList
  <2>3. \A e \in B : e \in S
    <3> SUFFICES ASSUME NEW e \in B PROVE e \in S
      OBVIOUS
    <3>1. e \in T /\ Precedes(e, d)
      BY <2>2, <1>6
    <3>2. Way(e) \in Nat /\ Way(d) \in Nat /\ Way(d) <= r
      BY <3>1, <1>3, <1>4, <1>9
    <3>3. Way(e) <= Way(d)
      BY <3>1, <3>2 DEF Precedes, Closer, Way
    <3> QED BY <3>1, <3>2, <3>3, <1>2, <1>3
  <2>4. B \in SUBSET Ahead(d, InList(S), S)
    BY <2>2, <2>3, <1>9 DEF Ahead, InList
  <2>5. Cardinality(Ahead(d, InList(S), S)) = i - 1
    BY <1>1, <1>9 DEF ListsFirst
  <2>6. IsFiniteSet(Ahead(d, InList(S), S))
    <3>1. Ahead(d, InList(S), S) \in SUBSET S
      BY DEF Ahead
    <3> QED BY <3>1, <1>1, FS_Subset
  <2>7. m <= i - 1
    BY <2>4, <2>5, <2>6, <1>6, FS_Subset
  <2>8. m < limit
    BY <2>7, <1>1, <1>8, <1>9
  <2>9. m = Cardinality(T)
    BY <2>8, <1>1
  <2>10. \E j \in 1..m : t[j] = d
    BY <2>9, <1>1, <1>9 DEF ListsFirst
  <2> QED BY <2>10, <1>5, <1>8
<1>11. \A e \in B \ tried : ~ Closer(fleet, req, e, d)
  <2> SUFFICES ASSUME NEW e \in B \ tried, Closer(fleet, req, e, d) PROVE FALSE
    OBVIOUS
  <2>1. Way(e) < Way(d) /\ e \in T
    BY <1>6 DEF Closer, Way
  <2>2. Way(e) \in Nat /\ Way(d) \in Nat /\ Way(d) <= r
    BY <2>1, <1>3, <1>4, <1>9
  <2>3. e \in S
    BY <2>1, <2>2, <1>2, <1>3
  <2>4. ~ Precedes(d, e)
    BY <2>1, <2>2 DEF Precedes, Closer, Way
  <2>5. ~ (<<d, e>> \in InList(S))
    BY <2>4, <1>9 DEF InList
  <2>6. PICK j \in 1..n : s[j] = e
    BY <2>3, <2>5, <1>1, <1>9 DEF ListsFirst
  <2>7. j < i
    <3>1. ~ (i < j)
      BY <2>5, <2>6, <1>1, <1>9 DEF ListsFirst
    <3>2. i # j
      BY <2>1, <2>2, <2>6
    <3> QED BY <3>1, <3>2, <1>9
  <2>8. i <= j
    BY <2>6, <1>8 DEF s, Untried
  <2> QED BY <2>7, <2>8, <1>9
<1>12. MayPick(fleet, req, tried, limit, d)
  BY <1>5, <1>9, <1>10, <1>11 DEF MayPick, z
<1> QED BY <1>9, <1>12 DEF s

-----------------------------------------------------------------------------
SearchInv ==
  /\ SearchTypeOK
  /\ found = <<>> => OnGrid(radius)
  /\ TypeOK /\ LoopMatchesClosedForm

(* What SelectInSeq says of the list. *)
LEMMA FirstUntried ==
  ASSUME SearchTypeOK
  PROVE  LET i == SelectInSeq(SortedList, Untried) IN
         /\ i = 0 => \A j \in DOMAIN SortedList : ~ Untried(SortedList[j])
         /\ i \in Nat /\ i > 0 =>
              /\ i \in DOMAIN SortedList /\ Untried(SortedList[i])
              /\ \A j \in DOMAIN SortedList : Untried(SortedList[j]) => i <= j
         /\ i \in Nat
<1> DEFINE s == SortedList
           I == {i \in 1..Len(s) : Untried(s[i])}
<1>1. s = ListAt(radius)
  BY DEF SortedList, ListAt
<1>2. Len(s) \in Nat /\ DOMAIN s = 1..Len(s)
  <2>1. s \in Seq(Candidates(fleet, req, radius))
    BY <1>1, ListIsSorted DEF ListsFirst
  <2> QED BY <2>1
<1>3. SelectInSeq(s, Untried) = IF I # {} THEN Min(I) ELSE 0
  BY DEF SelectInSeq
<1>4. CASE I = {}
  <2> QED BY <1>2, <1>3, <1>4
<1>5. CASE I # {}
  <2>1. I \subseteq Nat
    BY <1>2
  <2>2. \E m \in I : \A j \in I : m <= j
    BY <1>5, <2>1, HasLeast
  <2> HIDE DEF I
  <2>3. Min(I) \in I /\ \A j \in I : Min(I) <= j
    BY <2>2 DEF Min
  <2> QED BY <1>2, <1>3, <1>5, <2>3 DEF I
<1> QED BY <1>4, <1>5

LEMMA SearchInit == Init => SearchInv
<1> SUFFICES ASSUME Init PROVE SearchInv
  OBVIOUS
<1>1. PICK where \in UNION {[S -> Position] : S \in SUBSET DriverId} :
        fleet = [d \in DOMAIN where |-> Available(where[d])]
  BY DEF Init
<1>2. DOMAIN fleet \subseteq DriverId /\ \A d \in DOMAIN fleet : fleet[d].position \in Position
  BY <1>1 DEF Available
<1>3. SearchTypeOK
  BY <1>2 DEF Init, SearchTypeOK
<1>4. /\ FirstRadius(req) \in Nat /\ RadiusLimit(req) \in Nat
      /\ FirstRadius(req) <= RadiusLimit(req)
  BY <1>3, Radii
<1>5. radius = FirstRadius(req) /\ found = <<>>
  BY DEF Init
<1>6. FirstRadius(req) = FirstRadius(req) + RadiusStep * 0
  BY <1>4, RadiusAssumption
<1>7. OnGrid(radius)
  BY <1>4, <1>5, <1>6 DEF OnGrid
<1>8. TypeOK
  BY <1>2, <1>3, <1>4, <1>5 DEF TypeOK, SearchTypeOK
<1>9. LoopMatchesClosedForm
  BY <1>5 DEF LoopMatchesClosedForm
<1> QED BY <1>3, <1>7, <1>8, <1>9 DEF SearchInv

(* The sequences of one driver and of NoDriver are told apart. *)
LEMMA FoundOne ==
  ASSUME NEW d, <<d>> = <<NoDriver>>
  PROVE  d = NoDriver
<1>1. <<d>>[1] = <<NoDriver>>[1]
  OBVIOUS
<1> QED BY <1>1

LEMMA FindKeepsInv ==
  ASSUME SearchInv, Find
  PROVE  SearchInv'
<1> DEFINE i == SelectInSeq(SortedList, Untried)
           d == SortedList[i]
<1>1. /\ found = <<>> /\ i > 0 /\ found' = <<d>>
      /\ UNCHANGED <<fleet, order, req, limit, tried, radius>>
  BY DEF Find
<1>2. SearchTypeOK /\ OnGrid(radius) /\ TypeOK
  BY <1>1 DEF SearchInv
<1>3. SortedList = ListAt(radius)
  BY DEF SortedList, ListAt
<1>4. /\ i \in DOMAIN SortedList /\ Untried(SortedList[i])
      /\ \A j \in DOMAIN SortedList : Untried(SortedList[j]) => i <= j
  BY <1>1, <1>2, FirstUntried
<1> HIDE DEF i
<1>5. d \in DOMAIN fleet /\ MayPick(fleet, req, tried, limit, d)
  BY <1>2, <1>3, <1>4, FoundIsPicked
<1> HIDE DEF d
<1>6. d \in DriverId /\ d # NoDriver
  BY <1>2, <1>5, DriverAssumption DEF SearchTypeOK
<1>7. found' # <<NoDriver>> /\ found' # <<>> /\ found'[1] = d
  BY <1>1, <1>6, FoundOne
<1>8. LoopMatchesClosedForm'
  BY <1>1, <1>5, <1>7 DEF LoopMatchesClosedForm
<1>9. SearchTypeOK'
  BY <1>1, <1>2 DEF SearchTypeOK
<1>10. TypeOK'
  BY <1>1, <1>2, <1>5 DEF TypeOK
<1> QED BY <1>7, <1>8, <1>9, <1>10 DEF SearchInv

LEMMA ExpandKeepsInv ==
  ASSUME SearchInv, Expand
  PROVE  SearchInv'
<1> DEFINE F == FirstRadius(req)
           L == RadiusLimit(req)
           next == ExpandRadius(radius, L)
<1>1. /\ found = <<>> /\ SelectInSeq(SortedList, Untried) = 0
      /\ radius' = next
      /\ found' = (IF next > L THEN <<NoDriver>> ELSE <<>>)
      /\ UNCHANGED <<fleet, order, req, limit, tried>>
  BY DEF Expand
<1>2. SearchTypeOK /\ OnGrid(radius) /\ TypeOK
  BY <1>1 DEF SearchInv
<1>3. F \in Nat /\ L \in Nat /\ F <= L /\ RadiusStep \in Nat \ {0}
  BY <1>2, Radii, RadiusAssumption
<1>4. radius \in Nat /\ radius <= L /\ radius >= F
  BY <1>2, <1>3 DEF OnGrid, TypeOK
<1>5. next = IF radius + RadiusStep < L + 10 THEN radius + RadiusStep ELSE L + 10
  BY DEF ExpandRadius
<1>6. F' = F /\ L' = L
  BY <1>1 DEF FirstRadius, RadiusLimit
<1> HIDE DEF F, L, next
<1>7. next \in F .. (L + 10)
  BY <1>3, <1>4, <1>5
<1>8. next > L => radius + RadiusStep > L
  BY <1>3, <1>4, <1>5
<1>9. SearchTypeOK'
  BY <1>1, <1>2 DEF SearchTypeOK
<1>10. TypeOK'
  <2>1. radius' \in FirstRadius(req)' .. (RadiusLimit(req)' + 10)
    BY <1>1, <1>6, <1>7 DEF F, L
  <2> QED BY <1>1, <1>2, <2>1 DEF TypeOK
<1>11. CASE next > L
  <2>1. radius = LastRadius(req)
    BY <1>2, <1>8, <1>11, LastOnGrid DEF L
  <2>2. SortedList = ListAt(radius)
    BY DEF SortedList, ListAt
  <2>3. \A j \in DOMAIN SortedList : SortedList[j] \in tried
    BY <1>1, <1>2, FirstUntried DEF Untried
  <2>4. Listed(radius) \subseteq tried
    BY <2>2, <2>3 DEF Listed
  <2>5. MayFindNobody(fleet, req, tried, limit)
    BY <2>1, <2>4, <1>2, ListIsBatch DEF MayFindNobody
  <2>6. found' = <<NoDriver>> /\ found' # <<>>
    BY <1>1, <1>11
  <2>7. LoopMatchesClosedForm'
    BY <2>5, <2>6, <1>1 DEF LoopMatchesClosedForm
  <2> QED BY <2>6, <2>7, <1>9, <1>10 DEF SearchInv
<1>12. CASE ~ (next > L)
  <2>1. found' = <<>>
    BY <1>1, <1>12
  <2>2. next = radius + RadiusStep /\ next <= L /\ next \in Nat
    BY <1>3, <1>4, <1>5, <1>12
  <2>3. PICK k \in Nat : radius = FirstRadius(req) + RadiusStep * k
    BY <1>2 DEF OnGrid
  <2>4. next = F + RadiusStep * (k + 1)
    <3>1. RadiusStep * (k + 1) = RadiusStep * k + RadiusStep /\ RadiusStep * k \in Nat
      BY <1>3
    <3> QED BY <2>2, <2>3, <3>1, <1>3 DEF F
  <2>5. \E j \in Nat : radius' = FirstRadius(req)' + RadiusStep * j
    BY <2>4, <1>1, <1>6 DEF F
  <2>6. OnGrid(radius)'
    BY <2>2, <2>5, <1>1, <1>6 DEF OnGrid, L
  <2>7. LoopMatchesClosedForm'
    BY <2>1 DEF LoopMatchesClosedForm
  <2> QED BY <2>6, <2>7, <1>9, <1>10 DEF SearchInv
<1> QED BY <1>11, <1>12

LEMMA StutterKeepsInv ==
  ASSUME SearchInv, UNCHANGED vars
  PROVE  SearchInv'
<1>1. UNCHANGED <<fleet, order, req, limit, tried, radius, found>>
  BY DEF vars
<1>2. SearchTypeOK' /\ TypeOK' /\ LoopMatchesClosedForm'
  BY <1>1 DEF SearchInv, SearchTypeOK, TypeOK, LoopMatchesClosedForm
<1>3. (OnGrid(radius))' <=> OnGrid(radius)
  BY <1>1 DEF OnGrid
<1> QED BY <1>1, <1>2, <1>3 DEF SearchInv

LEMMA SearchInvHolds == Spec => []SearchInv
<1>1. SearchInv /\ [Next]_vars => SearchInv'
  BY FindKeepsInv, ExpandKeepsInv, StutterKeepsInv DEF Next
<1> QED BY SearchInit, <1>1, PTL DEF Spec

(* The radius never runs away: at most a kilometre past the limit. *)
THEOREM RadiusStaysInBounds == Spec => []TypeOK
<1>1. SearchInv => TypeOK
  BY DEF SearchInv
<1> QED BY <1>1, SearchInvHolds, PTL

(* For any fleet, iteration order, list length, step and set of drivers    *)
(* tried before, the loop finds what one look at the last radius finds.    *)
THEOREM LoopFindsClosedForm == Spec => []LoopMatchesClosedForm
<1>1. SearchInv => LoopMatchesClosedForm
  BY DEF SearchInv
<1> QED BY <1>1, SearchInvHolds, PTL

=============================================================================
