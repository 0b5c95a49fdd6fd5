---------------------------- MODULE PagerProofs ----------------------------
(***************************************************************************)
(* Theorems about EventPager: what a reader gets is in order, once, and    *)
(* whole, for any number of events and pages.                              *)
(*                                                                         *)
(* The order of pages is by time and then by number, also in memory, where *)
(* the timeline never steps back.  What is pushed or recovered while the   *)
(* reader pages is newer than all there was, hence newer than its cursor.  *)
(***************************************************************************)
EXTENDS EventPager, SharedLemmas, TLAPS

Event == [sequence : Nat, at : Nat, kind : Kind]

(* The order of pages: by time, and in an instant by number. *)
Later(e, f) == e.at > f.at \/ (e.at = f.at /\ e.sequence > f.sequence)

Descends(s) == \A i, j \in DOMAIN s : i < j => Later(s[i], s[j])

(* Events that are told apart by their number. *)
Numbered(S) ==
  /\ S \subseteq Event
  /\ \A e, f \in S : e.sequence = f.sequence => e = f

Got(e, s, r) ==
  \E i \in DOMAIN s : s[i] = e \/ (r.method = "legacy" /\ s[i].at = e.at)

AsksFor(e, r) == r.kinds = {} \/ e.kind \in r.kinds

(* s leaves out nothing of S between its first and its last event. *)
GapFree(S, s, r) ==
  \A e \in S :
    (/\ AsksFor(e, r) /\ s # <<>>
     /\ ~ Later(e, s[1]) /\ ~ Later(s[Len(s)], e)) => Got(e, s, r)

-----------------------------------------------------------------------------
LEMMA LaterIsTotal ==
  ASSUME NEW S, Numbered(S), NEW e \in S, NEW f \in S
  PROVE  /\ ~ Later(e, e)
         /\ Later(e, f) => ~ Later(f, e)
         /\ e = f \/ Later(e, f) \/ Later(f, e)
  BY DEF Numbered, Event, Later

LEMMA LaterIsTransitive ==
  ASSUME NEW e \in Event, NEW f \in Event, NEW g \in Event
  PROVE  /\ Later(e, f) /\ Later(f, g) => Later(e, g)
         /\ ~ Later(f, e) /\ Later(f, g) => Later(e, g)
         /\ Later(e, f) /\ ~ Later(g, f) => Later(e, g)
  BY DEF Event, Later

LEMMA Greater ==
  ASSUME NEW a \in Nat, NEW b \in Nat
  PROVE  Max({a, b}) = IF a >= b THEN a ELSE b
<1>1. \E x \in {a, b} : \A y \in {a, b} : x >= y
  OBVIOUS
<1>2. Max({a, b}) \in {a, b} /\ \A y \in {a, b} : Max({a, b}) >= y
  BY <1>1 DEF Max
<1> QED BY <1>2

LEMMA Taken ==
  ASSUME NEW S, NEW s \in Seq(S), NEW n \in Nat
  PROVE  /\ Take(n, s) \in Seq(S)
         /\ Len(Take(n, s)) = IF n <= Len(s) THEN n ELSE Len(s)
         /\ \A i \in 1..Len(Take(n, s)) : Take(n, s)[i] = s[i]
         /\ Len(s) <= n => Take(n, s) = s
<1> DEFINE m == Min({n, Len(s)})
<1>1. m \in 0..Len(s) /\ m = IF n <= Len(s) THEN n ELSE Len(s)
  BY Lesser
<1>2. Take(n, s) = SubSeq(s, 1, m)
  BY DEF Take
<1> HIDE DEF m
<1>3. /\ SubSeq(s, 1, m) \in Seq(S) /\ Len(SubSeq(s, 1, m)) = m
      /\ \A i \in 1..m : SubSeq(s, 1, m)[i] = s[i]
  BY <1>1
<1>4. m = Len(s) => SubSeq(s, 1, m) = s
  BY <1>1
<1> QED BY <1>1, <1>2, <1>3, <1>4

(* What is cut off the end leaves no gap. *)
LEMMA CutKeepsOrder ==
  ASSUME NEW S, Numbered(S), NEW s \in Seq(S), NEW n \in Nat, NEW r,
         Descends(s), GapFree(S, s, r)
  PROVE  Descends(Take(n, s)) /\ GapFree(S, Take(n, s), r)
<1> DEFINE t == Take(n, s)
<1>1. /\ t \in Seq(S) /\ Len(t) <= Len(s)
      /\ \A i \in 1..Len(t) : t[i] = s[i]
  BY Taken
<1> HIDE DEF t
<1>2. DOMAIN s = 1..Len(s) /\ DOMAIN t = 1..Len(t) /\ Len(s) \in Nat /\ Len(t) \in Nat
  BY <1>1
<1>3. Descends(t)
  BY <1>1, <1>2 DEF Descends
<1>4. GapFree(S, t, r)
  <2> SUFFICES ASSUME NEW e \in S, AsksFor(e, r), t # <<>>,
                      ~ Later(e, t[1]), ~ Later(t[Len(t)], e)
               PROVE  Got(e, t, r)
    BY DEF GapFree
  <2>1. Len(t) \in 1..Len(t) /\ 1 \in 1..Len(t) /\ Len(t) \in 1..Len(s) /\ Len(s) \in 1..Len(s)
        /\ s # <<>>
    BY <1>1, <1>2
  <2>2. t[1] = s[1] /\ t[Len(t)] = s[Len(t)] /\ s[Len(t)] \in S /\ s[Len(s)] \in S
    BY <1>1, <2>1
  <2>3. Len(t) = Len(s) \/ Later(s[Len(t)], s[Len(s)])
    <3>0. \A a, b \in Nat : a <= b => a = b \/ a < b
      OBVIOUS
    <3>1. Len(t) = Len(s) \/ Len(t) < Len(s)
      BY <1>1, <1>2, <3>0, Zenon
    <3> QED BY <3>1, <1>2, <2>1 DEF Descends
  <2>4. e \in Event /\ \A f \in S : f \in Event
    BY DEF Numbered
  <2>5. ~ Later(s[Len(s)], e)
    <3> SUFFICES ASSUME Later(s[Len(s)], e) PROVE FALSE
      OBVIOUS
    <3>1. CASE Len(t) = Len(s)
      BY <3>1, <2>2
    <3>2. CASE Later(s[Len(t)], s[Len(s)])
      BY <3>2, <2>2, <2>4, LaterIsTransitive
    <3> QED BY <3>1, <3>2, <2>3
  <2>6. Got(e, s, r)
    BY <2>1, <2>2, <2>5 DEF GapFree
  <2>7. PICK i \in 1..Len(s) : s[i] = e \/ (r.method = "legacy" /\ s[i].at = e.at)
    BY <2>6, <1>2 DEF Got
  <2>8. CASE i <= Len(t)
    BY <2>7, <2>8, <1>1, <1>2 DEF Got
  <2>9. CASE Len(t) < i
    <3>1. Later(t[Len(t)], s[i]) /\ s[i] \in S
      BY <2>1, <2>2, <2>9, <1>2 DEF Descends
    <3>2. s[i] # e
      BY <3>1
    <3>3. t[Len(t)].at = e.at
      BY <3>1, <3>2, <2>2, <2>4, <2>7 DEF Later, Event
    <3> QED BY <2>1, <2>7, <3>2, <3>3, <1>2 DEF Got
  <2> QED BY <2>8, <2>9, <1>2
<1> QED BY <1>3, <1>4 DEF t

(* A page behind what was read. *)
LEMMA JoinKeepsOrder ==
  ASSUME NEW S, Numbered(S), NEW s \in Seq(S), NEW p \in Seq(S),
         Descends(s), Descends(p),
         s # <<>> => \A i \in 1..Len(p) : Later(s[Len(s)], p[i])
  PROVE  Descends(s \o p)
<1>1. Len(s) \in Nat /\ Len(p) \in Nat /\ Len(s \o p) = Len(s) + Len(p)
      /\ DOMAIN (s \o p) = 1..(Len(s) + Len(p)) /\ DOMAIN s = 1..Len(s) /\ DOMAIN p = 1..Len(p)
  OBVIOUS
<1>2. /\ \A i \in 1..Len(s) : (s \o p)[i] = s[i]
      /\ \A i \in 1..(Len(s) + Len(p)) : i > Len(s) => (s \o p)[i] = p[i - Len(s)]
  OBVIOUS
<1>3. \A e \in S : e \in Event
  BY DEF Numbered
<1> SUFFICES ASSUME NEW i \in 1..(Len(s) + Len(p)), NEW j \in 1..(Len(s) + Len(p)), i < j
             PROVE  Later((s \o p)[i], (s \o p)[j])
  BY <1>1 DEF Descends
<1>4. CASE j <= Len(s)
  BY <1>1, <1>2, <1>4 DEF Descends
<1>5. CASE i > Len(s)
  <2>1. i - Len(s) \in 1..Len(p) /\ j - Len(s) \in 1..Len(p) /\ i - Len(s) < j - Len(s)
    BY <1>1, <1>5
  <2> QED BY <1>1, <1>2, <1>5, <2>1 DEF Descends
<1>6. CASE i <= Len(s) /\ j > Len(s)
  <2>1. i \in 1..Len(s) /\ Len(s) \in 1..Len(s) /\ j - Len(s) \in 1..Len(p) /\ s # <<>>
    BY <1>1, <1>6
  <2>2. Later(s[Len(s)], p[j - Len(s)])
    BY <2>1
  <2>3. i = Len(s) \/ Later(s[i], s[Len(s)])
    <3>0. \A a, b \in Nat : a \in 1..b => a = b \/ a < b
      OBVIOUS
    <3>1. i \in Nat
      BY <1>1
    <3>2. i = Len(s) \/ i < Len(s)
      BY <2>1, <1>1, <3>0, <3>1, Zenon
    <3> QED BY <3>2, <1>1, <2>1 DEF Descends
  <2>4. s[i] \in Event /\ s[Len(s)] \in Event /\ p[j - Len(s)] \in Event
    BY <2>1, <1>3
  <2>5. Later(s[i], p[j - Len(s)])
    BY <2>2, <2>3, <2>4, LaterIsTransitive
  <2> QED BY <2>1, <2>5, <1>2, <1>6
<1> QED BY <1>1, <1>4, <1>5, <1>6

LEMMA JoinKeepsGapFree ==
  ASSUME NEW S, Numbered(S), NEW s \in Seq(S), NEW p \in Seq(S), NEW r,
         GapFree(S, s, r),
         p # <<>> => \A e \in S :
           (/\ AsksFor(e, r) /\ ~ Later(p[Len(p)], e)
            /\ s = <<>> \/ Later(s[Len(s)], e)) => Got(e, p, r) \/ Got(e, s, r)
                 
  PROVE  GapFree(S, s \o p, r)
<1>1. Len(s) \in Nat /\ Len(p) \in Nat /\ Len(s \o p) = Len(s) + Len(p)
      /\ DOMAIN (s \o p) = 1..(Len(s) + Len(p)) /\ DOMAIN s = 1..Len(s) /\ DOMAIN p = 1..Len(p)
  OBVIOUS
<1>2. /\ \A i \in 1..Len(s) : (s \o p)[i] = s[i]
      /\ \A i \in 1..Len(p) : (s \o p)[i + Len(s)] = p[i]
  OBVIOUS
<1>3. \A e : Got(e, s, r) \/ Got(e, p, r) => Got(e, s \o p, r)
  <2> TAKE e
  <2>1. Got(e, s, r) => Got(e, s \o p, r)
    BY <1>1, <1>2 DEF Got
  <2>2. ASSUME Got(e, p, r) PROVE Got(e, s \o p, r)
    <3>1. PICK i \in 1..Len(p) : p[i] = e \/ (r.method = "legacy" /\ p[i].at = e.at)
      BY <2>2, <1>1 DEF Got
    <3>2. i + Len(s) \in 1..(Len(s) + Len(p)) /\ (s \o p)[i + Len(s)] = p[i]
      BY <1>1, <1>2
    <3> QED BY <3>1, <3>2, <1>1 DEF Got
  <2> QED BY <2>1, <2>2
<1>4. CASE p = <<>>
  BY <1>4
<1>5. CASE p # <<>>
  <2> SUFFICES ASSUME NEW e \in S, AsksFor(e, r), s \o p # <<>>,
                      ~ Later(e, (s \o p)[1]), ~ Later((s \o p)[Len(s \o p)], e)
               PROVE  Got(e, s, r) \/ Got(e, p, r)
    BY <1>3 DEF GapFree
  <2>1. (s \o p)[Len(s \o p)] = p[Len(p)]
    BY <1>1, <1>2, <1>5
  <2>2. CASE s = <<>> \/ Later(s[Len(s)], e)
    BY <1>5, <2>1, <2>2
  <2>3. CASE s # <<>> /\ ~ Later(s[Len(s)], e)
    <3>1. (s \o p)[1] = s[1]
      BY <1>1, <1>2, <2>3
    <3> QED BY <2>3, <3>1 DEF GapFree
  <2> QED BY <2>2, <2>3
<1> QED BY <1>4, <1>5

-----------------------------------------------------------------------------
(* The invariant. *)

(* The timeline: numbered from one, stamped no later than now; in memory   *)
(* nothing is missing, and stamps never decrease.                          *)
TimelineInv ==
  /\ persistent \in BOOLEAN /\ now \in Nat /\ reading \in Reading
  /\ log \in Seq(Event)
  /\ \A n \in DOMAIN log : log[n].sequence = n /\ log[n].at <= now
  /\ missing \subseteq DOMAIN log
  /\ ~ persistent => /\ missing = {}
                     /\ \A m, n \in DOMAIN log : m <= n => log[m].at <= log[n].at

(* The reader: what it got descends and leaves nothing out; its cursor is  *)
(* the last event it got; what was there at first is not newer than the    *)
(* first event it got.                                                     *)
ReaderInv ==
  /\ yielded \in Seq(Stored) /\ Descends(yielded) /\ GapFree(Stored, yielded, reading)
  /\ first \subseteq Stored
  /\ \A e \in first : AsksFor(e, reading) /\ yielded # <<>> => ~ Later(e, yielded[1])
  /\ status = "reading" =>
       /\ page < reading.maxPages
       /\ page = 0 => cursor = NoCursor /\ yielded = <<>>
       /\ page # 0 => yielded # <<>> /\ cursor = CursorOf(yielded[Len(yielded)])
  /\ (lastPage /\ ~ unread /\ ~ EnoughOf(yielded)) =>
       \A e \in Kept \cap first : AsksFor(e, reading) => Got(e, yielded, reading)

-----------------------------------------------------------------------------
(* Pages. *)

LEMMA StoredEvents ==
  ASSUME TimelineInv
  PROVE  /\ Numbered(Stored) /\ IsFiniteSet(Stored)
         /\ \A e, f \in Stored : Newer(e, f) <=> Later(e, f)
         /\ \A e \in Stored : /\ e.sequence \in DOMAIN log \ missing
                              /\ log[e.sequence] = e /\ e.at <= now
<1>1. \A e \in Stored : /\ e.sequence \in DOMAIN log \ missing
                        /\ log[e.sequence] = e /\ e.at <= now
  BY DEF Stored, TimelineInv
<1>2. Numbered(Stored)
  <2>1. Stored \subseteq Event
    BY DEF Stored, TimelineInv
  <2> QED BY <1>1, <2>1 DEF Numbered
<1>3. IsFiniteSet(Stored)
  <2> DEFINE number == [e \in Stored |-> e.sequence]
  <2>1. Len(log) \in Nat /\ DOMAIN log = 1..Len(log)
    BY DEF TimelineInv
  <2>2. \A e \in Stored : number[e] \in 1..Len(log)
    BY <1>1, <2>1
  <2>3. \A e, f \in Stored : number[e] = number[f] => e = f
    BY <1>2 DEF Numbered
  <2>4. number \in Injection(Stored, 1..Len(log))
    BY <2>2, <2>3 DEF Injection, IsInjective
  <2>5. IsFiniteSet(1..Len(log))
    BY <2>1, FS_Interval
  <2> QED BY <2>4, <2>5, FS_Injection
<1>4. \A e, f \in Stored : Newer(e, f) <=> Later(e, f)
  <2> SUFFICES ASSUME NEW e \in Stored, NEW f \in Stored
               PROVE  Newer(e, f) <=> Later(e, f)
    OBVIOUS
  <2>1. CASE persistent
    BY <2>1 DEF Newer, Later
  <2>2. CASE ~ persistent
    <3>1. e \in Event /\ f \in Event
      BY <1>2 DEF Numbered
    <3>2. e.sequence <= f.sequence => e.at <= f.at
      BY <1>1, <2>2 DEF TimelineInv
    <3>3. f.sequence <= e.sequence => f.at <= e.at
      BY <1>1, <2>2 DEF TimelineInv
    <3> QED BY <2>2, <3>1, <3>2, <3>3 DEF Newer, Later, Event
  <2> QED BY <2>1, <2>2
<1> QED BY <1>1, <1>2, <1>3, <1>4

LEMMA Sizes ==
  ASSUME reading \in Reading
  PROVE  /\ PageSize \in Nat \ {0}
         /\ \A s : IsFull(s) <=> Len(s) >= Max({reading.limit, 1})
         /\ Max({reading.limit, 1}) \in 1..PageSize
         /\ reading.limit # 0 => Max({reading.limit, 1}) = PageSize
         /\ reading.limit = 0 => Max({reading.limit, 1}) = 1
         /\ reading.maxEvents \in Nat \/ reading.maxEvents = NoBound
         /\ Bounded => Budget \in Nat
         /\ reading.maxEvents \in Nat \ {0} => Bounded /\ Budget = reading.maxEvents
         /\ reading.maxEvents = 0 /\ reading.method = "all" => Bounded /\ Budget = 0
<1>1. reading.limit \in Nat /\ reading.maxEvents \in Nat \cup {NoBound}
  BY ReadingAssumption
<1>2. Max({reading.limit, 1}) = IF reading.limit >= 1 THEN reading.limit ELSE 1
  BY <1>1, Greater
<1>3. reading.maxEvents \in Nat =>
        Max({reading.maxEvents, 1}) = IF reading.maxEvents >= 1 THEN reading.maxEvents ELSE 1
  BY Greater
<1>4. PageSize \in Nat \ {0} /\ (reading.limit # 0 => PageSize = reading.limit)
  BY <1>1, SizeAssumption DEF PageSize
<1>5. /\ Max({reading.limit, 1}) \in 1..PageSize
      /\ reading.limit # 0 => Max({reading.limit, 1}) = PageSize
      /\ reading.limit = 0 => Max({reading.limit, 1}) = 1
  BY <1>1, <1>2, <1>4
<1>6. /\ Bounded => Budget \in Nat
      /\ reading.maxEvents \in Nat \ {0} => Bounded /\ Budget = reading.maxEvents
      /\ reading.maxEvents = 0 /\ reading.method = "all" => Bounded /\ Budget = 0
  BY <1>1, <1>3, NothingAssumption DEF Bounded, Budget
<1> QED BY <1>1, <1>4, <1>5, <1>6 DEF IsFull

(* A page: the newest of what a page may hold, without a gap. *)
LEMMA PageIsNewest ==
  ASSUME TimelineInv, NEW rows, rows = {e \in Kept : Before(e) /\ Wanted(e)}
  PROVE  /\ Page \in Seq(rows) /\ Len(Page) <= PageSize /\ Descends(Page)
         /\ \A e \in rows : \/ \E i \in DOMAIN Page : Page[i] = e
                            \/ \A i \in DOMAIN Page : Later(Page[i], e)
         /\ Len(Page) < PageSize => \A e \in rows : \E i \in DOMAIN Page : Page[i] = e
<1> DEFINE R == {p \in rows \X rows : Later(p[1], p[2])}
           n == Min({PageSize, Cardinality(rows)})
<1>1. rows \in SUBSET Stored
  BY DEF Kept
<1>2. IsFiniteSet(rows) /\ Numbered(rows)
  BY <1>1, StoredEvents, FS_Subset DEF Numbered
<1>3. \A e, f \in rows : Newer(e, f) <=> Later(e, f)
  BY <1>1, StoredEvents
<1>4. \A e, f \in rows : <<e, f>> \in R <=> Later(e, f)
  OBVIOUS
<1>5. Cardinality(rows) \in Nat
  BY <1>2, FS_CardinalityType
<1>6. PageSize \in Nat \ {0}
  BY Sizes DEF TimelineInv
<1>7. n = (IF PageSize <= Cardinality(rows) THEN PageSize ELSE Cardinality(rows))
      /\ n \in 0..Cardinality(rows)
  BY <1>5, <1>6, Lesser
<1>8. Orders(R, rows)
  <2> HIDE DEF R
  <2>1. \A e \in rows : e \in Event
    BY <1>2 DEF Numbered
  <2>2. \A e \in rows : <<e, e>> \notin R
    BY <1>2, <1>4, LaterIsTotal
  <2>3. \A e, f, g \in rows : <<e, f>> \in R /\ <<f, g>> \in R => <<e, g>> \in R
    BY <1>4, <2>1, LaterIsTransitive
  <2>4. \A e, f \in rows : e # f => <<e, f>> \in R \/ <<f, e>> \in R
    BY <1>2, <1>4, LaterIsTotal
  <2> QED BY <2>2, <2>3, <2>4 DEF Orders
<1>9. \A e \in rows : {f \in rows : Newer(f, e)} = Ahead(e, R, rows)
  <2> HIDE DEF R
  <2> QED BY <1>3, <1>4 DEF Ahead
<1> DEFINE Pick(i) == CHOOSE e \in rows : Cardinality({f \in rows : Newer(f, e)}) = i - 1
<1>10. Page = [i \in 1..n |-> Pick(i)]
  BY DEF Page, Newest
<1> HIDE DEF R, n, Pick
<1>11. DOMAIN Page = 1..n /\ Page = [i \in 1..n |-> Page[i]]
  BY <1>10
<1>12. ASSUME NEW i \in 1..n
       PROVE  /\ Page[i] \in rows
              /\ Cardinality(Ahead(Page[i], R, rows)) = i - 1
  <2>1. i \in 1..Cardinality(rows)
    BY <1>5, <1>7
  <2>2. \E e \in rows : Cardinality(Ahead(e, R, rows)) = i - 1
    BY <1>2, <1>8, <2>1, RankIsTaken
  <2>3. \E e \in rows : Cardinality({f \in rows : Newer(f, e)}) = i - 1
    BY <1>9, <2>2
  <2>4. Pick(i) \in rows /\ Cardinality({f \in rows : Newer(f, Pick(i))}) = i - 1
    BY <2>3 DEF Pick
  <2>5. Page[i] = Pick(i)
    BY <1>10
  <2> QED BY <1>9, <2>4, <2>5
<1>13. ListsFirst(Page, n, R, rows)
  <2>1. n \in 0..Cardinality(rows)
    BY <1>7
  <2>2. Page \in [1..n -> rows]
    BY <1>11, <1>12
  <2>3. \A i \in 1..n : Cardinality(Ahead(Page[i], R, rows)) = i - 1
    BY <1>12
  <2> QED BY <1>2, <1>8, <2>1, <2>2, <2>3, PickedByRank
<1>14. \A i \in 1..n : Page[i] \in rows
  BY <1>12
<1>15. Descends(Page)
  BY <1>4, <1>11, <1>13, <1>14 DEF Descends, ListsFirst
<1>16. \A e \in rows : \/ \E i \in DOMAIN Page : Page[i] = e
                       \/ \A i \in DOMAIN Page : Later(Page[i], e)
  BY <1>4, <1>11, <1>13, <1>14 DEF ListsFirst
<1>17. n <= PageSize /\ (n < PageSize => n = Cardinality(rows))
  BY <1>5, <1>6, <1>7
<1> QED BY <1>11, <1>13, <1>15, <1>16, <1>17 DEF ListsFirst

-----------------------------------------------------------------------------
(* The steps of the timeline. *)

TimelineStep == (\E k \in Kind : Push(k)) \/ Recover \/ Tick

(* What the timeline may do to a reader: add newer events, forget old ones. *)
Grows ==
  /\ UNCHANGED <<persistent, reading, reader>>
  /\ Stored \subseteq Stored'
  /\ \A e \in Stored' \ Stored : \A f \in Stored : Later(e, f)
  /\ Kept' \cap Stored \subseteq Kept
  /\ Len(log) <= Len(log')
  /\ missing' \subseteq DOMAIN log'

LEMMA PushGrows ==
  ASSUME TimelineInv, NEW k \in Kind, Push(k)
  PROVE  TimelineInv' /\ Grows
<1> DEFINE new == [sequence |-> Len(log) + 1, at |-> now, kind |-> k]
<1>1. /\ Len(log) \in Nat /\ DOMAIN log = 1..Len(log) /\ log \in Seq(Event)
      /\ persistent \in BOOLEAN /\ now \in Nat /\ reading \in Reading
      /\ \A n \in DOMAIN log : log[n].sequence = n /\ log[n].at <= now
      /\ missing \subseteq DOMAIN log
      /\ ~ persistent => /\ missing = {}
                         /\ \A m, n \in DOMAIN log : m <= n => log[m].at <= log[n].at
  BY DEF TimelineInv
<1>2. new \in Event /\ new.sequence = Len(log) + 1 /\ new.at = now
  BY <1>1 DEF Event
<1>3. log' = Append(log, new) /\ UNCHANGED <<persistent, now, reading, reader>>
      /\ missing' \in {missing, missing \cup {Len(log) + 1}}
      /\ (~ persistent => missing' = missing)
  BY DEF Push
<1> HIDE DEF new
<1>4. /\ log' \in Seq(Event) /\ Len(log') = Len(log) + 1
      /\ DOMAIN log' = 1..(Len(log) + 1)
      /\ \A n \in DOMAIN log : log'[n] = log[n]
      /\ log'[Len(log) + 1] = new
  BY <1>1, <1>2, <1>3
<1>5. TimelineInv'
  <2>1. \A n \in DOMAIN log' : n \in DOMAIN log \/ n = Len(log) + 1
    BY <1>1, <1>4
  <2>2. \A n \in DOMAIN log' : log'[n].sequence = n /\ log'[n].at <= now'
    <3> SUFFICES ASSUME NEW n \in DOMAIN log'
                 PROVE  log'[n].sequence = n /\ log'[n].at <= now
      BY <1>3
    <3>1. CASE n \in DOMAIN log
      BY <3>1, <1>1, <1>4
    <3>2. CASE n = Len(log) + 1
      BY <3>2, <1>1, <1>2, <1>4
    <3> QED BY <2>1, <3>1, <3>2
  <2>3. missing' \subseteq DOMAIN log'
    BY <1>1, <1>3, <1>4
  <2>4. ASSUME ~ persistent, NEW m \in DOMAIN log', NEW n \in DOMAIN log', m <= n
        PROVE  log'[m].at <= log'[n].at
    <3>1. CASE n \in DOMAIN log
      <4>1. m \in DOMAIN log
        BY <2>1, <2>4, <3>1, <1>1
      <4> QED BY <2>4, <3>1, <4>1, <1>1, <1>4
    <3>2. CASE n = Len(log) + 1 /\ m \in DOMAIN log
      BY <3>2, <1>1, <1>2, <1>4
    <3>3. CASE n = Len(log) + 1 /\ m = Len(log) + 1
      BY <3>3, <1>1, <1>2, <1>4
    <3> QED BY <2>1, <3>1, <3>2, <3>3
  <2> QED BY <1>1, <1>3, <1>4, <2>2, <2>3, <2>4 DEF TimelineInv
<1>6. \A n \in DOMAIN log : n # Len(log) + 1
  BY <1>1
<1>7. Stored \subseteq Stored' /\ Stored' \subseteq Stored \cup {new}
  BY <1>1, <1>3, <1>4, <1>6 DEF Stored
<1>8. \A f \in Stored : Later(new, f)
  <2>1. \A f \in Stored : f \in Event /\ f.sequence \in DOMAIN log /\ f.at <= now
    BY StoredEvents DEF Numbered
  <2> QED BY <2>1, <1>1, <1>2 DEF Later, Event
<1>9. Kept' \cap Stored \subseteq Kept
  <2>1. \A e \in Stored : e.sequence \in Nat
    BY StoredEvents DEF Numbered, Event
  <2>2. MaxJobEvents \in Nat
    BY SizeAssumption
  <2>3. \A e \in Kept' : persistent \/ e.sequence + MaxJobEvents > Len(log) + 1
    BY <1>3, <1>4 DEF Kept
  <2> QED BY <2>1, <2>2, <2>3, <1>1 DEF Kept
<1>10. Len(log) <= Len(log') /\ missing' \subseteq DOMAIN log'
  BY <1>1, <1>3, <1>4
<1> QED BY <1>3, <1>5, <1>7, <1>8, <1>9, <1>10 DEF Grows

LEMMA RecoverGrows ==
  ASSUME TimelineInv, Recover
  PROVE  TimelineInv' /\ Grows
<1>1. /\ Len(log) \in Nat /\ DOMAIN log = 1..Len(log) /\ log \in Seq(Event)
      /\ persistent \in BOOLEAN /\ now \in Nat /\ reading \in Reading
      /\ \A n \in DOMAIN log : log[n].sequence = n /\ log[n].at <= now
      /\ missing \subseteq DOMAIN log
      /\ ~ persistent => missing = {}
  BY DEF TimelineInv
<1>2. PICK m \in missing :
        /\ \A n \in DOMAIN log : log[n].at < now
        /\ log' = [n \in DOMAIN log |->
                     IF n \in missing /\ n >= m THEN [log[n] EXCEPT !.at = now] ELSE log[n]]
        /\ missing' = {n \in missing : n < m}
        /\ UNCHANGED <<persistent, now, reading, reader>>
  BY DEF Recover
<1>3. persistent /\ m \in Nat
  BY <1>1
<1>4. \A n \in DOMAIN log : log[n] \in Event
  BY <1>1
<1>5. /\ DOMAIN log' = DOMAIN log
      /\ \A n \in DOMAIN log : /\ log'[n] \in Event /\ log'[n].sequence = n
                               /\ log'[n].at \in {log[n].at, now}
                               /\ n \notin missing => log'[n] = log[n]
                               /\ n \in missing /\ n >= m => log'[n].at = now
  <2>1. DOMAIN log' = DOMAIN log
    BY <1>2
  <2>2. ASSUME NEW n \in DOMAIN log
        PROVE  /\ log'[n] \in Event /\ log'[n].sequence = n
               /\ log'[n].at \in {log[n].at, now}
               /\ n \notin missing => log'[n] = log[n]
               /\ n \in missing /\ n >= m => log'[n].at = now
    <3>1. log'[n] = IF n \in missing /\ n >= m THEN [log[n] EXCEPT !.at = now] ELSE log[n]
      BY <1>2
    <3> QED BY <3>1, <1>1, <1>4 DEF Event
  <2> QED BY <2>1, <2>2
<1>6. log' \in Seq(Event) /\ Len(log') = Len(log)
  <2>1. log' \in [1..Len(log) -> Event]
    BY <1>1, <1>2, <1>5
  <2> QED BY <2>1, <1>1
<1>7. \A n \in DOMAIN log : log'[n].at <= now
  <2> SUFFICES ASSUME NEW n \in DOMAIN log PROVE log'[n].at <= now
    OBVIOUS
  <2>1. log'[n].at = log[n].at \/ log'[n].at = now
    BY <1>5
  <2>2. log[n].at <= now
    BY <1>1
  <2> QED BY <1>1, <2>1, <2>2
<1>8. TimelineInv'
  BY <1>1, <1>2, <1>3, <1>5, <1>6, <1>7 DEF TimelineInv
<1>9. Stored \subseteq Stored'
  <2> SUFFICES ASSUME NEW n \in DOMAIN log \ missing PROVE log[n] \in Stored'
    BY DEF Stored
  <2>1. n \in DOMAIN log' \ missing' /\ log'[n] = log[n]
    BY <1>2, <1>5
  <2> QED BY <2>1 DEF Stored
<1>10. \A e \in Stored' \ Stored : \A f \in Stored : Later(e, f)
  <2> SUFFICES ASSUME NEW n \in DOMAIN log' \ missing', log'[n] \notin Stored,
                      NEW f \in Stored
               PROVE  Later(log'[n], f)
    BY DEF Stored
  <2>1. n \in missing
    BY <1>5 DEF Stored
  <2>2. n >= m
    BY <1>1, <1>2, <1>3, <2>1
  <2>3. log'[n].at = now
    BY <1>5, <2>1, <2>2
  <2>4. f.at < now /\ f \in Event
    BY <1>2, <1>4 DEF Stored
  <2> QED BY <2>3, <2>4, <1>1 DEF Later, Event
<1>11. Kept' \cap Stored \subseteq Kept
  BY <1>3 DEF Kept
<1>12. Len(log) <= Len(log') /\ missing' \subseteq DOMAIN log'
  BY <1>1, <1>2, <1>5, <1>6
<1> QED BY <1>2, <1>8, <1>9, <1>10, <1>11, <1>12 DEF Grows

LEMMA TickGrows ==
  ASSUME TimelineInv, Tick
  PROVE  TimelineInv' /\ Grows
<1>1. now' = now + 1 /\ UNCHANGED <<persistent, log, missing, reading, reader>>
  BY DEF Tick
<1>2. now \in Nat /\ \A n \in DOMAIN log : log[n].at <= now /\ log[n].at \in Nat
  <2>1. \A n \in DOMAIN log : log[n] \in Event
    BY DEF TimelineInv
  <2> QED BY <2>1 DEF TimelineInv, Event
<1>3. TimelineInv'
  BY <1>1, <1>2 DEF TimelineInv
<1>4. Stored' = Stored /\ Kept' = Kept
  BY <1>1 DEF Stored, Kept
<1>5. Len(log) <= Len(log') /\ missing' \subseteq DOMAIN log'
  <2>1. Len(log) \in Nat
    BY DEF TimelineInv
  <2> QED BY <1>1, <2>1 DEF TimelineInv
<1> QED BY <1>1, <1>3, <1>4, <1>5 DEF Grows

(* Newer events and forgotten ones leave the reader where it is. *)
LEMMA GrowthKeepsReader ==
  ASSUME TimelineInv, ReaderInv, TypeOK, Grows, TimelineInv'
  PROVE  ReaderInv' /\ TypeOK'
<1>1. UNCHANGED <<persistent, reading, status, page, attempt, resumes, cursor, yielded, first, lastPage, unread>>
  BY DEF Grows, reader
<1>2. /\ yielded \in Seq(Stored) /\ Descends(yielded) /\ GapFree(Stored, yielded, reading)
      /\ first \subseteq Stored
  BY DEF ReaderInv
<1>3. /\ Stored \subseteq Stored' /\ Kept' \cap Stored \subseteq Kept
      /\ \A e \in Stored' \ Stored : \A f \in Stored : Later(e, f)
  BY DEF Grows
<1>4. DOMAIN yielded = 1..Len(yielded) /\ Len(yielded) \in Nat
      /\ \A i \in DOMAIN yielded : yielded[i] \in Stored
  BY <1>2
<1>5. yielded' \in Seq(Stored') /\ first' \subseteq Stored'
  <2>1. yielded \in [1..Len(yielded) -> Stored']
    BY <1>2, <1>3, <1>4
  <2>2. yielded \in Seq(Stored')
    BY <2>1, <1>4
  <2> QED BY <2>2, <1>1, <1>2, <1>3
<1>6. GapFree(Stored', yielded, reading)
  <2> SUFFICES ASSUME NEW e \in Stored', AsksFor(e, reading), yielded # <<>>,
                      ~ Later(e, yielded[1]), ~ Later(yielded[Len(yielded)], e)
               PROVE  Got(e, yielded, reading)
    BY DEF GapFree
  <2>1. yielded[1] \in Stored
    BY <1>4
  <2>2. e \in Stored
    BY <1>3, <2>1
  <2> QED BY <1>2, <2>2 DEF GapFree
<1>8. (lastPage /\ ~ unread /\ ~ EnoughOf(yielded)) =>
         \A e \in Kept' \cap first : AsksFor(e, reading) => Got(e, yielded, reading)
  <2>1. Kept' \cap first \subseteq Kept \cap first
    BY <1>2, <1>3
  <2> QED BY <2>1 DEF ReaderInv
<1>9. EnoughOf(yielded)' = EnoughOf(yielded)
  BY <1>1 DEF EnoughOf, Bounded, Budget
<1>10. CursorOf(yielded[Len(yielded)])' = CursorOf(yielded[Len(yielded)])
  BY <1>1 DEF CursorOf
<1>11. ReaderInv'
  BY <1>1, <1>2, <1>5, <1>6, <1>8, <1>9, <1>10 DEF ReaderInv
<1>12. TypeOK'
  <2>1. Len(log) \in Nat /\ Len(log') \in Nat /\ Len(log) <= Len(log') /\ missing' \subseteq DOMAIN log'
    BY DEF TimelineInv, Grows
  <2>2. cursor = NoCursor \/ cursor.sequence \in 0..Len(log')
    BY <2>1 DEF TypeOK
  <2>3. \A i \in DOMAIN yielded : yielded[i] \in Stored'
    BY <1>3, <1>4
  <2> QED BY <1>1, <1>5, <2>1, <2>2, <2>3 DEF TypeOK
<1> QED BY <1>11, <1>12

-----------------------------------------------------------------------------
(* The steps of the reader. *)

LEMMA Joined ==
  ASSUME NEW S, NEW s \in Seq(S), NEW p \in Seq(S)
  PROVE  /\ s \o p \in Seq(S) /\ Len(s \o p) = Len(s) + Len(p)
         /\ \A i \in 1..Len(s) : i \in DOMAIN (s \o p) /\ (s \o p)[i] = s[i]
         /\ \A i \in 1..Len(p) : i + Len(s) \in DOMAIN (s \o p) /\ (s \o p)[i + Len(s)] = p[i]
         /\ s = <<>> => s \o p = p
         /\ p # <<>> => s \o p # <<>> /\ (s \o p)[Len(s \o p)] = p[Len(p)]
  OBVIOUS

(* A page arrives: the newest of the rows behind the cursor, all of them   *)
(* if it is not full, or nothing at all because the query failed.          *)
LEMMA ArrivalKeepsReader ==
  ASSUME TimelineInv, ReaderInv, TypeOK,
         NEW rows, rows = {e \in Kept : Before(e) /\ Wanted(e)},
         NEW events \in Seq(rows), Len(events) <= PageSize, Descends(events),
         \A e \in rows : \/ \E i \in DOMAIN events : events[i] = e
                         \/ \A i \in DOMAIN events : Later(events[i], e),
         Arrives(events), unread' \in BOOLEAN,
         ~ unread' => /\ ~ unread
                      /\ Len(events) < PageSize =>
                           \A e \in rows : \E i \in DOMAIN events : events[i] = e
  PROVE  TimelineInv' /\ ReaderInv' /\ TypeOK'
<1> DEFINE all == yielded \o events
           r == reading
<1>1. /\ status = "reading"
      /\ yielded' = Within(all)
      /\ page' = page + 1
      /\ cursor' = NextCursor(events)
      /\ attempt' = 1 /\ resumes' = 0
      /\ first' = IF page = 0 THEN Kept ELSE first
      /\ lastPage' = (NextCursor(events) = NoCursor)
      /\ status' = IF NextCursor(events) = NoCursor \/ EnoughOf(all) \/ page + 1 = r.maxPages
                   THEN "done" ELSE "reading"
      /\ UNCHANGED <<persistent, now, log, missing, reading>>
  BY DEF Arrives
<1>2. /\ r \in Reading /\ r' = r
      /\ Stored' = Stored /\ Kept' = Kept
  BY <1>1 DEF TimelineInv, Stored, Kept
<1>3. TimelineInv'
  BY <1>1 DEF TimelineInv
<1>4. /\ yielded \in Seq(Stored) /\ Descends(yielded) /\ GapFree(Stored, yielded, r)
      /\ first \subseteq Stored
      /\ \A e \in first : AsksFor(e, r) /\ yielded # <<>> => ~ Later(e, yielded[1])
      /\ page < r.maxPages
      /\ page = 0 => cursor = NoCursor /\ yielded = <<>>
      /\ page # 0 => yielded # <<>> /\ cursor = CursorOf(yielded[Len(yielded)])
  BY <1>1 DEF ReaderInv
<1>5. page \in Nat /\ r.maxPages \in Nat
  BY <1>2, ReadingAssumption DEF TypeOK
<1>6. Numbered(Stored) /\ rows \subseteq Kept /\ Kept \subseteq Stored
      /\ \A e \in Stored : e \in Event /\ e.sequence \in DOMAIN log
  BY StoredEvents DEF Kept, Numbered
<1>7. /\ events \in Seq(rows) /\ Len(events) <= PageSize /\ Descends(events)
      /\ \A e \in rows : \/ \E i \in DOMAIN events : events[i] = e
                         \/ \A i \in DOMAIN events : Later(events[i], e)
      /\ ~ unread' => (Len(events) < PageSize => \A e \in rows : \E i \in DOMAIN events : events[i] = e)
  OBVIOUS
<1>8. /\ DOMAIN events = 1..Len(events) /\ Len(events) \in Nat
      /\ DOMAIN yielded = 1..Len(yielded) /\ Len(yielded) \in Nat
      /\ \A i \in 1..Len(events) : events[i] \in rows
      /\ \A i \in 1..Len(yielded) : yielded[i] \in Stored
  BY <1>4, <1>7
<1>9. events \in Seq(Stored)
  <2>1. events \in [1..Len(events) -> Stored]
    BY <1>6, <1>7, <1>8
  <2> QED BY <2>1, <1>8
<1>10. yielded # <<>> => Len(yielded) \in 1..Len(yielded) /\ 1 \in 1..Len(yielded)
       /\ yielded[Len(yielded)] \in Stored /\ yielded[1] \in Stored
  BY <1>4, <1>8
<1>11. events # <<>> => Len(events) \in 1..Len(events) /\ 1 \in 1..Len(events)
       /\ events[Len(events)] \in rows /\ events[1] \in rows
  BY <1>7, <1>8
<1>12. yielded # <<>> => page # 0 /\ cursor = CursorOf(yielded[Len(yielded)]) /\ cursor # NoCursor
  <2> SUFFICES ASSUME yielded # <<>> PROVE cursor = CursorOf(yielded[Len(yielded)]) /\ cursor # NoCursor
    BY <1>4
  <2>1. cursor = CursorOf(yielded[Len(yielded)])
    BY <1>4
  <2>2. yielded[Len(yielded)] \in Event
    BY <1>6, <1>10
  <2>3. CursorOf(yielded[Len(yielded)]) \in [at : Nat, sequence : Nat]
    BY <2>2 DEF CursorOf, Event
  <2> QED BY <2>1, <2>3, NothingAssumption
(* Where the reader stands: what a page may hold is what is older. *)
<1>13. ASSUME NEW e \in Stored, yielded # <<>>
       PROVE  /\ Before(e) => Later(yielded[Len(yielded)], e)
              /\ Later(yielded[Len(yielded)], e) =>
                   Before(e) \/ (r.method = "legacy" /\ yielded[Len(yielded)].at = e.at)
  <2>1. yielded[Len(yielded)] \in Event /\ e \in Event
    BY <1>6, <1>10, <1>13
  <2>2. cursor = CursorOf(yielded[Len(yielded)]) /\ cursor # NoCursor
    BY <1>12, <1>13
  <2>3. /\ cursor.at = yielded[Len(yielded)].at
        /\ cursor.sequence = IF r.method = "legacy" THEN 0 ELSE yielded[Len(yielded)].sequence
    BY <2>2 DEF CursorOf
  <2> QED BY <2>1, <2>2, <2>3 DEF Before, Later, Event
<1>14. yielded = <<>> => \A e \in Stored : Before(e)
  BY <1>4, <1>5 DEF Before
<1>15. yielded # <<>> => \A i \in 1..Len(events) : Later(yielded[Len(yielded)], events[i])
  BY <1>6, <1>8, <1>13
<1>16. Descends(all)
  <2> QED BY <1>4, <1>6, <1>7, <1>9, <1>15, JoinKeepsOrder
(* An event that is not older than the page is kept if the page's is. *)
<1>17. ASSUME NEW e \in Stored, NEW f \in Kept, ~ Later(f, e)
       PROVE  e \in Kept
  <2>1. CASE persistent
    BY <2>1 DEF Kept
  <2>2. CASE ~ persistent
    <3>1. f \in Stored /\ ~ Newer(f, e)
      BY <1>17, StoredEvents DEF Kept
    <3>2. e.sequence >= f.sequence /\ e.sequence \in Nat /\ f.sequence \in Nat
      BY <2>2, <3>1, <1>6 DEF Newer, Event
    <3>3. f.sequence + MaxJobEvents > Len(log)
      BY <2>2 DEF Kept
    <3>4. MaxJobEvents \in Nat /\ Len(log) \in Nat
      BY SizeAssumption DEF TimelineInv
    <3> QED BY <3>2, <3>3, <3>4 DEF Kept
  <2> QED BY <2>1, <2>2
<1>18. \A e : AsksFor(e, r) => Wanted(e)
  BY DEF AsksFor, Wanted, Requested
<1>19. ASSUME events # <<>>, NEW e \in Stored, AsksFor(e, r), ~ Later(events[Len(events)], e),
              yielded = <<>> \/ Later(yielded[Len(yielded)], e)
       PROVE  Got(e, events, r) \/ Got(e, yielded, r)
  <2>1. events[Len(events)] \in Kept /\ Len(events) \in DOMAIN events
    BY <1>6, <1>8, <1>11, <1>19
  <2>2. e \in Kept
    BY <1>17, <1>19, <2>1
  <2>3. CASE Before(e)
    <3>1. e \in rows
      BY <1>18, <1>19, <2>2, <2>3
    <3>2. \E i \in DOMAIN events : events[i] = e
      BY <1>7, <1>19, <2>1, <3>1
    <3> QED BY <3>2 DEF Got
  <2>4. CASE ~ Before(e)
    <3>1. yielded # <<>>
      BY <1>14, <2>4
    <3>2. r.method = "legacy" /\ yielded[Len(yielded)].at = e.at
      BY <1>13, <1>19, <2>4, <3>1
    <3> QED BY <1>8, <1>10, <3>1, <3>2 DEF Got
  <2> QED BY <2>3, <2>4
<1>20. GapFree(Stored, all, r)
  <2> QED BY <1>4, <1>6, <1>9, <1>19, JoinKeepsGapFree
<1>21. /\ all \in Seq(Stored) /\ Len(all) = Len(yielded) + Len(events)
       /\ \A i \in 1..Len(yielded) : i \in DOMAIN all /\ all[i] = yielded[i]
       /\ \A i \in 1..Len(events) :
            i + Len(yielded) \in DOMAIN all /\ all[i + Len(yielded)] = events[i]
       /\ yielded = <<>> => all = events
       /\ events # <<>> => all # <<>> /\ all[Len(all)] = events[Len(events)]
       /\ yielded # <<>> => all[1] = yielded[1]
  <2> QED BY <1>4, <1>9, <1>10, Joined
<1>22. Bounded => Budget \in Nat
  BY <1>2, Sizes
<1>23. /\ yielded' \in Seq(Stored) /\ Descends(yielded') /\ GapFree(Stored, yielded', r)
       /\ Len(yielded') <= Len(all)
       /\ \A i \in 1..Len(yielded') : yielded'[i] = all[i]
       /\ ~ EnoughOf(all) => yielded' = all
       /\ Bounded => Len(yielded') <= Budget
       /\ EnoughOf(all) => EnoughOf(yielded')
  <2> HIDE DEF all
  <2>0. Len(all) \in Nat
    BY <1>21
  <2>1. CASE ~ Bounded
    BY <2>0, <2>1, <1>1, <1>16, <1>20, <1>21 DEF Within, EnoughOf
  <2>2. CASE Bounded
    <3>1. yielded' = Take(Budget, all) /\ Budget \in Nat
      BY <2>2, <1>1, <1>22 DEF Within
    <3>2. /\ Take(Budget, all) \in Seq(Stored)
          /\ Len(Take(Budget, all)) = IF Budget <= Len(all) THEN Budget ELSE Len(all)
          /\ \A i \in 1..Len(Take(Budget, all)) : Take(Budget, all)[i] = all[i]
          /\ Len(all) <= Budget => Take(Budget, all) = all
      BY <3>1, <1>21, Taken
    <3>3. Descends(Take(Budget, all)) /\ GapFree(Stored, Take(Budget, all), r)
      BY <3>1, <1>6, <1>16, <1>20, <1>21, CutKeepsOrder
    <3>4. Len(yielded') = IF Budget <= Len(all) THEN Budget ELSE Len(all)
      BY <3>1, <3>2
    <3>5. EnoughOf(all) <=> Budget <= Len(all)
      BY <2>0, <2>2, <3>1 DEF EnoughOf
    <3>6. EnoughOf(yielded') <=> Budget <= Len(yielded')
      BY <2>0, <2>2, <3>1, <3>4 DEF EnoughOf
    <3>7. Len(yielded') <= Len(all) /\ Len(yielded') <= Budget
      BY <2>0, <3>1, <3>4
    <3>8. EnoughOf(all) => EnoughOf(yielded')
      BY <2>0, <3>1, <3>4, <3>5, <3>6
    <3>9. ~ EnoughOf(all) => yielded' = all
      BY <2>0, <3>1, <3>2, <3>5
    <3> QED BY <3>1, <3>2, <3>3, <3>7, <3>8, <3>9
  <2> QED BY <2>1, <2>2
<1>24. yielded' # <<>> => all # <<>> /\ yielded'[1] = all[1]
  <2> HIDE DEF all
  <2>1. Len(all) \in Nat
    BY <1>21
  <2> QED BY <1>23, <1>21, <2>1
(* What was there at first is no newer than the first event read. *)
<1>25. \A e \in first' : AsksFor(e, r) /\ yielded' # <<>> => ~ Later(e, yielded'[1])
  <2> SUFFICES ASSUME NEW e \in first', AsksFor(e, r), yielded' # <<>>
               PROVE  ~ Later(e, yielded'[1])
    OBVIOUS
  <2>1. CASE yielded # <<>>
    <3>1. e \in first
      BY <2>1, <1>1, <1>12
    <3> QED BY <2>1, <3>1, <1>4, <1>21, <1>24
  <2>2. CASE yielded = <<>>
    <3>1. page = 0 /\ e \in Kept
      BY <2>2, <1>1, <1>4
    <3>2. e \in rows
      BY <2>2, <3>1, <1>6, <1>14, <1>18
    <3>3. yielded'[1] = events[1] /\ events # <<>> /\ 1 \in DOMAIN events
      BY <2>2, <1>8, <1>11, <1>21, <1>24
    <3>4. ~ Later(e, events[1])
      <4>1. CASE \E i \in DOMAIN events : events[i] = e
        <5>1. PICK i \in DOMAIN events : events[i] = e
          BY <4>1
        <5>2. i = 1 \/ i > 1
          BY <5>1, <1>8
        <5>3. i = 1 \/ Later(events[1], e)
          BY <5>1, <5>2, <3>3, <1>7 DEF Descends
        <5>4. events[1] \in Stored /\ e \in Stored
          BY <3>2, <3>3, <1>6, <1>11
        <5> QED BY <5>1, <5>3, <5>4, <1>6, LaterIsTotal
      <4>2. CASE \A i \in DOMAIN events : Later(events[i], e)
        <5>1. events[1] \in Stored /\ e \in Stored /\ Later(events[1], e)
          BY <4>2, <3>2, <3>3, <1>6, <1>11
        <5> QED BY <5>1, <1>6, LaterIsTotal
      <4> QED BY <4>1, <4>2, <3>2, <1>7
    <3> QED BY <3>3, <3>4
  <2> QED BY <2>1, <2>2
<1>26. first' \subseteq Stored
  BY <1>1, <1>4, <1>6
(* The next page begins where this one ends. *)
<1>27. NextCursor(events) # NoCursor =>
         events # <<>> /\ NextCursor(events) = CursorOf(events[Len(events)])
  <2>1. IsFull(events) => Len(events) >= 1
    BY <1>2, <1>8, Sizes
  <2> QED BY <2>1, <1>8 DEF NextCursor
<1>28. NextCursor(events) = NoCursor /\ ~ unread' =>
         \A e \in rows : \E i \in DOMAIN events : events[i] = e
  <2> SUFFICES ASSUME NextCursor(events) = NoCursor, ~ unread' PROVE \A e \in rows : \E i \in DOMAIN events : events[i] = e
    OBVIOUS
  <2>1. ~ IsFull(events)
    <3> SUFFICES ASSUME IsFull(events) PROVE FALSE
      OBVIOUS
    <3>1. Len(events) >= 1
      BY <1>2, <1>8, Sizes
    <3>2. events[Len(events)] \in Event
      BY <3>1, <1>6, <1>8
    <3>3. CursorOf(events[Len(events)]) \in [at : Nat, sequence : Nat]
      BY <3>2 DEF CursorOf, Event
    <3> QED BY <3>3, NothingAssumption DEF NextCursor
  <2>2. Len(events) < PageSize
    BY <2>1, <1>2, <1>8, Sizes
  <2> QED BY <2>2, <1>7
<1>29. status' = "reading" =>
          /\ page' < r.maxPages /\ page' # 0
          /\ yielded' # <<>> /\ cursor' = CursorOf(yielded'[Len(yielded')])
  <2> SUFFICES ASSUME status' = "reading"
               PROVE  /\ page' < r.maxPages /\ page' # 0
                      /\ yielded' # <<>> /\ cursor' = CursorOf(yielded'[Len(yielded')])
    OBVIOUS
  <2>1. NextCursor(events) # NoCursor /\ ~ EnoughOf(all) /\ page + 1 # r.maxPages
    BY <1>1
  <2>2. yielded' = all /\ events # <<>> /\ cursor' = CursorOf(events[Len(events)])
    BY <2>1, <1>1, <1>23, <1>27
  <2>3. all # <<>> /\ all[Len(all)] = events[Len(events)]
    BY <2>2, <1>21
  <2>4. page' < r.maxPages /\ page' # 0
    BY <2>1, <1>1, <1>4, <1>5
  <2> QED BY <2>2, <2>3, <2>4
(* Nothing is left behind the last page. *)
<1>30. ASSUME lastPage', ~ unread', ~ EnoughOf(yielded'), NEW e \in Kept, e \in first', AsksFor(e, r)
       PROVE  Got(e, yielded', r)
  <2>1. yielded' = all
    BY <1>23, <1>30
  <2>2. NextCursor(events) = NoCursor
    BY <1>1, <1>30
  <2>3. CASE Before(e)
    <3>1. e \in rows
      BY <2>3, <1>18, <1>30
    <3>2. PICK i \in 1..Len(events) : events[i] = e
      BY <2>2, <3>1, <1>8, <1>28, <1>30
    <3>3. i + Len(yielded) \in DOMAIN all /\ all[i + Len(yielded)] = e
      BY <3>2, <1>21
    <3> QED BY <2>1, <3>3 DEF Got
  <2>4. CASE ~ Before(e)
    <3>1. e \in Stored /\ yielded # <<>>
      BY <2>4, <1>6, <1>14
    <3>2. Got(e, yielded, r)
      <4>1. CASE Later(yielded[Len(yielded)], e)
        BY <4>1, <2>4, <3>1, <1>8, <1>10, <1>13 DEF Got
      <4>2. CASE ~ Later(yielded[Len(yielded)], e)
        <5>1. e \in first
          BY <3>1, <1>1, <1>12, <1>30
        <5>2. ~ Later(e, yielded[1])
          BY <5>1, <3>1, <1>4, <1>30
        <5> QED BY <4>2, <5>2, <3>1, <1>4, <1>30 DEF GapFree
      <4> QED BY <4>1, <4>2
    <3>3. \A i \in DOMAIN yielded : i \in DOMAIN all /\ all[i] = yielded[i]
      BY <1>8, <1>21
    <3> QED BY <2>1, <3>2, <3>3 DEF Got
  <2> QED BY <2>3, <2>4
<1>31. /\ (EnoughOf(yielded))' <=> EnoughOf(yielded')
       /\ (CursorOf(yielded[Len(yielded)]))' = CursorOf(yielded'[Len(yielded')])
  BY <1>1 DEF EnoughOf, Bounded, Budget, CursorOf
<1>32. ReaderInv'
  <2> HIDE DEF all
  <2> QED BY <1>2, <1>23, <1>25, <1>26, <1>29, <1>30, <1>31 DEF ReaderInv
<1>33. TypeOK'
  <2>1. status' \in {"reading", "done", "thrown"} /\ page' \in 0..reading.maxPages
    BY <1>1, <1>4, <1>5
  <2>2. attempt' \in 1..MaxAttempts /\ resumes' \in 0..MaxResumes
    BY <1>1, SizeAssumption
  <2>3. cursor' = NoCursor \/ cursor'.sequence \in 0..Len(log)
    <3> SUFFICES ASSUME cursor' # NoCursor PROVE cursor'.sequence \in 0..Len(log)
      OBVIOUS
    <3>1. cursor' = CursorOf(events[Len(events)]) /\ events # <<>>
      BY <1>1, <1>27
    <3>2. events[Len(events)].sequence \in DOMAIN log
      BY <3>1, <1>6, <1>11
    <3>3. DOMAIN log = 1..Len(log) /\ Len(log) \in Nat
      BY DEF TimelineInv
    <3> QED BY <3>1, <3>2, <3>3 DEF CursorOf
  <2>4. missing' \subseteq DOMAIN log'
    BY <1>1 DEF TimelineInv
  <2>5. \A i \in DOMAIN yielded' : yielded'[i] \in Stored
    BY <1>23
  <2>6. reading.maxEvents \in Nat \ {0} => Len(yielded') <= reading.maxEvents
    BY <1>2, <1>23, Sizes
  <2>7. reading.maxEvents = 0 /\ reading.method = "all" => yielded' = <<>>
    BY <1>2, <1>23, Sizes
  <2> QED BY <1>1, <1>2, <1>26, <2>1, <2>2, <2>3, <2>4, <2>5, <2>6, <2>7 DEF TypeOK
<1> QED BY <1>3, <1>32, <1>33

(* The page the reader asked for. *)
LEMMA GetPageKeepsReader ==
  ASSUME TimelineInv, ReaderInv, TypeOK, GetPage
  PROVE  TimelineInv' /\ ReaderInv' /\ TypeOK'
<1> DEFINE rows == {e \in Kept : Before(e) /\ Wanted(e)}
<1>1. /\ Page \in Seq(rows) /\ Len(Page) <= PageSize /\ Descends(Page)
      /\ \A e \in rows : \/ \E i \in DOMAIN Page : Page[i] = e
                         \/ \A i \in DOMAIN Page : Later(Page[i], e)
      /\ Len(Page) < PageSize => \A e \in rows : \E i \in DOMAIN Page : Page[i] = e
  BY PageIsNewest
<1>2. Arrives(Page) /\ unread' = unread /\ unread \in BOOLEAN
  BY DEF GetPage, TypeOK
<1> QED BY <1>1, <1>2, ArrivalKeepsReader

(* Nothing, for the query failed: it is in order, and the reading is over. *)
LEMMA GetNothingKeepsReader ==
  ASSUME TimelineInv, ReaderInv, TypeOK, GetNothing
  PROVE  TimelineInv' /\ ReaderInv' /\ TypeOK'
<1> DEFINE rows == {e \in Kept : Before(e) /\ Wanted(e)}
<1>1. Arrives(<<>>) /\ unread' = TRUE
  BY DEF GetNothing
<1>2. <<>> \in Seq(rows) /\ Len(<<>>) = 0 /\ DOMAIN <<>> = {} /\ Descends(<<>>)
  BY DEF Descends
<1>3. Len(<<>>) <= PageSize
  BY <1>2, Sizes DEF TimelineInv
<1> HIDE DEF rows
<1>4. rows = {e \in Kept : Before(e) /\ Wanted(e)}
  BY DEF rows
<1> QED BY <1>1, <1>2, <1>3, <1>4, ArrivalKeepsReader

IInv == TimelineInv /\ ReaderInv /\ TypeOK

LEMMA InitHolds == Init => IInv
<1> SUFFICES ASSUME Init PROVE IInv
  OBVIOUS
<1>1. /\ persistent \in BOOLEAN /\ reading \in Reading
      /\ now = 0 /\ log = <<>> /\ missing = {} /\ status = "reading"
      /\ page = 0 /\ attempt = 1 /\ resumes = 0
      /\ cursor = NoCursor /\ yielded = <<>> /\ first = {} /\ lastPage = FALSE
      /\ unread = FALSE
  BY DEF Init
<1>2. reading.maxPages \in Nat \ {0}
  BY <1>1, ReadingAssumption
<1>3. TimelineInv
  BY <1>1 DEF TimelineInv
<1>4. DOMAIN yielded = {} /\ Len(yielded) = 0
  BY <1>1
<1>5. ReaderInv
  BY <1>1, <1>2, <1>4 DEF ReaderInv, Descends, GapFree
<1>6. unread \in BOOLEAN
  BY <1>1
<1>7. TypeOK
  BY <1>1, <1>2, <1>4, <1>6, SizeAssumption DEF TypeOK
<1> QED BY <1>3, <1>5, <1>7 DEF IInv

(* What a failing request leaves as it was, and what may change. *)
LEMMA WaitingKeepsReader ==
  ASSUME IInv, UNCHANGED <<persistent, now, log, missing, reading, page, cursor, yielded, first, lastPage, unread>>,
         status' \in {status, "thrown"},
         attempt' \in 1..MaxAttempts, resumes' \in 0..MaxResumes
  PROVE  IInv'
<1>1. TimelineInv'
  BY DEF IInv, TimelineInv
<1>2. Stored' = Stored /\ Kept' = Kept
  BY DEF Stored, Kept
<1>3. /\ (EnoughOf(yielded))' <=> EnoughOf(yielded)
      /\ (CursorOf(yielded[Len(yielded)]))' = CursorOf(yielded[Len(yielded)])
  BY DEF EnoughOf, Bounded, Budget, CursorOf
<1>4. status' = "reading" => status = "reading"
  OBVIOUS
<1>5. ReaderInv'
  BY <1>2, <1>3, <1>4 DEF IInv, ReaderInv
<1>6. TypeOK'
  BY <1>2 DEF IInv, TypeOK
<1> QED BY <1>1, <1>5, <1>6 DEF IInv

LEMMA FailureKeepsReader ==
  ASSUME IInv, NEW f \in Failure, RetryRequest(f) \/ Resume(f) \/ Throw(f)
  PROVE  IInv'
<1>1. attempt \in 1..MaxAttempts /\ resumes \in 0..MaxResumes
      /\ MaxAttempts \in Nat \ {0} /\ MaxResumes \in Nat
  BY SizeAssumption DEF IInv, TypeOK
<1>2. /\ UNCHANGED <<persistent, now, log, missing, reading, page, cursor, yielded, first, lastPage, unread>>
      /\ status' \in {status, "thrown"}
  BY DEF RetryRequest, Resume, Throw, Unchanged
<1>3. attempt' \in 1..MaxAttempts /\ resumes' \in 0..MaxResumes
  <2>1. CASE RetryRequest(f)
    BY <1>1, <2>1 DEF RetryRequest
  <2>2. CASE Resume(f)
    BY <1>1, <2>2 DEF Resume, Resumed, NextResume
  <2>3. CASE Throw(f)
    BY <1>1, <2>3 DEF Throw
  <2> QED BY <2>1, <2>2, <2>3
<1> QED BY <1>2, <1>3, WaitingKeepsReader

LEMMA StepHolds == IInv /\ [Next]_vars => IInv'
<1> SUFFICES ASSUME IInv, [Next]_vars PROVE IInv'
  OBVIOUS
<1>1. ASSUME NEW k \in Kind, Push(k) PROVE IInv'
  BY <1>1, PushGrows, GrowthKeepsReader DEF IInv
<1>2. CASE Recover
  BY <1>2, RecoverGrows, GrowthKeepsReader DEF IInv
<1>3. CASE Tick
  BY <1>3, TickGrows, GrowthKeepsReader DEF IInv
<1>4. CASE GetPage
  BY <1>4, GetPageKeepsReader DEF IInv
<1>5. CASE GetNothing
  BY <1>5, GetNothingKeepsReader DEF IInv
<1>6. CASE Fails
  BY <1>6, FailureKeepsReader DEF Fails
<1>7. CASE UNCHANGED vars
  <2>1. attempt \in 1..MaxAttempts /\ resumes \in 0..MaxResumes
    BY DEF IInv, TypeOK
  <2>2. /\ UNCHANGED <<persistent, now, log, missing, reading, page, cursor, yielded, first, lastPage, unread>>
        /\ status' = status /\ attempt' = attempt /\ resumes' = resumes
    BY <1>7 DEF vars, reader
  <2> QED BY <2>1, <2>2, WaitingKeepsReader
<1> QED BY <1>1, <1>2, <1>3, <1>4, <1>5, <1>6, <1>7 DEF Next, Ask

LEMMA Always == Spec => []IInv
  BY InitHolds, StepHolds, PTL DEF Spec

-----------------------------------------------------------------------------
(* Counters, cursor and what was read stay within what the reader asked    *)
(* for and the timeline has.                                               *)
THEOREM PagerTypeCorrect == Spec => []TypeOK
<1>1. IInv => TypeOK
  BY DEF IInv
<1> QED BY <1>1, Always, PTL

(* Whatever is pushed, dropped and stamped anew between two pages, events  *)
(* come newest first, none of them twice.                                  *)
THEOREM EventsComeNewestFirst == Spec => []NewestFirst
<1>1. IInv => NewestFirst
  <2>0. SUFFICES ASSUME IInv PROVE NewestFirst
    OBVIOUS
  <2>1. Descends(yielded) /\ yielded \in Seq(Stored)
    BY <2>0 DEF IInv, ReaderInv
  <2>2. \A i \in DOMAIN yielded : yielded[i] \in Stored
    BY <2>1
  <2> QED BY <2>0, <2>1, <2>2, StoredEvents DEF IInv, Descends, NewestFirst
<1> QED BY <1>1, Always, PTL

(* No page leaves out an event of those asked for. *)
THEOREM PagesHaveNoGaps == Spec => []NoGaps
<1>1. IInv => NoGaps
  <2>0. SUFFICES ASSUME IInv PROVE NoGaps
    OBVIOUS
  <2> SUFFICES ASSUME NEW e \in Stored, Requested(e), yielded # <<>>,
                      ~ Newer(e, yielded[1]), ~ Newer(yielded[Len(yielded)], e)
               PROVE  HasRead(e)
    BY DEF NoGaps
  <2>1. yielded \in Seq(Stored) /\ GapFree(Stored, yielded, reading)
    BY <2>0 DEF IInv, ReaderInv
  <2>2. yielded[1] \in Stored /\ yielded[Len(yielded)] \in Stored
    BY <2>1
  <2>3. ~ Later(e, yielded[1]) /\ ~ Later(yielded[Len(yielded)], e)
    BY <2>0, <2>2, StoredEvents DEF IInv
  <2>4. AsksFor(e, reading)
    BY DEF Requested, AsksFor
  <2> QED BY <2>1, <2>3, <2>4 DEF GapFree, Got, HasRead
<1> QED BY <1>1, Always, PTL

(* Who is told that there is no next page, by a query that did not fail,   *)
(* has all that there was.                                                 *)
THEOREM ReadingIsComplete == Spec => []Complete
<1>1. IInv => Complete
  <2>0. SUFFICES ASSUME IInv PROVE Complete
    OBVIOUS
  <2> QED BY <2>0 DEF IInv, ReaderInv, Complete, Requested, AsksFor, Got, HasRead
<1> QED BY <1>1, Always, PTL

=============================================================================
