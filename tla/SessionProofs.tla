--------------------------- MODULE SessionProofs ---------------------------
(***************************************************************************)
(* Theorems about DriverSessions, for any number of drivers, connections   *)
(* and offers.                                                             *)
(*                                                                         *)
(* The argument for SearchOffersReachDriver: as long as a search's offer   *)
(* is pending and the session in the map is open, there is something ahead *)
(* of the session that will tell it: an announcement in some agenda or a   *)
(* message posted, in its channel or in its own agenda, or its replay.  It *)
(* rests on the shape of agendas: the registration comes only in a whole   *)
(* greeting, so that a replay follows it, and messages to be posted are    *)
(* first in an agenda, so that no task fails between reading an offer and  *)
(* posting it.                                                             *)
(***************************************************************************)
EXTENDS DriverSessions, SequenceTheorems, FunctionTheorems, FiniteSetTheorems, TLAPS

InAgenda(t, item) == \E i \in 1..Len(agenda[t]) : agenda[t][i] = item

InQueue(s, m) == \E i \in 1..Len(queue[s]) : queue[s][i] = m

-----------------------------------------------------------------------------
(* The inductive invariant. *)

Offer == [driver : DriverId, by : {"submit", "search"}, status : OfferStatus]

BookOK ==
  /\ offers \in Seq(Offer) /\ Len(offers) <= MaxOffers
  /\ forgone \subseteq DOMAIN offers

(* Announcements are of offers that were made; a registration is part of a *)
(* greeting; messages are posted first.                                    *)
WellFormed(items, book) ==
  \A i \in 1..Len(items) :
    /\ items[i].do = "announce" => items[i].offer \in DOMAIN book
    /\ items[i].do = "register" => items = Greeting
    /\ items[i].do = "post" => i = 1

AgendaOK ==
  /\ agenda \in [Task -> Seq(Item)]
  /\ \A t \in Task : WellFormed(agenda[t], offers)

ChannelOK ==
  /\ phase \in [SessionId -> {"new", "open", "closing", "closed"}]
  /\ queue \in [SessionId -> Seq(Message)]
  /\ told \in [SessionId -> SUBSET Message]
  /\ \A s \in SessionId : phase[s] # "open" => agenda[s] = <<>>
  /\ \A s \in SessionId : phase[s] \in {"new", "closed"} => queue[s] = <<>>

MapOK ==
  \A d \in DOMAIN sessions :
    /\ sessions[d] \in SessionId
    /\ DriverOf[sessions[d]] = d
    /\ phase[sessions[d]] \in {"open", "closing"}

Ahead(s, o) ==
  \/ OnItsWay(o)
  \/ Told(s, o)
  \/ InQueue(s, Msg("offer", o))
  \/ InAgenda(s, Tell(Msg("offer", o)))
  \/ InAgenda(s, Replay)

Waits(s, o) ==
  /\ phase[s] = "open" /\ Reachable(s)
  /\ o \in OffersOf(DriverOf[s], "Pending")

SearchOffersAhead ==
  \A s \in SessionId : \A o \in DOMAIN offers :
    Waits(s, o) => offers[o].by = "submit" \/ Ahead(s, o)

Types == BookOK /\ AgendaOK /\ ChannelOK /\ MapOK

IInv == Types /\ SearchOffersAhead

-----------------------------------------------------------------------------
(* Sequences and items. *)

LEMMA SetToSeqProperties ==
  ASSUME NEW S, IsFiniteSet(S)
  PROVE  /\ SetToSeq(S) \in Seq(S)
         /\ \A x \in S : \E i \in 1..Len(SetToSeq(S)) : SetToSeq(S)[i] = x
<1> DEFINE D == 1..Cardinality(S)  f == SetToSeq(S)
<1>1. Cardinality(S) \in Nat /\ ExistsBijection(D, S)
  BY FS_CardinalityType
<1>2. PICK g : g \in Bijection(D, S)
  BY <1>1 DEF ExistsBijection
<1>3. g \in [D -> S] /\ \A a, b \in D : g[a] = g[b] => a = b
  BY <1>2, Fun_BijectionProperties
<1>4. \E h \in [D -> S] : IsInjective(h)
  BY <1>3 DEF IsInjective
<1>5. f \in [D -> S] /\ IsInjective(f)
  BY <1>4 DEF SetToSeq
<1> HIDE DEF f
<1>6. f \in Injection(D, S)
  BY <1>5 DEF Injection, IsInjective
<1>7. Cardinality(D) = Cardinality(S)
  BY <1>1, FS_Interval
<1>8. f \in Surjection(D, S)
  BY <1>6, <1>7, FS_Injection
<1>9. \A x \in S : \E i \in D : f[i] = x
  BY <1>8 DEF Surjection
<1>10. f \in Seq(S) /\ Len(f) = Cardinality(S)
  BY <1>1, <1>5
<1>11. QED
  BY <1>9, <1>10 DEF f

LEMMA ItemForms ==
  ASSUME NEW x \in Item
  PROVE  /\ x.do = "announce" => \E o \in OfferId : x = Announce(o)
         /\ x.do = "tell" => \E m \in Message : x = Tell(m)
         /\ x.do = "post" => \E ms \in SUBSET Message : x = Post(ms)
         /\ x.do = "respond" => \E o \in OfferId, a \in BOOLEAN : x = Respond(o, a)
         /\ x.do = "replay" => x = Replay
BY DEF Item, Register, Flush, Replay, Cancellations, Webhook, Tell, Announce, Post, Respond

LEMMA ItemTypes ==
  /\ {Register, Flush, Replay, Cancellations, Webhook} \subseteq Item
  /\ \A m \in Message : Tell(m) \in Item
  /\ \A o \in OfferId : Announce(o) \in Item
  /\ \A ms \in SUBSET Message : Post(ms) \in Item
  /\ \A o \in OfferId, a \in BOOLEAN : Respond(o, a) \in Item
BY DEF Item

LEMMA MessageType ==
  ASSUME NEW kind \in {"offer", "offer_expired", "offer_cancelled", "matched"},
         NEW o \in OfferId
  PROVE  Msg(kind, o) \in Message
BY DEF Msg, Message

LEMMA MessagesFinite == \A ms \in SUBSET Message : IsFiniteSet(ms)
<1> DEFINE K == {"offer", "offer_expired", "offer_cancelled", "matched"}
           f == [p \in K \X OfferId |-> Msg(p[1], p[2])]
<1>1. IsFiniteSet({"offer"} \cup {"offer_expired"} \cup {"offer_cancelled"} \cup {"matched"})
  BY FS_Singleton, FS_Union
<1>2. IsFiniteSet(K)
  <2>1. K = {"offer"} \cup {"offer_expired"} \cup {"offer_cancelled"} \cup {"matched"}
    OBVIOUS
  <2>2. QED
    BY <1>1, <2>1
<1>3. IsFiniteSet(OfferId)
  BY MaxOffersAssumption, FS_Interval DEF OfferId
<1>4. IsFiniteSet(K \X OfferId)
  BY <1>2, <1>3, FS_Product
<1>5. f \in Surjection(K \X OfferId, Message)
  <2>1. \A p \in K \X OfferId : f[p] \in Message
    BY DEF Msg, Message
  <2>2. ASSUME NEW m \in Message
        PROVE  \E p \in K \X OfferId : f[p] = m
    <3>1. <<m.kind, m.offer>> \in K \X OfferId /\ m = Msg(m.kind, m.offer)
      BY DEF Message, Msg
    <3>2. QED
      BY <3>1
  <2>3. f \in [K \X OfferId -> Message]
    BY <2>1
  <2> HIDE DEF f
  <2>4. QED
    BY <2>2, <2>3, Fun_IsSurj
<1>6. IsFiniteSet(Message)
  BY <1>4, <1>5, FS_Surjection
<1>7. QED
  BY <1>6, FS_Subset

LEMMA OffersKnown ==
  ASSUME BookOK
  PROVE  /\ DOMAIN offers = 1..Len(offers) /\ Len(offers) \in Nat
         /\ DOMAIN offers \subseteq OfferId
         /\ \A d, status : OffersOf(d, status) \subseteq OfferId
         /\ \A os \in SUBSET OfferId : IsFiniteSet(os)
<1>1. DOMAIN offers = 1..Len(offers) /\ Len(offers) \in Nat
  BY DEF BookOK
<1>2. DOMAIN offers \subseteq OfferId
  BY <1>1, MaxOffersAssumption DEF BookOK, OfferId
<1>3. IsFiniteSet(OfferId)
  BY MaxOffersAssumption, FS_Interval DEF OfferId
<1>4. QED
  BY <1>1, <1>2, <1>3, FS_Subset DEF OffersOf

LEMMA TellEachProperties ==
  ASSUME NEW kind \in {"offer", "offer_expired"}, NEW os \in SUBSET OfferId, IsFiniteSet(os)
  PROVE  /\ TellEach(kind, os) \in Seq(Item)
         /\ \A i \in 1..Len(TellEach(kind, os)) : TellEach(kind, os)[i].do = "tell"
         /\ \A o \in os : \E i \in 1..Len(TellEach(kind, os)) :
              TellEach(kind, os)[i] = Tell(Msg(kind, o))
<1> DEFINE T == {Tell(Msg(kind, o)) : o \in os}
           f == [o \in os |-> Tell(Msg(kind, o))]
           q == SetToSeq(T)
<1>1. f \in Surjection(os, T)
  BY Fun_IsSurj
<1>2. IsFiniteSet(T)
  BY <1>1, FS_Surjection
<1>3. T \subseteq Item /\ \A x \in T : x.do = "tell"
  BY ItemTypes, MessageType DEF Tell
<1>4. q \in Seq(T) /\ \A x \in T : \E i \in 1..Len(q) : q[i] = x
  BY <1>2, SetToSeqProperties
<1>5. \A o \in os : Tell(Msg(kind, o)) \in T
  OBVIOUS
<1>6. q = TellEach(kind, os)
  BY DEF TellEach
<1> HIDE DEF T, q
<1>7. q \in Seq(Item)
  BY <1>3, <1>4, SeqMonotonic
<1>8. \A i \in 1..Len(q) : q[i] \in T
  BY <1>4
<1>9. QED
  BY <1>3, <1>4, <1>5, <1>6, <1>7, <1>8

-----------------------------------------------------------------------------
(* Agendas. *)

(* A step of task t may take away the first item of t's agenda, and when   *)
(* it ends a session what its agenda still held, no announcement of which  *)
(* goes unrecorded.                                                        *)
Keeps(t) ==
  \A u \in Task : \A x : InAgenda(u, x) =>
    \/ InAgenda(u, x)'
    \/ u = t /\ agenda[t] # <<>> /\ x = Head(agenda[t])
    \/ x.do = "announce" /\ x.offer \in forgone'
    \/ x.do \in {"tell", "replay"} /\ u \in SessionId /\ phase'[u] # "open"
    \/ x.do \notin {"announce", "post", "tell", "replay"}

LEMMA BeforeKeeps ==
  ASSUME AgendaOK, NEW t \in Task, agenda[t] # <<>>, NEW items \in Seq(Item),
         \A i \in 1..Len(items) :
           /\ items[i].do = "announce" => items[i].offer \in DOMAIN offers'
           /\ items[i].do # "register"
           /\ items[i].do = "post" => i = 1,
         DOMAIN offers \subseteq DOMAIN offers', Before(t, items)
  PROVE  /\ AgendaOK' /\ Keeps(t)
         /\ \A i \in 1..Len(items) : InAgenda(t, items[i])'
         /\ \A u \in Task \ {t} : agenda'[u] = agenda[u]
<1> DEFINE a == agenda[t]  b == items \o Tail(a)
<1>1. a \in Seq(Item) /\ Len(a) \in Nat /\ Len(a) > 0 /\ Len(items) \in Nat
  BY DEF AgendaOK
<1>2. /\ Tail(a) \in Seq(Item) /\ Len(Tail(a)) = Len(a) - 1
      /\ \A i \in 1..Len(a) - 1 : Tail(a)[i] = a[i + 1]
      /\ Head(a) = a[1]
  BY <1>1, HeadTailProperties
<1>3. /\ agenda' = [agenda EXCEPT ![t] = b]
      /\ agenda \in [Task -> Seq(Item)]
      /\ WellFormed(a, offers)
  BY DEF Before, Put, AgendaOK
<1> HIDE DEF a
<1>4. /\ b \in Seq(Item)
      /\ Len(b) = Len(items) + Len(a) - 1
      /\ \A i \in 1..Len(b) : b[i] = IF i <= Len(items) THEN items[i] ELSE Tail(a)[i - Len(items)]
  <2>1. /\ b \in Seq(Item) /\ Len(b) = Len(items) + Len(Tail(a))
        /\ \A i \in 1 .. Len(items) + Len(Tail(a)) :
             b[i] = IF i <= Len(items) THEN items[i] ELSE Tail(a)[i - Len(items)]
    BY <1>2, ConcatProperties
  <2> HIDE DEF b
  <2>2. QED
    BY <1>1, <1>2, <2>1
<1> HIDE DEF b
<1>5. /\ agenda'[t] = b /\ \A u \in Task \ {t} : agenda'[u] = agenda[u]
      /\ agenda' \in [Task -> Seq(Item)]
  BY <1>3, <1>4
<1>6. \A i \in 1..Len(items) : i \in 1..Len(b) /\ b[i] = items[i]
  BY <1>1, <1>4
<1>7. \A k \in 2..Len(a) : /\ Len(items) + k - 1 \in 1..Len(b)
                           /\ b[Len(items) + k - 1] = a[k]
  <2>1. ASSUME NEW k \in 2..Len(a)
        PROVE  /\ Len(items) + k - 1 \in 1..Len(b)
               /\ b[Len(items) + k - 1] = a[k]
    <3>1. /\ Len(items) + k - 1 \in 1..Len(b) /\ ~ (Len(items) + k - 1 <= Len(items))
          /\ (Len(items) + k - 1) - Len(items) = k - 1
          /\ k - 1 \in 1..Len(a) - 1 /\ (k - 1) + 1 = k
      BY <1>1, <1>4
    <3>2. QED
      BY <1>2, <1>4, <3>1
  <2>2. QED
    BY <2>1
<1>8. \A i \in 1..Len(b) : \/ i \in 1..Len(items) /\ b[i] = items[i]
                           \/ \E k \in 2..Len(a) : b[i] = a[k]
  <2>1. ASSUME NEW i \in 1..Len(b), i > Len(items)
        PROVE  \E k \in 2..Len(a) : b[i] = a[k]
    <3>1. /\ i - Len(items) + 1 \in 2..Len(a)
          /\ Len(items) + (i - Len(items) + 1) - 1 = i
      BY <1>1, <1>4, <2>1
    <3>2. QED
      BY <1>7, <3>1
  <2>2. QED
    BY <1>1, <1>6, <2>1
<1>9. \A k \in 2..Len(a) : /\ a[k].do \notin {"register", "post"}
                           /\ a[k].do = "announce" => a[k].offer \in DOMAIN offers'
  <2>1. ASSUME NEW k \in 2..Len(a)
        PROVE  /\ a[k].do \notin {"register", "post"}
               /\ a[k].do = "announce" => a[k].offer \in DOMAIN offers'
    <3>1. k \in 1..Len(a) /\ k # 1
      BY <1>1
    <3>2. a[k].do # "register"
      <4>1. a = Greeting => a[k] \in {Flush, Replay}
        BY <3>1 DEF Greeting
      <4>2. QED
        BY <1>3, <3>1, <4>1 DEF WellFormed, Flush, Replay
    <3>3. QED
      BY <1>3, <3>1, <3>2 DEF WellFormed
  <2>2. QED
    BY <2>1
<1>10. WellFormed(b, offers')
  BY <1>8, <1>9 DEF WellFormed
<1>11. AgendaOK'
  <2>1. ASSUME NEW u \in Task, u # t
        PROVE  WellFormed(agenda'[u], offers')
    BY <1>5, <2>1 DEF AgendaOK, WellFormed
  <2>2. QED
    BY <1>5, <1>10, <2>1 DEF AgendaOK
<1>12. Keeps(t)
  <2>1. ASSUME NEW x, InAgenda(t, x), x # Head(a)
        PROVE  InAgenda(t, x)'
    <3>1. PICK k \in 1..Len(a) : a[k] = x
      BY <2>1 DEF InAgenda, a
    <3>2. k \in 2..Len(a)
      BY <1>1, <1>2, <2>1, <3>1
    <3>3. QED
      BY <1>5, <1>7, <3>1, <3>2 DEF InAgenda
  <2>2. \A u \in Task \ {t} : \A x : InAgenda(u, x) => InAgenda(u, x)'
    BY <1>5 DEF InAgenda
  <2>3. QED
    BY <2>1, <2>2 DEF Keeps, a
<1>13. QED
  BY <1>5, <1>6, <1>11, <1>12 DEF InAgenda

LEMMA GoOnKeeps ==
  ASSUME AgendaOK, NEW t \in Task, agenda[t] # <<>>,
         DOMAIN offers \subseteq DOMAIN offers', GoOn(t)
  PROVE  AgendaOK' /\ Keeps(t) /\ \A u \in Task \ {t} : agenda'[u] = agenda[u]
<1>1. Tail(agenda[t]) \in Seq(Item)
  BY HeadTailProperties DEF AgendaOK
<1>2. <<>> \o Tail(agenda[t]) = Tail(agenda[t])
  BY <1>1, ConcatEmptySeq
<1>3. PICK items \in Seq(Item) : items = <<>>
  BY EmptySeq
<1>4. Before(t, items)
  BY <1>2, <1>3 DEF GoOn, Before
<1>5. \A i \in 1..Len(items) : FALSE
  BY <1>3
<1>6. QED
  BY <1>4, <1>5, BeforeKeeps

LEMMA PutKeeps ==
  ASSUME AgendaOK, NEW t \in Task, agenda[t] = <<>>, NEW items \in Seq(Item),
         WellFormed(items, offers'),
         DOMAIN offers \subseteq DOMAIN offers', Put(t, items)
  PROVE  /\ AgendaOK' /\ Keeps(t) /\ agenda'[t] = items
         /\ \A i \in 1..Len(items) : InAgenda(t, items[i])'
         /\ \A u \in Task \ {t} : agenda'[u] = agenda[u]
<1>1. /\ agenda' \in [Task -> Seq(Item)] /\ agenda'[t] = items
      /\ \A u \in Task \ {t} : agenda'[u] = agenda[u]
  BY DEF AgendaOK, Put
<1>2. AgendaOK'
  <2>1. ASSUME NEW u \in Task, u # t
        PROVE  WellFormed(agenda'[u], offers')
    BY <1>1, <2>1 DEF AgendaOK, WellFormed
  <2>2. QED
    BY <1>1, <2>1 DEF AgendaOK
<1>3. Keeps(t)
  <2>1. \A x : ~ InAgenda(t, x)
    BY DEF InAgenda
  <2>2. QED
    BY <1>1, <2>1 DEF Keeps, InAgenda
<1>4. QED
  BY <1>1, <1>2, <1>3 DEF InAgenda

(* A task that fails is not about to post. *)
LEMMA BreakKeeps ==
  ASSUME AgendaOK, phase \in [SessionId -> {"new", "open", "closing", "closed"}],
         NEW s \in SessionId, Break(s),
         agenda[s] # <<>> => Head(agenda[s]).do # "post",
         DOMAIN offers \subseteq DOMAIN offers'
  PROVE  /\ AgendaOK' /\ Keeps(s) /\ agenda'[s] = <<>>
         /\ \A u \in Task \ {s} : agenda'[u] = agenda[u]
         /\ phase' = [phase EXCEPT ![s] = "closing"]
         /\ forgone \subseteq forgone'
         /\ forgone' \subseteq forgone \cup DOMAIN offers
<1>0. s \in Task /\ agenda[s] \in Seq(Item)
  BY DEF Task, AgendaOK
<1>1. /\ agenda' = [agenda EXCEPT ![s] = <<>>]
      /\ phase' = [phase EXCEPT ![s] = "closing"]
      /\ forgone' = forgone \cup {agenda[s][i].offer : i \in Announcements(agenda[s])}
  BY DEF Break
<1>2. /\ agenda' \in [Task -> Seq(Item)] /\ agenda'[s] = <<>>
      /\ \A u \in Task \ {s} : agenda'[u] = agenda[u]
  BY <1>0, <1>1, EmptySeq DEF AgendaOK
<1>3. AgendaOK'
  <2>1. ASSUME NEW u \in Task, u # s
        PROVE  WellFormed(agenda'[u], offers')
    BY <1>2, <2>1 DEF AgendaOK, WellFormed
  <2>2. WellFormed(<<>>, offers')
    BY DEF WellFormed
  <2>3. QED
    BY <1>2, <2>1, <2>2 DEF AgendaOK
<1>4. \A i \in 1..Len(agenda[s]) :
        agenda[s][i].do = "announce" => agenda[s][i].offer \in forgone'
  BY <1>0, <1>1 DEF Announcements
<1>5. \A i \in 1..Len(agenda[s]) : agenda[s][i].do # "post"
  <2>1. ASSUME NEW i \in 1..Len(agenda[s]), agenda[s][i].do = "post"
        PROVE  FALSE
    <3>1. i = 1
      BY <1>0, <2>1 DEF AgendaOK, WellFormed
    <3>2. agenda[s] # <<>> /\ Head(agenda[s]) = agenda[s][1]
      BY <1>0, <2>1
    <3>3. QED
      BY <2>1, <3>1, <3>2
  <2>2. QED
    BY <2>1
<1>6. phase'[s] # "open"
  BY <1>1
<1>7. Keeps(s)
  BY <1>2, <1>4, <1>5, <1>6 DEF Keeps, InAgenda
<1>8. forgone' \subseteq forgone \cup DOMAIN offers
  BY <1>0, <1>1 DEF Announcements, AgendaOK, WellFormed
<1>9. QED
  BY <1>1, <1>2, <1>3, <1>7, <1>8

-----------------------------------------------------------------------------
(* The step lemma: something stays ahead of every session that waits.      *)

WasWaiting(s, o) == o \in DOMAIN offers /\ Waits(s, o) /\ offers'[o].by = offers[o].by

(* What a step by task t owes the offer of a waiting session when it does  *)
(* the item that was ahead.                                                *)
Owed(t, s, o) ==
  /\ agenda[t] # <<>>
  /\ \/ Head(agenda[t]) \in {Announce(o), Post({Msg("offer", o)})}
     \/ t = s /\ Head(agenda[t]) \in {Tell(Msg("offer", o)), Replay}

LEMMA OnItsWayForm ==
  ASSUME AgendaOK, NEW o
  PROVE  OnItsWay(o) <=> \/ \E t \in Task : InAgenda(t, Announce(o))
                                         \/ InAgenda(t, Post({Msg("offer", o)}))
                         \/ o \in forgone
<1>1. \A t \in Task : DOMAIN agenda[t] = 1..Len(agenda[t])
  BY DEF AgendaOK
<1>2. QED
  BY <1>1 DEF OnItsWay, InAgenda

LEMMA OnItsWayNext ==
  ASSUME AgendaOK', NEW o,
         \/ \E t \in Task : InAgenda(t, Announce(o))' \/ InAgenda(t, Post({Msg("offer", o)}))'
         \/ o \in forgone'
  PROVE  OnItsWay(o)'
<1>1. \A t \in Task : DOMAIN agenda'[t] = 1..Len(agenda'[t])
  BY DEF AgendaOK
<1>2. QED
  BY <1>1 DEF OnItsWay, InAgenda

LEMMA AheadStep ==
  ASSUME SearchOffersAhead, AgendaOK, AgendaOK', NEW t \in Task, Keeps(t),
         forgone \subseteq forgone',
         \A s \in SessionId : phase'[s] = "open" =>
           /\ told[s] \subseteq told'[s]
           /\ \A m : InQueue(s, m) => InQueue(s, m)' \/ InAgenda(s, Tell(m))',
         \A s \in SessionId : \A o \in DOMAIN offers' : Waits(s, o)' =>
           \/ WasWaiting(s, o) /\ (Owed(t, s, o) => Ahead(s, o)')
           \/ offers'[o].by = "submit"
           \/ Ahead(s, o)'
  PROVE  SearchOffersAhead'
<1> SUFFICES ASSUME NEW s \in SessionId, NEW o \in DOMAIN offers', Waits(s, o)',
                    offers'[o].by # "submit"
             PROVE  Ahead(s, o)'
  BY DEF SearchOffersAhead
<1>1. SUFFICES ASSUME WasWaiting(s, o), ~ Owed(t, s, o)
               PROVE  Ahead(s, o)'
  OBVIOUS
<1>2. phase'[s] = "open" /\ s \in Task
  BY DEF Waits, Task
<1>3. Ahead(s, o)
  BY <1>1 DEF WasWaiting, SearchOffersAhead
<1>4. CASE \E u \in Task : InAgenda(u, Announce(o)) \/ InAgenda(u, Post({Msg("offer", o)}))
  <2>1. PICK u \in Task, x \in {Announce(o), Post({Msg("offer", o)})} : InAgenda(u, x)
    BY <1>4
  <2>2. ~ (u = t /\ agenda[t] # <<>> /\ x = Head(agenda[t]))
    BY <1>1, <2>1 DEF Owed
  <2>3. /\ x.do \in {"announce", "post"}
        /\ x.do = "announce" => x = Announce(o) /\ x.offer = o
    BY <2>1 DEF Announce, Post
  <2>4. InAgenda(u, x)' \/ o \in forgone'
    BY <2>1, <2>2, <2>3 DEF Keeps
  <2>5. OnItsWay(o)'
    BY <2>1, <2>4, OnItsWayNext
  <2>6. QED
    BY <2>5 DEF Ahead
<1>5. CASE o \in forgone
  BY <1>5 DEF Ahead, OnItsWay
<1>6. CASE Told(s, o)
  BY <1>2, <1>6 DEF Ahead, Told
<1>7. CASE InQueue(s, Msg("offer", o))
  BY <1>2, <1>7 DEF Ahead
<1>8. CASE \E x \in {Tell(Msg("offer", o)), Replay} : InAgenda(s, x)
  <2>1. PICK x \in {Tell(Msg("offer", o)), Replay} : InAgenda(s, x)
    BY <1>8
  <2>2. ~ (s = t /\ agenda[t] # <<>> /\ x = Head(agenda[t]))
    BY <1>1, <2>1 DEF Owed
  <2>3. x.do \in {"tell", "replay"}
    BY <2>1 DEF Tell, Replay
  <2>4. InAgenda(s, x)'
    BY <1>2, <2>1, <2>2, <2>3 DEF Keeps
  <2>5. QED
    BY <2>1, <2>4 DEF Ahead
<1>9. QED
  BY <1>3, <1>4, <1>5, <1>6, <1>7, <1>8, OnItsWayForm DEF Ahead

(* Offers only age: none becomes pending again or changes hands. *)
Ages(book, later) ==
  /\ DOMAIN book \subseteq DOMAIN later
  /\ \A o \in DOMAIN book :
       /\ later[o].driver = book[o].driver /\ later[o].by = book[o].by
       /\ later[o].status = "Pending" => book[o].status = "Pending"

LEMMA StillWaiting ==
  ASSUME Ages(offers, offers'), NEW s \in SessionId, NEW o \in DOMAIN offers, Waits(s, o)',
         phase[s] = "open", Reachable(s)
  PROVE  WasWaiting(s, o)
BY DEF Ages, Waits, WasWaiting, OffersOf

(* Steps of sessions that neither connect nor register, for a new offer    *)
(* that is announced or submitted.                                         *)
LEMMA PlainStep ==
  ASSUME Types, SearchOffersAhead, AgendaOK', NEW t \in Task, Keeps(t),
         forgone \subseteq forgone',
         \A s \in SessionId : phase'[s] = "open" =>
           /\ phase[s] = "open"
           /\ Reachable(s)' => Reachable(s)
           /\ told[s] \subseteq told'[s]
           /\ \A m : InQueue(s, m) => InQueue(s, m)' \/ InAgenda(s, Tell(m))',
         Ages(offers, offers'),
         \A o \in DOMAIN offers' \ DOMAIN offers :
           offers'[o].by = "submit" \/ \E u \in Task : InAgenda(u, Announce(o))',
         \A s \in SessionId : \A o \in DOMAIN offers :
           WasWaiting(s, o) /\ Waits(s, o)' /\ Owed(t, s, o) => Ahead(s, o)'
  PROVE  SearchOffersAhead'
<1>1. ASSUME NEW s \in SessionId, NEW o \in DOMAIN offers', Waits(s, o)'
      PROVE  \/ WasWaiting(s, o) /\ (Owed(t, s, o) => Ahead(s, o)')
             \/ offers'[o].by = "submit"
             \/ Ahead(s, o)'
  <2>1. phase'[s] = "open" /\ phase[s] = "open" /\ Reachable(s)
    BY <1>1 DEF Waits
  <2>2. CASE o \in DOMAIN offers
    BY <1>1, <2>1, <2>2, StillWaiting
  <2>3. CASE o \notin DOMAIN offers /\ \E u \in Task : InAgenda(u, Announce(o))'
    BY <2>3, OnItsWayNext DEF Ahead
  <2>4. QED
    BY <1>1, <2>2, <2>3
<1>2. QED
  BY <1>1, AheadStep DEF Types

-----------------------------------------------------------------------------
(* The book. *)

LEMMA AppendAges ==
  ASSUME NEW book \in Seq(Offer), NEW e \in Offer
  PROVE  /\ Append(book, e) \in Seq(Offer) /\ Len(Append(book, e)) = Len(book) + 1
         /\ Ages(book, Append(book, e))
         /\ \A o \in DOMAIN Append(book, e) \ DOMAIN book : o = Len(book) + 1
         /\ Len(book) + 1 \in DOMAIN Append(book, e)
         /\ Append(book, e)[Len(book) + 1] = e
<1>1. /\ Append(book, e) \in Seq(Offer)
      /\ Len(Append(book, e)) = Len(book) + 1
      /\ \A i \in 1..Len(book) : Append(book, e)[i] = book[i]
      /\ Append(book, e)[Len(book) + 1] = e
  BY AppendProperties
<1>2. DOMAIN book = 1..Len(book) /\ DOMAIN Append(book, e) = 1..Len(Append(book, e))
      /\ Len(book) \in Nat
  BY <1>1
<1>3. QED
  BY <1>1, <1>2 DEF Ages

(* A search adds at most one offer, which it announces. *)
LEMMA SearchProperties ==
  ASSUME BookOK, NEW book \in Seq(Offer), Len(book) = Len(offers), Ages(offers, book),
         NEW update \in NextSearch(book), offers' = update.offers
  PROVE  /\ offers' \in Seq(Offer) /\ Len(offers') <= MaxOffers
         /\ Ages(offers, offers')
         /\ update.news \in Seq(Item)
         /\ \A i \in 1..Len(update.news) :
              /\ update.news[i].do = "announce"
              /\ update.news[i].offer \in DOMAIN offers'
         /\ \A o \in DOMAIN offers' \ DOMAIN offers :
              \E i \in 1..Len(update.news) : update.news[i] = Announce(o)
<1>1. DOMAIN book = 1..Len(book) /\ DOMAIN offers = 1..Len(book) /\ Len(book) \in Nat
  BY DEF BookOK
<1>2. CASE update = [offers |-> book, news |-> <<>>]
  <2>1. update.offers = book /\ update.news = <<>>
    BY <1>2
  <2>2. <<>> \in Seq(Item) /\ Len(<<>>) = 0
    BY EmptySeq
  <2>3. QED
    BY <1>1, <2>1, <2>2 DEF BookOK
<1>3. CASE \E d \in DriverId :
             /\ MaySearch(book, d)
             /\ update = [offers |-> WithOffer(book, d, "search"),
                          news |-> <<Announce(Len(book) + 1)>>]
  <2>1. PICK d \in DriverId :
          /\ MaySearch(book, d)
          /\ update = [offers |-> WithOffer(book, d, "search"),
                       news |-> <<Announce(Len(book) + 1)>>]
    BY <1>3
  <2> DEFINE e == [driver |-> d, status |-> "Pending", by |-> "search"]
             n == Len(book) + 1
  <2>2. e \in Offer
    BY DEF Offer, OfferStatus
  <2>3. offers' = Append(book, e) /\ update.news = <<Announce(n)>> /\ Len(book) < MaxOffers
    BY <2>1 DEF WithOffer, MaySearch
  <2> HIDE DEF e
  <2>4. /\ offers' \in Seq(Offer) /\ Len(offers') = n /\ Ages(book, offers')
        /\ \A o \in DOMAIN offers' \ DOMAIN book : o = n
        /\ n \in DOMAIN offers'
    BY <2>2, <2>3, AppendAges
  <2>5. n \in OfferId /\ n <= MaxOffers
    BY <1>1, <2>3, MaxOffersAssumption DEF OfferId
  <2>6. Announce(n) \in Item /\ Announce(n).do = "announce" /\ Announce(n).offer = n
    BY <2>5, ItemTypes DEF Announce
  <2>7. /\ update.news \in Seq(Item) /\ Len(update.news) = 1 /\ update.news[1] = Announce(n)
    BY <2>3, <2>6
  <2> HIDE DEF n
  <2>8. Ages(offers, offers')
    BY <2>4 DEF Ages
  <2>9. 1 \in 1..Len(update.news) /\ \A i \in 1..Len(update.news) : i = 1
    BY <2>7
  <2>10. QED
    BY <1>1, <2>4, <2>5, <2>6, <2>7, <2>8, <2>9
<1>4. QED
  BY <1>2, <1>3 DEF NextSearch

(* Setting statuses, none of them to pending. *)
LEMMA SettleAges ==
  ASSUME BookOK, NEW o, NEW status \in OfferStatus \ {"Pending"}
  PROVE  /\ Settle(o, status) \in Seq(Offer)
         /\ Len(Settle(o, status)) = Len(offers)
         /\ DOMAIN Settle(o, status) = DOMAIN offers
         /\ Ages(offers, Settle(o, status))
<1> DEFINE book == Settle(o, status)
<1>1. DOMAIN offers = 1..Len(offers) /\ Len(offers) \in Nat
  BY DEF BookOK
<1>2. DOMAIN book = DOMAIN offers
  BY DEF Settle
<1>3. ASSUME NEW i \in DOMAIN offers
      PROVE  /\ book[i] \in Offer
             /\ book[i].driver = offers[i].driver /\ book[i].by = offers[i].by
             /\ book[i].status = "Pending" => offers[i].status = "Pending"
  <2>1. offers[i] \in Offer
    BY <1>1, <1>3 DEF BookOK
  <2>2. book[i] = IF i = o THEN [offers[i] EXCEPT !.status = status] ELSE offers[i]
    BY <1>3 DEF Settle
  <2>3. QED
    BY <2>1, <2>2 DEF Offer
<1>4. book = [i \in 1..Len(offers) |-> book[i]]
  BY <1>1 DEF Settle
<1> HIDE DEF book
<1>5. [i \in 1..Len(offers) |-> book[i]] \in Seq(Offer)
  BY <1>1, <1>3, IsASeq
<1>6. book \in Seq(Offer) /\ Len(book) = Len(offers)
  BY <1>1, <1>2, <1>4, <1>5
<1>7. QED
  BY <1>2, <1>3, <1>6 DEF Ages, book

LEMMA ExpireAges ==
  ASSUME BookOK, NEW late
  PROVE  /\ Expire(late) \in Seq(Offer)
         /\ Len(Expire(late)) = Len(offers)
         /\ Ages(offers, Expire(late))
<1> DEFINE book == Expire(late)
<1>1. DOMAIN offers = 1..Len(offers) /\ Len(offers) \in Nat
  BY DEF BookOK
<1>2. ASSUME NEW i \in DOMAIN offers
      PROVE  /\ book[i] \in Offer
             /\ book[i].driver = offers[i].driver /\ book[i].by = offers[i].by
             /\ book[i].status = "Pending" => offers[i].status = "Pending"
  <2>1. offers[i] \in Offer
    BY <1>1, <1>2 DEF BookOK
  <2>2. book[i] = IF i \in late THEN [offers[i] EXCEPT !.status = "Expired"] ELSE offers[i]
    BY <1>2 DEF Expire
  <2>3. QED
    BY <2>1, <2>2 DEF Offer, OfferStatus
<1>3. book = [i \in 1..Len(offers) |-> book[i]]
  BY <1>1 DEF Expire
<1> HIDE DEF book
<1>4. [i \in 1..Len(offers) |-> book[i]] \in Seq(Offer)
  BY <1>1, <1>2, IsASeq
<1>5. book \in Seq(Offer) /\ Len(book) = Len(offers) /\ DOMAIN book = DOMAIN offers
  BY <1>1, <1>3, <1>4
<1>6. QED
  BY <1>2, <1>5 DEF Ages, book

LEMMA AcceptedAges ==
  ASSUME BookOK, NEW o, offers[o].status = "Pending"
  PROVE  /\ Accepted(o) \in Seq(Offer)
         /\ Len(Accepted(o)) = Len(offers)
         /\ DOMAIN Accepted(o) = DOMAIN offers
         /\ Ages(offers, Accepted(o))
<1> DEFINE book == Accepted(o)
<1>1. DOMAIN offers = 1..Len(offers) /\ Len(offers) \in Nat
  BY DEF BookOK
<1>2. ASSUME NEW i \in DOMAIN offers
      PROVE  /\ book[i] \in Offer
             /\ book[i].driver = offers[i].driver /\ book[i].by = offers[i].by
             /\ book[i].status = "Pending" => offers[i].status = "Pending"
  <2>1. offers[i] \in Offer
    BY <1>1, <1>2 DEF BookOK
  <2>2. book[i] = IF i = o THEN [offers[i] EXCEPT !.status = "Accepted"]
                  ELSE IF offers[i].status \in {"Pending", "Overdue"}
                       THEN [offers[i] EXCEPT !.status = "Cancelled"] ELSE offers[i]
    BY <1>2 DEF Accepted
  <2>3. QED
    BY <2>1, <2>2 DEF Offer, OfferStatus
<1>3. book = [i \in 1..Len(offers) |-> book[i]] /\ DOMAIN book = DOMAIN offers
  BY <1>1 DEF Accepted
<1> HIDE DEF book
<1>4. [i \in 1..Len(offers) |-> book[i]] \in Seq(Offer)
  BY <1>1, <1>2, IsASeq
<1>5. book \in Seq(Offer) /\ Len(book) = Len(offers)
  BY <1>1, <1>3, <1>4
<1>6. QED
  BY <1>2, <1>3, <1>5 DEF Ages, book

LEMMA SameAges == offers' = offers => Ages(offers, offers')
BY DEF Ages

-----------------------------------------------------------------------------
(* One lemma per action.                                                   *)

QueuesSame == queue' = queue /\ told' = told

LEMMA ConnectKeeps ==
  ASSUME IInv, NEW s \in SessionId, Connect(s)
  PROVE  IInv'
<1>1. /\ phase[s] = "new" /\ phase' = [phase EXCEPT ![s] = "open"] /\ Put(s, Greeting)
      /\ UNCHANGED <<offers, sessions, queue, told, forgone>>
  BY DEF Connect
<1>2. s \in Task /\ agenda[s] = <<>>
  BY <1>1 DEF IInv, Types, ChannelOK, Task
<1>3. /\ Greeting \in Seq(Item) /\ Len(Greeting) = 3
      /\ Greeting[1] = Register /\ Greeting[2] = Flush /\ Greeting[3] = Replay
  BY ItemTypes DEF Greeting
<1>4. WellFormed(Greeting, offers')
  <2>1. \A i \in 1..Len(Greeting) : Greeting[i].do \notin {"announce", "post"}
    <3>1. \A i \in 1..Len(Greeting) : i \in {1, 2, 3}
      BY <1>3
    <3>2. QED
      BY <1>3, <3>1 DEF Register, Flush, Replay
  <2>2. QED
    BY <2>1 DEF WellFormed
<1>5. AgendaOK' /\ Keeps(s) /\ \A u \in Task \ {s} : agenda'[u] = agenda[u]
  BY <1>1, <1>2, <1>3, <1>4, PutKeeps DEF IInv, Types
<1>6. BookOK' /\ MapOK' /\ ChannelOK'
  <2>1. \A u \in SessionId : u \in Task
    BY DEF Task
  <2>2. MapOK'
    BY <1>1 DEF IInv, Types, MapOK, ChannelOK
  <2>3. ChannelOK'
    BY <1>1, <1>2, <1>5, <2>1 DEF IInv, Types, ChannelOK
  <2>4. QED
    BY <1>1, <2>2, <2>3 DEF IInv, Types, BookOK
<1>7. SearchOffersAhead'
  <2>1. ~ Reachable(s)
    BY <1>1 DEF IInv, Types, MapOK, Reachable
  <2>2. ASSUME NEW u \in SessionId, NEW o \in DOMAIN offers', Waits(u, o)'
        PROVE  WasWaiting(u, o) /\ ~ Owed(s, u, o)
    <3>1. u # s /\ phase[u] = "open" /\ Reachable(u)
      BY <1>1, <2>1, <2>2 DEF Waits, Reachable, IInv, Types, ChannelOK
    <3>2. QED
      BY <1>1, <1>2, <2>2, <3>1, SameAges, StillWaiting DEF Owed
  <2>3. QED
    BY <1>1, <1>2, <1>5, <2>2, AheadStep DEF IInv, Types, InQueue
<1>8. QED
  BY <1>5, <1>6, <1>7 DEF IInv, Types

LEMMA RegisterKeeps ==
  ASSUME IInv, NEW s \in SessionId, RegisterStep(s)
  PROVE  IInv'
<1>1. /\ agenda[s] # <<>> /\ Head(agenda[s]).do = "register" /\ GoOn(s)
      /\ sessions' = [d \in DOMAIN sessions \cup {DriverOf[s]} |->
                        IF d = DriverOf[s] THEN s ELSE sessions[d]]
      /\ UNCHANGED <<offers, phase, queue, told, forgone>>
  BY DEF RegisterStep, Has
<1>2. s \in Task /\ phase[s] = "open" /\ agenda \in [Task -> Seq(Item)]
  BY <1>1 DEF IInv, Types, ChannelOK, AgendaOK, Task
<1>3. AgendaOK' /\ Keeps(s) /\ \A u \in Task \ {s} : agenda'[u] = agenda[u]
  BY <1>1, <1>2, GoOnKeeps DEF IInv, Types
<1>4. agenda[s] = Greeting
  <2>1. 1 \in 1..Len(agenda[s]) /\ Head(agenda[s]) = agenda[s][1]
    BY <1>1, <1>2
  <2>2. QED
    BY <1>1, <1>2, <2>1 DEF IInv, Types, AgendaOK, WellFormed
<1>5. InAgenda(s, Replay)'
  <2>1. agenda'[s] = Tail(Greeting)
    BY <1>1, <1>2, <1>4 DEF GoOn, Put
  <2>2. Greeting \in Seq(Item) /\ Greeting # <<>> /\ Len(Greeting) = 3 /\ Greeting[3] = Replay
    BY ItemTypes DEF Greeting
  <2> HIDE DEF Greeting
  <2>3. Len(agenda'[s]) = 2 /\ agenda'[s][2] = Replay
    BY <2>1, <2>2, HeadTailProperties
  <2>4. QED
    BY <2>3 DEF InAgenda
<1>6. BookOK' /\ MapOK' /\ ChannelOK'
  <2>1. \A u \in SessionId : u \in Task
    BY DEF Task
  <2>2. MapOK'
    BY <1>1, <1>2 DEF IInv, Types, MapOK, ChannelOK
  <2>3. ChannelOK'
    BY <1>1, <1>2, <1>3, <2>1 DEF IInv, Types, ChannelOK
  <2>4. QED
    BY <1>1, <2>2, <2>3 DEF IInv, Types, BookOK
<1>7. SearchOffersAhead'
  <2>1. ASSUME NEW u \in SessionId, NEW o \in DOMAIN offers', Waits(u, o)', u # s
        PROVE  WasWaiting(u, o) /\ ~ Owed(s, u, o)
    <3>1. phase[u] = "open" /\ Reachable(u)
      BY <1>1, <2>1 DEF Waits, Reachable
    <3>2. Head(agenda[s]) \notin {Announce(o), Post({Msg("offer", o)})}
      BY <1>1 DEF Announce, Post
    <3>3. QED
      BY <1>1, <2>1, <3>1, <3>2, SameAges, StillWaiting DEF Owed
  <2>2. \A o : Ahead(s, o)'
    BY <1>5 DEF Ahead
  <2>3. QED
    BY <1>1, <1>2, <1>3, <2>1, <2>2, AheadStep DEF IInv, Types, InQueue
<1>8. QED
  BY <1>3, <1>6, <1>7 DEF IInv, Types

(* Steps of one task's agenda: what does not touch channels, connections   *)
(* or the map.                                                             *)
LEMMA QuietStep ==
  ASSUME IInv, NEW t \in Task, UNCHANGED <<sessions, phase, queue, told>>,
         AgendaOK', Keeps(t), \A u \in Task \ {t} : agenda'[u] = agenda[u],
         t \in SessionId => phase[t] = "open",
         offers' \in Seq(Offer), Len(offers') <= MaxOffers, Ages(offers, offers'),
         forgone' = forgone,
         \A o \in DOMAIN offers' \ DOMAIN offers :
           offers'[o].by = "submit" \/ \E u \in Task : InAgenda(u, Announce(o))',
         \A s \in SessionId : \A o \in DOMAIN offers :
           WasWaiting(s, o) /\ Waits(s, o)' /\ Owed(t, s, o) => Ahead(s, o)'
  PROVE  IInv'
<1>1. BookOK'
  BY DEF IInv, Types, BookOK, Ages
<1>2. ChannelOK'
  <2>1. \A s \in SessionId : s \in Task
    BY DEF Task
  <2>2. QED
    BY <2>1 DEF IInv, Types, ChannelOK
<1>3. MapOK'
  BY DEF IInv, Types, MapOK
<1>4. SearchOffersAhead'
  <2>1. \A s \in SessionId : phase'[s] = "open" =>
          /\ phase[s] = "open"
          /\ Reachable(s)' => Reachable(s)
          /\ told[s] \subseteq told'[s]
          /\ \A m : InQueue(s, m) => InQueue(s, m)' \/ InAgenda(s, Tell(m))'
    BY DEF Reachable, InQueue
  <2>2. QED
    BY <2>1, PlainStep DEF IInv
<1>5. QED
  BY <1>1, <1>2, <1>3, <1>4 DEF IInv, Types

(* The head of a task's agenda, by kind. *)
LEMMA HeadOf ==
  ASSUME IInv, NEW t \in Task, agenda[t] # <<>>
  PROVE  /\ Head(agenda[t]) \in Item /\ agenda[t] \in Seq(Item)
         /\ 1 \in 1..Len(agenda[t]) /\ Head(agenda[t]) = agenda[t][1]
         /\ t \in SessionId => phase[t] = "open"
<1>1. agenda[t] \in Seq(Item)
  BY DEF IInv, Types, AgendaOK
<1>2. QED
  BY <1>1 DEF IInv, Types, ChannelOK

LEMMA NotOwed ==
  ASSUME NEW t, Head(agenda[t]).do \notin {"announce", "post", "tell", "replay"}
  PROVE  \A s, o : ~ Owed(t, s, o)
BY DEF Owed, Announce, Post, Tell, Replay

LEMMA FlushKeeps ==
  ASSUME IInv, NEW s \in SessionId, FlushStep(s)
  PROVE  IInv'
<1> DEFINE late == OffersOf(DriverOf[s], "Overdue")
<1>1. /\ agenda[s] # <<>> /\ Head(agenda[s]).do = "flush"
      /\ UNCHANGED <<sessions, phase, queue, told, forgone>>
      /\ \/ GoOn(s) /\ offers' = offers
         \/ \E update \in NextSearch(Expire(late)) :
              /\ offers' = update.offers
              /\ Before(s, TellEach("offer_expired", late) \o update.news)
  BY DEF FlushStep, Has
<1>2. s \in Task /\ phase[s] = "open" /\ BookOK /\ AgendaOK
  BY <1>1, HeadOf DEF Task, IInv, Types
<1>3. \A u, o : ~ Owed(s, u, o)
  BY <1>1, NotOwed
<1>4. CASE GoOn(s) /\ offers' = offers
  <2>1. AgendaOK' /\ Keeps(s) /\ \A u \in Task \ {s} : agenda'[u] = agenda[u]
    BY <1>1, <1>2, <1>4, GoOnKeeps
  <2>2. QED
    BY <1>1, <1>2, <1>3, <1>4, <2>1, SameAges, QuietStep DEF BookOK
<1>5. CASE \E update \in NextSearch(Expire(late)) :
             /\ offers' = update.offers
             /\ Before(s, TellEach("offer_expired", late) \o update.news)
  <2>1. PICK update \in NextSearch(Expire(late)) :
          /\ offers' = update.offers
          /\ Before(s, TellEach("offer_expired", late) \o update.news)
    BY <1>5
  <2>2. PICK tells \in Seq(Item) :
          /\ tells = TellEach("offer_expired", late)
          /\ \A i \in 1..Len(tells) : tells[i].do = "tell"
    BY <1>2, OffersKnown, TellEachProperties
  <2> DEFINE news == update.news
             items == tells \o news
  <2>3. /\ offers' \in Seq(Offer) /\ Len(offers') <= MaxOffers
        /\ Ages(offers, offers')
        /\ news \in Seq(Item)
        /\ \A i \in 1..Len(news) : news[i].do = "announce" /\ news[i].offer \in DOMAIN offers'
        /\ \A o \in DOMAIN offers' \ DOMAIN offers :
             \E i \in 1..Len(news) : news[i] = Announce(o)
    <3> DEFINE book == Expire(late)
    <3>1. book \in Seq(Offer) /\ Len(book) = Len(offers) /\ Ages(offers, book)
      BY <1>2, ExpireAges
    <3> HIDE DEF book
    <3>2. QED
      BY <1>2, <2>1, <3>1, SearchProperties DEF book
  <2> HIDE DEF news
  <2>4. /\ items \in Seq(Item)
        /\ Len(items) = Len(tells) + Len(news)
        /\ \A i \in 1 .. Len(tells) + Len(news) :
             items[i] = IF i <= Len(tells) THEN tells[i] ELSE news[i - Len(tells)]
    BY <2>2, <2>3, ConcatProperties
  <2> HIDE DEF items
  <2>5. Len(tells) \in Nat /\ Len(news) \in Nat
    BY <2>2, <2>3
  <2>6. \A i \in 1..Len(items) :
          \/ items[i].do = "tell"
          \/ items[i].do = "announce" /\ items[i].offer \in DOMAIN offers'
    <3>1. ASSUME NEW i \in 1..Len(items)
          PROVE  \/ items[i].do = "tell"
                 \/ items[i].do = "announce" /\ items[i].offer \in DOMAIN offers'
      <4>1. i \in 1..Len(tells) \/ (~ (i <= Len(tells)) /\ i - Len(tells) \in 1..Len(news))
        BY <2>4, <2>5
      <4>2. CASE i \in 1..Len(tells)
        BY <2>2, <2>4, <2>5, <4>2
      <4>3. CASE ~ (i <= Len(tells)) /\ i - Len(tells) \in 1..Len(news)
        <5>1. items[i] = news[i - Len(tells)]
          BY <2>4, <4>3
        <5>2. QED
          BY <2>3, <4>3, <5>1
      <4>4. QED
        BY <4>1, <4>2, <4>3
    <3>2. QED
      BY <3>1
  <2>7. \A k \in 1..Len(news) : Len(tells) + k \in 1..Len(items)
                                /\ items[Len(tells) + k] = news[k]
    <3>1. \A k \in 1..Len(news) : /\ Len(tells) + k \in 1 .. Len(tells) + Len(news)
                                  /\ ~ (Len(tells) + k <= Len(tells))
                                  /\ (Len(tells) + k) - Len(tells) = k
      BY <2>5
    <3>2. QED
      BY <2>4, <3>1
  <2>8. /\ AgendaOK' /\ Keeps(s)
        /\ \A i \in 1..Len(items) : InAgenda(s, items[i])'
        /\ \A u \in Task \ {s} : agenda'[u] = agenda[u]
    <3>1. Before(s, items)
      BY <2>1, <2>2 DEF items, news
    <3>2. \A i \in 1..Len(items) :
            /\ items[i].do = "announce" => items[i].offer \in DOMAIN offers'
            /\ items[i].do # "register"
            /\ items[i].do = "post" => i = 1
      BY <2>6
    <3>3. DOMAIN offers \subseteq DOMAIN offers'
      BY <2>3 DEF Ages
    <3>4. QED
      BY <1>1, <1>2, <2>4, <3>1, <3>2, <3>3, BeforeKeeps
  <2>9. \A o \in DOMAIN offers' \ DOMAIN offers : \E u \in Task : InAgenda(u, Announce(o))'
    <3>1. ASSUME NEW o \in DOMAIN offers' \ DOMAIN offers
          PROVE  InAgenda(s, Announce(o))'
      <4>1. PICK k \in 1..Len(news) : news[k] = Announce(o)
        BY <2>3, <3>1
      <4>2. PICK i \in 1..Len(items) : items[i] = Announce(o)
        BY <2>7, <4>1
      <4>3. QED
        BY <2>8, <4>2
    <3>2. QED
      BY <1>2, <3>1
  <2>10. QED
    BY <1>1, <1>2, <1>3, <2>3, <2>8, <2>9, QuietStep
<1>6. QED
  BY <1>1, <1>4, <1>5

(* The replay tells of every offer pending then. *)
LEMMA ReplayKeeps ==
  ASSUME IInv, NEW s \in SessionId, ReplayStep(s)
  PROVE  IInv'
<1> DEFINE os == OffersOf(DriverOf[s], "Pending")
<1>1. /\ agenda[s] # <<>> /\ Head(agenda[s]).do = "replay"
      /\ UNCHANGED <<offers, sessions, phase, queue, told, forgone>>
      /\ Before(s, TellEach("offer", os))
  BY DEF ReplayStep, Has
<1>2. s \in Task /\ phase[s] = "open" /\ BookOK /\ AgendaOK
  BY <1>1, HeadOf DEF Task, IInv, Types
<1>3. PICK items \in Seq(Item) :
        /\ items = TellEach("offer", os)
        /\ \A i \in 1..Len(items) : items[i].do = "tell"
        /\ \A o \in os : \E i \in 1..Len(items) : items[i] = Tell(Msg("offer", o))
  BY <1>2, OffersKnown, TellEachProperties
<1>4. /\ AgendaOK' /\ Keeps(s)
      /\ \A i \in 1..Len(items) : InAgenda(s, items[i])'
      /\ \A u \in Task \ {s} : agenda'[u] = agenda[u]
  <2>1. \A i \in 1..Len(items) :
          /\ items[i].do = "announce" => items[i].offer \in DOMAIN offers'
          /\ items[i].do # "register"
          /\ items[i].do = "post" => i = 1
    BY <1>3
  <2>2. DOMAIN offers \subseteq DOMAIN offers'
    BY <1>1
  <2>3. QED
    BY <1>1, <1>2, <1>3, <2>1, <2>2, BeforeKeeps
<1>5. ASSUME NEW u \in SessionId, NEW o \in DOMAIN offers, Waits(u, o)', Owed(s, u, o)
      PROVE  Ahead(u, o)'
  <2>1. u = s
    BY <1>1, <1>5 DEF Owed, Announce, Post
  <2>2. o \in os
    BY <1>1, <1>5, <2>1 DEF Waits, OffersOf
  <2>3. PICK i \in 1..Len(items) : items[i] = Tell(Msg("offer", o))
    BY <1>3, <2>2
  <2>4. InAgenda(s, Tell(Msg("offer", o)))'
    BY <1>4, <2>3
  <2>5. QED
    BY <2>1, <2>4 DEF Ahead
<1>6. QED
  BY <1>1, <1>2, <1>4, <1>5, SameAges, QuietStep DEF BookOK

(* A session that ends: nothing more is ahead of it, and nothing needs be. *)
LEMMA EndKeeps ==
  ASSUME IInv, NEW s \in SessionId, phase[s] = "open", Break(s),
         agenda[s] # <<>> => Head(agenda[s]).do \notin {"announce", "post"},
         UNCHANGED <<sessions, queue, told>>,
         offers' \in Seq(Offer), Len(offers') = Len(offers), Ages(offers, offers')
  PROVE  IInv'
<1>1. s \in Task /\ BookOK /\ AgendaOK /\ ChannelOK /\ MapOK
  BY DEF Task, IInv, Types
<1>2. DOMAIN offers = 1..Len(offers) /\ DOMAIN offers' = DOMAIN offers
  BY <1>1 DEF BookOK
<1>3. /\ AgendaOK' /\ Keeps(s) /\ agenda'[s] = <<>>
      /\ \A u \in Task \ {s} : agenda'[u] = agenda[u]
      /\ phase' = [phase EXCEPT ![s] = "closing"]
      /\ forgone \subseteq forgone'
      /\ forgone' \subseteq forgone \cup DOMAIN offers
  BY <1>1, <1>2, BreakKeeps DEF ChannelOK
<1>4. BookOK'
  BY <1>1, <1>2, <1>3 DEF BookOK
<1>5. ChannelOK'
  <2>1. \A u \in SessionId : u \in Task
    BY DEF Task
  <2>2. QED
    BY <1>1, <1>3, <2>1 DEF ChannelOK
<1>6. MapOK'
  BY <1>1, <1>3 DEF MapOK, ChannelOK
<1>7. SearchOffersAhead'
  <2>1. \A u \in SessionId : phase'[u] = "open" =>
          /\ phase[u] = "open"
          /\ Reachable(u)' => Reachable(u)
          /\ told[u] \subseteq told'[u]
          /\ \A m : InQueue(u, m) => InQueue(u, m)' \/ InAgenda(u, Tell(m))'
    BY <1>1, <1>3 DEF Reachable, InQueue, ChannelOK
  <2>2. ASSUME NEW u \in SessionId, NEW o \in DOMAIN offers,
               Waits(u, o)', Owed(s, u, o)
        PROVE  FALSE
    <3>1. u = s
      BY <2>2 DEF Owed, Announce, Post
    <3>2. phase'[u] = "closing"
      BY <1>1, <1>3, <3>1 DEF ChannelOK
    <3>3. QED
      BY <2>2, <3>2 DEF Waits
  <2>3. QED
    BY <1>1, <1>2, <1>3, <2>1, <2>2, PlainStep DEF IInv
<1>8. QED
  BY <1>3, <1>4, <1>5, <1>6, <1>7 DEF IInv, Types

LEMMA TellKeeps ==
  ASSUME IInv, NEW s \in SessionId, TellStep(s)
  PROVE  IInv'
<1>1. /\ agenda[s] # <<>> /\ Head(agenda[s]).do = "tell"
      /\ UNCHANGED <<offers, sessions, queue>>
  BY DEF TellStep, Has
<1>2. /\ s \in Task /\ phase[s] = "open" /\ BookOK /\ AgendaOK /\ ChannelOK /\ MapOK
      /\ Head(agenda[s]) \in Item
  BY <1>1, HeadOf DEF Task, IInv, Types
<1>3. CASE Break(s) /\ told' = told
  BY <1>1, <1>2, <1>3, SameAges, EndKeeps DEF BookOK
<1>4. CASE /\ told' = [told EXCEPT ![s] =
                         @ \cup ({Head(agenda[s]).msg}
                                   \cap [kind : {"offer", "offer_expired"}, offer : OfferId])]
           /\ GoOn(s) /\ UNCHANGED <<phase, forgone>>
  <2>1. PICK m \in Message : Head(agenda[s]) = Tell(m)
    BY <1>1, <1>2, ItemForms
  <2>2. AgendaOK' /\ Keeps(s) /\ \A u \in Task \ {s} : agenda'[u] = agenda[u]
    BY <1>1, <1>2, <1>4, GoOnKeeps
  <2>3. /\ told' \in [SessionId -> SUBSET Message]
        /\ \A u \in SessionId : told[u] \subseteq told'[u]
        /\ m.kind = "offer" => m \in told'[s]
    <3>1. Head(agenda[s]).msg = m
      BY <2>1 DEF Tell
    <3>2. told' = [told EXCEPT ![s] =
                     @ \cup ({m} \cap [kind : {"offer", "offer_expired"}, offer : OfferId])]
      BY <1>4, <3>1
    <3>3. m.kind = "offer" => m \in [kind : {"offer", "offer_expired"}, offer : OfferId]
      BY DEF Message
    <3>4. QED
      BY <1>2, <3>2, <3>3 DEF ChannelOK
  <2>4. BookOK' /\ MapOK' /\ ChannelOK'
    <3>1. \A u \in SessionId : u \in Task
      BY DEF Task
    <3>2. MapOK'
      BY <1>1, <1>2, <1>4 DEF MapOK
    <3>3. ChannelOK'
      BY <1>1, <1>2, <1>4, <2>2, <2>3, <3>1 DEF ChannelOK
    <3>4. QED
      BY <1>1, <1>2, <1>4, <3>2, <3>3 DEF BookOK
  <2>5. SearchOffersAhead'
    <3>1. \A u \in SessionId : phase'[u] = "open" =>
            /\ phase[u] = "open"
            /\ Reachable(u)' => Reachable(u)
            /\ told[u] \subseteq told'[u]
            /\ \A n : InQueue(u, n) => InQueue(u, n)' \/ InAgenda(u, Tell(n))'
      BY <1>1, <1>4, <2>3 DEF Reachable, InQueue
    <3>2. ASSUME NEW u \in SessionId, NEW o \in DOMAIN offers, Waits(u, o)', Owed(s, u, o)
          PROVE  Ahead(u, o)'
      <4>1. u = s /\ Tell(m) = Tell(Msg("offer", o))
        BY <1>1, <2>1, <3>2 DEF Owed, Announce, Post, Replay
      <4>2. m = Msg("offer", o) /\ m.kind = "offer"
        BY <4>1 DEF Tell, Msg
      <4>3. QED
        BY <2>3, <4>1, <4>2 DEF Ahead, Told
    <3>3. QED
      BY <1>1, <1>2, <1>4, <2>2, <3>1, <3>2, SameAges, PlainStep DEF IInv, Types
  <2>6. QED
    BY <2>2, <2>4, <2>5 DEF IInv, Types
<1>5. QED
  BY <1>3, <1>4 DEF TellStep

LEMMA OneItem ==
  ASSUME NEW x \in Item
  PROVE  <<x>> \in Seq(Item) /\ Len(<<x>>) = 1 /\ <<x>>[1] = x
OBVIOUS

(* An announcement of an offer that is still open becomes a posted message.*)
LEMMA AnnounceKeeps ==
  ASSUME IInv, NEW t \in Task, AnnounceStep(t)
  PROVE  IInv'
<1>1. PICK o : o = Head(agenda[t]).offer
  OBVIOUS
<1>2. /\ agenda[t] # <<>> /\ Head(agenda[t]).do = "announce"
      /\ Before(t, IF offers[o].status = "Pending"
                   THEN <<Post({Msg("offer", o)})>> ELSE <<>>)
      /\ UNCHANGED <<offers, sessions, phase, queue, told, forgone>>
  BY <1>1 DEF AnnounceStep, Has
<1>3. /\ BookOK /\ AgendaOK /\ Head(agenda[t]) \in Item
      /\ t \in SessionId => phase[t] = "open"
  BY <1>2, HeadOf DEF IInv, Types
<1>4. o \in OfferId /\ Head(agenda[t]) = Announce(o)
  BY <1>1, <1>2, <1>3, ItemForms DEF Announce
<1> DEFINE x == Post({Msg("offer", o)})
<1>5. x \in Item /\ x.do = "post"
  BY <1>4, MessageType, ItemTypes DEF Post
<1>6. PICK items \in Seq(Item) :
        /\ items = IF offers[o].status = "Pending" THEN <<x>> ELSE <<>>
        /\ \A i \in 1..Len(items) : i = 1 /\ items[i] = x
        /\ offers[o].status = "Pending" => 1 \in 1..Len(items) /\ items[1] = x
  <2>1. /\ <<x>> \in Seq(Item) /\ <<>> \in Seq(Item)
        /\ Len(<<x>>) = 1 /\ <<x>>[1] = x /\ Len(<<>>) = 0
    BY <1>5, OneItem, EmptySeq
  <2>2. 1 \in 1..Len(<<x>>) /\ \A i \in 1..Len(<<x>>) : i = 1
    BY <2>1
  <2> HIDE DEF x
  <2>3. CASE offers[o].status = "Pending"
    BY <2>1, <2>2, <2>3
  <2>4. CASE offers[o].status # "Pending"
    <3>1. PICK empty \in Seq(Item) : empty = <<>>
      BY <2>1
    <3>2. \A i \in 1..Len(empty) : FALSE
      BY <3>1
    <3>3. QED
      BY <2>4, <3>1, <3>2
  <2>5. QED
    BY <2>3, <2>4
<1>7. Before(t, items)
  BY <1>2, <1>6
<1> HIDE DEF x
<1>8. /\ AgendaOK' /\ Keeps(t)
      /\ \A i \in 1..Len(items) : InAgenda(t, items[i])'
      /\ \A u \in Task \ {t} : agenda'[u] = agenda[u]
  <2>1. \A i \in 1..Len(items) :
          /\ items[i].do = "announce" => items[i].offer \in DOMAIN offers'
          /\ items[i].do # "register"
          /\ items[i].do = "post" => i = 1
    BY <1>5, <1>6
  <2>2. DOMAIN offers \subseteq DOMAIN offers'
    BY <1>2
  <2>3. QED
    BY <1>2, <1>3, <1>7, <2>1, <2>2, BeforeKeeps
<1>9. ASSUME NEW s \in SessionId, NEW p \in DOMAIN offers, Waits(s, p)', Owed(t, s, p)
      PROVE  Ahead(s, p)'
  <2>1. p = o
    BY <1>4, <1>9 DEF Owed, Announce, Post, Tell, Replay
  <2>2. offers[o].status = "Pending"
    BY <1>2, <1>9, <2>1 DEF Waits, OffersOf
  <2>3. InAgenda(t, x)'
    BY <1>6, <1>8, <2>2
  <2>4. InAgenda(t, Post({Msg("offer", o)}))'
    BY <2>3 DEF x
  <2>5. QED
    BY <1>8, <2>1, <2>4, OnItsWayNext DEF Ahead
<1>10. QED
  BY <1>2, <1>3, <1>8, <1>9, SameAges, QuietStep DEF BookOK

(* A posted offer goes into the channel of the session in the map. *)
LEMMA PostKeeps ==
  ASSUME IInv, NEW t \in Task, PostStep(t)
  PROVE  IInv'
<1> DEFINE mail(s) == {m \in Head(agenda[t]).msgs :
                         /\ offers[m.offer].driver \in DOMAIN sessions
                         /\ sessions[offers[m.offer].driver] = s}
<1>1. /\ agenda[t] # <<>> /\ Head(agenda[t]).do = "post" /\ GoOn(t)
      /\ queue' = [s \in SessionId |-> queue[s] \o SetToSeq(mail(s))]
      /\ UNCHANGED <<offers, sessions, phase, told, forgone>>
  BY DEF PostStep, Has
<1>2. /\ BookOK /\ AgendaOK /\ ChannelOK /\ MapOK /\ Head(agenda[t]) \in Item
      /\ t \in SessionId => phase[t] = "open"
  BY <1>1, HeadOf DEF IInv, Types
<1>3. PICK ms \in SUBSET Message : Head(agenda[t]) = Post(ms)
  BY <1>1, <1>2, ItemForms
<1>4. Head(agenda[t]).msgs = ms
  BY <1>3 DEF Post
<1>5. \A s \in SessionId : mail(s) \subseteq ms /\ mail(s) \subseteq Message
                           /\ IsFiniteSet(mail(s))
  BY <1>4, MessagesFinite
<1>6. ASSUME NEW s \in SessionId, phase[s] \in {"new", "closed"}
      PROVE  mail(s) = {}
  BY <1>2, <1>6 DEF MapOK
<1>7. \A s \in SessionId : \A o : Msg("offer", o) \in ms /\ Waits(s, o) => Msg("offer", o) \in mail(s)
  <2>1. ASSUME NEW s \in SessionId, NEW o, Msg("offer", o) \in ms, Waits(s, o)
        PROVE  Msg("offer", o) \in mail(s)
    <3>1. Msg("offer", o).offer = o
      BY DEF Msg
    <3>2. offers[o].driver = DriverOf[s] /\ DriverOf[s] \in DOMAIN sessions
          /\ sessions[DriverOf[s]] = s
      BY <2>1 DEF Waits, OffersOf, Reachable
    <3>3. QED
      BY <1>4, <2>1, <3>1, <3>2
  <2>2. QED
    BY <2>1
<1> HIDE DEF mail
<1>8. ASSUME NEW s \in SessionId
      PROVE  /\ queue'[s] \in Seq(Message)
             /\ \A m : InQueue(s, m) => \E i \in 1..Len(queue'[s]) : queue'[s][i] = m
             /\ \A m \in mail(s) : \E i \in 1..Len(queue'[s]) : queue'[s][i] = m
             /\ phase[s] \in {"new", "closed"} => queue'[s] = <<>>
  <2> DEFINE q == queue[s]  r == SetToSeq(mail(s))
  <2>1. q \in Seq(Message) /\ q = queue[s]
    BY <1>2 DEF ChannelOK
  <2>2. r \in Seq(mail(s)) /\ \A x \in mail(s) : \E i \in 1..Len(r) : r[i] = x
    BY <1>5, SetToSeqProperties
  <2>3. r \in Seq(Message)
    BY <1>5, <2>2, SeqMonotonic
  <2>4. mail(s) = {} => r = <<>>
    <3>1. mail(s) = {} => \A i \in 1..Len(r) : FALSE
      BY <2>2
    <3> HIDE DEF r
    <3>2. QED
      BY <2>3, <3>1
  <2>5. queue'[s] = q \o r
    BY <1>1
  <2> HIDE DEF q, r
  <2>6. /\ q \o r \in Seq(Message) /\ Len(q \o r) = Len(q) + Len(r)
        /\ \A i \in 1 .. Len(q) + Len(r) : (q \o r)[i] = IF i <= Len(q) THEN q[i] ELSE r[i - Len(q)]
        /\ Len(q) \in Nat /\ Len(r) \in Nat
    BY <2>1, <2>3, ConcatProperties
  <2>7. \A i \in 1..Len(q) : i \in 1..Len(q \o r) /\ (q \o r)[i] = q[i]
    BY <2>6
  <2>8. \A i \in 1..Len(r) : Len(q) + i \in 1..Len(q \o r) /\ (q \o r)[Len(q) + i] = r[i]
    <3>1. \A i \in 1..Len(r) : /\ Len(q) + i \in 1 .. Len(q) + Len(r)
                               /\ ~ (Len(q) + i <= Len(q)) /\ (Len(q) + i) - Len(q) = i
      BY <2>6
    <3>2. QED
      BY <2>6, <3>1
  <2>9. phase[s] \in {"new", "closed"} => q \o r = <<>>
    <3>1. phase[s] \in {"new", "closed"} => q = <<>> /\ r = <<>>
      BY <1>2, <1>6, <2>1, <2>4 DEF ChannelOK
    <3>2. QED
      BY <3>1, <2>6
  <2>10. PICK qr \in Seq(Message) : qr = q \o r /\ qr = queue'[s]
    BY <2>5, <2>6
  <2>11. \A m : InQueue(s, m) => \E i \in 1..Len(qr) : qr[i] = m
    BY <2>1, <2>7, <2>10 DEF InQueue
  <2>12. \A m \in mail(s) : \E i \in 1..Len(qr) : qr[i] = m
    <3>1. ASSUME NEW m \in mail(s)
          PROVE  \E i \in 1..Len(qr) : qr[i] = m
      <4>1. PICK i \in 1..Len(r) : r[i] = m
        BY <2>2, <3>1
      <4>2. QED
        BY <2>8, <2>10, <4>1
    <3>2. QED
      BY <3>1
  <2>13. QED
    BY <2>9, <2>10, <2>11, <2>12
<1>9. AgendaOK' /\ Keeps(t) /\ \A u \in Task \ {t} : agenda'[u] = agenda[u]
  BY <1>1, <1>2, GoOnKeeps
<1>10. BookOK' /\ MapOK' /\ ChannelOK'
  <2>1. \A u \in SessionId : u \in Task
    BY DEF Task
  <2>2. queue' \in [SessionId -> Seq(Message)]
    BY <1>1, <1>8
  <2>3. ChannelOK'
    BY <1>1, <1>2, <1>8, <1>9, <2>1, <2>2 DEF ChannelOK
  <2>4. QED
    BY <1>1, <1>2, <2>3 DEF BookOK, MapOK
<1>11. SearchOffersAhead'
  <2>1. \A u \in SessionId : phase'[u] = "open" =>
          /\ phase[u] = "open"
          /\ Reachable(u)' => Reachable(u)
          /\ told[u] \subseteq told'[u]
          /\ \A n : InQueue(u, n) => InQueue(u, n)' \/ InAgenda(u, Tell(n))'
    BY <1>1, <1>8 DEF Reachable, InQueue
  <2>2. ASSUME NEW u \in SessionId, NEW o \in DOMAIN offers, WasWaiting(u, o), Owed(t, u, o)
        PROVE  Ahead(u, o)'
    <3>1. Post(ms) = Post({Msg("offer", o)})
      BY <1>1, <1>3, <2>2 DEF Owed, Announce, Tell, Replay
    <3>2. Msg("offer", o) \in ms
      BY <3>1 DEF Post
    <3>3. Msg("offer", o) \in mail(u)
      BY <1>7, <2>2, <3>2 DEF WasWaiting
    <3>4. \E i \in 1..Len(queue'[u]) : queue'[u][i] = Msg("offer", o)
      BY <1>8, <3>3
    <3>5. QED
      BY <3>4 DEF Ahead, InQueue
  <2>3. QED
    BY <1>1, <1>2, <1>9, <2>1, <2>2, SameAges, PlainStep DEF IInv, Types
<1>12. QED
  BY <1>9, <1>10, <1>11 DEF IInv, Types

LEMMA RespondKeeps ==
  ASSUME IInv, NEW s \in SessionId, RespondStep(s)
  PROVE  IInv'
<1>1. PICK o, accepted : o = Head(agenda[s]).offer /\ accepted = Head(agenda[s]).accepted
  OBVIOUS
<1>2. /\ agenda[s] # <<>> /\ Head(agenda[s]).do = "respond"
      /\ UNCHANGED <<sessions, queue, told>>
  BY DEF RespondStep, Has
<1>3. /\ s \in Task /\ phase[s] = "open" /\ BookOK /\ AgendaOK /\ Head(agenda[s]) \in Item
      /\ DOMAIN offers = 1..Len(offers)
  BY <1>2, HeadOf, OffersKnown DEF Task, IInv, Types
<1>4. o \in OfferId
  BY <1>1, <1>2, <1>3, ItemForms DEF Respond
<1>5. \A u, p : ~ Owed(s, u, p)
  BY <1>2, NotOwed
<1>6. CASE /\ \E late : offers' = Expire(late)
           /\ Break(s)
  <2>1. offers' \in Seq(Offer) /\ Len(offers') = Len(offers) /\ Ages(offers, offers')
    BY <1>3, <1>6, ExpireAges
  <2>2. QED
    BY <1>2, <1>3, <1>6, <2>1, EndKeeps
<1>7. CASE /\ offers[o].status = "Pending" /\ offers' = Accepted(o)
           /\ Before(s, <<Tell(Msg("matched", o)), Cancellations, Webhook>>)
           /\ UNCHANGED <<phase, forgone>>
  <2>1. /\ offers' \in Seq(Offer) /\ Len(offers') = Len(offers)
        /\ DOMAIN offers' = DOMAIN offers /\ Ages(offers, offers')
    BY <1>3, <1>7, AcceptedAges
  <2>2. PICK items \in Seq(Item) :
          /\ items = <<Tell(Msg("matched", o)), Cancellations, Webhook>>
          /\ \A i \in 1..Len(items) : items[i].do \in {"tell", "cancellations", "webhook"}
    <3>1. PICK x \in Item : x = Tell(Msg("matched", o)) /\ x.do = "tell"
      BY <1>4, MessageType, ItemTypes DEF Tell
    <3>2. /\ Cancellations \in Item /\ Webhook \in Item
          /\ Cancellations.do = "cancellations" /\ Webhook.do = "webhook"
      BY ItemTypes DEF Cancellations, Webhook
    <3> DEFINE its == <<x, Cancellations, Webhook>>
    <3>3. its \in Seq(Item) /\ Len(its) = 3
          /\ its[1] = x /\ its[2] = Cancellations /\ its[3] = Webhook
      BY <3>2
    <3> HIDE DEF its
    <3>4. \A i \in 1..Len(its) : i \in {1, 2, 3}
      BY <3>3
    <3>5. \A i \in 1..Len(its) : its[i].do \in {"tell", "cancellations", "webhook"}
      BY <3>1, <3>2, <3>3, <3>4
    <3>6. its = <<Tell(Msg("matched", o)), Cancellations, Webhook>>
      BY <3>1 DEF its
    <3>7. QED
      BY <3>3, <3>5, <3>6
  <2>3. Before(s, items)
    BY <1>7, <2>2
  <2>4. /\ AgendaOK' /\ Keeps(s)
        /\ \A u \in Task \ {s} : agenda'[u] = agenda[u]
    <3>1. \A i \in 1..Len(items) :
            /\ items[i].do = "announce" => items[i].offer \in DOMAIN offers'
            /\ items[i].do # "register"
            /\ items[i].do = "post" => i = 1
      BY <2>2
    <3>2. DOMAIN offers \subseteq DOMAIN offers'
      BY <2>1
    <3>3. QED
      BY <1>2, <1>3, <2>3, <3>1, <3>2, BeforeKeeps
  <2>5. QED
    BY <1>2, <1>3, <1>5, <1>7, <2>1, <2>4, QuietStep DEF BookOK
<1>8. CASE /\ \E update \in NextSearch(Settle(o, "Rejected")) :
                offers' = update.offers /\ Before(s, update.news)
           /\ UNCHANGED <<phase, forgone>>
  <2>1. PICK update \in NextSearch(Settle(o, "Rejected")) :
          offers' = update.offers /\ Before(s, update.news)
    BY <1>8
  <2>2. PICK book \in Seq(Offer) :
          book = Settle(o, "Rejected") /\ Len(book) = Len(offers) /\ Ages(offers, book)
    <3>1. "Rejected" \in OfferStatus \ {"Pending"}
      BY DEF OfferStatus
    <3>2. QED
      BY <1>3, <3>1, SettleAges
  <2>3. PICK news \in Seq(Item) :
          /\ news = update.news
          /\ offers' \in Seq(Offer) /\ Len(offers') <= MaxOffers /\ Ages(offers, offers')
          /\ \A i \in 1..Len(news) : news[i].do = "announce" /\ news[i].offer \in DOMAIN offers'
          /\ \A o2 \in DOMAIN offers' \ DOMAIN offers :
               \E i \in 1..Len(news) : news[i] = Announce(o2)
    <3>1. update \in NextSearch(book)
      BY <2>1, <2>2
    <3>2. QED
      BY <1>3, <2>1, <2>2, <3>1, SearchProperties
  <2>4. /\ AgendaOK' /\ Keeps(s)
        /\ \A i \in 1..Len(news) : InAgenda(s, news[i])'
        /\ \A u \in Task \ {s} : agenda'[u] = agenda[u]
    <3>1. Before(s, news)
      BY <2>1, <2>3
    <3>2. \A i \in 1..Len(news) :
            /\ news[i].do = "announce" => news[i].offer \in DOMAIN offers'
            /\ news[i].do # "register"
            /\ news[i].do = "post" => i = 1
      BY <2>3
    <3>3. DOMAIN offers \subseteq DOMAIN offers'
      BY <2>3 DEF Ages
    <3>4. QED
      BY <1>2, <1>3, <3>1, <3>2, <3>3, BeforeKeeps
  <2>5. \A p \in DOMAIN offers' \ DOMAIN offers : \E u \in Task : InAgenda(u, Announce(p))'
    <3>1. ASSUME NEW p \in DOMAIN offers' \ DOMAIN offers
          PROVE  InAgenda(s, Announce(p))'
      <4>1. PICK k \in 1..Len(news) : news[k] = Announce(p)
        BY <2>3, <3>1
      <4>2. QED
        BY <2>4, <4>1
    <3>2. QED
      BY <1>3, <3>1
  <2>6. QED
    BY <1>2, <1>3, <1>5, <1>8, <2>3, <2>4, <2>5, QuietStep
<1>9. QED
  BY <1>1, <1>6, <1>7, <1>8 DEF RespondStep, Open

LEMMA CancellationsKeeps ==
  ASSUME IInv, NEW s \in SessionId, CancellationsStep(s)
  PROVE  IInv'
<1> DEFINE cancelled == {o \in DOMAIN offers : offers[o].status = "Cancelled"}
           x == Post({Msg("offer_cancelled", o) : o \in cancelled})
<1>1. /\ agenda[s] # <<>> /\ Head(agenda[s]).do = "cancellations"
      /\ Before(s, IF cancelled = {} THEN <<>> ELSE <<x>>)
      /\ UNCHANGED <<offers, sessions, phase, queue, told, forgone>>
  BY DEF CancellationsStep, Has
<1>2. s \in Task /\ phase[s] = "open" /\ BookOK /\ AgendaOK
  BY <1>1, HeadOf DEF Task, IInv, Types
<1>3. x \in Item /\ x.do = "post"
  <2>1. {Msg("offer_cancelled", o) : o \in cancelled} \subseteq Message
    BY <1>2, OffersKnown, MessageType
  <2>2. QED
    BY <2>1, ItemTypes DEF Post
<1> HIDE DEF x, cancelled
<1>4. PICK items \in Seq(Item) :
        /\ Before(s, items)
        /\ \A i \in 1..Len(items) : i = 1 /\ items[i].do = "post"
  <2>1. CASE cancelled = {}
    <3>1. PICK empty \in Seq(Item) : empty = <<>>
      BY EmptySeq
    <3>2. \A i \in 1..Len(empty) : FALSE
      BY <3>1
    <3>3. QED
      BY <1>1, <2>1, <3>1, <3>2
  <2>2. CASE cancelled # {}
    <3>1. PICK one \in Seq(Item) : one = <<x>> /\ Len(one) = 1 /\ one[1] = x
      BY <1>3, OneItem
    <3>2. \A i \in 1..Len(one) : i = 1
      BY <3>1
    <3>3. QED
      BY <1>1, <1>3, <2>2, <3>1, <3>2
  <2>3. QED
    BY <2>1, <2>2
<1>5. AgendaOK' /\ Keeps(s) /\ \A u \in Task \ {s} : agenda'[u] = agenda[u]
  <2>1. \A i \in 1..Len(items) :
          /\ items[i].do = "announce" => items[i].offer \in DOMAIN offers'
          /\ items[i].do # "register"
          /\ items[i].do = "post" => i = 1
    BY <1>4
  <2>2. DOMAIN offers \subseteq DOMAIN offers'
    BY <1>1
  <2>3. QED
    BY <1>1, <1>2, <1>4, <2>1, <2>2, BeforeKeeps
<1>6. \A u, o : ~ Owed(s, u, o)
  BY <1>1, NotOwed
<1>7. QED
  BY <1>1, <1>2, <1>5, <1>6, SameAges, QuietStep DEF BookOK

LEMMA WebhookKeeps ==
  ASSUME IInv, NEW s \in SessionId, WebhookStep(s)
  PROVE  IInv'
<1>1. /\ agenda[s] # <<>> /\ Head(agenda[s]).do = "webhook" /\ GoOn(s)
      /\ UNCHANGED <<offers, sessions, phase, queue, told, forgone>>
  BY DEF WebhookStep, Has
<1>2. s \in Task /\ phase[s] = "open" /\ BookOK /\ AgendaOK
  BY <1>1, HeadOf DEF Task, IInv, Types
<1>3. AgendaOK' /\ Keeps(s) /\ \A u \in Task \ {s} : agenda'[u] = agenda[u]
  BY <1>1, <1>2, GoOnKeeps
<1>4. \A u, o : ~ Owed(s, u, o)
  BY <1>1, NotOwed
<1>5. QED
  BY <1>1, <1>2, <1>3, <1>4, SameAges, QuietStep DEF BookOK

(* A session at its loop takes up a flush, with or without an answer after *)
(* it.                                                                     *)
LEMMA ServeKeeps ==
  ASSUME IInv, NEW s \in SessionId, Serving(s), NEW items \in Seq(Item),
         \A i \in 1..Len(items) : items[i].do \in {"flush", "respond"}, Put(s, items),
         UNCHANGED <<offers, sessions, phase, queue, told, forgone>>
  PROVE  IInv'
<1>1. s \in Task /\ phase[s] = "open" /\ agenda[s] = <<>> /\ BookOK /\ AgendaOK
  BY DEF Serving, Task, IInv, Types
<1>2. WellFormed(items, offers')
  BY DEF WellFormed
<1>3. AgendaOK' /\ Keeps(s) /\ \A u \in Task \ {s} : agenda'[u] = agenda[u]
  BY <1>1, <1>2, PutKeeps
<1>4. \A u, o : ~ Owed(s, u, o)
  BY <1>1 DEF Owed
<1>5. QED
  BY <1>1, <1>3, <1>4, SameAges, QuietStep DEF BookOK

LEMMA TickKeeps ==
  ASSUME IInv, NEW s \in SessionId, Tick(s)
  PROVE  IInv'
<1>1. PICK items \in Seq(Item) : items = <<Flush>> /\ Len(items) = 1 /\ items[1] = Flush
  BY ItemTypes, OneItem
<1>2. \A i \in 1..Len(items) : i = 1
  BY <1>1
<1>3. \A i \in 1..Len(items) : items[i].do = "flush"
  BY <1>1, <1>2 DEF Flush
<1>4. QED
  BY <1>1, <1>3, ServeKeeps DEF Tick

LEMMA AnswerKeeps ==
  ASSUME IInv, NEW s \in SessionId, NEW o \in OfferId, NEW accepted \in BOOLEAN,
         Answer(s, o, accepted)
  PROVE  IInv'
<1>1. PICK x \in Item : x = Respond(o, accepted) /\ x.do = "respond"
  BY ItemTypes DEF Respond
<1>2. Flush \in Item /\ Flush.do = "flush"
  BY ItemTypes DEF Flush
<1>3. PICK items \in Seq(Item) :
        items = <<Flush, x>> /\ Len(items) = 2 /\ items[1] = Flush /\ items[2] = x
  <2> DEFINE its == <<Flush, x>>
  <2>1. its \in Seq(Item) /\ Len(its) = 2 /\ its[1] = Flush /\ its[2] = x
    BY <1>2
  <2>2. its = <<Flush, x>>
    OBVIOUS
  <2> HIDE DEF its
  <2>3. QED
    BY <2>1, <2>2
<1>4. \A i \in 1..Len(items) : i = 1 \/ i = 2
  BY <1>3
<1>5. \A i \in 1..Len(items) : items[i].do \in {"flush", "respond"}
  BY <1>1, <1>2, <1>3, <1>4
<1>6. QED
  BY <1>1, <1>3, <1>5, ServeKeeps DEF Answer

(* A message leaves the channel for the session's agenda. *)
LEMMA ReceiveKeeps ==
  ASSUME IInv, NEW s \in SessionId, Receive(s)
  PROVE  IInv'
<1>1. /\ phase[s] = "open" /\ agenda[s] = <<>> /\ queue[s] # <<>>
      /\ queue' = [queue EXCEPT ![s] = Tail(@)]
      /\ Put(s, <<Tell(Head(queue[s]))>>)
      /\ UNCHANGED <<offers, sessions, phase, told, forgone>>
  BY DEF Receive, Serving
<1>2. s \in Task /\ BookOK /\ AgendaOK /\ ChannelOK /\ MapOK
  BY DEF Task, IInv, Types
<1>3. queue[s] \in Seq(Message)
  BY <1>2 DEF ChannelOK
<1>4. PICK q \in Seq(Message) : q = queue[s] /\ q # <<>>
  BY <1>1, <1>3
<1>5. /\ Tail(q) \in Seq(Message) /\ Len(Tail(q)) = Len(q) - 1 /\ Len(q) \in Nat
      /\ \A i \in 1..Len(q) - 1 : Tail(q)[i] = q[i + 1]
      /\ Head(q) = q[1] /\ Head(q) \in Message
  BY <1>4, HeadTailProperties
<1>6. PICK x \in Item : x = Tell(Head(q)) /\ x.do = "tell"
  BY <1>5, ItemTypes DEF Tell
<1>7. PICK items \in Seq(Item) : items = <<x>> /\ Len(items) = 1 /\ items[1] = x
  BY OneItem
<1>8. 1 \in 1..Len(items) /\ \A i \in 1..Len(items) : i = 1
  BY <1>7
<1>9. WellFormed(items, offers')
  BY <1>6, <1>7, <1>8 DEF WellFormed
<1>10. Put(s, items)
  BY <1>1, <1>4, <1>6, <1>7
<1>11. /\ AgendaOK' /\ Keeps(s)
       /\ \A i \in 1..Len(items) : InAgenda(s, items[i])'
       /\ \A u \in Task \ {s} : agenda'[u] = agenda[u]
  BY <1>1, <1>2, <1>9, <1>10, PutKeeps
<1>12. InAgenda(s, Tell(q[1]))'
  <2>1. InAgenda(s, items[1])'
    BY <1>8, <1>11
  <2>2. items[1] = Tell(q[1])
    BY <1>5, <1>6, <1>7
  <2>3. QED
    BY <2>1, <2>2
<1>13. /\ queue' \in [SessionId -> Seq(Message)] /\ queue'[s] = Tail(q)
       /\ \A u \in SessionId \ {s} : queue'[u] = queue[u]
  <2>1. queue' = [queue EXCEPT ![s] = Tail(q)]
    BY <1>1, <1>4
  <2>2. QED
    BY <1>2, <1>5, <2>1 DEF ChannelOK
<1>14. \A n : InQueue(s, n) => InQueue(s, n)' \/ InAgenda(s, Tell(n))'
  <2>1. ASSUME NEW n, InQueue(s, n)
        PROVE  InQueue(s, n)' \/ InAgenda(s, Tell(n))'
    <3>1. PICK i \in 1..Len(q) : q[i] = n
      BY <1>4, <2>1 DEF InQueue
    <3>2. CASE i = 1
      BY <1>12, <3>1, <3>2
    <3>3. CASE i # 1
      <4>1. i - 1 \in 1..Len(q) - 1 /\ (i - 1) + 1 = i
        BY <1>5, <3>1, <3>3
      <4>2. Tail(q)[i - 1] = n /\ i - 1 \in 1..Len(Tail(q))
        BY <1>5, <3>1, <4>1
      <4>3. QED
        BY <1>13, <4>2 DEF InQueue
    <3>4. QED
      BY <3>2, <3>3
  <2>2. QED
    BY <2>1
<1>15. BookOK' /\ MapOK' /\ ChannelOK'
  <2>1. \A u \in SessionId : u \in Task
    BY DEF Task
  <2>2. ChannelOK'
    BY <1>1, <1>2, <1>11, <1>13, <2>1 DEF ChannelOK
  <2>3. QED
    BY <1>1, <1>2, <2>2 DEF BookOK, MapOK
<1>16. SearchOffersAhead'
  <2>1. \A u \in SessionId : phase'[u] = "open" =>
          /\ phase[u] = "open"
          /\ Reachable(u)' => Reachable(u)
          /\ told[u] \subseteq told'[u]
          /\ \A n : InQueue(u, n) => InQueue(u, n)' \/ InAgenda(u, Tell(n))'
    <3>1. \A u \in SessionId \ {s} : \A n : InQueue(u, n) => InQueue(u, n)'
      BY <1>13 DEF InQueue
    <3>2. QED
      BY <1>1, <1>14, <3>1 DEF Reachable
  <2>2. \A u, o : ~ Owed(s, u, o)
    BY <1>1 DEF Owed
  <2>3. QED
    BY <1>1, <1>2, <1>11, <2>1, <2>2, SameAges, PlainStep DEF IInv, Types
<1>17. QED
  BY <1>11, <1>15, <1>16 DEF IInv, Types

LEMMA DisconnectedKeeps ==
  ASSUME IInv, NEW s \in SessionId, Disconnected(s)
  PROVE  IInv'
BY SameAges, EndKeeps DEF Disconnected, Serving, IInv, Types, BookOK

LEMMA HangUpKeeps ==
  ASSUME IInv, NEW s \in SessionId, HangUp(s)
  PROVE  IInv'
BY SameAges, EndKeeps DEF HangUp, Serving, IInv, Types, BookOK

(* The entry that goes may be that of a later session of the driver: that  *)
(* one stays open without being reachable.                                 *)
LEMMA CloseKeeps ==
  ASSUME IInv, NEW s \in SessionId, Close(s)
  PROVE  IInv'
<1>1. /\ phase[s] = "closing" /\ phase' = [phase EXCEPT ![s] = "closed"]
      /\ queue' = [queue EXCEPT ![s] = <<>>] /\ told' = [told EXCEPT ![s] = {}]
      /\ sessions' = [d \in DOMAIN sessions \ {DriverOf[s]} |-> sessions[d]]
      /\ UNCHANGED <<offers, agenda, forgone>>
  BY DEF Close, Forget
<1>2. /\ s \in Task /\ BookOK /\ AgendaOK /\ ChannelOK /\ MapOK /\ agenda[s] = <<>>
  BY <1>1 DEF Task, IInv, Types, ChannelOK
<1>3. AgendaOK' /\ Keeps(s)
  BY <1>1, <1>2 DEF AgendaOK, Keeps, InAgenda
<1>4. ChannelOK'
  <2>1. queue' \in [SessionId -> Seq(Message)] /\ queue'[s] = <<>>
        /\ \A u \in SessionId \ {s} : queue'[u] = queue[u]
    BY <1>1, <1>2, EmptySeq DEF ChannelOK
  <2>2. QED
    BY <1>1, <1>2, <2>1 DEF ChannelOK
<1>5. MapOK'
  BY <1>1, <1>2 DEF MapOK, ChannelOK
<1>6. SearchOffersAhead'
  <2>1. \A u \in SessionId : phase'[u] = "open" =>
          /\ phase[u] = "open"
          /\ Reachable(u)' => Reachable(u)
          /\ told[u] \subseteq told'[u]
          /\ \A n : InQueue(u, n) => InQueue(u, n)' \/ InAgenda(u, Tell(n))'
    BY <1>1, <1>2 DEF Reachable, InQueue, ChannelOK
  <2>2. \A u, o : ~ Owed(s, u, o)
    BY <1>2 DEF Owed
  <2>3. QED
    BY <1>1, <1>2, <1>3, <2>1, <2>2, SameAges, PlainStep DEF IInv, Types
<1>7. QED
  BY <1>1, <1>2, <1>3, <1>4, <1>5, <1>6 DEF IInv, Types, BookOK

LEMMA ExpireGlobalKeeps ==
  ASSUME IInv, ExpireGlobal
  PROVE  IInv'
<1> DEFINE late == {o \in DOMAIN offers : offers[o].status = "Overdue"}
<1>1. PICK update \in NextSearch(Expire(late)) :
        offers' = update.offers /\ Put(Sweeper, Notices(late) \o update.news)
  BY DEF ExpireGlobal
<1>2. agenda[Sweeper] = <<>> /\ UNCHANGED <<sessions, phase, queue, told, forgone>>
  BY DEF ExpireGlobal
<1>3. Sweeper \in Task /\ Sweeper \notin SessionId /\ BookOK /\ AgendaOK
  BY SweeperAssumption DEF Task, IInv, Types
<1>4. PICK notice \in Item : Notices(late) = <<notice>> /\ notice.do = "post"
  <2>1. {Msg("offer_expired", o) : o \in late} \in SUBSET Message
    BY <1>3, OffersKnown, MessageType
  <2>2. QED
    BY <2>1, ItemTypes DEF Notices, Post
<1>5. PICK news \in Seq(Item) :
        /\ news = update.news
        /\ offers' \in Seq(Offer) /\ Len(offers') <= MaxOffers /\ Ages(offers, offers')
        /\ \A i \in 1..Len(news) : news[i].do = "announce" /\ news[i].offer \in DOMAIN offers'
        /\ \A o \in DOMAIN offers' \ DOMAIN offers :
             \E i \in 1..Len(news) : news[i] = Announce(o)
  <2>1. PICK book \in Seq(Offer) :
          book = Expire(late) /\ Len(book) = Len(offers) /\ Ages(offers, book)
    BY <1>3, ExpireAges
  <2>2. update \in NextSearch(book)
    BY <1>1, <2>1
  <2>3. QED
    BY <1>1, <1>3, <2>1, <2>2, SearchProperties
<1>6. PICK items \in Seq(Item) :
        /\ items = <<notice>> \o news /\ Len(items) = 1 + Len(news) /\ Len(news) \in Nat
        /\ \A i \in 1..Len(items) : \/ i = 1 /\ items[i].do = "post"
                                    \/ items[i].do = "announce" /\ items[i].offer \in DOMAIN offers'
        /\ \A k \in 1..Len(news) : k + 1 \in 1..Len(items) /\ items[k + 1] = news[k]
  <2>1. PICK one \in Seq(Item) : one = <<notice>> /\ Len(one) = 1 /\ one[1] = notice
    BY OneItem
  <2> DEFINE its == one \o news
  <2>2. /\ its \in Seq(Item) /\ Len(its) = Len(one) + Len(news)
        /\ \A i \in 1 .. Len(one) + Len(news) :
             its[i] = IF i <= Len(one) THEN one[i] ELSE news[i - Len(one)]
        /\ Len(news) \in Nat
    BY ConcatProperties
  <2>3. its = <<notice>> \o news
    BY <2>1
  <2> HIDE DEF its
  <2>4. \A k \in 1..Len(news) : k + 1 \in 1..Len(its) /\ its[k + 1] = news[k]
    <3>1. \A k \in 1..Len(news) : /\ k + 1 \in 1 .. Len(one) + Len(news)
                                  /\ ~ (k + 1 <= Len(one)) /\ (k + 1) - Len(one) = k
      BY <2>1, <2>2
    <3>2. QED
      BY <2>2, <3>1
  <2>5. its[1] = notice
    BY <2>1, <2>2
  <2>6. ASSUME NEW i \in 1..Len(its), i # 1
        PROVE  its[i].do = "announce" /\ its[i].offer \in DOMAIN offers'
    <3>1. i - 1 \in 1..Len(news) /\ (i - 1) + 1 = i
      BY <2>1, <2>2, <2>6
    <3>2. its[i] = news[i - 1]
      BY <2>4, <3>1
    <3>3. QED
      BY <1>5, <3>1, <3>2
  <2>7. \A i \in 1..Len(its) :
          \/ i = 1 /\ its[i].do = "post"
          \/ its[i].do = "announce" /\ its[i].offer \in DOMAIN offers'
    BY <1>4, <2>5, <2>6
  <2>8. Len(its) = 1 + Len(news)
    BY <2>1, <2>2
  <2>9. QED
    BY <2>2, <2>3, <2>4, <2>7, <2>8
<1>7. Put(Sweeper, items)
  BY <1>1, <1>4, <1>5, <1>6
<1>8. WellFormed(items, offers')
  <2>1. \A i \in 1..Len(items) : items[i].do # "register"
    BY <1>6
  <2>2. QED
    BY <1>6, <2>1 DEF WellFormed
<1>9. DOMAIN offers \subseteq DOMAIN offers'
  BY <1>5 DEF Ages
<1>10. /\ AgendaOK' /\ Keeps(Sweeper)
       /\ \A i \in 1..Len(items) : InAgenda(Sweeper, items[i])'
       /\ \A u \in Task \ {Sweeper} : agenda'[u] = agenda[u]
  BY <1>2, <1>3, <1>7, <1>8, <1>9, PutKeeps
<1>11. \A o \in DOMAIN offers' \ DOMAIN offers : \E u \in Task : InAgenda(u, Announce(o))'
  <2>1. ASSUME NEW o \in DOMAIN offers' \ DOMAIN offers
        PROVE  InAgenda(Sweeper, Announce(o))'
    <3>1. PICK k \in 1..Len(news) : news[k] = Announce(o)
      BY <1>5, <2>1
    <3>2. PICK i \in 1..Len(items) : items[i] = Announce(o)
      BY <1>6, <3>1
    <3>3. QED
      BY <1>10, <3>2
  <2>2. QED
    BY <1>3, <2>1
<1>12. \A u, o : ~ Owed(Sweeper, u, o)
  BY <1>2 DEF Owed
<1>13. QED
  BY <1>2, <1>3, <1>5, <1>10, <1>11, <1>12, QuietStep

(* Steps that only make offers by submission, or age them. *)
LEMMA BookStep ==
  ASSUME IInv, UNCHANGED <<sessions, phase, queue, agenda, told, forgone>>,
         offers' \in Seq(Offer), Len(offers') <= MaxOffers, Ages(offers, offers'),
         \A o \in DOMAIN offers' \ DOMAIN offers : offers'[o].by = "submit"
  PROVE  IInv'
<1>1. Types'
  BY DEF IInv, Types, BookOK, AgendaOK, ChannelOK, MapOK, WellFormed, Ages
<1>2. SearchOffersAhead'
  <2>1. SUFFICES ASSUME NEW s \in SessionId, NEW o \in DOMAIN offers', Waits(s, o)',
                        offers'[o].by # "submit"
                 PROVE  Ahead(s, o)'
    BY DEF SearchOffersAhead
  <2>2. o \in DOMAIN offers
    BY <2>1
  <2>3. phase[s] = "open" /\ Reachable(s)
    BY <2>1 DEF Waits, Reachable
  <2>4. WasWaiting(s, o)
    BY <2>1, <2>2, <2>3, StillWaiting
  <2>5. Ahead(s, o)
    BY <2>1, <2>4 DEF WasWaiting, IInv, SearchOffersAhead
  <2>6. QED
    BY <2>5 DEF Ahead, OnItsWay, Told, InQueue, InAgenda
<1>3. QED
  BY <1>1, <1>2 DEF IInv

LEMMA DispatchOfferKeeps ==
  ASSUME IInv, NEW d \in DriverId, DispatchOffer(d)
  PROVE  IInv'
<1> DEFINE e == [driver |-> d, status |-> "Pending", by |-> "submit"]
<1>1. /\ Len(offers) < MaxOffers /\ offers' = Append(offers, e)
      /\ UNCHANGED <<sessions, phase, queue, agenda, told, forgone>>
  BY DEF DispatchOffer, WithOffer
<1>2. e \in Offer /\ e.by = "submit"
  BY DEF Offer, OfferStatus
<1> HIDE DEF e
<1>3. offers \in Seq(Offer) /\ Len(offers) \in Nat
  BY DEF IInv, Types, BookOK
<1>4. /\ offers' \in Seq(Offer) /\ Len(offers') = Len(offers) + 1 /\ Ages(offers, offers')
      /\ \A o \in DOMAIN offers' \ DOMAIN offers : offers'[o] = e
  BY <1>1, <1>2, <1>3, AppendAges
<1>5. Len(offers') <= MaxOffers
  BY <1>1, <1>3, <1>4, MaxOffersAssumption
<1>6. QED
  BY <1>1, <1>2, <1>4, <1>5, BookStep

LEMMA SettleKeeps ==
  ASSUME IInv, NEW o, NEW status \in OfferStatus \ {"Pending"}, offers' = Settle(o, status),
         UNCHANGED <<sessions, phase, queue, agenda, told, forgone>>
  PROVE  IInv'
<1>1. BookOK
  BY DEF IInv, Types
<1>2. /\ offers' \in Seq(Offer) /\ Len(offers') = Len(offers)
      /\ DOMAIN offers' = DOMAIN offers /\ Ages(offers, offers')
  BY <1>1, SettleAges
<1>3. QED
  BY <1>1, <1>2, BookStep DEF BookOK

-----------------------------------------------------------------------------
(* The invariant holds initially and every step preserves it. *)

LEMMA InitKeeps == Init => IInv
<1> SUFFICES ASSUME Init PROVE IInv
  OBVIOUS
<1>1. BookOK
  BY EmptySeq, MaxOffersAssumption DEF Init, BookOK
<1>2. AgendaOK
  BY EmptySeq DEF Init, AgendaOK, WellFormed
<1>3. ChannelOK
  BY EmptySeq DEF Init, ChannelOK, Task
<1>4. MapOK /\ SearchOffersAhead
  BY DEF Init, MapOK, SearchOffersAhead, Waits
<1>5. QED
  BY <1>1, <1>2, <1>3, <1>4 DEF IInv, Types

LEMMA StepKeeps == IInv /\ [Next]_vars => IInv'
<1> SUFFICES ASSUME IInv, [Next]_vars
             PROVE  IInv'
  OBVIOUS
<1>1. CASE \E s \in SessionId : SessionStep(s)
  BY <1>1, RegisterKeeps, FlushKeeps, ReplayKeeps, TellKeeps, RespondKeeps,
     CancellationsKeeps, WebhookKeeps, CloseKeeps DEF SessionStep
<1>2. CASE \E s \in SessionId : Loop(s)
  BY <1>2, TickKeeps, ReceiveKeeps, DisconnectedKeeps DEF Loop
<1>3. CASE \E t \in Task : NoticeStep(t)
  BY <1>3, AnnounceKeeps, PostKeeps DEF NoticeStep
<1>4. CASE ExpireGlobal
  BY <1>4, ExpireGlobalKeeps
<1>5. CASE Outside
  <2>1. CASE \E s \in SessionId : Connect(s) \/ HangUp(s)
    BY <2>1, ConnectKeeps, HangUpKeeps
  <2>2. CASE \E s \in SessionId, o \in OfferId, a \in BOOLEAN : Answer(s, o, a)
    BY <2>2, AnswerKeeps
  <2>3. CASE \E d \in DriverId : DispatchOffer(d)
    BY <2>3, DispatchOfferKeeps
  <2>4. CASE \E o \in DOMAIN offers : CancelOffer(o) \/ Lapse(o)
    <3>1. "Cancelled" \in OfferStatus \ {"Pending"} /\ "Overdue" \in OfferStatus \ {"Pending"}
      BY DEF OfferStatus
    <3>2. QED
      BY <2>4, <3>1, SettleKeeps DEF CancelOffer, Lapse
  <2>5. QED
    BY <1>5, <2>1, <2>2, <2>3, <2>4 DEF Outside
<1>6. CASE UNCHANGED vars
  <2>1. /\ UNCHANGED <<sessions, phase, queue, agenda, told, forgone>>
        /\ offers' = offers
    BY <1>6 DEF vars
  <2>2. QED
    BY <2>1, SameAges, BookStep DEF IInv, Types, BookOK
<1>7. QED
  BY <1>1, <1>2, <1>3, <1>4, <1>5, <1>6 DEF Next

LEMMA Invariance == Spec => []IInv
<1>1. Init => IInv
  BY InitKeeps
<1>2. IInv /\ [Next]_vars => IInv'
  BY StepKeeps
<1>3. QED
  BY <1>1, <1>2, PTL DEF Spec

-----------------------------------------------------------------------------
(* The theorems. *)

(* The state is of its type: in particular a session that ends drops its   *)
(* agenda, and once closed its channel is empty.                           *)
THEOREM SessionTypeCorrect == Spec => []TypeOK
<1>1. IInv => TypeOK
  BY DEF IInv, Types, BookOK, AgendaOK, ChannelOK, MapOK, TypeOK, Offer
<1>2. QED
  BY <1>1, Invariance, PTL

(* The sender in the map is that of a connection that is not closed,       *)
(* however connections of a driver replace one another and end.            *)
THEOREM SenderIsOpen == Spec => []SenderOfOpenSession
<1>1. IInv => SenderOfOpenSession
  BY DEF IInv, Types, MapOK, SenderOfOpenSession
<1>2. QED
  BY <1>1, Invariance, PTL

(* A pending offer a search made is known to its driver's idle session, or *)
(* on its way to it, or was lost with the session that owed its            *)
(* announcement, however connecting races searching and announcing.        *)
THEOREM SearchOffersArrive == Spec => []SearchOffersReachDriver
<1>1. IInv => SearchOffersReachDriver
  <2>1. SUFFICES ASSUME IInv, NEW s \in SessionId, Rests(s),
                        NEW o \in OffersOf(DriverOf[s], "Pending"), offers[o].by # "submit"
                 PROVE  OnItsWay(o) \/ Told(s, o)
    BY DEF SearchOffersReachDriver
  <2>2. Waits(s, o) /\ o \in DOMAIN offers
    BY <2>1 DEF Waits, Rests, Serving, OffersOf
  <2>3. Ahead(s, o)
    BY <2>1, <2>2 DEF IInv, SearchOffersAhead
  <2>4. \A x : ~ InAgenda(s, x) /\ ~ InQueue(s, x)
    BY <2>1 DEF Rests, Serving, InAgenda, InQueue
  <2>5. QED
    BY <2>3, <2>4 DEF Ahead
<1>2. QED
  BY <1>1, Invariance, PTL

=============================================================================
