---------------------------- MODULE EngineProofs ----------------------------
(***************************************************************************)
(* Theorems about Engine, for every value of its constants.                *)
(***************************************************************************)
EXTENDS Engine, SharedLemmas, SequenceTheorems, FunctionTheorems, FiniteSetTheorems, TLAPS

-----------------------------------------------------------------------------
(* Lemmas about the operators. *)

(* News are what a command pushes: kinds and offers, numbered when pushed. *)
News == [kind : EventKind, offer : OfferId \cup {NoOffer}]

LEMMA NewestIsSeq ==
  ASSUME NEW S, NEW s \in Seq(S)
  PROVE  Newest(s) \in Seq(S)
<1> DEFINE m == IF Len(s) > MaxJobEvents THEN Len(s) - MaxJobEvents + 1 ELSE 1
<1>1. Len(s) \in Nat /\ m \in Int /\ m >= 1
  BY LimitAssumption
<1>2. \A i \in m .. Len(s) : s[i] \in S
  BY <1>1
<1>3. QED
  BY <1>1, <1>2, SubSeqProperties DEF Newest

LEMMA PushTyped ==
  ASSUME TimelineTypeOK, NEW j \in JobId, NEW news \in Seq(News),
         PushJobEvents(j, news)
  PROVE  TimelineTypeOK'
<1> DEFINE n == job_event_sequences[j]
           numbered == [i \in 1..Len(news) |->
                          [sequence |-> n + i, kind |-> news[i].kind,
                           offer |-> news[i].offer]]
<1>1. n \in Nat /\ Len(news) \in Nat /\ job_events[j] \in Seq(Event)
  BY DEF TimelineTypeOK
<1>2. numbered \in Seq(Event)
  <2>1. \A i \in 1..Len(news) : news[i] \in News
    OBVIOUS
  <2>2. \A i \in 1..Len(news) : numbered[i] \in Event
    BY <1>1, <2>1 DEF Event, News
  <2>3. QED
    BY <1>1, <2>2, IsASeq
<1>3. job_events[j] \o numbered \in Seq(Event)
  BY <1>1, <1>2, ConcatProperties
<1>4. Newest(job_events[j] \o numbered) \in Seq(Event)
  BY <1>3, NewestIsSeq
<1>5. job_event_sequences' = [job_event_sequences EXCEPT ![j] = n + Len(news)]
  BY DEF PushJobEvents
<1>6. job_events' = [job_events EXCEPT ![j] = Newest(job_events[j] \o numbered)]
  BY DEF PushJobEvents
<1>7. QED
  BY <1>1, <1>4, <1>5, <1>6 DEF TimelineTypeOK

LEMMA NewsTyped ==
  ASSUME NEW kind \in EventKind, NEW o \in OfferId \cup {NoOffer}
  PROVE  About(kind, o) \in News
BY DEF About, News

(* However the cancelled offers of a command are ordered, they are news.   *)
LEMMA CancellationsTyped ==
  ASSUME NEW S \in SUBSET OfferId, NEW c \in CancellationsOf(S)
  PROVE  c \in Seq(News)
<1>1. PICK s \in SetToSeqs(S) : c = [i \in DOMAIN s |-> About("OfferCancelled", s[i])]
  BY DEF CancellationsOf
<1>2. Cardinality(S) \in Nat
  BY IdAssumption, FS_Subset, FS_CardinalityType
<1>3. s \in [1..Cardinality(S) -> S]
  BY <1>1 DEF SetToSeqs
<1>4. \A i \in 1..Cardinality(S) : c[i] \in News
  BY <1>1, <1>3, NewsTyped DEF EventKind
<1>5. QED
  BY <1>1, <1>2, <1>3, <1>4, IsASeq

LEMMA OneEventTyped ==
  ASSUME TimelineTypeOK, NEW j \in JobId, NEW kind \in EventKind,
         NEW o \in OfferId \cup {NoOffer}, PushJobEvents(j, <<About(kind, o)>>)
  PROVE  TimelineTypeOK'
<1>1. About(kind, o) \in News
  BY NewsTyped
<1>2. <<About(kind, o)>> \in Seq(News)
  BY <1>1
<1>3. QED
  BY <1>2, PushTyped

-----------------------------------------------------------------------------
(* Type correctness, one lemma per action.                                 *)

LEMMA CreateOfferTyped ==
  ASSUME TypeOK, NEW j \in DOMAIN jobs, NEW d \in DriverId, CreateOffer(j, d),
         UNCHANGED <<jobs, lapsed, cancelled_jobs, awaiting>>
  PROVE  BookTypeOK' /\ TimelineTypeOK' /\ DOMAIN offers \subseteq DOMAIN offers'
<1>1. PICK o \in OfferId \ DOMAIN offers :
        /\ offers' = With(offers, o, [job |-> j, driver |-> d, status |-> "Pending"])
        /\ PushJobEvents(j, <<About("OfferCreated", o)>>)
  BY DEF CreateOffer
<1>2. TimelineTypeOK'
  BY <1>1, OneEventTyped DEF TypeOK, BookTypeOK, EventKind
<1>3. BookTypeOK' /\ DOMAIN offers \subseteq DOMAIN offers'
  BY <1>1 DEF TypeOK, BookTypeOK, With, OfferStatus
<1>4. QED
  BY <1>2, <1>3

LEMMA MarkOfferTyped ==
  ASSUME TypeOK, NEW o \in DOMAIN offers, NEW s \in OfferStatus,
         NEW kind \in EventKind, MarkOffer(o, s, kind),
         UNCHANGED <<jobs, lapsed, cancelled_jobs, awaiting>>
  PROVE  BookTypeOK' /\ TimelineTypeOK' /\ DOMAIN offers' = DOMAIN offers
<1>1. offers[o].job \in JobId /\ o \in OfferId
  BY DEF TypeOK, BookTypeOK
<1>2. TimelineTypeOK'
  BY <1>1, OneEventTyped DEF MarkOffer, TypeOK
<1>3. BookTypeOK' /\ DOMAIN offers' = DOMAIN offers
  BY DEF MarkOffer, SetStatus, TypeOK, BookTypeOK
<1>4. QED
  BY <1>2, <1>3

LEMMA FleetSame ==
  FleetTypeOK /\ UNCHANGED <<fleetVars, evicting>> => FleetTypeOK'
BY DEF FleetTypeOK, fleetVars

LEMMA TimelineSame ==
  TimelineTypeOK /\ UNCHANGED timelineVars => TimelineTypeOK'
BY DEF TimelineTypeOK, timelineVars

LEMMA BookSame ==
  BookTypeOK /\ UNCHANGED <<jobs, offers, lapsed, cancelled_jobs, awaiting>>
    => BookTypeOK'
BY DEF BookTypeOK

LEMMA UpsertDriverTyped ==
  ASSUME TypeOK, NEW d \in DriverId, NEW report \in Report, UpsertDriver(d, report)
  PROVE  TypeOK'
<1>1. drivers' = With(drivers, d, report) /\ stale' = stale \ {d} /\ evicting' = evicting
  BY DEF UpsertDriver, handlerVars
<1>2. FleetTypeOK'
  <2>1. DOMAIN drivers' = DOMAIN drivers \cup {d}
    BY <1>1 DEF With
  <2>2. ASSUME NEW x \in DOMAIN drivers'
        PROVE  drivers'[x] \in [category : Category, status : DriverStatus,
                                position : Position]
    BY <1>1, <2>1, InputAssumption DEF With, TypeOK, FleetTypeOK
  <2>3. QED
    BY <1>1, <2>1, <2>2 DEF TypeOK, FleetTypeOK
<1>3. BookTypeOK' /\ HandlerTypeOK' /\ TimelineTypeOK'
  BY DEF UpsertDriver, TypeOK, BookTypeOK, HandlerTypeOK, TimelineTypeOK, handlerVars
<1>4. QED
  BY <1>2, <1>3 DEF TypeOK

LEMMA SubmitJobTyped ==
  ASSUME TypeOK, NEW j \in JobId, NEW req \in Request, SubmitJob(j, req)
  PROVE  TypeOK'
<1>1. TimelineTypeOK'
  BY OneEventTyped DEF SubmitJob, TypeOK, EventKind
<1>2. jobs' = With(jobs, j, req) /\ offers' = offers
  BY DEF SubmitJob
<1>3. DOMAIN jobs' = DOMAIN jobs \cup {j} /\ \A k \in DOMAIN jobs' : jobs'[k] \in Request
  BY <1>2 DEF With, TypeOK, BookTypeOK
<1>4. ASSUME NEW o \in DOMAIN offers'
      PROVE  offers'[o] \in [job : DOMAIN jobs', driver : DriverId, status : OfferStatus]
  BY <1>2, <1>3 DEF TypeOK, BookTypeOK
<1>5. BookTypeOK' /\ HandlerTypeOK'
  BY <1>2, <1>3, <1>4 DEF SubmitJob, TypeOK, BookTypeOK, HandlerTypeOK, Idle
<1>6. FleetTypeOK'
  BY FleetSame DEF SubmitJob, TypeOK
<1>7. QED
  BY <1>1, <1>5, <1>6 DEF TypeOK

LEMMA SubmitOfferTyped ==
  ASSUME TypeOK, NEW j \in JobId, SubmitOffer(j)
  PROVE  TypeOK'
<1>1. PICK d \in DOMAIN drivers : CreateOffer(j, d)
  BY DEF SubmitOffer
<1>2. j \in DOMAIN jobs /\ d \in DriverId
  BY DEF SubmitOffer, TypeOK, HandlerTypeOK, FleetTypeOK
<1>3. BookTypeOK' /\ TimelineTypeOK' /\ DOMAIN offers \subseteq DOMAIN offers'
  BY <1>1, <1>2, CreateOfferTyped DEF SubmitOffer
<1>4. HandlerTypeOK' /\ FleetTypeOK'
  BY <1>3, FleetSame DEF SubmitOffer, TypeOK, HandlerTypeOK
<1>5. QED
  BY <1>3, <1>4 DEF TypeOK

LEMMA AdvanceOneTyped ==
  ASSUME TypeOK, NEW j \in JobId, AdvanceOne(j)
  PROVE  TypeOK'
<1>1. PICK d \in DOMAIN drivers : CreateOffer(j, d)
  BY DEF AdvanceOne
<1>2. j \in DOMAIN jobs /\ d \in DriverId
  BY DEF AdvanceOne, TypeOK, HandlerTypeOK, FleetTypeOK
<1>3. BookTypeOK' /\ TimelineTypeOK' /\ DOMAIN offers \subseteq DOMAIN offers'
  BY <1>1, <1>2, CreateOfferTyped DEF AdvanceOne
<1>4. HandlerTypeOK' /\ FleetTypeOK'
  BY <1>3, FleetSame DEF AdvanceOne, TypeOK, HandlerTypeOK
<1>5. QED
  BY <1>3, <1>4 DEF TypeOK

(* Steps that only give up a job the handler still had on its list. *)
LEMMA GiveUpTyped ==
  ASSUME TypeOK, NEW j \in JobId, SubmitInVain(j) \/ AdvanceNone(j)
  PROVE  TypeOK'
<1>1. FleetTypeOK' /\ TimelineTypeOK' /\ BookTypeOK'
  BY FleetSame, TimelineSame, BookSame DEF SubmitInVain, AdvanceNone, TypeOK
<1>2. HandlerTypeOK'
  BY DEF SubmitInVain, AdvanceNone, TypeOK, HandlerTypeOK
<1>3. QED
  BY <1>1, <1>2 DEF TypeOK

(* Steps that mark one offer. *)
LEMMA MarkingStepTyped ==
  ASSUME TypeOK, NEW o \in OfferId,
         CancelOffer(o) \/ RespondReject(o) \/ RespondLate(o) \/ ExpireOne(o)
  PROVE  TypeOK'
<1>1. o \in DOMAIN offers
  BY DEF CancelOffer, RespondReject, RespondLate, ExpireOne, Answerable, TypeOK,
         HandlerTypeOK
<1>2. PICK s \in OfferStatus, kind \in EventKind : MarkOffer(o, s, kind)
  BY DEF CancelOffer, RespondReject, RespondLate, ExpireOne, OfferStatus, EventKind
<1>3. UNCHANGED <<fleetVars, evicting, jobs, lapsed, cancelled_jobs, awaiting, submitting>>
  BY DEF CancelOffer, RespondReject, RespondLate, ExpireOne, handlerVars
<1>4. BookTypeOK' /\ TimelineTypeOK' /\ DOMAIN offers' = DOMAIN offers
  BY <1>1, <1>2, <1>3, MarkOfferTyped
<1>5. FleetTypeOK'
  BY <1>3, FleetSame DEF TypeOK
<1>6. offers[o].job \in DOMAIN jobs
  BY <1>1 DEF TypeOK, BookTypeOK
<1>7. /\ expiring' \subseteq expiring
      /\ advancing' \subseteq advancing \cup {offers[o].job}
  BY DEF CancelOffer, RespondReject, RespondLate, ExpireOne, handlerVars
<1>8. HandlerTypeOK'
  BY <1>3, <1>4, <1>6, <1>7 DEF TypeOK, HandlerTypeOK
<1>9. QED
  BY <1>4, <1>5, <1>8 DEF TypeOK

LEMMA CancelJobTyped ==
  ASSUME TypeOK, NEW j \in JobId, CancelJob(j)
  PROVE  TypeOK'
<1> DEFINE pending == WithStatus(j, "Pending")
           closing == IF j \in cancelled_jobs THEN <<>>
                      ELSE <<About("JobCancelled", NoOffer)>>
<1>1. pending \in SUBSET OfferId
  BY DEF WithStatus, OffersOf, TypeOK, BookTypeOK
<1>2. closing \in Seq(News)
  <2>1. About("JobCancelled", NoOffer) \in News
    BY NewsTyped DEF EventKind
  <2>2. QED
    BY <2>1
<1>3. PICK c \in CancellationsOf(pending) : PushJobEvents(j, c \o closing)
  BY DEF CancelJob
<1>4. c \o closing \in Seq(News)
  BY <1>1, <1>2, CancellationsTyped, ConcatProperties
<1>5. TimelineTypeOK'
  BY <1>3, <1>4, PushTyped DEF TypeOK
<1>6. BookTypeOK' /\ DOMAIN offers' = DOMAIN offers
  BY DEF CancelJob, KnownJob, SetStatus, OfferStatus, TypeOK, BookTypeOK
<1>7. HandlerTypeOK' /\ FleetTypeOK'
  BY <1>6, FleetSame DEF CancelJob, TypeOK, HandlerTypeOK, handlerVars
<1>8. QED
  BY <1>5, <1>6, <1>7 DEF TypeOK

LEMMA RespondAcceptTyped ==
  ASSUME TypeOK, NEW o \in OfferId, RespondAccept(o)
  PROVE  TypeOK'
<1> DEFINE j == offers[o].job
           d == offers[o].driver
           competing == WithStatus(j, "Pending") \ {o}
           closing == <<About("OfferAccepted", o), About("MatchConfirmed", o)>>
<1>1. o \in DOMAIN offers /\ j \in JobId /\ competing \in SUBSET OfferId
  BY DEF RespondAccept, Answerable, WithStatus, OffersOf, TypeOK, BookTypeOK
<1>2. TimelineTypeOK'
  <2>1. closing \in Seq(News)
    <3>1. About("OfferAccepted", o) \in News /\ About("MatchConfirmed", o) \in News
      BY NewsTyped DEF EventKind
    <3>2. QED
      BY <3>1
  <2>2. PICK c \in CancellationsOf(competing) : PushJobEvents(j, c \o closing)
    BY DEF RespondAccept, AcceptOffer
  <2>3. c \o closing \in Seq(News)
    BY <1>1, <2>1, CancellationsTyped, ConcatProperties
  <2>4. QED
    BY <1>1, <2>2, <2>3, PushTyped DEF TypeOK
<1>3. offers' = [x \in DOMAIN offers |->
                   IF x = o THEN [offers[x] EXCEPT !.status = "Accepted"]
                            ELSE SetStatus(competing, "Cancelled")[x]]
  BY DEF RespondAccept, AcceptOffer
<1>4. UNCHANGED <<jobs, lapsed, cancelled_jobs, stale, handlerVars>>
      /\ awaiting' = awaiting \cup {o}
  BY DEF RespondAccept
<1>5. BookTypeOK' /\ DOMAIN offers' = DOMAIN offers
  BY <1>1, <1>3, <1>4 DEF SetStatus, OfferStatus, TypeOK, BookTypeOK
<1>6. drivers' = IF d \in DOMAIN drivers
                 THEN [drivers EXCEPT ![d].status = "Busy"] ELSE drivers
  BY DEF RespondAccept, AcceptOffer
<1>7. FleetTypeOK'
  BY <1>4, <1>6 DEF TypeOK, FleetTypeOK, DriverStatus, handlerVars
<1>8. HandlerTypeOK'
  BY <1>4, <1>5 DEF TypeOK, HandlerTypeOK, handlerVars
<1>9. QED
  BY <1>2, <1>5, <1>7, <1>8 DEF TypeOK

(* Collecting what is overdue or stale, and the passing of time.           *)
LEMMA CollectingTyped ==
  ASSUME TypeOK,
         \/ \E d \in DriverId : ExpireForDriver(d)
         \/ ExpireGlobal
         \/ BeginEviction
  PROVE  TypeOK'
<1>1. BookTypeOK' /\ TimelineTypeOK'
  BY BookSame, TimelineSame
     DEF ExpireForDriver, ExpireGlobal, BeginExpiry, BeginEviction, TypeOK
<1>2. FleetTypeOK'
  BY DEF ExpireForDriver, ExpireGlobal, BeginExpiry, BeginEviction, TypeOK,
         FleetTypeOK, fleetVars
<1>3. HandlerTypeOK'
  <2>1. CASE BeginEviction
    BY <2>1 DEF BeginEviction, TypeOK, HandlerTypeOK
  <2>2. ASSUME NEW found \in SUBSET Overdue, BeginExpiry(found)
        PROVE  HandlerTypeOK'
    BY <2>2 DEF BeginExpiry, Overdue, TypeOK, BookTypeOK, HandlerTypeOK
  <2>3. QED
    BY <2>1, <2>2 DEF ExpireForDriver, ExpireGlobal
<1>4. QED
  BY <1>1, <1>2, <1>3 DEF TypeOK

LEMMA EvictOneTyped ==
  ASSUME TypeOK, NEW d \in DriverId, EvictOne(d)
  PROVE  TypeOK'
<1>1. BookTypeOK' /\ TimelineTypeOK' /\ HandlerTypeOK'
  BY BookSame, TimelineSame DEF EvictOne, TypeOK, HandlerTypeOK
<1>2. FleetTypeOK'
  BY DEF EvictOne, Without, TypeOK, FleetTypeOK
<1>3. QED
  BY <1>1, <1>2 DEF TypeOK

LEMMA WebhookTyped ==
  ASSUME TypeOK, NEW o \in OfferId,
         WebhookDelivered(o) \/ RecordWebhookDeliveryFailed(o)
  PROVE  TypeOK'
<1>1. FleetTypeOK' /\ BookTypeOK' /\ HandlerTypeOK'
  BY DEF WebhookDelivered, RecordWebhookDeliveryFailed, TypeOK, FleetTypeOK,
         BookTypeOK, HandlerTypeOK, fleetVars, handlerVars
<1>2. TimelineTypeOK'
  <2>1. CASE WebhookDelivered(o)
    BY <2>1, TimelineSame DEF WebhookDelivered, TypeOK
  <2>2. CASE RecordWebhookDeliveryFailed(o)
    <3>1. offers[o].job \in JobId
      BY <2>2 DEF RecordWebhookDeliveryFailed, TypeOK, BookTypeOK
    <3>2. QED
      BY <2>2, <3>1, OneEventTyped DEF RecordWebhookDeliveryFailed, TypeOK, EventKind
  <2>3. QED
    BY <2>1, <2>2
<1>3. QED
  BY <1>1, <1>2 DEF TypeOK

LEMMA TimeTyped ==
  ASSUME TypeOK, TimeStep
  PROVE  TypeOK'
<1>1. TimelineTypeOK' /\ HandlerTypeOK'
  BY DEF TimeStep, Lapse, GoStale, TypeOK, TimelineTypeOK, HandlerTypeOK,
         timelineVars, handlerVars
<1>2. BookTypeOK' /\ FleetTypeOK'
  BY DEF TimeStep, Lapse, GoStale, TypeOK, BookTypeOK, FleetTypeOK,
         fleetVars, handlerVars
<1>3. QED
  BY <1>1, <1>2 DEF TypeOK

LEMMA RestartTyped ==
  ASSUME TypeOK, Restart
  PROVE  TypeOK'
<1>1. TimelineTypeOK' /\ HandlerTypeOK'
  BY DEF Restart, TypeOK, TimelineTypeOK, HandlerTypeOK, timelineVars
<1>2. BookTypeOK' /\ FleetTypeOK'
  BY DEF Restart, TypeOK, BookTypeOK, FleetTypeOK, fleetVars
<1>3. QED
  BY <1>1, <1>2 DEF TypeOK

LEMMA InitTyped == Init => TypeOK
<1> SUFFICES ASSUME Init PROVE TypeOK
  OBVIOUS
<1>1. FleetTypeOK /\ BookTypeOK /\ HandlerTypeOK
  BY DEF Init, EmptyMap, FleetTypeOK, BookTypeOK, HandlerTypeOK
<1>2. TimelineTypeOK
  BY EmptySeq DEF Init, TimelineTypeOK
<1>3. QED
  BY <1>1, <1>2 DEF TypeOK

LEMMA StepTyped == TypeOK /\ [Next]_vars => TypeOK'
<1> SUFFICES ASSUME TypeOK, [Next]_vars PROVE TypeOK'
  OBVIOUS
<1>1. CASE HandlerStep
  BY <1>1, SubmitOfferTyped, AdvanceOneTyped, GiveUpTyped, MarkingStepTyped,
     EvictOneTyped DEF HandlerStep
<1>2. CASE DispatcherStep
  BY <1>2, SubmitJobTyped, CancelJobTyped, MarkingStepTyped DEF DispatcherStep
<1>3. CASE DriverStep
  BY <1>3, UpsertDriverTyped, RespondAcceptTyped, MarkingStepTyped,
     CollectingTyped DEF DriverStep
<1>4. CASE BackgroundStep
  BY <1>4, CollectingTyped, WebhookTyped DEF BackgroundStep
<1>5. CASE TimeStep
  BY <1>5, TimeTyped
<1>6. CASE Restart
  BY <1>6, RestartTyped
<1>7. CASE UNCHANGED vars
  BY <1>7 DEF vars, TypeOK, FleetTypeOK, BookTypeOK, HandlerTypeOK, TimelineTypeOK
<1>8. QED
  BY <1>1, <1>2, <1>3, <1>4, <1>5, <1>6, <1>7 DEF Next

(* Every variable keeps its type: in particular every offer belongs to a   *)
(* registered job, and what a handler still has to do refers to offers,    *)
(* jobs and drivers the engine holds.                                      *)
THEOREM TypeCorrect == Spec => []TypeOK
BY InitTyped, StepTyped, PTL DEF Spec

-----------------------------------------------------------------------------
(* Safety of the offer book.  The properties alone are not inductive: a    *)
(* handler in the middle of its work must also be known to hold the mutex  *)
(* for that work, a job whose first offer is being made to be neither      *)
(* cancelled nor (used once) offered before, and the offers a sweep has    *)
(* collected to be pending still.                                          *)

ExpiringArePending == \A o \in expiring : offers[o].status = "Pending"

SubmittingIsFirst ==
  \A j \in submitting : /\ j \notin cancelled_jobs
                        /\ ~ Resubmit => OffersOf(j) = {}

OneHandler ==
  \/ submitting = {}
  \/ expiring = {} /\ advancing = {} /\ evicting = {}

OncePerJob == ~ Resubmit => OneLiveOffer /\ NeverReoffered

BookInv ==
  /\ TypeOK
  /\ ExpiringArePending
  /\ SubmittingIsFirst
  /\ OneHandler
  /\ CancelledJobsAreQuiet
  /\ OncePerJob

(* What most commands do to the offers: no new one, and each keeps its     *)
(* status or is retired.                                                   *)
Retires ==
  /\ DOMAIN offers' = DOMAIN offers
  /\ \A o \in DOMAIN offers :
       /\ offers'[o].job = offers[o].job
       /\ offers'[o].driver = offers[o].driver
       /\ offers'[o].status \in {offers[o].status, "Rejected", "Expired", "Cancelled"}

LEMMA MarkRetires ==
  ASSUME BookTypeOK, NEW o, NEW s \in {"Rejected", "Expired", "Cancelled"},
         NEW kind, MarkOffer(o, s, kind)
  PROVE  Retires
BY DEF BookTypeOK, MarkOffer, SetStatus, Retires

LEMMA CancelRetires ==
  ASSUME BookTypeOK, NEW j, CancelJob(j)
  PROVE  Retires
BY DEF BookTypeOK, CancelJob, SetStatus, Retires

LEMMA UnchangedRetires == UNCHANGED offers => Retires
BY DEF Retires

(* Retiring offers keeps what the book promises, as long as no job becomes *)
(* cancelled with an offer pending and no handler begins to submit.        *)
LEMMA RetiringKeepsBook ==
  ASSUME BookInv, TypeOK', Retires,
         cancelled_jobs' \subseteq cancelled_jobs,
         submitting' \subseteq submitting
  PROVE  SubmittingIsFirst' /\ CancelledJobsAreQuiet' /\ OncePerJob'
<1>1. CancelledJobsAreQuiet'
  BY DEF BookInv, CancelledJobsAreQuiet, WithStatus, OffersOf, Retires
<1>2. SubmittingIsFirst'
  BY DEF BookInv, SubmittingIsFirst, OffersOf, Retires
<1>3. OncePerJob'
  <2> SUFFICES ASSUME ~ Resubmit PROVE OneLiveOffer' /\ NeverReoffered'
    BY DEF OncePerJob
  <2>1. OneLiveOffer'
    BY DEF BookInv, OncePerJob, OneLiveOffer, Retires
  <2>2. NeverReoffered'
    BY DEF BookInv, OncePerJob, NeverReoffered, Retires
  <2>3. QED
    BY <2>1, <2>2
<1>4. QED
  BY <1>1, <1>2, <1>3

(* A new offer is safe for a job that is not cancelled and, used once, has *)
(* no live offer and none to this driver.                                  *)
LEMMA CreatingKeepsBook ==
  ASSUME BookInv, NEW j, NEW d, CreateOffer(j, d),
         j \notin cancelled_jobs,
         ~ Resubmit => /\ WithStatus(j, "Pending") = {}
                       /\ WithStatus(j, "Accepted") = {}
                       /\ d \notin Tried(j),
         cancelled_jobs' = cancelled_jobs
  PROVE  CancelledJobsAreQuiet' /\ OncePerJob'
<1>1. PICK n \in OfferId \ DOMAIN offers :
        offers' = With(offers, n, [job |-> j, driver |-> d, status |-> "Pending"])
  BY DEF CreateOffer
<1>2. /\ DOMAIN offers' = DOMAIN offers \cup {n}
      /\ n \notin DOMAIN offers
      /\ offers'[n] = [job |-> j, driver |-> d, status |-> "Pending"]
      /\ \A o \in DOMAIN offers : offers'[o] = offers[o]
  BY <1>1 DEF With
<1>3. CancelledJobsAreQuiet'
  BY <1>2 DEF BookInv, CancelledJobsAreQuiet, WithStatus, OffersOf
<1>4. ASSUME ~ Resubmit PROVE OneLiveOffer' /\ NeverReoffered'
  <2>1. \A o \in DOMAIN offers :
          offers[o].job = j => /\ offers[o].status \notin {"Pending", "Accepted"}
                               /\ offers[o].driver # d
    BY <1>4 DEF WithStatus, OffersOf, Tried
  <2>2. OneLiveOffer'
    BY <1>2, <1>4, <2>1 DEF BookInv, OncePerJob, OneLiveOffer
  <2>3. NeverReoffered'
    BY <1>2, <1>4, <2>1 DEF BookInv, OncePerJob, NeverReoffered
  <2>4. QED
    BY <2>2, <2>3
<1>5. QED
  BY <1>3, <1>4 DEF OncePerJob

LEMMA SubmitOfferKeepsBook ==
  ASSUME BookInv, TypeOK', NEW j \in JobId, SubmitOffer(j)
  PROVE  BookInv'
<1>1. PICK d \in DOMAIN drivers : CreateOffer(j, d)
  BY DEF SubmitOffer
<1>2. j \in submitting /\ j \notin cancelled_jobs /\ (~ Resubmit => OffersOf(j) = {})
  BY DEF SubmitOffer, BookInv, SubmittingIsFirst
<1>3. CancelledJobsAreQuiet' /\ OncePerJob'
  BY <1>1, <1>2, CreatingKeepsBook DEF SubmitOffer, WithStatus, Tried
<1>4. UNCHANGED <<cancelled_jobs, expiring, advancing, evicting>>
      /\ submitting' = submitting \ {j}
  BY DEF SubmitOffer
<1>5. ExpiringArePending' /\ OneHandler'
  BY <1>2, <1>4 DEF BookInv, OneHandler, ExpiringArePending
<1>6. SubmittingIsFirst'
  BY <1>1, <1>4 DEF BookInv, SubmittingIsFirst, CreateOffer, With, OffersOf
<1>7. QED
  BY <1>3, <1>5, <1>6 DEF BookInv

LEMMA AdvanceOneKeepsBook ==
  ASSUME BookInv, TypeOK', NEW j \in JobId, AdvanceOne(j)
  PROVE  BookInv'
<1>1. PICK d \in DOMAIN drivers :
        MayPick(drivers, jobs[j], Tried(j), CandidateLimit, d) /\ CreateOffer(j, d)
  BY DEF AdvanceOne
<1>2. d \notin Tried(j)
  BY <1>1 DEF MayPick
<1>3. CancelledJobsAreQuiet' /\ OncePerJob'
  BY <1>1, <1>2, CreatingKeepsBook DEF AdvanceOne, WantsOffer
<1>4. submitting = {} /\ submitting' = {} /\ expiring' = {}
  BY DEF AdvanceOne, BookInv, OneHandler
<1>5. QED
  BY <1>3, <1>4 DEF BookInv, ExpiringArePending, SubmittingIsFirst, OneHandler

LEMMA SubmitJobKeepsBook ==
  ASSUME BookInv, TypeOK', NEW j \in JobId, NEW req \in Request, SubmitJob(j, req)
  PROVE  BookInv'
<1>1. /\ submitting' = {j} /\ expiring' = {} /\ advancing' = {} /\ evicting' = {}
      /\ offers' = offers /\ cancelled_jobs' = cancelled_jobs \ {j}
      /\ j \in DOMAIN jobs => Resubmit
  BY DEF SubmitJob, Idle
<1>2. ~ Resubmit => OffersOf(j) = {}
  BY <1>1 DEF BookInv, TypeOK, BookTypeOK, OffersOf
<1>3. CancelledJobsAreQuiet' /\ OncePerJob'
  BY <1>1 DEF BookInv, CancelledJobsAreQuiet, OncePerJob, OneLiveOffer,
     NeverReoffered, WithStatus, OffersOf
<1>4. SubmittingIsFirst'
  BY <1>1, <1>2 DEF SubmittingIsFirst, OffersOf
<1>5. QED
  BY <1>1, <1>3, <1>4 DEF BookInv, ExpiringArePending, OneHandler

LEMMA CancelJobKeepsBook ==
  ASSUME BookInv, TypeOK', NEW j \in JobId, CancelJob(j)
  PROVE  BookInv'
<1>1. /\ UNCHANGED handlerVars /\ submitting = {} /\ expiring = {}
      /\ cancelled_jobs' = cancelled_jobs \cup {j}
      /\ offers' = SetStatus(WithStatus(j, "Pending"), "Cancelled")
  BY DEF CancelJob, Idle
<1>2. Retires
  BY CancelRetires DEF BookInv, TypeOK
<1>3. CancelledJobsAreQuiet'
  <2>1. ASSUME NEW o \in DOMAIN offers', offers'[o].status = "Pending"
        PROVE  offers'[o].job \notin cancelled_jobs \cup {j}
    <3>1. o \in DOMAIN offers /\ offers'[o].job = offers[o].job
      BY <1>2 DEF Retires
    <3>2. o \notin WithStatus(j, "Pending")
      BY <1>1, <2>1, <3>1 DEF SetStatus, BookInv, TypeOK, BookTypeOK
    <3>3. offers[o].status = "Pending"
      BY <1>1, <2>1, <3>1, <3>2 DEF SetStatus
    <3>4. QED
      BY <3>1, <3>2, <3>3 DEF BookInv, CancelledJobsAreQuiet, WithStatus, OffersOf
  <2>2. QED
    BY <1>1, <2>1 DEF CancelledJobsAreQuiet, WithStatus, OffersOf
<1>4. OncePerJob'
  BY <1>2 DEF BookInv, OncePerJob, OneLiveOffer, NeverReoffered, Retires
<1>5. QED
  BY <1>1, <1>3, <1>4
     DEF BookInv, ExpiringArePending, SubmittingIsFirst, OneHandler, handlerVars

LEMMA MarkingKeepsBook ==
  ASSUME BookInv, TypeOK', NEW o \in OfferId,
         CancelOffer(o) \/ RespondReject(o) \/ RespondLate(o) \/ ExpireOne(o)
  PROVE  BookInv'
<1>1. PICK s \in {"Rejected", "Expired", "Cancelled"}, kind \in EventKind :
        MarkOffer(o, s, kind)
  BY DEF CancelOffer, RespondReject, RespondLate, ExpireOne, EventKind
<1>2. Retires
  BY <1>1, MarkRetires DEF BookInv, TypeOK
<1>3. UNCHANGED <<cancelled_jobs, submitting>>
  BY DEF CancelOffer, RespondReject, RespondLate, ExpireOne, handlerVars
<1>4. SubmittingIsFirst' /\ CancelledJobsAreQuiet' /\ OncePerJob'
  BY <1>2, <1>3, RetiringKeepsBook
<1>5. ExpiringArePending'
  <2>1. CASE ExpireOne(o)
    <3>1. \A x \in DOMAIN offers \ {o} : offers'[x] = offers[x]
      BY <2>1 DEF ExpireOne, MarkOffer, SetStatus
    <3>2. expiring' = expiring \ {o} /\ expiring \subseteq DOMAIN offers
      BY <2>1 DEF ExpireOne, BookInv, TypeOK, HandlerTypeOK
    <3>3. QED
      BY <3>1, <3>2 DEF BookInv, ExpiringArePending
  <2>2. CASE CancelOffer(o) \/ RespondReject(o) \/ RespondLate(o)
    BY <2>2 DEF CancelOffer, RespondReject, RespondLate, Answerable, Idle,
       handlerVars, ExpiringArePending
  <2>3. QED
    BY <2>1, <2>2
<1>6. OneHandler'
  BY DEF CancelOffer, RespondReject, RespondLate, ExpireOne, Answerable, Idle,
     handlerVars, BookInv, OneHandler
<1>7. QED
  BY <1>4, <1>5, <1>6 DEF BookInv

LEMMA RespondAcceptKeepsBook ==
  ASSUME BookInv, TypeOK', NEW o \in OfferId, RespondAccept(o)
  PROVE  BookInv'
<1> DEFINE competing == WithStatus(offers[o].job, "Pending") \ {o}
<1>1. /\ UNCHANGED <<cancelled_jobs, handlerVars>>
      /\ submitting = {} /\ expiring = {} /\ advancing = {} /\ evicting = {}
      /\ o \in DOMAIN offers /\ offers[o].status = "Pending"
      /\ offers' = [x \in DOMAIN offers |->
                      IF x = o THEN [offers[x] EXCEPT !.status = "Accepted"]
                               ELSE SetStatus(competing, "Cancelled")[x]]
  BY DEF RespondAccept, Answerable, Idle, AcceptOffer
<1>2. /\ DOMAIN offers' = DOMAIN offers
      /\ \A x \in DOMAIN offers :
           /\ offers'[x].job = offers[x].job
           /\ offers'[x].driver = offers[x].driver
           /\ x # o => offers'[x].status \in {offers[x].status, "Cancelled"}
           /\ offers'[o].status = "Accepted"
  BY <1>1 DEF SetStatus, BookInv, TypeOK, BookTypeOK
<1>3. CancelledJobsAreQuiet'
  BY <1>1, <1>2 DEF BookInv, CancelledJobsAreQuiet, WithStatus, OffersOf
<1>4. ASSUME ~ Resubmit PROVE OneLiveOffer' /\ NeverReoffered'
  <2>1. OneLiveOffer'
    <3>1. \A x \in DOMAIN offers : offers'[x].status \in {"Pending", "Accepted"}
                                  => offers[x].status \in {"Pending", "Accepted"}
      BY <1>1, <1>2
    <3>2. QED
      BY <1>2, <1>4, <3>1 DEF BookInv, OncePerJob, OneLiveOffer
  <2>2. NeverReoffered'
    BY <1>2, <1>4 DEF BookInv, OncePerJob, NeverReoffered
  <2>3. QED
    BY <2>1, <2>2
<1>5. QED
  BY <1>1, <1>3, <1>4 DEF BookInv, ExpiringArePending, SubmittingIsFirst,
     OneHandler, OncePerJob, handlerVars

(* Steps that leave the offers alone. *)
LEMMA OtherStepsKeepBook ==
  ASSUME BookInv, TypeOK', offers' = offers, cancelled_jobs' = cancelled_jobs,
         submitting' \subseteq submitting,
         ExpiringArePending', OneHandler'
  PROVE  BookInv'
BY UnchangedRetires, RetiringKeepsBook DEF BookInv

LEMMA CollectingKeepsBook ==
  ASSUME BookInv, TypeOK',
         \/ \E d \in DriverId : ExpireForDriver(d)
         \/ ExpireGlobal
         \/ BeginEviction
  PROVE  BookInv'
<1>1. /\ offers' = offers /\ cancelled_jobs' = cancelled_jobs
      /\ submitting = {} /\ submitting' = {} /\ expiring = {}
  BY DEF ExpireForDriver, ExpireGlobal, BeginExpiry, BeginEviction, Idle
<1>2. expiring' \subseteq Overdue
  BY <1>1 DEF ExpireForDriver, ExpireGlobal, BeginExpiry, BeginEviction
<1>3. ExpiringArePending' /\ OneHandler'
  BY <1>1, <1>2 DEF ExpiringArePending, OneHandler, Overdue
<1>4. QED
  BY <1>1, <1>3, OtherStepsKeepBook

LEMMA QuietStepsKeepBook ==
  ASSUME BookInv, TypeOK',
         \/ \E d \in DriverId, report \in Report : UpsertDriver(d, report)
         \/ \E j \in JobId : SubmitInVain(j) \/ AdvanceNone(j)
         \/ \E d \in DriverId : EvictOne(d)
         \/ \E o \in OfferId : WebhookDelivered(o) \/ RecordWebhookDeliveryFailed(o)
         \/ TimeStep
         \/ UNCHANGED vars
  PROVE  BookInv'
<1>1. /\ offers' = offers /\ cancelled_jobs' = cancelled_jobs /\ expiring' = expiring
      /\ submitting' \subseteq submitting
      /\ advancing' \subseteq advancing
      /\ evicting' \subseteq evicting
  BY DEF UpsertDriver, SubmitInVain, AdvanceNone, EvictOne, WebhookDelivered,
     RecordWebhookDeliveryFailed, TimeStep, Lapse, GoStale, handlerVars, vars
<1>2. ExpiringArePending' /\ OneHandler'
  BY <1>1 DEF BookInv, ExpiringArePending, OneHandler
<1>3. QED
  BY <1>1, <1>2, OtherStepsKeepBook

(* A crash forgets what the handler was about: that is no harm to the book. *)
LEMMA RestartKeepsBook ==
  ASSUME BookInv, TypeOK', Restart
  PROVE  BookInv'
<1>1. /\ offers' = offers /\ cancelled_jobs' = cancelled_jobs
      /\ submitting' = {} /\ expiring' = {} /\ advancing' = {} /\ evicting' = {}
  BY DEF Restart
<1>2. ExpiringArePending' /\ OneHandler'
  BY <1>1 DEF ExpiringArePending, OneHandler
<1>3. QED
  BY <1>1, <1>2, OtherStepsKeepBook

LEMMA InitBook == Init => BookInv
<1> SUFFICES ASSUME Init PROVE BookInv
  OBVIOUS
<1>1. TypeOK
  BY InitTyped
<1>2. ExpiringArePending /\ SubmittingIsFirst /\ OneHandler
  BY DEF Init, ExpiringArePending, SubmittingIsFirst, OneHandler
<1>3. CancelledJobsAreQuiet /\ OncePerJob
  BY DEF Init, EmptyMap, CancelledJobsAreQuiet, OncePerJob, OneLiveOffer, NeverReoffered
<1>4. QED
  BY <1>1, <1>2, <1>3 DEF BookInv

LEMMA StepBook == BookInv /\ [Next]_vars => BookInv'
<1> SUFFICES ASSUME BookInv, [Next]_vars PROVE BookInv'
  OBVIOUS
<1>0. TypeOK'
  BY StepTyped DEF BookInv
<1>1. CASE HandlerStep
  BY <1>0, <1>1, SubmitOfferKeepsBook, AdvanceOneKeepsBook, MarkingKeepsBook,
     QuietStepsKeepBook DEF HandlerStep
<1>2. CASE DispatcherStep
  BY <1>0, <1>2, SubmitJobKeepsBook, CancelJobKeepsBook, MarkingKeepsBook
     DEF DispatcherStep
<1>3. CASE DriverStep
  BY <1>0, <1>3, RespondAcceptKeepsBook, MarkingKeepsBook, CollectingKeepsBook,
     QuietStepsKeepBook DEF DriverStep
<1>4. CASE BackgroundStep
  BY <1>0, <1>4, CollectingKeepsBook, QuietStepsKeepBook DEF BackgroundStep
<1>5. CASE TimeStep \/ UNCHANGED vars
  BY <1>0, <1>5, QuietStepsKeepBook
<1>6. CASE Restart
  BY <1>0, <1>6, RestartKeepsBook
<1>7. QED
  BY <1>1, <1>2, <1>3, <1>4, <1>5, <1>6 DEF Next

LEMMA BookInvariant == Spec => []BookInv
BY InitBook, StepBook, PTL DEF Spec

(* No open offer of a cancelled job, whatever raced the cancellation, and  *)
(* even when the job id is submitted again.                                *)
THEOREM CancelledStayQuiet == Spec => []CancelledJobsAreQuiet
BY BookInvariant, PTL DEF BookInv

(* When a dispatcher uses a job id once, the job never has two offers that *)
(* are pending or accepted: it cannot be matched twice.                    *)
THEOREM OneLiveOfferPerJob ==
  ASSUME ~ Resubmit
  PROVE  Spec => []OneLiveOffer
<1>1. BookInv => OneLiveOffer
  BY DEF BookInv, OncePerJob
<1>2. QED
  BY <1>1, BookInvariant, PTL

(* Nor does it ask the same driver twice.                                  *)
THEOREM NoDriverAskedTwice ==
  ASSUME ~ Resubmit
  PROVE  Spec => []NeverReoffered
<1>1. BookInv => NeverReoffered
  BY DEF BookInv, OncePerJob
<1>2. QED
  BY <1>1, BookInvariant, PTL

-----------------------------------------------------------------------------
(* What became of an offer.                                                *)

LEMMA StepSettles ==
  ASSUME BookInv, [Next]_vars, NEW o \in DOMAIN offers, offers[o].status # "Pending"
  PROVE  offers'[o].status \in {offers[o].status, "Cancelled"}
<1>1. ASSUME NEW x \in OfferId,
             CancelOffer(x) \/ RespondReject(x) \/ RespondLate(x) \/ ExpireOne(x)
      PROVE  offers'[o].status \in {offers[o].status, "Cancelled"}
  <2>1. PICK s \in OfferStatus, kind \in EventKind :
          MarkOffer(x, s, kind) /\ (s # "Cancelled" => offers[x].status = "Pending")
    BY <1>1 DEF CancelOffer, RespondReject, RespondLate, ExpireOne, Answerable,
       OfferStatus, EventKind, BookInv, ExpiringArePending
  <2>2. QED
    BY <2>1 DEF MarkOffer, SetStatus, BookInv, TypeOK, BookTypeOK
<1>2. ASSUME NEW x \in OfferId, RespondAccept(x)
      PROVE  offers'[o].status \in {offers[o].status, "Cancelled"}
  BY <1>2 DEF RespondAccept, Answerable, AcceptOffer, SetStatus, BookInv, TypeOK, BookTypeOK
<1>3. ASSUME NEW j \in JobId, CancelJob(j)
      PROVE  offers'[o].status \in {offers[o].status, "Cancelled"}
  BY <1>3 DEF CancelJob, SetStatus, BookInv, TypeOK, BookTypeOK
<1>4. ASSUME NEW j, NEW d, CreateOffer(j, d)
      PROVE  offers'[o].status = offers[o].status
  BY <1>4 DEF CreateOffer, With
<1>5. CASE offers' = offers
  BY <1>5
<1>6. CASE HandlerStep
  BY <1>1, <1>4, <1>5, <1>6
     DEF HandlerStep, SubmitOffer, SubmitInVain, AdvanceOne, AdvanceNone, EvictOne
<1>7. CASE DispatcherStep
  BY <1>1, <1>3, <1>5, <1>7 DEF DispatcherStep, SubmitJob
<1>8. CASE DriverStep
  BY <1>1, <1>2, <1>5, <1>8 DEF DriverStep, UpsertDriver, ExpireForDriver, BeginExpiry
<1>9. CASE BackgroundStep \/ TimeStep \/ Restart \/ UNCHANGED vars
  BY <1>5, <1>9 DEF BackgroundStep, ExpireGlobal, BeginExpiry, BeginEviction,
     WebhookDelivered, RecordWebhookDeliveryFailed, TimeStep, Lapse, GoStale,
     Restart, vars
<1>10. QED
  BY <1>6, <1>7, <1>8, <1>9 DEF Next

(* An offer once accepted, rejected or expired is never touched by a sweep *)
(* or an answer again: only the dispatcher can cancel it.                  *)
THEOREM SettledOffersStay == Spec => SettledIsFinal
<1>1. BookInv /\ [Next]_vars =>
        [\A o \in DOMAIN offers :
           offers[o].status # "Pending" =>
             offers'[o].status \in {offers[o].status, "Cancelled"}]_vars
  BY StepSettles
<1>2. QED
  BY <1>1, BookInvariant, PTL DEF Spec, SettledIsFinal

-----------------------------------------------------------------------------
(* The spatial index mirrors the drivers.                                  *)

LEMMA StepMirrors ==
  ASSUME IndexMirrorsDrivers, FleetTypeOK, [Next]_vars
  PROVE  IndexMirrorsDrivers'
<1>1. ASSUME NEW d \in DriverId, NEW report \in Report, UpsertDriver(d, report)
      PROVE  IndexMirrorsDrivers'
  BY <1>1, UpsertMirrors DEF UpsertDriver, IndexMirrorsDrivers
<1>2. ASSUME NEW d \in DriverId, EvictOne(d)
      PROVE  IndexMirrorsDrivers'
  BY <1>2, RemovalMirrors DEF EvictOne, IndexMirrorsDrivers
<1>3. ASSUME NEW o \in OfferId, RespondAccept(o)
      PROVE  IndexMirrorsDrivers'
  <2>1. /\ spatial' = spatial
        /\ DOMAIN drivers' = DOMAIN drivers
        /\ \A d \in DOMAIN drivers : drivers'[d].position = drivers[d].position
    BY <1>3 DEF RespondAccept, AcceptOffer, FleetTypeOK
  <2>2. QED
    BY <2>1 DEF IndexMirrorsDrivers, Mirrors
<1>4. CASE UNCHANGED <<drivers, spatial>>
  BY <1>4 DEF IndexMirrorsDrivers
<1>5. CASE HandlerStep
  BY <1>2, <1>4, <1>5 DEF HandlerStep, SubmitOffer, SubmitInVain, AdvanceOne,
     AdvanceNone, ExpireOne, fleetVars
<1>6. CASE DispatcherStep
  BY <1>4, <1>6 DEF DispatcherStep, SubmitJob, CancelJob, CancelOffer, fleetVars
<1>7. CASE DriverStep
  BY <1>1, <1>3, <1>4, <1>7 DEF DriverStep, RespondReject, RespondLate,
     ExpireForDriver, BeginExpiry, fleetVars
<1>8. CASE BackgroundStep \/ TimeStep \/ Restart \/ UNCHANGED vars
  BY <1>4, <1>8 DEF BackgroundStep, ExpireGlobal, BeginExpiry, BeginEviction,
     WebhookDelivered, RecordWebhookDeliveryFailed, TimeStep, Lapse, GoStale,
     Restart, fleetVars, vars
<1>9. QED
  BY <1>5, <1>6, <1>7, <1>8 DEF Next

(* The H3 index and the driver map never disagree about where a driver is. *)
THEOREM IndexStaysInStep == Spec => []IndexMirrorsDrivers
<1>1. Init => IndexMirrorsDrivers
  BY DEF Init, EmptyMap, EmptyIndex, IndexMirrorsDrivers, Mirrors
<1>2. TypeOK /\ IndexMirrorsDrivers /\ [Next]_vars => IndexMirrorsDrivers'
  BY StepMirrors DEF TypeOK
<1>3. QED
  BY <1>1, <1>2, TypeCorrect, PTL DEF Spec

-----------------------------------------------------------------------------
(* The timeline tells the status of the offers.                            *)

(* The last event of s about an offer names its status in the book; the    *)
(* offer is one of job j.                                                  *)
Superseded(s, i) ==
  \E k \in 1..Len(s) : k > i /\ TellsStatus(s[k]) /\ s[k].offer = s[i].offer

TrueOf(e, j, book) ==
  /\ e.offer \in DOMAIN book
  /\ book[e.offer].job = j
  /\ book[e.offer].status = StatusTold[e.kind]

Agrees(s, j, book) ==
  \A i \in 1..Len(s) :
    TellsStatus(s[i]) =>
      /\ s[i].offer \in DOMAIN book /\ book[s[i].offer].job = j
      /\ Superseded(s, i) \/ TrueOf(s[i], j, book)

TimelineInv == \A j \in JobId : Agrees(job_events[j], j, offers)

LEMMA SuffixAgrees ==
  ASSUME NEW s \in Seq(Event), NEW j, NEW book, Agrees(s, j, book)
  PROVE  Agrees(Newest(s), j, book)
<1> DEFINE m == IF Len(s) > MaxJobEvents THEN Len(s) - MaxJobEvents + 1 ELSE 1
           t == Newest(s)
<1>1. Len(s) \in Nat /\ m \in Int /\ m >= 1 /\ m <= Len(s) + 1
  BY LimitAssumption
<1>2. \A i \in m .. Len(s) : s[i] \in Event
  BY <1>1
<1>3. t = SubSeq(s, m, Len(s))
  BY DEF Newest
<1>4. Len(t) = Len(s) - m + 1 /\ \A i \in 1 .. Len(t) : t[i] = s[m + i - 1]
  <2>1. /\ Len(SubSeq(s, m, Len(s))) = IF m <= Len(s) THEN Len(s) - m + 1 ELSE 0
        /\ \A i \in 1 .. Len(s) - m + 1 : SubSeq(s, m, Len(s))[i] = s[m + i - 1]
    BY <1>1, <1>2, SubSeqProperties
  <2>2. Len(t) = Len(s) - m + 1
    BY <1>1, <1>3, <2>1
  <2>3. QED
    BY <1>3, <2>1, <2>2
<1> HIDE DEF t, m
<1>5. ASSUME NEW i \in 1..Len(t), TellsStatus(t[i])
      PROVE  /\ t[i].offer \in DOMAIN book /\ book[t[i].offer].job = j
             /\ Superseded(t, i) \/ TrueOf(t[i], j, book)
  <2>1. m + i - 1 \in 1..Len(s) /\ t[i] = s[m + i - 1]
    BY <1>1, <1>4
  <2>2. /\ t[i].offer \in DOMAIN book /\ book[t[i].offer].job = j
        /\ Superseded(s, m + i - 1) \/ TrueOf(t[i], j, book)
    BY <1>5, <2>1 DEF Agrees
  <2>3. CASE Superseded(s, m + i - 1)
    <3>1. PICK k \in 1..Len(s) : k > m + i - 1 /\ TellsStatus(s[k]) /\ s[k].offer = t[i].offer
      BY <2>1, <2>3 DEF Superseded
    <3>2. k - m + 1 \in 1..Len(t) /\ k - m + 1 > i /\ m + (k - m + 1) - 1 = k
      BY <1>1, <1>4, <3>1
    <3>3. t[k - m + 1] = s[k]
      BY <1>4, <3>2
    <3>4. QED
      BY <2>2, <3>1, <3>2, <3>3 DEF Superseded
  <2>4. QED
    BY <2>2, <2>3
<1>6. QED
  BY <1>5 DEF Agrees, t

(* Appending news that are true of the book as it is now, and tell of      *)
(* every offer whose status has changed.                                   *)
LEMMA AppendAgrees ==
  ASSUME NEW s \in Seq(Event), NEW t \in Seq(Event), NEW j, NEW book, NEW later,
         Agrees(s, j, book),
         \A o \in DOMAIN book :
           /\ o \in DOMAIN later /\ later[o].job = book[o].job
           /\ \/ later[o].status = book[o].status
              \/ \E k \in 1..Len(t) : TellsStatus(t[k]) /\ t[k].offer = o,
         \A k \in 1..Len(t) : TellsStatus(t[k]) => TrueOf(t[k], j, later)
  PROVE  Agrees(s \o t, j, later)
<1> DEFINE u == s \o t
<1>1. Len(s) \in Nat /\ Len(t) \in Nat
  OBVIOUS
<1>2. /\ Len(u) = Len(s) + Len(t)
      /\ \A i \in 1..Len(s) : i \in 1..Len(u) /\ u[i] = s[i]
      /\ \A k \in 1..Len(t) : Len(s) + k \in 1..Len(u) /\ u[Len(s) + k] = t[k]
  <2>1. /\ Len(u) = Len(s) + Len(t)
        /\ \A i \in 1 .. Len(s) + Len(t) : u[i] = IF i <= Len(s) THEN s[i] ELSE t[i - Len(s)]
    BY ConcatProperties
  <2> HIDE DEF u
  <2>2. QED
    BY <1>1, <2>1
<1> HIDE DEF u
<1>3. ASSUME NEW i \in 1..Len(u), TellsStatus(u[i])
      PROVE  /\ u[i].offer \in DOMAIN later /\ later[u[i].offer].job = j
             /\ Superseded(u, i) \/ TrueOf(u[i], j, later)
  <2>1. CASE i \in 1..Len(s)
    <3>1. /\ u[i] = s[i]
          /\ u[i].offer \in DOMAIN book /\ book[u[i].offer].job = j
          /\ Superseded(s, i) \/ TrueOf(u[i], j, book)
      BY <1>2, <1>3, <2>1 DEF Agrees
    <3>2. u[i].offer \in DOMAIN later /\ later[u[i].offer].job = j
      BY <3>1
    <3>3. CASE Superseded(s, i)
      <4>1. PICK k \in 1..Len(s) : k > i /\ TellsStatus(s[k]) /\ s[k].offer = s[i].offer
        BY <3>3 DEF Superseded
      <4>2. QED
        BY <1>2, <3>1, <3>2, <4>1 DEF Superseded
    <3>4. CASE TrueOf(u[i], j, book) /\ later[u[i].offer].status = book[u[i].offer].status
      BY <3>2, <3>4 DEF TrueOf
    <3>5. CASE \E k \in 1..Len(t) : TellsStatus(t[k]) /\ t[k].offer = u[i].offer
      <4>1. PICK k \in 1..Len(t) : TellsStatus(t[k]) /\ t[k].offer = u[i].offer
        BY <3>5
      <4>2. Len(s) + k > i
        BY <1>1, <2>1
      <4>3. QED
        BY <1>2, <3>2, <4>1, <4>2 DEF Superseded
    <3>6. QED
      BY <3>1, <3>3, <3>4, <3>5
  <2>2. CASE i \notin 1..Len(s)
    <3>1. i - Len(s) \in 1..Len(t) /\ Len(s) + (i - Len(s)) = i
      BY <1>1, <1>2, <2>2
    <3>2. u[i] = t[i - Len(s)]
      BY <1>2, <3>1
    <3>3. QED
      BY <1>3, <3>1, <3>2 DEF TrueOf
  <2>3. QED
    BY <2>1, <2>2
<1>4. QED
  BY <1>3 DEF Agrees, u

(* What a command may push for the timelines to stay true: news of one     *)
(* job, true when they are pushed, of every offer whose status it changed. *)
TrueNews(j, news) ==
  /\ \A o \in DOMAIN offers :
       /\ o \in DOMAIN offers' /\ offers'[o].job = offers[o].job
       /\ \/ offers'[o].status = offers[o].status
          \/ /\ offers[o].job = j
             /\ \E k \in 1..Len(news) : TellsStatus(news[k]) /\ news[k].offer = o
  /\ \A k \in 1..Len(news) : TellsStatus(news[k]) => TrueOf(news[k], j, offers')

LEMMA PushKeepsTimeline ==
  ASSUME TimelineTypeOK, TimelineInv, NEW j \in JobId, NEW news \in Seq(News),
         PushJobEvents(j, news), TrueNews(j, news)
  PROVE  TimelineInv'
<1> DEFINE n == job_event_sequences[j]
           numbered == [i \in 1..Len(news) |->
                          [sequence |-> n + i, kind |-> news[i].kind,
                           offer |-> news[i].offer]]
<1>1. n \in Nat /\ Len(news) \in Nat /\ job_events[j] \in Seq(Event)
  BY DEF TimelineTypeOK
<1>2. numbered \in Seq(Event)
  <2>1. \A i \in 1..Len(news) : news[i] \in News
    OBVIOUS
  <2>2. \A i \in 1..Len(news) : numbered[i] \in Event
    BY <1>1, <2>1 DEF Event, News
  <2>3. QED
    BY <1>1, <2>2, IsASeq
<1>3. /\ Len(numbered) = Len(news)
      /\ \A k \in 1..Len(news) : /\ numbered[k].kind = news[k].kind
                                 /\ numbered[k].offer = news[k].offer
  BY <1>1
<1>4. job_events' = [job_events EXCEPT ![j] = Newest(job_events[j] \o numbered)]
  BY DEF PushJobEvents
<1> HIDE DEF numbered, n
<1>5. \A k \in 1..Len(numbered) :
        /\ TellsStatus(numbered[k]) <=> TellsStatus(news[k])
        /\ TrueOf(news[k], j, offers') => TrueOf(numbered[k], j, offers')
  BY <1>3 DEF TellsStatus, TrueOf
<1>6. Agrees(job_events[j] \o numbered, j, offers')
  <2>1. \A o \in DOMAIN offers :
          /\ o \in DOMAIN offers' /\ offers'[o].job = offers[o].job
          /\ \/ offers'[o].status = offers[o].status
             \/ \E k \in 1..Len(numbered) : TellsStatus(numbered[k]) /\ numbered[k].offer = o
    BY <1>3, <1>5 DEF TrueNews
  <2>2. \A k \in 1..Len(numbered) :
          TellsStatus(numbered[k]) => TrueOf(numbered[k], j, offers')
    BY <1>3, <1>5 DEF TrueNews
  <2>3. QED
    BY <1>1, <1>2, <2>1, <2>2, AppendAgrees DEF TimelineInv
<1>7. Agrees(Newest(job_events[j] \o numbered), j, offers')
  BY <1>1, <1>2, <1>6, ConcatProperties, SuffixAgrees
<1>8. ASSUME NEW k \in JobId, k # j
      PROVE  Agrees(job_events'[k], k, offers')
  <2>1. job_events'[k] = job_events[k] /\ Agrees(job_events[k], k, offers)
    BY <1>4, <1>8 DEF TimelineInv, TimelineTypeOK
  <2>2. \A o \in DOMAIN offers :
          /\ o \in DOMAIN offers' /\ offers'[o].job = offers[o].job
          /\ offers[o].job = k => offers'[o].status = offers[o].status
    BY <1>8 DEF TrueNews
  <2>3. QED
    BY <2>1, <2>2 DEF Agrees, TrueOf
<1>9. job_events'[j] = Newest(job_events[j] \o numbered)
  BY <1>4 DEF TimelineTypeOK
<1>10. QED
  BY <1>7, <1>8, <1>9 DEF TimelineInv

LEMMA OneEventKeepsTimeline ==
  ASSUME TimelineTypeOK, TimelineInv, NEW j \in JobId, NEW kind \in EventKind,
         NEW o \in OfferId \cup {NoOffer}, PushJobEvents(j, <<About(kind, o)>>),
         kind \in DOMAIN StatusTold => TrueOf(About(kind, o), j, offers'),
         \A x \in DOMAIN offers :
           /\ x \in DOMAIN offers' /\ offers'[x].job = offers[x].job
           /\ \/ offers'[x].status = offers[x].status
              \/ x = o /\ offers[x].job = j /\ kind \in DOMAIN StatusTold
  PROVE  TimelineInv'
<1> DEFINE news == <<About(kind, o)>>
<1>1. About(kind, o) \in News
  BY NewsTyped
<1>2. news \in Seq(News) /\ Len(news) = 1 /\ news[1] = About(kind, o)
  BY <1>1
<1>3. About(kind, o).kind = kind /\ About(kind, o).offer = o
  BY DEF About
<1> HIDE DEF news
<1>4. TrueNews(j, news)
  <2>1. \A k \in 1..Len(news) : k = 1
    BY <1>2
  <2>2. 1 \in 1..Len(news)
    BY <1>2
  <2>3. TellsStatus(news[1]) <=> kind \in DOMAIN StatusTold
    BY <1>2, <1>3 DEF TellsStatus
  <2>4. QED
    BY <1>2, <1>3, <2>1, <2>2, <2>3 DEF TrueNews
<1>5. QED
  BY <1>2, <1>4, PushKeepsTimeline DEF news
(* However the cancelled offers of a command are ordered, each is told of  *)
(* and nothing else is.                                                    *)
LEMMA CancellationsCover ==
  ASSUME NEW S \in SUBSET OfferId, NEW c \in CancellationsOf(S)
  PROVE  /\ \A k \in 1..Len(c) : c[k].kind = "OfferCancelled" /\ c[k].offer \in S
         /\ \A o \in S : \E k \in 1..Len(c) : c[k].offer = o
<1> DEFINE D == 1..Cardinality(S)
<1>1. PICK s \in SetToSeqs(S) : c = [i \in DOMAIN s |-> About("OfferCancelled", s[i])]
  BY DEF CancellationsOf
<1>2. IsFiniteSet(S) /\ Cardinality(S) \in Nat
  BY IdAssumption, FS_Subset, FS_CardinalityType
<1>3. s \in [D -> S] /\ \A i, k \in D : i # k => s[i] # s[k]
  BY <1>1 DEF SetToSeqs
<1>4. s \in Injection(D, S)
  BY <1>3, Fun_IsInj
<1>5. Cardinality(D) = Cardinality(S)
  BY <1>2, FS_Interval
<1>6. s \in Surjection(D, S)
  BY <1>2, <1>4, <1>5, FS_Injection
<1>7. \A o \in S : \E i \in D : s[i] = o
  BY <1>6 DEF Surjection
<1>8. Len(c) = Cardinality(S) /\ \A k \in D : c[k] = About("OfferCancelled", s[k])
  BY <1>1, <1>2, <1>3
<1>9. QED
  BY <1>3, <1>7, <1>8 DEF About

LEMMA CreateKeepsTimeline ==
  ASSUME TypeOK, TimelineInv, NEW j \in DOMAIN jobs, NEW d \in DriverId, CreateOffer(j, d)
  PROVE  TimelineInv'
<1>1. PICK o \in OfferId \ DOMAIN offers :
        /\ offers' = With(offers, o, [job |-> j, driver |-> d, status |-> "Pending"])
        /\ PushJobEvents(j, <<About("OfferCreated", o)>>)
  BY DEF CreateOffer
<1>2. /\ \A x \in DOMAIN offers : x \in DOMAIN offers' /\ offers'[x] = offers[x]
      /\ o \in DOMAIN offers' /\ offers'[o] = [job |-> j, driver |-> d, status |-> "Pending"]
  BY <1>1 DEF With
<1>3. TrueOf(About("OfferCreated", o), j, offers')
  BY <1>2 DEF TrueOf, About, StatusTold
<1>4. j \in JobId /\ "OfferCreated" \in EventKind
  BY DEF TypeOK, BookTypeOK, EventKind
<1>5. QED
  BY <1>1, <1>2, <1>3, <1>4, OneEventKeepsTimeline DEF TypeOK

LEMMA MarkKeepsTimeline ==
  ASSUME TypeOK, TimelineInv, NEW o \in DOMAIN offers, NEW kind \in DOMAIN StatusTold,
         MarkOffer(o, StatusTold[kind], kind)
  PROVE  TimelineInv'
<1>1. PICK j \in JobId : j = offers[o].job
  BY DEF TypeOK, BookTypeOK
<1>2. /\ offers' = SetStatus({o}, StatusTold[kind])
      /\ PushJobEvents(j, <<About(kind, o)>>)
  BY <1>1 DEF MarkOffer
<1>3. /\ \A x \in DOMAIN offers : x \in DOMAIN offers' /\ offers'[x].job = offers[x].job
      /\ \A x \in DOMAIN offers \ {o} : offers'[x].status = offers[x].status
      /\ offers'[o].status = StatusTold[kind]
  BY <1>2 DEF SetStatus, TypeOK, BookTypeOK
<1>4. TrueOf(About(kind, o), j, offers')
  BY <1>1, <1>3 DEF TrueOf, About
<1>5. TimelineTypeOK /\ o \in OfferId /\ kind \in EventKind
  BY DEF TypeOK, BookTypeOK, StatusTold, EventKind
<1>6. \A x \in DOMAIN offers :
        /\ x \in DOMAIN offers' /\ offers'[x].job = offers[x].job
        /\ \/ offers'[x].status = offers[x].status
           \/ x = o /\ offers[x].job = j /\ kind \in DOMAIN StatusTold
  BY <1>1, <1>3
<1>7. PushJobEvents(j, <<About(kind, o)>>) /\ o \in OfferId \cup {NoOffer}
  BY <1>2, <1>5
<1>8. QED
  BY <1>4, <1>5, <1>6, <1>7, OneEventKeepsTimeline

(* The offers in S are cancelled, then more is told. *)
LEMMA CancellingKeepsTimeline ==
  ASSUME TypeOK, TimelineInv, NEW j \in JobId, NEW S \in SUBSET OffersOf(j),
         NEW c \in CancellationsOf(S), NEW more \in Seq(News),
         PushJobEvents(j, c \o more),
         \A o \in DOMAIN offers :
           /\ o \in DOMAIN offers' /\ offers'[o].job = offers[o].job
           /\ o \in S => offers'[o].status = "Cancelled"
           /\ o \notin S =>
                \/ offers'[o].status = offers[o].status
                \/ /\ offers[o].job = j
                   /\ \E k \in 1..Len(more) : TellsStatus(more[k]) /\ more[k].offer = o,
         \A k \in 1..Len(more) : TellsStatus(more[k]) => TrueOf(more[k], j, offers')
  PROVE  TimelineInv'
<1> DEFINE news == c \o more
<1>1. S \in SUBSET OfferId /\ S \subseteq DOMAIN offers /\ \A o \in S : offers[o].job = j
  BY DEF OffersOf, TypeOK, BookTypeOK
<1>2. c \in Seq(News) /\ Len(c) \in Nat /\ Len(more) \in Nat
  BY <1>1, CancellationsTyped
<1>3. /\ \A k \in 1..Len(c) : c[k].kind = "OfferCancelled" /\ c[k].offer \in S
      /\ \A o \in S : \E k \in 1..Len(c) : c[k].offer = o
  BY <1>1, CancellationsCover
<1>4. /\ news \in Seq(News)
      /\ Len(news) = Len(c) + Len(more)
      /\ \A i \in 1 .. Len(c) + Len(more) :
           news[i] = IF i <= Len(c) THEN c[i] ELSE more[i - Len(c)]
  BY <1>2, ConcatProperties
<1> HIDE DEF news
<1>5. /\ \A k \in 1..Len(c) : k \in 1..Len(news) /\ news[k] = c[k]
      /\ \A k \in 1..Len(more) : Len(c) + k \in 1..Len(news) /\ news[Len(c) + k] = more[k]
      /\ \A i \in 1..Len(news) : \/ i \in 1..Len(c)
                                 \/ \E k \in 1..Len(more) : i = Len(c) + k
  <2>1. \A i \in 1..Len(news) : i \in 1..Len(c) \/ (i - Len(c) \in 1..Len(more)
                                                  /\ i = Len(c) + (i - Len(c)))
    BY <1>2, <1>4
  <2>2. \A k \in 1..Len(c) : k \in 1..Len(news) /\ news[k] = c[k]
    BY <1>2, <1>4
  <2>3. \A k \in 1..Len(more) : /\ Len(c) + k \in 1..Len(news)
                                /\ news[Len(c) + k] = more[k]
    <3>1. \A k \in 1..Len(more) : /\ Len(c) + k \in 1 .. Len(c) + Len(more)
                                  /\ ~ (Len(c) + k <= Len(c))
                                  /\ (Len(c) + k) - Len(c) = k
      BY <1>2
    <3>2. QED
      BY <1>4, <3>1
  <2>4. QED
    BY <2>1, <2>2, <2>3
<1>6. \A k \in 1..Len(c) : TellsStatus(c[k]) /\ TrueOf(c[k], j, offers')
  BY <1>1, <1>3 DEF TellsStatus, TrueOf, StatusTold
<1>7. \A k \in 1..Len(news) : TellsStatus(news[k]) => TrueOf(news[k], j, offers')
  BY <1>5, <1>6
<1>8. \A o \in DOMAIN offers :
        \/ offers'[o].status = offers[o].status
        \/ /\ offers[o].job = j
           /\ \E k \in 1..Len(news) : TellsStatus(news[k]) /\ news[k].offer = o
  <2>1. ASSUME NEW o \in S
        PROVE  \E k \in 1..Len(news) : TellsStatus(news[k]) /\ news[k].offer = o
    <3>1. PICK k \in 1..Len(c) : c[k].offer = o
      BY <1>3
    <3>2. QED
      BY <1>5, <1>6, <3>1
  <2>2. ASSUME NEW o, NEW k \in 1..Len(more), TellsStatus(more[k]), more[k].offer = o
        PROVE  \E i \in 1..Len(news) : TellsStatus(news[i]) /\ news[i].offer = o
    BY <1>5, <2>2
  <2>3. QED
    BY <1>1, <2>1, <2>2
<1>9. TrueNews(j, news)
  BY <1>7, <1>8 DEF TrueNews
<1>10. QED
  BY <1>4, <1>9, PushKeepsTimeline DEF TypeOK, news

LEMMA CancelJobKeepsTimeline ==
  ASSUME TypeOK, TimelineInv, NEW j \in JobId, CancelJob(j)
  PROVE  TimelineInv'
<1> DEFINE pending == WithStatus(j, "Pending")
           closing == IF j \in cancelled_jobs THEN <<>>
                      ELSE <<About("JobCancelled", NoOffer)>>
<1>1. PICK c \in CancellationsOf(pending) : PushJobEvents(j, c \o closing)
  BY DEF CancelJob
<1>2. closing \in Seq(News) /\ \A k \in 1..Len(closing) : ~ TellsStatus(closing[k])
  <2>1. About("JobCancelled", NoOffer) \in News /\ ~ TellsStatus(About("JobCancelled", NoOffer))
    BY NewsTyped DEF EventKind, TellsStatus, StatusTold, About
  <2>2. QED
    BY <2>1
<1>3. pending \in SUBSET OffersOf(j)
  BY DEF WithStatus
<1>4. offers' = SetStatus(pending, "Cancelled")
  BY DEF CancelJob
<1> HIDE DEF pending, closing
<1>5. \A o \in DOMAIN offers :
        /\ o \in DOMAIN offers' /\ offers'[o].job = offers[o].job
        /\ o \in pending => offers'[o].status = "Cancelled"
        /\ o \notin pending => offers'[o].status = offers[o].status
  BY <1>4 DEF SetStatus, TypeOK, BookTypeOK
<1>6. QED
  BY <1>1, <1>2, <1>3, <1>5, CancellingKeepsTimeline

LEMMA AcceptKeepsTimeline ==
  ASSUME TypeOK, TimelineInv, NEW o \in DOMAIN offers, AcceptOffer(o)
  PROVE  TimelineInv'
<1> DEFINE j == offers[o].job
           competing == WithStatus(j, "Pending") \ {o}
           closing == <<About("OfferAccepted", o), About("MatchConfirmed", o)>>
<1>1. PICK c \in CancellationsOf(competing) : PushJobEvents(j, c \o closing)
  BY DEF AcceptOffer
<1>2. competing \in SUBSET OffersOf(j) /\ o \notin competing /\ j \in JobId /\ o \in OfferId
  BY DEF WithStatus, TypeOK, BookTypeOK
<1>3. offers' = [x \in DOMAIN offers |->
                   IF x = o THEN [offers[x] EXCEPT !.status = "Accepted"]
                            ELSE SetStatus(competing, "Cancelled")[x]]
  BY DEF AcceptOffer
<1> HIDE DEF competing
<1>4. /\ offers'[o].status = "Accepted"
      /\ \A x \in DOMAIN offers :
           /\ x \in DOMAIN offers' /\ offers'[x].job = offers[x].job
           /\ x \in competing => offers'[x].status = "Cancelled"
           /\ x \notin competing /\ x # o => offers'[x].status = offers[x].status
  BY <1>2, <1>3 DEF SetStatus, TypeOK, BookTypeOK
<1>5. /\ closing \in Seq(News) /\ Len(closing) = 2
      /\ closing[1] = About("OfferAccepted", o) /\ closing[2] = About("MatchConfirmed", o)
  <2>1. About("OfferAccepted", o) \in News /\ About("MatchConfirmed", o) \in News
    BY <1>2, NewsTyped DEF EventKind
  <2>2. QED
    BY <2>1
<1>6. \A k \in 1..Len(closing) : k = 1 \/ k = 2
  BY <1>5
<1>7. 1 \in 1..Len(closing)
  BY <1>5
<1> HIDE DEF closing
<1>8. TellsStatus(closing[1]) /\ closing[1].offer = o
  BY <1>5 DEF TellsStatus, StatusTold, About
<1>9. \A k \in 1..Len(closing) : TrueOf(closing[k], j, offers')
  BY <1>4, <1>5, <1>6 DEF TrueOf, StatusTold, About
<1>10. \A x \in DOMAIN offers :
         x \notin competing =>
           \/ offers'[x].status = offers[x].status
           \/ /\ offers[x].job = j
              /\ \E k \in 1..Len(closing) : TellsStatus(closing[k]) /\ closing[k].offer = x
  BY <1>4, <1>7, <1>8
<1> HIDE DEF j
<1>11. QED
  BY <1>1, <1>2, <1>4, <1>5, <1>9, <1>10, CancellingKeepsTimeline

(* Events that are no news of an offer's status. *)
LEMMA OtherNewsKeepsTimeline ==
  ASSUME TypeOK, TimelineInv, offers' = offers, NEW j \in JobId,
         NEW kind \in EventKind \ DOMAIN StatusTold, NEW o \in OfferId \cup {NoOffer},
         PushJobEvents(j, <<About(kind, o)>>)
  PROVE  TimelineInv'
BY OneEventKeepsTimeline DEF TypeOK

LEMMA StepKeepsTimeline == BookInv /\ TimelineInv /\ [Next]_vars => TimelineInv'
<1> SUFFICES ASSUME BookInv, TimelineInv, [Next]_vars PROVE TimelineInv'
  OBVIOUS
<1>0. TypeOK
  BY DEF BookInv
<1>1. ASSUME NEW o \in OfferId,
             CancelOffer(o) \/ RespondReject(o) \/ RespondLate(o) \/ ExpireOne(o)
      PROVE  TimelineInv'
  <2>1. o \in DOMAIN offers
    BY <1>0, <1>1 DEF CancelOffer, RespondReject, RespondLate, ExpireOne, Answerable,
       TypeOK, HandlerTypeOK
  <2>2. \E kind \in DOMAIN StatusTold : MarkOffer(o, StatusTold[kind], kind)
    BY <1>1 DEF CancelOffer, RespondReject, RespondLate, ExpireOne, StatusTold
  <2>3. QED
    BY <1>0, <2>1, <2>2, MarkKeepsTimeline
<1>2. ASSUME NEW j \in JobId, SubmitOffer(j) \/ AdvanceOne(j)
      PROVE  TimelineInv'
  <2>1. PICK d \in DOMAIN drivers : CreateOffer(j, d)
    BY <1>2 DEF SubmitOffer, AdvanceOne
  <2>2. j \in DOMAIN jobs /\ d \in DriverId
    BY <1>0, <1>2 DEF SubmitOffer, AdvanceOne, TypeOK, HandlerTypeOK, FleetTypeOK
  <2>3. QED
    BY <1>0, <2>1, <2>2, CreateKeepsTimeline
<1>3. ASSUME NEW o \in OfferId, RespondAccept(o)
      PROVE  TimelineInv'
  BY <1>0, <1>3, AcceptKeepsTimeline DEF RespondAccept, Answerable
<1>4. ASSUME NEW j \in JobId, NEW req \in Request, SubmitJob(j, req)
      PROVE  TimelineInv'
  <2>1. "JobRegistered" \in EventKind \ DOMAIN StatusTold
    BY DEF EventKind, StatusTold
  <2>2. offers' = offers /\ PushJobEvents(j, <<About("JobRegistered", NoOffer)>>)
    BY <1>4 DEF SubmitJob
  <2>3. QED
    BY <1>0, <2>1, <2>2, OtherNewsKeepsTimeline
<1>5. ASSUME NEW o \in OfferId, RecordWebhookDeliveryFailed(o)
      PROVE  TimelineInv'
  <2>1. "WebhookDeliveryFailed" \in EventKind \ DOMAIN StatusTold
    BY DEF EventKind, StatusTold
  <2>2. /\ offers' = offers
        /\ PushJobEvents(offers[o].job, <<About("WebhookDeliveryFailed", o)>>)
        /\ offers[o].job \in JobId
    BY <1>0, <1>5 DEF RecordWebhookDeliveryFailed, TypeOK, BookTypeOK
  <2>3. QED
    BY <1>0, <2>1, <2>2, OtherNewsKeepsTimeline
<1>6. CASE UNCHANGED <<offers, timelineVars>>
  BY <1>6 DEF timelineVars, TimelineInv
<1>7. CASE HandlerStep
  BY <1>1, <1>2, <1>6, <1>7 DEF HandlerStep, SubmitInVain, AdvanceNone, EvictOne
<1>8. CASE DispatcherStep
  BY <1>0, <1>1, <1>4, <1>8, CancelJobKeepsTimeline DEF DispatcherStep
<1>9. CASE DriverStep
  BY <1>1, <1>3, <1>6, <1>9 DEF DriverStep, UpsertDriver, ExpireForDriver, BeginExpiry,
     timelineVars
<1>10. CASE BackgroundStep \/ TimeStep \/ Restart \/ UNCHANGED vars
  BY <1>5, <1>6, <1>10 DEF BackgroundStep, ExpireGlobal, BeginExpiry, BeginEviction,
     WebhookDelivered, TimeStep, Lapse, GoStale, Restart, vars, timelineVars
<1>11. QED
  BY <1>7, <1>8, <1>9, <1>10 DEF Next

(* The timeline a dispatcher reads never tells a status an offer no longer *)
(* has: its last event about an offer names the status the engine holds,   *)
(* however many events the cap has dropped, and also after a crash.        *)
THEOREM TimelineIsTrue == Spec => []TimelineTellsStatus
<1>1. Init => TimelineInv
  BY DEF Init, TimelineInv, Agrees
<1>2. BookInv /\ TimelineInv => TimelineTellsStatus
  <2> SUFFICES ASSUME BookInv, TimelineInv, NEW j \in JobId
               PROVE  \A i \in DOMAIN job_events[j] :
                        \/ ~ TellsStatus(job_events[j][i])
                        \/ \E k \in DOMAIN job_events[j] :
                             /\ k > i /\ TellsStatus(job_events[j][k])
                             /\ job_events[j][k].offer = job_events[j][i].offer
                        \/ offers[job_events[j][i].offer].status
                             = StatusTold[job_events[j][i].kind]
    BY DEF TimelineTellsStatus
  <2>1. DOMAIN job_events[j] = 1..Len(job_events[j])
    BY DEF BookInv, TypeOK, TimelineTypeOK
  <2>2. QED
    BY <2>1 DEF TimelineInv, Agrees, Superseded, TrueOf
<1>3. QED
  BY <1>1, <1>2, StepKeepsTimeline, BookInvariant, PTL DEF Spec

-----------------------------------------------------------------------------
(* Engine implements JobLifecycle when every job id is submitted once.     *)
(* One engine step is at most one lifecycle step of one job: the job whose *)
(* offers, registration or cancellation it touches.                        *)

(* The step leaves everything the dispatch state of job k depends on.      *)
SameJob(k) ==
  /\ OffersOf(k)' = OffersOf(k)
  /\ \A o \in OffersOf(k) : offers'[o].status = offers[o].status
  /\ k \in DOMAIN jobs' <=> k \in DOMAIN jobs
  /\ k \in cancelled_jobs' <=> k \in cancelled_jobs

LEMMA SameJobSameView ==
  ASSUME NEW k, SameJob(k)
  PROVE  /\ JobDispatchState(k)' = JobDispatchState(k)
         /\ WithStatus(k, "Accepted")' = WithStatus(k, "Accepted")
<1>1. \A s : WithStatus(k, s)' = WithStatus(k, s)
  BY DEF SameJob, WithStatus
<1>2. OffersOf(k)' = OffersOf(k) /\ KnownJob(k)' = KnownJob(k)
  BY DEF SameJob, KnownJob
<1>3. QED
  BY <1>1, <1>2 DEF JobDispatchState, SameJob

(* Which commands touch which job. *)
LEMMA MarkTouchesOne ==
  ASSUME BookTypeOK, NEW o \in DOMAIN offers, NEW s, NEW kind, MarkOffer(o, s, kind),
         UNCHANGED <<jobs, cancelled_jobs>>, NEW k, k # offers[o].job
  PROVE  SameJob(k)
BY DEF BookTypeOK, MarkOffer, SetStatus, SameJob, OffersOf

LEMMA CreateTouchesOne ==
  ASSUME BookTypeOK, NEW j, NEW d, CreateOffer(j, d),
         UNCHANGED <<jobs, cancelled_jobs>>, NEW k, k # j
  PROVE  SameJob(k)
BY DEF BookTypeOK, CreateOffer, With, SameJob, OffersOf

LEMMA AcceptTouchesOne ==
  ASSUME BookTypeOK, NEW o \in DOMAIN offers, AcceptOffer(o),
         UNCHANGED <<jobs, cancelled_jobs>>, NEW k, k # offers[o].job
  PROVE  SameJob(k)
<1> DEFINE competing == WithStatus(offers[o].job, "Pending") \ {o}
<1>1. offers' = [x \in DOMAIN offers |->
                   IF x = o THEN [offers[x] EXCEPT !.status = "Accepted"]
                            ELSE SetStatus(competing, "Cancelled")[x]]
  BY DEF AcceptOffer
<1>2. \A x \in competing : offers[x].job = offers[o].job
  BY DEF WithStatus, OffersOf
<1>3. QED
  BY <1>1, <1>2 DEF BookTypeOK, SetStatus, SameJob, OffersOf

LEMMA CancelTouchesOne ==
  ASSUME BookTypeOK, NEW j, CancelJob(j), NEW k, k # j
  PROVE  SameJob(k)
<1>1. \A x \in WithStatus(j, "Pending") : offers[x].job = j
  BY DEF WithStatus, OffersOf
<1>2. QED
  BY <1>1 DEF BookTypeOK, CancelJob, SetStatus, SameJob, OffersOf

LEMMA SubmitTouchesOne ==
  ASSUME BookTypeOK, NEW j, NEW req, SubmitJob(j, req), NEW k, k # j
  PROVE  SameJob(k)
BY DEF SubmitJob, With, SameJob, OffersOf

-----------------------------------------------------------------------------
(* The moves of JobLifecycle, told of the mapped state: the view of job j  *)
(* goes from one set of states to a state, its winners change as said, and *)
(* other jobs are not touched.                                             *)

OthersSame(j) == \A k \in JobId \ {j} : SameJob(k)

Moves(j, from, to) ==
  /\ OthersSame(j)
  /\ JobDispatchState(j) \in from
  /\ JobDispatchState(j)' = to

KeepsWinner(j) == WithStatus(j, "Accepted")' = WithStatus(j, "Accepted")

LEMMA MoveIsMove ==
  ASSUME NEW j \in JobId, NEW from, NEW to, Moves(j, from, to)
  PROVE  Lifecycle!Move(j, from, to)
<1>1. \A k \in JobId \ {j} : JobDispatchState(k)' = JobDispatchState(k)
  BY SameJobSameView DEF Moves, OthersSame
<1>2. [k \in JobId |-> JobDispatchState(k)]'
        = [[k \in JobId |-> JobDispatchState(k)] EXCEPT ![j] = to]
  BY <1>1 DEF Moves
<1>3. QED
  BY <1>2 DEF Lifecycle!Move, Moves

LEMMA WinnersKept ==
  ASSUME NEW j \in JobId, OthersSame(j), KeepsWinner(j)
  PROVE  UNCHANGED [k \in JobId |-> WithStatus(k, "Accepted")]
BY SameJobSameView DEF OthersSame, KeepsWinner

LEMMA WinnersMoved ==
  ASSUME NEW j \in JobId, OthersSame(j)
  PROVE  [k \in JobId |-> WithStatus(k, "Accepted")]'
           = [[k \in JobId |-> WithStatus(k, "Accepted")]
                EXCEPT ![j] = WithStatus(j, "Accepted")']
<1>1. \A k \in JobId \ {j} : WithStatus(k, "Accepted")' = WithStatus(k, "Accepted")
  BY SameJobSameView DEF OthersSame
<1>2. QED
  BY <1>1

(* A step that moves one job's view by a move of JobLifecycle, or no view. *)
LifecycleStep(j) ==
  \/ Moves(j, {"unknown"}, "pending") /\ KeepsWinner(j)
  \/ Moves(j, {"pending", "exhausted"}, "searching") /\ KeepsWinner(j)
  \/ Moves(j, {"searching"}, "exhausted") /\ KeepsWinner(j)
  \/ Moves(j, {"searching", "exhausted"}, "cancelled") /\ KeepsWinner(j)
  \/ /\ Moves(j, {"searching"}, "matched")
     /\ WithStatus(j, "Accepted") = {}
     /\ \E o \in OfferId : WithStatus(j, "Accepted")' = {o}
  \/ /\ Moves(j, {"matched"}, "exhausted") \/ Moves(j, {"matched"}, "cancelled")
     /\ WithStatus(j, "Accepted")' = {}
  \/ /\ OthersSame(j) /\ KeepsWinner(j)
     /\ JobDispatchState(j)' = JobDispatchState(j)

LEMMA StepIsLifecycleStep ==
  ASSUME NEW j \in JobId, LifecycleStep(j)
  PROVE  [Lifecycle!Next]_(Lifecycle!vars)
<1>1. CASE Moves(j, {"unknown"}, "pending") /\ KeepsWinner(j)
  BY <1>1, MoveIsMove, WinnersKept DEF Lifecycle!Next, Lifecycle!Register, Moves
<1>2. CASE Moves(j, {"pending", "exhausted"}, "searching") /\ KeepsWinner(j)
  BY <1>2, MoveIsMove, WinnersKept DEF Lifecycle!Next, Lifecycle!Ask, Moves
<1>3. CASE Moves(j, {"searching"}, "exhausted") /\ KeepsWinner(j)
  BY <1>3, MoveIsMove, WinnersKept DEF Lifecycle!Next, Lifecycle!Fail, Moves
<1>4. CASE Moves(j, {"searching", "exhausted"}, "cancelled") /\ KeepsWinner(j)
  BY <1>4, MoveIsMove, WinnersKept DEF Lifecycle!Next, Lifecycle!Cancel, Moves
<1>5. CASE /\ Moves(j, {"searching"}, "matched")
           /\ WithStatus(j, "Accepted") = {}
           /\ \E o \in OfferId : WithStatus(j, "Accepted")' = {o}
  BY <1>5, MoveIsMove, WinnersMoved DEF Lifecycle!Next, Lifecycle!Match, Moves
<1>6. CASE /\ Moves(j, {"matched"}, "exhausted") \/ Moves(j, {"matched"}, "cancelled")
           /\ WithStatus(j, "Accepted")' = {}
  BY <1>6, MoveIsMove, WinnersMoved DEF Lifecycle!Next, Lifecycle!Undo, Moves
<1>7. CASE /\ OthersSame(j) /\ KeepsWinner(j)
           /\ JobDispatchState(j)' = JobDispatchState(j)
  <2>1. \A k \in JobId : JobDispatchState(k)' = JobDispatchState(k)
    BY <1>7, SameJobSameView DEF OthersSame
  <2>2. QED
    BY <1>7, <2>1, WinnersKept DEF Lifecycle!vars
<1>8. QED
  BY <1>1, <1>2, <1>3, <1>4, <1>5, <1>6, <1>7 DEF LifecycleStep

-----------------------------------------------------------------------------
(* Each action is such a step, for jobs that are submitted once.           *)

LEMMA SubmitJobStep ==
  ASSUME ~ Resubmit, BookInv, NEW j \in JobId, NEW req \in Request, SubmitJob(j, req)
  PROVE  LifecycleStep(j)
<1>1. j \notin DOMAIN jobs /\ j \in DOMAIN jobs' /\ offers' = offers
  BY DEF SubmitJob, With
<1>2. OffersOf(j) = {} /\ OffersOf(j)' = {}
  BY <1>1 DEF BookInv, TypeOK, BookTypeOK, OffersOf
<1>3. JobDispatchState(j) = "unknown" /\ JobDispatchState(j)' = "pending"
  BY <1>1, <1>2 DEF JobDispatchState, KnownJob
<1>4. KeepsWinner(j)
  BY <1>2 DEF KeepsWinner, WithStatus
<1>5. OthersSame(j)
  BY SubmitTouchesOne DEF OthersSame, BookInv, TypeOK
<1>6. QED
  BY <1>3, <1>4, <1>5 DEF LifecycleStep, Moves

(* A job without a live offer gets one. *)
LEMMA CreateOfferStep ==
  ASSUME BookInv, NEW j \in DOMAIN jobs, NEW d, CreateOffer(j, d),
         UNCHANGED <<jobs, cancelled_jobs>>, j \notin cancelled_jobs,
         WithStatus(j, "Pending") = {}, WithStatus(j, "Accepted") = {}
  PROVE  LifecycleStep(j)
<1>1. PICK n \in OfferId \ DOMAIN offers :
        offers' = With(offers, n, [job |-> j, driver |-> d, status |-> "Pending"])
  BY DEF CreateOffer
<1>2. /\ DOMAIN offers' = DOMAIN offers \cup {n}
      /\ offers'[n] = [job |-> j, driver |-> d, status |-> "Pending"]
      /\ \A o \in DOMAIN offers : offers'[o] = offers[o]
  BY <1>1 DEF With
<1>3. n \in WithStatus(j, "Pending")' /\ WithStatus(j, "Accepted")' = {}
  BY <1>2 DEF WithStatus, OffersOf
<1>4. JobDispatchState(j) \in {"pending", "exhausted"}
  BY DEF JobDispatchState, KnownJob
<1>5. OffersOf(j)' # {} /\ KnownJob(j)'
  BY <1>3 DEF WithStatus, KnownJob
<1>6. JobDispatchState(j)' = "searching"
  BY <1>3, <1>5 DEF JobDispatchState
<1>7. OthersSame(j)
  BY CreateTouchesOne DEF OthersSame, BookInv, TypeOK
<1>8. QED
  BY <1>3, <1>4, <1>6, <1>7 DEF LifecycleStep, Moves, KeepsWinner

(* A pending offer, the only live one of its job, is rejected, expires or  *)
(* is cancelled; or an accepted one is cancelled; or nothing is lost.      *)
LEMMA MarkOfferStep ==
  ASSUME ~ Resubmit, BookInv, NEW o \in DOMAIN offers, NEW j, j = offers[o].job,
         NEW s \in {"Rejected", "Expired", "Cancelled"}, NEW kind,
         MarkOffer(o, s, kind), UNCHANGED <<jobs, cancelled_jobs>>
  PROVE  LifecycleStep(j)
<1>1. /\ OffersOf(j)' = OffersOf(j) /\ o \in OffersOf(j)
      /\ offers'[o].status = s
      /\ \A x \in DOMAIN offers \ {o} : offers'[x] = offers[x]
      /\ DOMAIN offers' = DOMAIN offers
      /\ j \in DOMAIN jobs
  BY DEF MarkOffer, SetStatus, OffersOf, BookInv, TypeOK, BookTypeOK
<1>2. OthersSame(j)
  BY MarkTouchesOne DEF OthersSame, BookInv, TypeOK
<1>3. /\ WithStatus(j, "Pending")' = WithStatus(j, "Pending") \ {o}
      /\ WithStatus(j, "Accepted")' = WithStatus(j, "Accepted") \ {o}
  BY <1>1 DEF WithStatus, OffersOf
<1>4. \A x, y \in WithStatus(j, "Pending") \cup WithStatus(j, "Accepted") : x = y
  BY DEF BookInv, OncePerJob, OneLiveOffer, WithStatus, OffersOf
<1>5. KnownJob(j) /\ KnownJob(j)' /\ OffersOf(j) # {} /\ OffersOf(j)' # {}
  BY <1>1 DEF KnownJob
<1>6. CASE offers[o].status = "Pending"
  <2>1. /\ o \in WithStatus(j, "Pending") /\ WithStatus(j, "Pending")' = {}
        /\ WithStatus(j, "Accepted") = {} /\ WithStatus(j, "Accepted")' = {}
    BY <1>1, <1>3, <1>4, <1>6 DEF WithStatus
  <2>2. j \notin cancelled_jobs
    BY <2>1 DEF BookInv, CancelledJobsAreQuiet
  <2>3. JobDispatchState(j) = "searching" /\ JobDispatchState(j)' = "exhausted"
    BY <1>5, <2>1, <2>2 DEF JobDispatchState
  <2>4. QED
    BY <1>2, <2>1, <2>3 DEF LifecycleStep, Moves, KeepsWinner
<1>7. CASE offers[o].status = "Accepted"
  <2>1. /\ o \in WithStatus(j, "Accepted") /\ WithStatus(j, "Accepted")' = {}
        /\ WithStatus(j, "Pending")' = {}
    BY <1>1, <1>3, <1>4, <1>7 DEF WithStatus
  <2>2. JobDispatchState(j) = "matched" /\ JobDispatchState(j)' \in {"exhausted", "cancelled"}
    BY <1>5, <2>1 DEF JobDispatchState
  <2>3. QED
    BY <1>2, <2>1, <2>2 DEF LifecycleStep, Moves
<1>8. CASE offers[o].status \notin {"Pending", "Accepted"}
  <2>1. /\ WithStatus(j, "Pending")' = WithStatus(j, "Pending")
        /\ WithStatus(j, "Accepted")' = WithStatus(j, "Accepted")
    BY <1>3, <1>8 DEF WithStatus
  <2>2. JobDispatchState(j)' = JobDispatchState(j)
    BY <1>5, <2>1 DEF JobDispatchState
  <2>3. QED
    BY <1>2, <2>1, <2>2 DEF LifecycleStep, KeepsWinner
<1>9. QED
  BY <1>6, <1>7, <1>8

LEMMA AcceptOfferStep ==
  ASSUME ~ Resubmit, BookInv, NEW o \in OfferId, RespondAccept(o),
         NEW j, j = offers[o].job
  PROVE  LifecycleStep(j)
<1> DEFINE competing == WithStatus(j, "Pending") \ {o}
<1>1. /\ o \in DOMAIN offers /\ offers[o].status = "Pending"
      /\ UNCHANGED <<jobs, cancelled_jobs>>
      /\ AcceptOffer(o)
  BY DEF RespondAccept, Answerable
<1>2. j \in DOMAIN jobs /\ o \in WithStatus(j, "Pending")
  BY <1>1 DEF BookInv, TypeOK, BookTypeOK, WithStatus, OffersOf
<1>3. \A x \in WithStatus(j, "Pending") \cup WithStatus(j, "Accepted") : x = o
  BY <1>2 DEF BookInv, OncePerJob, OneLiveOffer, WithStatus, OffersOf
<1>4. competing = {} /\ WithStatus(j, "Accepted") = {}
  <2>1. o \notin WithStatus(j, "Accepted")
    BY <1>1 DEF WithStatus
  <2>2. QED
    BY <1>3, <2>1
<1>5. /\ DOMAIN offers' = DOMAIN offers
      /\ \A x \in DOMAIN offers : /\ offers'[x].job = offers[x].job
                                  /\ x # o => offers'[x].status = offers[x].status
      /\ offers'[o].status = "Accepted"
  BY <1>1, <1>4 DEF AcceptOffer, SetStatus, BookInv, TypeOK, BookTypeOK
<1>6. WithStatus(j, "Accepted")' = {o} /\ OffersOf(j)' # {}
  BY <1>1, <1>4, <1>5 DEF WithStatus, OffersOf
<1>7. j \notin cancelled_jobs
  BY <1>2 DEF BookInv, CancelledJobsAreQuiet
<1>8. JobDispatchState(j) = "searching" /\ JobDispatchState(j)' = "matched"
  BY <1>1, <1>2, <1>4, <1>6, <1>7 DEF JobDispatchState, KnownJob, WithStatus
<1>9. OthersSame(j)
  BY <1>1, AcceptTouchesOne DEF OthersSame, BookInv, TypeOK
<1>10. QED
  BY <1>4, <1>6, <1>8, <1>9 DEF LifecycleStep, Moves

LEMMA CancelJobStep ==
  ASSUME BookInv, NEW j \in JobId, CancelJob(j)
  PROVE  LifecycleStep(j)
<1>1. /\ j \in DOMAIN jobs /\ UNCHANGED jobs
      /\ cancelled_jobs' = cancelled_jobs \cup {j}
      /\ offers' = SetStatus(WithStatus(j, "Pending"), "Cancelled")
  BY DEF CancelJob, KnownJob
<1>2. /\ DOMAIN offers' = DOMAIN offers
      /\ \A x \in DOMAIN offers :
           /\ offers'[x].job = offers[x].job
           /\ offers'[x].status = IF x \in WithStatus(j, "Pending")
                                  THEN "Cancelled" ELSE offers[x].status
  BY <1>1 DEF SetStatus, BookInv, TypeOK, BookTypeOK
<1>3. /\ OffersOf(j)' = OffersOf(j)
      /\ WithStatus(j, "Accepted")' = WithStatus(j, "Accepted")
      /\ WithStatus(j, "Pending")' = {}
  BY <1>2 DEF OffersOf, WithStatus
<1>4. KnownJob(j) /\ KnownJob(j)' /\ j \in cancelled_jobs'
  BY <1>1 DEF KnownJob
<1>5. OthersSame(j) /\ KeepsWinner(j)
  BY <1>3, CancelTouchesOne DEF OthersSame, KeepsWinner, BookInv, TypeOK
<1>6. CASE OffersOf(j) = {} \/ WithStatus(j, "Accepted") # {} \/ j \in cancelled_jobs
  BY <1>3, <1>4, <1>5, <1>6 DEF LifecycleStep, JobDispatchState
<1>7. CASE OffersOf(j) # {} /\ WithStatus(j, "Accepted") = {} /\ j \notin cancelled_jobs
  <2>1. JobDispatchState(j) \in {"searching", "exhausted"} /\ JobDispatchState(j)' = "cancelled"
    BY <1>3, <1>4, <1>7 DEF JobDispatchState
  <2>2. QED
    BY <1>5, <2>1 DEF LifecycleStep, Moves
<1>8. QED
  BY <1>6, <1>7

LEMMA QuietStep ==
  ASSUME UNCHANGED <<jobs, offers, cancelled_jobs>>
  PROVE  UNCHANGED Lifecycle!vars
BY DEF Lifecycle!vars, JobDispatchState, KnownJob, WithStatus, OffersOf

LEMMA StepRefines ==
  ASSUME ~ Resubmit, BookInv, [Next]_vars
  PROVE  [Lifecycle!Next]_(Lifecycle!vars)
<1>1. ASSUME UNCHANGED <<jobs, offers, cancelled_jobs>>
      PROVE  [Lifecycle!Next]_(Lifecycle!vars)
  BY <1>1, QuietStep
<1>2. ASSUME NEW o \in OfferId,
             CancelOffer(o) \/ RespondReject(o) \/ RespondLate(o) \/ ExpireOne(o)
      PROVE  [Lifecycle!Next]_(Lifecycle!vars)
  <2>1. PICK s \in {"Rejected", "Expired", "Cancelled"}, kind \in EventKind :
          MarkOffer(o, s, kind)
    BY <1>2 DEF CancelOffer, RespondReject, RespondLate, ExpireOne, EventKind
  <2>2. o \in DOMAIN offers /\ UNCHANGED <<jobs, cancelled_jobs>>
    BY <1>2 DEF CancelOffer, RespondReject, RespondLate, ExpireOne, Answerable,
       BookInv, TypeOK, HandlerTypeOK
  <2>3. PICK j \in JobId : j = offers[o].job
    BY <2>2 DEF BookInv, TypeOK, BookTypeOK
  <2>4. QED
    BY <2>1, <2>2, <2>3, MarkOfferStep, StepIsLifecycleStep
<1>3. ASSUME NEW o \in OfferId, RespondAccept(o)
      PROVE  [Lifecycle!Next]_(Lifecycle!vars)
  <2>1. PICK j \in JobId : j = offers[o].job
    BY <1>3 DEF RespondAccept, Answerable, BookInv, TypeOK, BookTypeOK
  <2>2. QED
    BY <1>3, <2>1, AcceptOfferStep, StepIsLifecycleStep
<1>4. ASSUME NEW j \in JobId, SubmitOffer(j) \/ AdvanceOne(j)
      PROVE  [Lifecycle!Next]_(Lifecycle!vars)
  <2>1. PICK d : CreateOffer(j, d)
    BY <1>4 DEF SubmitOffer, AdvanceOne
  <2>2. /\ j \in DOMAIN jobs /\ j \notin cancelled_jobs
        /\ WithStatus(j, "Pending") = {} /\ WithStatus(j, "Accepted") = {}
        /\ UNCHANGED <<jobs, cancelled_jobs>>
    BY <1>4 DEF SubmitOffer, AdvanceOne, WantsOffer, KnownJob, BookInv, TypeOK,
       HandlerTypeOK, SubmittingIsFirst, WithStatus
  <2>3. QED
    BY <2>1, <2>2, CreateOfferStep, StepIsLifecycleStep
<1>5. CASE HandlerStep
  BY <1>1, <1>2, <1>4, <1>5 DEF HandlerStep, SubmitInVain, AdvanceNone, EvictOne
<1>6. CASE DispatcherStep
  BY <1>2, <1>6, SubmitJobStep, CancelJobStep, StepIsLifecycleStep DEF DispatcherStep
<1>7. CASE DriverStep
  BY <1>1, <1>2, <1>3, <1>7 DEF DriverStep, UpsertDriver, ExpireForDriver, BeginExpiry
<1>8. CASE BackgroundStep \/ TimeStep \/ Restart \/ UNCHANGED vars
  BY <1>1, <1>8 DEF BackgroundStep, ExpireGlobal, BeginExpiry, BeginEviction,
     WebhookDelivered, RecordWebhookDeliveryFailed, TimeStep, Lapse, GoStale,
     Restart, vars
<1>9. QED
  BY <1>5, <1>6, <1>7, <1>8 DEF Next

(* The engine implements JobLifecycle: to a dispatcher that uses each job  *)
(* id once, a job is asked, matched, exhausted, cancelled and undone only  *)
(* as JobLifecycle says, with one winner while it is matched.              *)
THEOREM EngineImplementsLifecycle ==
  ASSUME ~ Resubmit
  PROVE  Spec => ImplementsLifecycle
<1>1. Init => Lifecycle!Init
  BY DEF Init, EmptyMap, Lifecycle!Init, JobDispatchState, KnownJob, WithStatus, OffersOf
<1>2. BookInv /\ [Next]_vars => [Lifecycle!Next]_(Lifecycle!vars)
  BY StepRefines
<1>3. QED
  BY <1>1, <1>2, BookInvariant, PTL DEF Spec, ImplementsLifecycle, Lifecycle!Spec

(* So a job reported cancelled is never searched for or matched again, and *)
(* a match, while it lasts, is with the same driver.                       *)
THEOREM ReportsAreFinal ==
  ASSUME ~ Resubmit
  PROVE  Spec => Lifecycle!CancelledIsFinal /\ Lifecycle!NoRematch
<1>1. [Lifecycle!Next]_(Lifecycle!vars)
        => [Lifecycle!StaysCancelled]_(Lifecycle!vars)
  BY DEF Lifecycle!StaysCancelled, Lifecycle!Next, Lifecycle!vars, Lifecycle!Move,
     Lifecycle!Register, Lifecycle!Ask, Lifecycle!Fail, Lifecycle!Match,
     Lifecycle!Cancel, Lifecycle!Undo
<1>2. [Lifecycle!Next]_(Lifecycle!vars)
        => [Lifecycle!KeepsOrLosesWinner]_(Lifecycle!vars)
  BY DEF Lifecycle!KeepsOrLosesWinner, Lifecycle!Next, Lifecycle!vars, Lifecycle!Move,
     Lifecycle!Register, Lifecycle!Ask, Lifecycle!Fail, Lifecycle!Match,
     Lifecycle!Cancel, Lifecycle!Undo
<1>3. Spec => ImplementsLifecycle
  BY EngineImplementsLifecycle
<1>4. QED
  BY <1>1, <1>2, <1>3, PTL
     DEF ImplementsLifecycle, Lifecycle!Spec, Lifecycle!CancelledIsFinal, Lifecycle!NoRematch

=============================================================================
