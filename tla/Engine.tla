------------------------------- MODULE Engine -------------------------------
(***************************************************************************)
(* The dispatch engine (spatiad-core) behind its service (spatiad-         *)
(* dispatch), as the API drives it.  The API wraps the service in one      *)
(* mutex, and every handler runs one or more engine commands while it      *)
(* holds it.  Here one step is one engine command; what a handler that     *)
(* holds the mutex still has to do is in submitting, expiring, advancing   *)
(* and evicting, and no other handler starts before it is done.  A crash   *)
(* may fall between any two steps.                                         *)
(*                                                                         *)
(* Clocks are left out.  An offer whose expires_at has passed is in        *)
(* `lapsed', a driver whose last_seen_at is older than the TTL in `stale'; *)
(* either may happen at any time.                                          *)
(***************************************************************************)
EXTENDS CandidateSearch, SpatialIndex, SequencesExt

CONSTANTS
  Category,        \* classes of category names
  JobId, OfferId,  \* the uuids jobs and offers may get
  Request,         \* what POST /dispatch/offer may ask for
  Report,          \* what a driver may report: category, status, position
  SubmitLimit,     \* candidates looked at for a job's first offer (3)
  CandidateLimit,  \* candidates looked at for each later one (32)
  MaxJobEvents,    \* events kept in memory per job (200)
  Resubmit,        \* may a dispatcher submit the same job id again?
  MaxSequence,     \* bound: events of a job after which nobody submits it
                   \* again or cancels one of its cancelled offers again
  LapsingStatus,   \* bound: statuses in which an offer's deadline may pass
  NoOffer          \* the offer of an event that is about the job alone

DriverStatus == {"Offline", "Available", "Busy"}

ASSUME LimitAssumption ==
  /\ SubmitLimit \in Nat \ {0}
  /\ CandidateLimit \in Nat \ {0}
  /\ MaxJobEvents \in Nat \ {0}
ASSUME IdAssumption == IsFiniteSet(OfferId) /\ NoOffer \notin OfferId
ASSUME InputAssumption ==
  /\ Report \subseteq [category : Category, status : DriverStatus, position : Position]
  /\ Request \subseteq [category : Category, pickup : Position,
                       initial_radius : Nat, max_radius : Nat]
ASSUME ResubmitAssumption == Resubmit \in BOOLEAN
ASSUME LapseAssumption == "Pending" \in LapsingStatus

VARIABLES
  drivers,         \* id -> [category, status, position]
  spatial,         \* the H3 index over drivers
  stale,           \* drivers not heard of for longer than the TTL
  jobs,            \* id -> request
  offers,          \* id -> [job, driver, status]
  lapsed,          \* offers whose expires_at has passed
  cancelled_jobs,
  job_events,      \* job -> its most recent events, oldest first
  job_event_sequences, \* job -> number of events ever recorded
  awaiting,        \* matches whose webhook is still being delivered
  submitting,      \* job registered by submit_job, first offer not yet made
  expiring,        \* offers an expiry sweep found and has not marked yet
  advancing,       \* jobs the handler still has to find a next driver for
  evicting         \* drivers the TTL sweep found and has not removed yet

fleetVars == <<drivers, spatial, stale>>
timelineVars == <<job_events, job_event_sequences>>
handlerVars == <<submitting, expiring, advancing, evicting>>
vars == <<drivers, spatial, stale, jobs, offers, lapsed, cancelled_jobs,
          job_events, job_event_sequences, awaiting, submitting, expiring,
          advancing, evicting>>

OfferStatus == {"Pending", "Accepted", "Rejected", "Expired", "Cancelled"}

EventKind ==
  {"JobRegistered", "JobCancelled", "WebhookDeliveryFailed", "OfferCreated",
   "OfferExpired", "OfferCancelled", "OfferRejected", "OfferAccepted",
   "MatchConfirmed"}

Event == [sequence : Nat, kind : EventKind, offer : OfferId \cup {NoOffer}]

(* Fault: submit_job lets go of the mutex between its two commands. *)
IdleOrSubmitting == expiring = {} /\ advancing = {} /\ evicting = {}

(* The mutex is free: the handler before this one has done all it had to. *)
Idle == submitting = {} /\ expiring = {} /\ advancing = {} /\ evicting = {}

OffersOf(j) == {o \in DOMAIN offers : offers[o].job = j}
WithStatus(j, s) == {o \in OffersOf(j) : offers[o].status = s}

(* Fault: the check that the job exists is dropped. *)
AnyJob(j) == TRUE

KnownJob(j) == j \in DOMAIN jobs

(* Fault: a driver that let the offer expire counts as never asked. *)
TriedUnlessExpired(j) ==
  {offers[o].driver : o \in {x \in OffersOf(j) : offers[x].status # "Expired"}}

(* The drivers a job was offered to, whatever became of the offer. *)
Tried(j) == {offers[o].driver : o \in OffersOf(j)}

(* Fault: cancellation is tested before the match. *)
CancelledBeforeMatched(j) ==
  IF j \notin DOMAIN jobs THEN "unknown"
  ELSE IF OffersOf(j) = {} THEN "pending"
  ELSE IF j \in cancelled_jobs THEN "cancelled"
  ELSE IF WithStatus(j, "Accepted") # {} THEN "matched"
  ELSE IF WithStatus(j, "Pending") # {} THEN "searching"
  ELSE "exhausted"

(* job_dispatch_state, in the order the code tests. *)
JobDispatchState(j) ==
  IF ~ KnownJob(j) THEN "unknown"
  ELSE IF OffersOf(j) = {} THEN "pending"
  ELSE IF WithStatus(j, "Accepted") # {} THEN "matched"
  ELSE IF j \in cancelled_jobs THEN "cancelled"
  ELSE IF WithStatus(j, "Pending") # {} THEN "searching"
  ELSE "exhausted"

-----------------------------------------------------------------------------
(* The timeline.  push_job_event numbers an event, appends it and drops    *)
(* the oldest beyond MaxJobEvents.                                         *)
About(kind, o) == [kind |-> kind, offer |-> o]

(* Fault: the cap drops the event just pushed instead of the oldest. *)
Oldest(s) == SubSeq(s, 1, IF Len(s) > MaxJobEvents THEN MaxJobEvents ELSE Len(s))

Newest(s) ==
  SubSeq(s, IF Len(s) > MaxJobEvents THEN Len(s) - MaxJobEvents + 1 ELSE 1, Len(s))

PushJobEvents(j, news) ==
  LET n == job_event_sequences[j]
      numbered == [i \in 1..Len(news) |->
                     [sequence |-> n + i, kind |-> news[i].kind, offer |-> news[i].offer]]
  IN /\ job_event_sequences' = [job_event_sequences EXCEPT ![j] = n + Len(news)]
     /\ job_events' = [job_events EXCEPT ![j] = Newest(@ \o numbered)]

(* Cancelled offers are reported in HashMap order: any order. *)
CancellationsOf(S) ==
  {[i \in DOMAIN s |-> About("OfferCancelled", s[i])] : s \in SetToSeqs(S)}

-----------------------------------------------------------------------------
(* Commands of the engine (apply_command), each the effect of one step.    *)

CreateOffer(j, d) ==
  \E o \in OfferId \ DOMAIN offers :
    /\ offers' = With(offers, o, [job |-> j, driver |-> d, status |-> "Pending"])
    /\ PushJobEvents(j, <<About("OfferCreated", o)>>)

SetStatus(S, s) ==
  [o \in DOMAIN offers |-> IF o \in S THEN [offers[o] EXCEPT !.status = s]
                                      ELSE offers[o]]

MarkOffer(o, s, kind) ==
  /\ offers' = SetStatus({o}, s)
  /\ PushJobEvents(offers[o].job, <<About(kind, o)>>)

(* The winner is accepted, competing pending offers of the job cancelled   *)
(* and the driver, if still known, made busy.                              *)
AcceptOffer(o) ==
  LET j == offers[o].job
      d == offers[o].driver
      competing == WithStatus(j, "Pending") \ {o}
  IN /\ offers' = [x \in DOMAIN offers |->
                     IF x = o THEN [offers[x] EXCEPT !.status = "Accepted"]
                              ELSE SetStatus(competing, "Cancelled")[x]]
     /\ drivers' = IF d \in DOMAIN drivers
                   THEN [drivers EXCEPT ![d].status = "Busy"] ELSE drivers
     /\ \E cancellations \in CancellationsOf(competing) :
          PushJobEvents(j, cancellations \o
                             <<About("OfferAccepted", o), About("MatchConfirmed", o)>>)

-----------------------------------------------------------------------------
(* Handlers of the service.                                                *)

(* POST /driver/upsert and the location message of a driver's socket. *)
UpsertDriver(d, report) ==
  /\ Idle
  /\ drivers' = With(drivers, d, report)
  /\ spatial' = UpsertIntoIndex(spatial, d, report.position)
  /\ stale' = stale \ {d}
  /\ UNCHANGED <<jobs, offers, lapsed, cancelled_jobs, job_events,
                 job_event_sequences, awaiting, handlerVars>>

(* Bound: enough offer ids stay free for every job to try every driver. *)
SpareOfferIds ==
  Cardinality({jd \in JobId \X DriverId : jd[2] \notin Tried(jd[1])})
    < Cardinality(OfferId \ DOMAIN offers)

(* submit_job registers the job, which reopens a cancelled one, and goes   *)
(* on to look for a first driver whatever offers the job already has.      *)
SubmitJob(j, req) ==
  /\ Idle
  /\ j \in DOMAIN jobs => /\ Resubmit
                          /\ SpareOfferIds
                          /\ job_event_sequences[j] < MaxSequence
  /\ jobs' = With(jobs, j, req)
  /\ cancelled_jobs' = cancelled_jobs \ {j}
  /\ PushJobEvents(j, <<About("JobRegistered", NoOffer)>>)
  /\ submitting' = {j}
  /\ UNCHANGED <<fleetVars, offers, lapsed, awaiting, expiring, advancing, evicting>>

SubmitOffer(j) ==
  /\ j \in submitting
  /\ submitting' = submitting \ {j}
  /\ \E d \in DOMAIN drivers :
       /\ MayPick(drivers, jobs[j], {}, SubmitLimit, d)
       /\ CreateOffer(j, d)
  /\ UNCHANGED <<fleetVars, jobs, lapsed, cancelled_jobs, awaiting,
                 expiring, advancing, evicting>>

(* NoAvailableDriver: the job stays registered and nobody retries it. *)
SubmitInVain(j) ==
  /\ j \in submitting
  /\ MayFindNobody(drivers, jobs[j], {}, SubmitLimit)
  /\ submitting' = submitting \ {j}
  /\ UNCHANGED <<fleetVars, jobs, offers, lapsed, cancelled_jobs, timelineVars,
                 awaiting, expiring, advancing, evicting>>

(* POST /dispatch/cancel: the offer is cancelled whatever its status. *)
CancelOffer(o) ==
  /\ Idle
  /\ o \in DOMAIN offers
  /\ offers[o].status = "Cancelled" =>
       job_event_sequences[offers[o].job] < MaxSequence
  /\ MarkOffer(o, "Cancelled", "OfferCancelled")
  /\ UNCHANGED <<fleetVars, jobs, lapsed, cancelled_jobs, awaiting, handlerVars>>

(* POST /dispatch/job/cancel: pending offers go, an accepted one stays. *)
CancelJob(j) ==
  LET pending == WithStatus(j, "Pending")
      closing == IF j \in cancelled_jobs THEN <<>>
                 ELSE <<About("JobCancelled", NoOffer)>>
  IN /\ Idle
     /\ KnownJob(j)
     /\ cancelled_jobs' = cancelled_jobs \cup {j}
     /\ offers' = SetStatus(pending, "Cancelled")
     /\ \E cancellations \in CancellationsOf(pending) :
          PushJobEvents(j, cancellations \o closing)
     /\ UNCHANGED <<fleetVars, jobs, lapsed, awaiting, handlerVars>>

(* Fault: an answer is taken whatever became of the offer. *)
AnswerableAnyStatus(o) == Idle /\ o \in DOMAIN offers

(* An answer is valid while the offer is pending and its time has not run  *)
(* out; any other is refused without effect, except the late one below.    *)
Answerable(o) ==
  /\ Idle
  /\ o \in DOMAIN offers
  /\ offers[o].status = "Pending"

RespondAccept(o) ==
  /\ Answerable(o) /\ o \notin lapsed
  /\ AcceptOffer(o)
  /\ awaiting' = awaiting \cup {o}
  /\ UNCHANGED <<spatial, stale, jobs, lapsed, cancelled_jobs, handlerVars>>

RespondReject(o) ==
  /\ Answerable(o) /\ o \notin lapsed
  /\ MarkOffer(o, "Rejected", "OfferRejected")
  /\ advancing' = {offers[o].job}
  /\ UNCHANGED <<fleetVars, jobs, lapsed, cancelled_jobs, awaiting,
                 submitting, expiring, evicting>>

(* The answer arrives after the deadline and before a sweep: the offer is  *)
(* marked expired and the handler returns the error at once.               *)
RespondLate(o) ==
  /\ Answerable(o) /\ o \in lapsed
  /\ MarkOffer(o, "Expired", "OfferExpired")
  /\ UNCHANGED <<fleetVars, jobs, lapsed, cancelled_jobs, awaiting, handlerVars>>

(* Faults: the sweep expires offers that were settled in time; it passes   *)
(* over those of drivers that are gone.                                    *)
OverdueAnyStatus == {o \in lapsed : o \in DOMAIN offers}

OverdueOfKnownDrivers ==
  {o \in lapsed : o \in DOMAIN offers /\ offers[o].status = "Pending"
                                     /\ offers[o].driver \in DOMAIN drivers}

(* Expiry, for one driver (before its socket is served and on each of its  *)
(* ticks) or for all (the background task): collect the overdue offers,    *)
(* mark each, then look for a next driver once per job.                    *)
Overdue == {o \in lapsed : o \in DOMAIN offers /\ offers[o].status = "Pending"}

BeginExpiry(found) ==
  /\ Idle
  /\ found # {}
  /\ expiring' = found
  /\ advancing' = {offers[o].job : o \in found}
  /\ UNCHANGED <<fleetVars, jobs, offers, lapsed, cancelled_jobs, timelineVars,
                 awaiting, submitting, evicting>>

ExpireForDriver(d) == BeginExpiry({o \in Overdue : offers[o].driver = d})

(* Fault: the task looks only at drivers that fell silent. *)
ExpireSilent == BeginExpiry({o \in Overdue : offers[o].driver \in stale})

ExpireGlobal == BeginExpiry(Overdue)

ExpireOne(o) ==
  /\ o \in expiring
  /\ expiring' = expiring \ {o}
  /\ MarkOffer(o, "Expired", "OfferExpired")
  /\ UNCHANGED <<fleetVars, jobs, lapsed, cancelled_jobs, awaiting,
                 submitting, advancing, evicting>>

(* create_next_offer_for_job: not for a job that is gone, cancelled,       *)
(* matched or still waiting for an answer; never the same driver twice.    *)
WantsOffer(j) ==
  /\ KnownJob(j)
  /\ j \notin cancelled_jobs
  /\ WithStatus(j, "Accepted") = {}
  /\ WithStatus(j, "Pending") = {}

AdvanceOne(j) ==
  /\ j \in advancing /\ expiring = {}
  /\ WantsOffer(j)
  /\ advancing' = advancing \ {j}
  /\ \E d \in DOMAIN drivers :
       /\ MayPick(drivers, jobs[j], Tried(j), CandidateLimit, d)
       /\ CreateOffer(j, d)
  /\ UNCHANGED <<fleetVars, jobs, lapsed, cancelled_jobs, awaiting,
                 submitting, expiring, evicting>>

AdvanceNone(j) ==
  /\ j \in advancing /\ expiring = {}
  /\ WantsOffer(j) => MayFindNobody(drivers, jobs[j], Tried(j), CandidateLimit)
  /\ advancing' = advancing \ {j}
  /\ UNCHANGED <<fleetVars, jobs, offers, lapsed, cancelled_jobs, timelineVars,
                 awaiting, submitting, expiring, evicting>>

(* The driver TTL task: collect the stale drivers, remove each.  Offers a  *)
(* removed driver still holds stay as they are.                            *)
BeginEviction ==
  /\ Idle
  /\ stale # {}
  /\ evicting' = stale
  /\ UNCHANGED <<fleetVars, jobs, offers, lapsed, cancelled_jobs, timelineVars,
                 awaiting, submitting, expiring, advancing>>

EvictOne(d) ==
  /\ d \in evicting
  /\ evicting' = evicting \ {d}
  /\ drivers' = Without(drivers, d)
  /\ spatial' = RemoveFromIndex(spatial, d)
  /\ stale' = stale \ {d}
  /\ UNCHANGED <<jobs, offers, lapsed, cancelled_jobs, timelineVars, awaiting,
                 submitting, expiring, advancing>>

(* The delivery of a match webhook ends outside the mutex; a failure comes *)
(* back to be recorded.                                                    *)
WebhookDelivered(o) ==
  /\ o \in awaiting
  /\ awaiting' = awaiting \ {o}
  /\ UNCHANGED <<fleetVars, jobs, offers, lapsed, cancelled_jobs, timelineVars,
                 handlerVars>>

RecordWebhookDeliveryFailed(o) ==
  /\ Idle
  /\ o \in awaiting
  /\ awaiting' = awaiting \ {o}
  /\ PushJobEvents(offers[o].job, <<About("WebhookDeliveryFailed", o)>>)
  /\ UNCHANGED <<fleetVars, jobs, offers, lapsed, cancelled_jobs, handlerVars>>

(* The server dies, between any two commands, and recovers from its        *)
(* database, no statement having failed: every command so far is back      *)
(* (module Durability), timestamps included; job_events stands for the     *)
(* newest rows of the database.  What the handler still had to do is       *)
(* forgotten, and so is a webhook under way.                               *)
Restart ==
  /\ submitting' = {} /\ expiring' = {} /\ advancing' = {} /\ evicting' = {}
  /\ awaiting' = {}
  /\ UNCHANGED <<fleetVars, jobs, offers, lapsed, cancelled_jobs, timelineVars>>

(* Time: an offer's deadline passes, a driver falls silent. *)
Lapse(o) ==
  /\ o \in DOMAIN offers \ lapsed
  /\ offers[o].status \in LapsingStatus
  /\ lapsed' = lapsed \cup {o}
  /\ UNCHANGED <<fleetVars, jobs, offers, cancelled_jobs, timelineVars, awaiting,
                 handlerVars>>

GoStale(d) ==
  /\ d \in DOMAIN drivers \ stale
  /\ stale' = stale \cup {d}
  /\ UNCHANGED <<drivers, spatial, jobs, offers, lapsed, cancelled_jobs,
                 timelineVars, awaiting, handlerVars>>

-----------------------------------------------------------------------------
EmptyMap == <<>>

Init ==
  /\ drivers = EmptyMap /\ spatial = EmptyIndex /\ stale = {}
  /\ jobs = EmptyMap /\ offers = EmptyMap /\ lapsed = {} /\ cancelled_jobs = {}
  /\ job_events = [j \in JobId |-> <<>>]
  /\ job_event_sequences = [j \in JobId |-> 0]
  /\ awaiting = {}
  /\ submitting = {} /\ expiring = {} /\ advancing = {} /\ evicting = {}

(* What a handler that holds the mutex does next. *)
HandlerStep ==
  \/ \E j \in JobId : SubmitOffer(j) \/ SubmitInVain(j)
                        \/ AdvanceOne(j) \/ AdvanceNone(j)
  \/ \E o \in OfferId : ExpireOne(o)
  \/ \E d \in DriverId : EvictOne(d)

DispatcherStep ==
  \/ \E j \in JobId, req \in Request : SubmitJob(j, req)
  \/ \E j \in JobId : CancelJob(j)
  \/ \E o \in OfferId : CancelOffer(o)

DriverStep ==
  \/ \E d \in DriverId, report \in Report : UpsertDriver(d, report)
  \/ \E o \in OfferId : RespondAccept(o) \/ RespondReject(o) \/ RespondLate(o)
  \/ \E d \in DriverId : ExpireForDriver(d)

BackgroundStep ==
  \/ ExpireGlobal
  \/ BeginEviction
  \/ \E o \in OfferId : WebhookDelivered(o) \/ RecordWebhookDeliveryFailed(o)

TimeStep ==
  \/ \E o \in OfferId : Lapse(o)
  \/ \E d \in DriverId : GoStale(d)

Next ==
  \/ HandlerStep \/ DispatcherStep \/ DriverStep \/ BackgroundStep \/ TimeStep
  \/ Restart

Spec == Init /\ [][Next]_vars

(* A handler that holds the mutex runs to its end.  The expiry task asks   *)
(* for the mutex every second and tokio's mutex is first come first        *)
(* served, so it gets its turn however busy the API is (strong fairness:   *)
(* the mutex is not free all the time).  Deadlines pass.  Crashes need not *)
(* stop, but do not for ever hit a sweep before it marks an offer (strong  *)
(* fairness again).  No driver need answer and no dispatcher need call.    *)
Fairness ==
  /\ WF_vars(HandlerStep)
  /\ SF_vars(ExpireGlobal)
  /\ \A o \in OfferId : SF_vars(ExpireOne(o)) /\ WF_vars(Lapse(o))

FairSpec == Spec /\ Fairness

-----------------------------------------------------------------------------
(* Properties. *)

FleetTypeOK ==
  /\ DOMAIN drivers \subseteq DriverId
  /\ \A d \in DOMAIN drivers :
       drivers[d] \in [category : Category, status : DriverStatus, position : Position]
  /\ stale \subseteq DOMAIN drivers
  /\ evicting \subseteq DOMAIN drivers

BookTypeOK ==
  /\ DOMAIN jobs \subseteq JobId
  /\ \A j \in DOMAIN jobs : jobs[j] \in Request
  /\ cancelled_jobs \subseteq DOMAIN jobs
  /\ DOMAIN offers \subseteq OfferId
  /\ \A o \in DOMAIN offers :
       offers[o] \in [job : DOMAIN jobs, driver : DriverId, status : OfferStatus]
  /\ lapsed \subseteq DOMAIN offers
  /\ awaiting \subseteq DOMAIN offers

HandlerTypeOK ==
  /\ submitting \subseteq DOMAIN jobs
  /\ expiring \subseteq DOMAIN offers
  /\ advancing \subseteq DOMAIN jobs

TimelineTypeOK ==
  /\ job_event_sequences \in [JobId -> Nat]
  /\ job_events \in [JobId -> Seq(Event)]

TypeOK == FleetTypeOK /\ BookTypeOK /\ HandlerTypeOK /\ TimelineTypeOK

(* The spatial index never drifts from the driver map, whatever mix of     *)
(* moves, status reports, matches and evictions touches either.            *)
IndexMirrorsDrivers == Mirrors(spatial, drivers)

(* Once cancel_job has returned, no driver holds an open offer of the job: *)
(* a sweep or rejection that races the cancellation must not make one.     *)
CancelledJobsAreQuiet ==
  \A j \in cancelled_jobs : WithStatus(j, "Pending") = {}

(* Dispatching is sequential: a job has at most one offer that is pending  *)
(* or accepted, however sweeps, answers and cancellations interleave.      *)
OneLiveOffer ==
  \A o, p \in DOMAIN offers :
    (/\ offers[o].job = offers[p].job
     /\ offers[o].status \in {"Pending", "Accepted"}
     /\ offers[p].status \in {"Pending", "Accepted"}) => o = p

(* No driver is asked twice for the same job. *)
NeverReoffered ==
  \A o, p \in DOMAIN offers :
    (offers[o].job = offers[p].job /\ offers[o].driver = offers[p].driver) => o = p

(* What became of an offer stays: an answered or expired offer changes     *)
(* only if the dispatcher cancels it, whatever sweeps and late answers     *)
(* find it again.                                                          *)
SettledIsFinal ==
  [][\A o \in DOMAIN offers :
       offers[o].status # "Pending" =>
         offers'[o].status \in {offers[o].status, "Cancelled"}]_vars

(* The timeline a dispatcher reads agrees with the engine: the last event  *)
(* it holds about an offer names the status the offer has.                 *)
StatusTold ==
  [OfferCreated |-> "Pending", OfferExpired |-> "Expired",
   OfferCancelled |-> "Cancelled", OfferRejected |-> "Rejected",
   OfferAccepted |-> "Accepted", MatchConfirmed |-> "Accepted"]

TellsStatus(e) == e.kind \in DOMAIN StatusTold

TimelineTellsStatus ==
  \A j \in JobId : LET events == job_events[j] IN
    \A i \in DOMAIN events :
      \/ ~ TellsStatus(events[i])
      \/ \E k \in DOMAIN events :
           k > i /\ TellsStatus(events[k]) /\ events[k].offer = events[i].offer
      \/ offers[events[i].offer].status = StatusTold[events[i].kind]

(* The engine implements JobLifecycle, read through job_dispatch_state. *)
Lifecycle == INSTANCE JobLifecycle WITH
  state <- [j \in JobId |-> JobDispatchState(j)],
  winner <- [j \in JobId |-> WithStatus(j, "Accepted")]

ImplementsLifecycle == Lifecycle!Spec

(* Every offer is answered, cancelled or expired in the end, though its    *)
(* driver may vanish and be evicted with the offer still open.             *)
Open(o) == o \in DOMAIN offers /\ offers[o].status = "Pending"

EveryOfferResolved == \A o \in OfferId : Open(o) ~> ~ Open(o)

(* A search comes to rest: no job is passed from driver to driver forever. *)
SearchSettles ==
  \A j \in JobId :
    (JobDispatchState(j) = "searching")
      ~> (Idle /\ JobDispatchState(j) # "searching")

-----------------------------------------------------------------------------
(* What the documentation says and the code does not do. *)

(* docs/API_HTTP.md: "On first successful acceptance, that job is locked   *)
(* to a single winner and competing pending offers are cancelled."         *)
SingleWinner ==
  \A j \in JobId : \A o, p \in WithStatus(j, "Accepted") : o = p

(* README.md: "If the driver rejects or the offer expires, the next        *)
(* candidate is tried automatically."                                      *)
NextCandidateIsTried ==
  [][\A o \in DOMAIN offers :
       (/\ offers[o].status = "Pending"
        /\ offers'[o].status \in {"Rejected", "Expired"})
         => offers[o].job \in advancing']_vars

=============================================================================
