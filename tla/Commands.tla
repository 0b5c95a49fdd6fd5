------------------------------ MODULE Commands ------------------------------
(***************************************************************************)
(* The commands that are logged, and what applying one does to the state a *)
(* snapshot keeps (apply_command).  Live execution and replay are the same *)
(* function; module Engine has the handlers that issue the commands.       *)
(***************************************************************************)
EXTENDS Naturals, Sequences, FiniteSets, SequencesExt, SpatialIndex

CONSTANTS
  NoOffer          \* the offer of an event that is about the job alone

(* A new engine: hash maps are functions on the keys they hold. *)
EmptyState ==
  [drivers |-> <<>>, jobs |-> {}, offers |-> <<>>, cancelled |-> {}, sequences |-> <<>>]

UpsertDriverLocation(d, p) == [do |-> "UpsertDriverLocation", driver |-> d, position |-> p]
RegisterJob(j) == [do |-> "RegisterJob", job |-> j]
CreateOffer(o, j, d) == [do |-> "CreateOffer", offer |-> o, job |-> j, driver |-> d]
AcceptOffer(o) == [do |-> "AcceptOffer", offer |-> o]
MarkOffer(o, status) == [do |-> "MarkOffer", offer |-> o, status |-> status]
CancelJob(j) == [do |-> "CancelJob", job |-> j]
RemoveDriver(d) == [do |-> "RemoveDriver", driver |-> d]
RecordWebhookDeliveryFailed(j, o) ==
  [do |-> "RecordWebhookDeliveryFailed", job |-> j, offer |-> o]

-----------------------------------------------------------------------------
(* The effect of a command: the state after it, the job its events are     *)
(* about, and the orders in which they may be pushed (hash order).         *)

About(kind, o) == [kind |-> kind, offer |-> o]

Quiet(s) == [state |-> s, job |-> NoOffer, orders |-> {<<>>}]

Count(s, j) == IF j \in DOMAIN s.sequences THEN s.sequences[j] ELSE 0

Told(s, j, n, orders) ==
  [state |-> [s EXCEPT !.sequences = With(@, j, Count(s, j) + n)],
   job |-> j, orders |-> orders]

Pending(s, j) == {o \in DOMAIN s.offers : s.offers[o].job = j /\ s.offers[o].status = "Pending"}

Cancelled(offers, os) ==
  [o \in DOMAIN offers |->
     IF o \in os THEN [offers[o] EXCEPT !.status = "Cancelled"] ELSE offers[o]]

Cancellations(os) ==
  {[i \in DOMAIN order |-> About("OfferCancelled", order[i])] : order \in SetToSeqs(os)}

Accept(s, o) ==
  LET offer == s.offers[o]
      competing == Pending(s, offer.job) \ {o}
      settled == [Cancelled(s.offers, competing) EXCEPT ![o].status = "Accepted"]
      busy == IF offer.driver \in DOMAIN s.drivers
              THEN [s.drivers EXCEPT ![offer.driver].status = "Busy"] ELSE s.drivers
      news == <<About("OfferAccepted", o), About("MatchConfirmed", o)>>
  IN Told([s EXCEPT !.offers = settled, !.drivers = busy], offer.job,
          Cardinality(competing) + 2, {c \o news : c \in Cancellations(competing)})

Cancel(s, j) ==
  LET withdrawn == Pending(s, j)
      news == IF j \in s.cancelled THEN <<>> ELSE <<About("JobCancelled", NoOffer)>>
  IN Told([s EXCEPT !.offers = Cancelled(@, withdrawn), !.cancelled = @ \cup {j}], j,
          Cardinality(withdrawn) + Len(news), {c \o news : c \in Cancellations(withdrawn)})

(* Offers and jobs a command names and the state lacks are passed over.    *)
Effect(s, c) ==
  CASE c.do = "UpsertDriverLocation" ->
         Quiet([s EXCEPT !.drivers =
                  With(@, c.driver, [position |-> c.position, status |-> "Available"])])
    [] c.do = "RemoveDriver" -> Quiet([s EXCEPT !.drivers = Without(@, c.driver)])
    [] c.do = "RegisterJob" ->
         Told([s EXCEPT !.jobs = @ \cup {c.job}, !.cancelled = @ \ {c.job}], c.job,
              1, {<<About("JobRegistered", NoOffer)>>})
    [] c.do = "CreateOffer" ->
         Told([s EXCEPT !.offers =
                 With(@, c.offer, [job |-> c.job, driver |-> c.driver, status |-> "Pending"])],
              c.job, 1, {<<About("OfferCreated", c.offer)>>})
    [] c.do = "AcceptOffer" /\ c.offer \in DOMAIN s.offers -> Accept(s, c.offer)
    [] c.do = "MarkOffer" /\ c.offer \in DOMAIN s.offers ->
         Told([s EXCEPT !.offers[c.offer].status = c.status], s.offers[c.offer].job,
              1, {<<About(c.status, c.offer)>>})
    [] c.do = "CancelJob" /\ c.job \in s.jobs -> Cancel(s, c.job)
    [] c.do = "RecordWebhookDeliveryFailed" /\ c.job \in s.jobs ->
         Told(s, c.job, 1, {<<About("WebhookDeliveryFailed", c.offer)>>})
    [] OTHER -> Quiet(s)

ApplyCommand(s, c) == Effect(s, c).state

(* The rows of the event store a command leads to, in one of its orders.   *)
EventsOf(s, c) ==
  LET effect == Effect(s, c)
  IN {[i \in DOMAIN order |->
         [job |-> effect.job, sequence |-> Count(s, effect.job) + i, event |-> order[i]]] :
        order \in effect.orders}

(* The index follows the driver commands. *)
IndexAfter(index, c) ==
  CASE c.do = "UpsertDriverLocation" -> UpsertIntoIndex(index, c.driver, c.position)
    [] c.do = "RemoveDriver" -> RemoveFromIndex(index, c.driver)
    [] OTHER -> index

Commands(Driver, Job, Offer) ==
  {UpsertDriverLocation(d, p) : d \in Driver, p \in DOMAIN CellOf}
    \cup {RemoveDriver(d) : d \in Driver}
    \cup {RegisterJob(j) : j \in Job}
    \cup {CreateOffer(o, j, d) : o \in Offer, j \in Job, d \in Driver}
    \cup {AcceptOffer(o) : o \in Offer}
    \cup {MarkOffer(o, s) : o \in Offer, s \in {"Rejected", "Expired", "Cancelled"}}
    \cup {CancelJob(j) : j \in Job}
    \cup {RecordWebhookDeliveryFailed(j, o) : j \in Job, o \in Offer}

(* What the service issues in a state, after the events of the past.       *)
Has(past, kind, o) == \E r \in past : r.event = About(kind, o)

Unsettled(s, j) == \E o \in DOMAIN s.offers :
  s.offers[o].job = j /\ s.offers[o].status \in {"Pending", "Accepted"}

JustRegistered(s, past, j) == \E r \in past :
  r.job = j /\ r.sequence = Count(s, j) /\ r.event.kind = "JobRegistered"

(* Ids are drawn anew.  The search goes on when nothing is pending or      *)
(* accepted; a submission does not look, whatever became of an earlier one *)
(* of the job.                                                             *)
Offers(s, past, c) ==
  /\ c.offer \notin DOMAIN s.offers /\ \A r \in past : r.event.offer # c.offer
  /\ c.job \in s.jobs \ s.cancelled
  /\ Unsettled(s, c.job) => JustRegistered(s, past, c.job)
  /\ c.driver \in DOMAIN s.drivers /\ s.drivers[c.driver].status = "Available"

(* Offers are answered and expire while they are pending; a dispatcher may *)
(* cancel any.  A webhook fails for a match, whatever became of it since.  *)
Issued(s, past, c) ==
  CASE c.do \in {"UpsertDriverLocation", "RegisterJob"} -> TRUE
    [] c.do = "RemoveDriver" -> c.driver \in DOMAIN s.drivers
    [] c.do = "CreateOffer" -> Offers(s, past, c)
    [] c.do = "MarkOffer" /\ c.status = "Cancelled" -> c.offer \in DOMAIN s.offers
    [] c.do \in {"AcceptOffer", "MarkOffer"} ->
         c.offer \in DOMAIN s.offers /\ s.offers[c.offer].status = "Pending"
    [] c.do = "CancelJob" -> c.job \in s.jobs
    [] c.do = "RecordWebhookDeliveryFailed" ->
         c.job \in s.jobs /\ Has({r \in past : r.job = c.job}, "MatchConfirmed", c.offer)

=============================================================================
