--------------------------- MODULE DriverSessions ---------------------------
(***************************************************************************)
(* The WebSocket sessions of spatiad-api: one task per connection, the map *)
(* from a driver to the sender of its latest connection, the channel       *)
(* behind each sender, and the background task that expires offers.        *)
(*                                                                         *)
(* A task locks the dispatch service or the session map for one call at a  *)
(* time and goes on with what it learned after it let go.  What a task     *)
(* still has to do is its agenda; one step does the first item of one      *)
(* agenda, and other tasks run between any two items.  The service's calls *)
(* are steps here (module Engine takes them apart); they are told for one  *)
(* job, since offers of different jobs do not meet.  Where the code walks  *)
(* a hash map the order is arbitrary, and no property depends on it.       *)
(***************************************************************************)
EXTENDS Naturals, Sequences, FiniteSets, SequencesExt

CONSTANTS
  DriverId,
  MaxOffers,       \* bound: offers the job may get
  MaxSubmits,      \* bound: offers made by submitting it, the rest by searches
  Cancellable,     \* bound: statuses in which an offer is cancelled
  Strays,          \* bound: connections that answer offers they were not told of
  SessionId,       \* the connections drivers may make
  DriverOf,        \* DriverOf[s]: the driver_id in the path of connection s
  Sweeper          \* the background task of offer expiry

ASSUME MaxOffersAssumption == MaxOffers \in Nat
ASSUME MaxSubmitsAssumption == MaxSubmits \in Nat
ASSUME DriverOfAssumption == DriverOf \in [SessionId -> DriverId]
ASSUME SweeperAssumption == Sweeper \notin SessionId
ASSUME CancellableAssumption ==
  Cancellable \subseteq {"Pending", "Overdue", "Accepted", "Rejected", "Expired"}

VARIABLES
  offers,          \* the offers made so far, in order; the index is the offer_id
  sessions,        \* driver -> the connection whose sender the map holds
  phase,           \* connection -> new, open, closing or closed
  queue,           \* connection -> messages waiting in its channel
  agenda,          \* task -> what it still has to do
  told,            \* connection -> offers it was told of, and told expired
  forgone          \* offers whose announcement was lost with the task owing it

vars == <<offers, sessions, phase, queue, agenda, told, forgone>>

Task == SessionId \cup {Sweeper}
OfferId == 1..MaxOffers

(* A pending offer past its expires_at is overdue until a task expires it. *)
OfferStatus == {"Pending", "Overdue", "Accepted", "Rejected", "Expired", "Cancelled"}

Message ==
  [kind : {"offer", "offer_expired", "offer_cancelled", "matched"}, offer : OfferId]

Msg(kind, o) == [kind |-> kind, offer |-> o]

(* The items of an agenda.  `post' puts messages into the channels of the  *)
(* drivers that are in the map, all under one lock.                        *)
Register == [do |-> "register"]
Flush == [do |-> "flush"]
Replay == [do |-> "replay"]
Tell(m) == [do |-> "tell", msg |-> m]
Announce(o) == [do |-> "announce", offer |-> o]
Post(ms) == [do |-> "post", msgs |-> ms]
Respond(o, accepted) == [do |-> "respond", offer |-> o, accepted |-> accepted]
Cancellations == [do |-> "cancellations"]
Webhook == [do |-> "webhook"]

Item ==
  {Register, Flush, Replay, Cancellations, Webhook}
    \cup {Tell(m) : m \in Message}
    \cup {Announce(o) : o \in OfferId}
    \cup {Post(ms) : ms \in SUBSET Message}
    \cup {Respond(o, a) : o \in OfferId, a \in BOOLEAN}

Has(t, do) == agenda[t] # <<>> /\ Head(agenda[t]).do = do

Put(t, items) == agenda' = [agenda EXCEPT ![t] = items]
GoOn(t) == Put(t, Tail(agenda[t]))
Before(t, items) == Put(t, items \o Tail(agenda[t]))

Announcements(items) == {i \in DOMAIN items : items[i].do = "announce"}

(* A task that fails forgets its agenda; the session is on its way out. *)
Break(s) ==
  /\ phase' = [phase EXCEPT ![s] = "closing"]
  /\ agenda' = [agenda EXCEPT ![s] = <<>>]
  /\ forgone' = forgone \cup
       {agenda[s][i].offer : i \in Announcements(agenda[s])}

-----------------------------------------------------------------------------
(* The service. *)

OffersOf(d, status) ==
  {o \in DOMAIN offers : offers[o].driver = d /\ offers[o].status = status}

Settle(o, status) == [offers EXCEPT ![o].status = status]

Expire(late) ==
  [o \in DOMAIN offers |->
     IF o \in late THEN [offers[o] EXCEPT !.status = "Expired"] ELSE offers[o]]

WithOffer(book, d, by) == Append(book, [driver |-> d, status |-> "Pending", by |-> by])

(* create_next_offer_for_job asks nobody while an offer is open or         *)
(* accepted, and no driver twice.                                          *)
MaySearch(book, d) ==
  /\ Len(book) < MaxOffers
  /\ \A o \in DOMAIN book :
       book[o].driver # d /\ book[o].status \notin {"Pending", "Overdue", "Accepted"}

(* The updates that may come of failed offers: with a next offer or, when  *)
(* there is no candidate or the job is cancelled, without.                 *)
NextSearch(book) ==
  {[offers |-> book, news |-> <<>>]}
    \cup {[offers |-> WithOffer(book, d, "search"), news |-> <<Announce(Len(book) + 1)>>] :
            d \in {d \in DriverId : MaySearch(book, d)}}

-----------------------------------------------------------------------------
(* A connection. *)

(* Fault: the sender enters the map only after the replay. *)
ReplayThenRegister == <<Flush, Replay, Register>>

(* What handle_driver_session does before its loop. *)
Greeting == <<Register, Flush, Replay>>

Connect(s) ==
  /\ phase[s] = "new"
  /\ phase' = [phase EXCEPT ![s] = "open"]
  /\ Put(s, Greeting)
  /\ UNCHANGED <<offers, sessions, queue, told, forgone>>

(* The insert drops the sender of the driver's earlier connection. *)
RegisterStep(s) ==
  /\ Has(s, "register")
  /\ sessions' = [d \in DOMAIN sessions \cup {DriverOf[s]} |->
                    IF d = DriverOf[s] THEN s ELSE sessions[d]]
  /\ GoOn(s)
  /\ UNCHANGED <<offers, phase, queue, told, forgone>>

TellEach(kind, os) == SetToSeq({Tell(Msg(kind, o)) : o \in os})

(* flush_expired_offers: expire this driver's overdue offers, tell it over *)
(* the socket at hand, announce the new offer to its driver.               *)
FlushStep(s) ==
  /\ Has(s, "flush")
  /\ LET late == OffersOf(DriverOf[s], "Overdue")
     IN IF late = {}
        THEN GoOn(s) /\ UNCHANGED offers
        ELSE \E update \in NextSearch(Expire(late)) :
               /\ offers' = update.offers
               /\ Before(s, TellEach("offer_expired", late) \o update.news)
  /\ UNCHANGED <<sessions, phase, queue, told, forgone>>

ReplayStep(s) ==
  /\ Has(s, "replay")
  /\ Before(s, TellEach("offer", OffersOf(DriverOf[s], "Pending")))
  /\ UNCHANGED <<offers, sessions, phase, queue, told, forgone>>

(* send_outbound: a socket that takes no message ends the session.  Other  *)
(* messages than these two are written and not told apart.                 *)
TellStep(s) ==
  /\ Has(s, "tell")
  /\ \/ Break(s) /\ UNCHANGED told
     \/ /\ told' = [told EXCEPT ![s] =
                      @ \cup ({Head(agenda[s]).msg}
                                \cap [kind : {"offer", "offer_expired"}, offer : OfferId])]
        /\ GoOn(s)
        /\ UNCHANGED <<phase, forgone>>
  /\ UNCHANGED <<offers, sessions, queue>>

(* notify_new_offers: is it still open?  Then, under the other lock, post. *)
AnnounceStep(t) ==
  LET o == Head(agenda[t]).offer
  IN /\ Has(t, "announce")
     /\ Before(t, IF offers[o].status = "Pending"
                  THEN <<Post({Msg("offer", o)})>> ELSE <<>>)
     /\ UNCHANGED <<offers, sessions, phase, queue, told, forgone>>

(* Messages to drivers without an entry in the map are dropped. *)
PostStep(t) ==
  /\ Has(t, "post")
  /\ LET mail(s) == {m \in Head(agenda[t]).msgs :
                       /\ offers[m.offer].driver \in DOMAIN sessions
                       /\ sessions[offers[m.offer].driver] = s}
     IN queue' = [s \in SessionId |-> queue[s] \o SetToSeq(mail(s))]
  /\ GoOn(t)
  /\ UNCHANGED <<offers, sessions, phase, told, forgone>>

(* An accepted offer cancels the job's other open offers. *)
Accepted(o) ==
  [x \in DOMAIN offers |->
     IF x = o THEN [offers[x] EXCEPT !.status = "Accepted"]
     ELSE IF offers[x].status \in {"Pending", "Overdue"}
          THEN [offers[x] EXCEPT !.status = "Cancelled"]
          ELSE offers[x]]

Open(o) == o \in DOMAIN offers /\ offers[o].status = "Pending"

(* handle_offer_response, by id alone.  A refused answer ends the session; *)
(* a late one has expired the offer by then and nothing is announced.      *)
RespondStep(s) ==
  LET answer == Head(agenda[s])
      o == answer.offer
  IN /\ Has(s, "respond")
     /\ \/ /\ ~ Open(o)
           /\ offers' = Expire({x \in DOMAIN offers : x = o /\ offers[x].status = "Overdue"})
           /\ Break(s)
        \/ /\ Open(o) /\ answer.accepted
           /\ offers' = Accepted(o)
           /\ Before(s, <<Tell(Msg("matched", o)), Cancellations, Webhook>>)
           /\ UNCHANGED <<phase, forgone>>
        \/ /\ Open(o) /\ ~ answer.accepted
           /\ \E update \in NextSearch(Settle(o, "Rejected")) :
                offers' = update.offers /\ Before(s, update.news)
           /\ UNCHANGED <<phase, forgone>>
     /\ UNCHANGED <<sessions, queue, told>>

(* notify_competing_cancellations tells of every cancelled offer of the    *)
(* job, whenever and for whatever reason it was cancelled.                 *)
CancellationsStep(s) ==
  /\ Has(s, "cancellations")
  /\ LET cancelled == {o \in DOMAIN offers : offers[o].status = "Cancelled"}
     IN Before(s, IF cancelled = {} THEN <<>>
                  ELSE <<Post({Msg("offer_cancelled", o) : o \in cancelled})>>)
  /\ UNCHANGED <<offers, sessions, phase, queue, told, forgone>>

(* The session waits for the webhook's attempts to end. *)
WebhookStep(s) ==
  /\ Has(s, "webhook")
  /\ GoOn(s)
  /\ UNCHANGED <<offers, sessions, phase, queue, told, forgone>>

-----------------------------------------------------------------------------
(* The loop of a session, between two agendas (tokio::select!). *)

Serving(s) == phase[s] = "open" /\ agenda[s] = <<>>

Told(s, o) == Msg("offer", o) \in told[s]

(* A tick that finds nothing overdue leaves no trace and is left out. *)
Tick(s) ==
  /\ Serving(s)
  /\ OffersOf(DriverOf[s], "Overdue") # {}
  /\ Put(s, <<Flush>>)
  /\ UNCHANGED <<offers, sessions, phase, queue, told, forgone>>

Receive(s) ==
  /\ Serving(s)
  /\ queue[s] # <<>>
  /\ queue' = [queue EXCEPT ![s] = Tail(@)]
  /\ Put(s, <<Tell(Head(queue[s]))>>)
  /\ UNCHANGED <<offers, sessions, phase, told, forgone>>

(* Fault: the task holds a sender of its own, so its channel never closes. *)
NeverClosed(s) == FALSE

(* The map held the only sender. *)
ChannelClosed(s) ==
  queue[s] = <<>> /\ ~ \E d \in DOMAIN sessions : sessions[d] = s

Disconnected(s) ==
  /\ Serving(s)
  /\ ChannelClosed(s)
  /\ Break(s)
  /\ UNCHANGED <<offers, sessions, queue, told>>

(* An answer to an offer the driver was told of, whatever became of it, or *)
(* to any id: another driver's offer, or one that is not known.            *)
Answer(s, o, accepted) ==
  /\ Serving(s)
  /\ s \in Strays \/ Told(s, o)
  /\ Put(s, <<Flush, Respond(o, accepted)>>)
  /\ UNCHANGED <<offers, sessions, phase, queue, told, forgone>>

(* The peer closes, is gone, or sends a text that does not parse. *)
HangUp(s) ==
  /\ Serving(s)
  /\ Break(s)
  /\ UNCHANGED <<offers, sessions, queue, told>>

(* What was heard on a connection, and its channel, go with the connection. *)
Forget(s) ==
  /\ phase' = [phase EXCEPT ![s] = "closed"]
  /\ queue' = [queue EXCEPT ![s] = <<>>]
  /\ told' = [told EXCEPT ![s] = {}]
  /\ UNCHANGED <<offers, agenda, forgone>>

(* Fault: the session leaves its sender in the map. *)
CloseWithoutRemoving(s) ==
  /\ phase[s] = "closing"
  /\ Forget(s)
  /\ UNCHANGED sessions

(* After the loop, or a replay that failed: the entry of the driver goes,  *)
(* whichever connection it belongs to.                                     *)
Close(s) ==
  /\ phase[s] = "closing"
  /\ sessions' = [d \in DOMAIN sessions \ {DriverOf[s]} |-> sessions[d]]
  /\ Forget(s)

-----------------------------------------------------------------------------
(* Everything else. *)

(* Fault: the drivers of expired offers are not told. *)
NoNotices(late) == <<>>

Notices(late) == <<Post({Msg("offer_expired", o) : o \in late})>>

ExpireGlobal ==
  /\ agenda[Sweeper] = <<>>
  /\ LET late == {o \in DOMAIN offers : offers[o].status = "Overdue"}
     IN /\ late # {}
        /\ \E update \in NextSearch(Expire(late)) :
             offers' = update.offers /\ Put(Sweeper, Notices(late) \o update.news)
  /\ UNCHANGED <<sessions, phase, queue, told, forgone>>

(* dispatch_offer: the job is submitted, perhaps again, and an offer made  *)
(* to some driver, perhaps one that has another; nobody is told.           *)
DispatchOffer(d) ==
  /\ Len(offers) < MaxOffers
  /\ Cardinality({o \in DOMAIN offers : offers[o].by = "submit"}) < MaxSubmits
  /\ offers' = WithOffer(offers, d, "submit")
  /\ UNCHANGED <<sessions, phase, queue, agenda, told, forgone>>

(* cancel_offer and, for the open offers, cancel_job: nobody is told. *)
CancelOffer(o) ==
  /\ offers[o].status \in Cancellable
  /\ offers' = Settle(o, "Cancelled")
  /\ UNCHANGED <<sessions, phase, queue, agenda, told, forgone>>

Lapse(o) ==
  /\ offers[o].status = "Pending"
  /\ offers' = Settle(o, "Overdue")
  /\ UNCHANGED <<sessions, phase, queue, agenda, told, forgone>>

-----------------------------------------------------------------------------
Init ==
  /\ offers = <<>>
  /\ sessions = <<>>
  /\ phase = [s \in SessionId |-> "new"]
  /\ queue = [s \in SessionId |-> <<>>]
  /\ agenda = [t \in Task |-> <<>>]
  /\ told = [s \in SessionId |-> {}]
  /\ forgone = {}

SessionStep(s) ==
  \/ RegisterStep(s) \/ FlushStep(s) \/ ReplayStep(s) \/ TellStep(s)
  \/ RespondStep(s) \/ CancellationsStep(s) \/ WebhookStep(s) \/ Close(s)

NoticeStep(t) == AnnounceStep(t) \/ PostStep(t)

Loop(s) == Tick(s) \/ Receive(s) \/ Disconnected(s)

Outside ==
  \/ \E s \in SessionId : Connect(s) \/ HangUp(s)
  \/ \E s \in SessionId, o \in OfferId, a \in BOOLEAN : Answer(s, o, a)
  \/ \E d \in DriverId : DispatchOffer(d)
  \/ \E o \in DOMAIN offers : CancelOffer(o) \/ Lapse(o)

Next ==
  \/ \E s \in SessionId : SessionStep(s) \/ Loop(s)
  \/ \E t \in Task : NoticeStep(t)
  \/ ExpireGlobal
  \/ Outside

Spec == Init /\ [][Next]_vars

(* Tasks are run and locks are granted; select! takes a ready branch at    *)
(* random, so a branch that is ready again and again is taken in the end.  *)
(* The connection itself, its answers and its end, is under no fairness.   *)
Fairness ==
  /\ \A s \in SessionId : WF_vars(SessionStep(s))
  /\ \A t \in Task : WF_vars(NoticeStep(t))
  /\ WF_vars(ExpireGlobal)
  /\ \A s \in SessionId : SF_vars(Receive(s)) /\ SF_vars(Disconnected(s))

FairSpec == Spec /\ Fairness

-----------------------------------------------------------------------------
(* A session that ends drops its agenda and, once closed, its channel. *)
TypeOK ==
  /\ offers \in Seq([driver : DriverId, by : {"submit", "search"}, status : OfferStatus])
  /\ \A d \in DOMAIN sessions : DriverOf[sessions[d]] = d
  /\ phase \in [SessionId -> {"new", "open", "closing", "closed"}]
  /\ queue \in [SessionId -> Seq(Message)]
  /\ agenda \in [Task -> Seq(Item)]
  /\ \A s \in SessionId : phase[s] # "open" => agenda[s] = <<>>
  /\ \A s \in SessionId : phase[s] \in {"new", "closed"} => queue[s] = <<>>
  /\ told \in [SessionId -> SUBSET Message]
  /\ forgone \subseteq DOMAIN offers

(* No message is put into a channel nobody reads: a sender in the map      *)
(* belongs to a connection that is not closed, whatever the order in which *)
(* connections of a driver replace one another and end.                    *)
SenderOfOpenSession ==
  \A d \in DOMAIN sessions : phase[sessions[d]] \in {"open", "closing"}

(* An offer a search made reaches its driver: when nothing is on its way   *)
(* to a reachable session and it is idle, it was told of the driver's      *)
(* pending offer, by the announcement or by the replay, however connecting *)
(* races announcing.  The only exception is an announcement lost with the  *)
(* session task that owed it.                                              *)
OnItsWay(o) ==
  \/ \E t \in Task : \E i \in DOMAIN agenda[t] :
       \/ agenda[t][i] = Announce(o)
       \/ agenda[t][i] = Post({Msg("offer", o)})
  \/ o \in forgone

Reachable(s) == DriverOf[s] \in DOMAIN sessions /\ sessions[DriverOf[s]] = s

Rests(s) == Serving(s) /\ Reachable(s) /\ queue[s] = <<>>

SearchOffersReachDriver ==
  \A s \in SessionId : Rests(s) =>
    \A o \in OffersOf(DriverOf[s], "Pending") :
      offers[o].by = "submit" \/ OnItsWay(o) \/ Told(s, o)

(* A connection whose sender is gone, because a later one took its place   *)
(* or an earlier one took it along, does not stay open without being heard *)
(* of: it is closed, so the driver can connect again.                      *)
DeafSessionCloses ==
  \A s \in SessionId :
    (Serving(s) /\ ~ Reachable(s)) ~> phase[s] = "closed"

(* A driver with one connection who was shown an offer and lets its        *)
(* deadline pass hears that it expired, whichever task expires it, unless  *)
(* the offer is cancelled, the connection ends, as a late answer ends it,  *)
(* or another connection answers the offer: that expires it in silence.    *)
OnlyConnection(s) ==
  \A other \in SessionId \ {s} :
    DriverOf[other] = DriverOf[s] => phase[other] \in {"new", "closed"}

AnsweredElsewhere(s, o) == \E other \in SessionId \ {s} :
  \E i \in DOMAIN agenda[other] :
    agenda[other][i].do = "respond" /\ agenda[other][i].offer = o

ExpiryIsHeard ==
  \A s \in SessionId, o \in OfferId :
    (Told(s, o) /\ o \in OffersOf(DriverOf[s], "Overdue") /\ OnlyConnection(s))
      ~> \/ Msg("offer_expired", o) \in told[s]
         \/ phase[s] = "closed"
         \/ o \in OffersOf(DriverOf[s], "Cancelled")
         \/ ~ OnlyConnection(s)
         \/ AnsweredElsewhere(s, o)

-----------------------------------------------------------------------------
(* What the documentation says and the code does not do. *)

(* README.md: "An offer is pushed to the driver over WebSocket": also one  *)
(* a submitted job makes for a driver who is connected.                    *)
OffersArePushed ==
  \A s \in SessionId : Rests(s) =>
    \A o \in OffersOf(DriverOf[s], "Pending") : OnItsWay(o) \/ Told(s, o)

=============================================================================
