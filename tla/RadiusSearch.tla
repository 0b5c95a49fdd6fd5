---------------------------- MODULE RadiusSearch ----------------------------
(***************************************************************************)
(* The radius expansion loop of create_next_offer_for_job and submit_job,  *)
(* one iteration per step, over every fleet, every set of drivers already  *)
(* tried and every iteration order of the `drivers' HashMap.  The loop     *)
(* holds the dispatch mutex, so the fleet does not move under it.          *)
(***************************************************************************)
EXTENDS CandidateSearch, SequencesExt

CONSTANTS
  Request,         \* the job requests that are searched for
  Limits,          \* list lengths in use: 3 for submit_job, 32 for a next offer
  NoDriver         \* the search came back empty-handed

ASSUME RequestAssumption ==
  \A req \in Request : /\ req.pickup \in Position
                       /\ req.initial_radius \in Nat
                       /\ req.max_radius \in Nat
ASSUME LimitAssumption == Limits \subseteq Nat \ {0}
ASSUME DriverAssumption == IsFiniteSet(DriverId) /\ NoDriver \notin DriverId

VARIABLES
  fleet,           \* the drivers map
  order,           \* the order in which that map is iterated
  req,             \* the job searched for
  limit,           \* how many of the nearest are looked at
  tried,           \* drivers with an offer of this job (already_offered)
  radius,          \* radius_km
  found            \* <<>> while searching, then <<driver>> or <<NoDriver>>

vars == <<fleet, order, req, limit, tried, radius, found>>

(* One category and one status suffice here: Candidates drops the others.  *)
Available(p) == [category |-> req.category, status |-> "Available", position |-> p]

Init ==
  /\ req \in Request
  /\ \E where \in UNION {[S -> Position] : S \in SUBSET DriverId} :
        fleet = [d \in DOMAIN where |-> Available(where[d])]
  /\ order \in SetToSeqs(DOMAIN fleet)
  /\ limit \in Limits
  /\ tried \in SUBSET DriverId
  /\ radius = FirstRadius(req)
  /\ found = <<>>

(* The list for one radius: filter in iteration order, stable sort by      *)
(* distance, truncate.                                                     *)
Rank(d) == CHOOSE i \in DOMAIN order : order[i] = d

Precedes(d, e) ==
  \/ Closer(fleet, req, d, e)
  \/ ~ Closer(fleet, req, e, d) /\ Rank(d) < Rank(e)

SortedList ==
  LET all == Candidates(fleet, req, radius)
  IN [i \in 1..Min({limit, Cardinality(all)}) |->
        CHOOSE d \in all : Cardinality({e \in all : Precedes(e, d)}) = i - 1]

(* Fault: the drivers already offered to are not skipped. *)
OfferAgain(d) == d \in DOMAIN fleet

Untried(d) == d \notin tried

(* The first driver of the list without an offer of this job. *)
Find ==
  LET i == SelectInSeq(SortedList, Untried)
  IN /\ found = <<>>
     /\ i > 0
     /\ found' = <<SortedList[i]>>
     /\ UNCHANGED <<fleet, order, req, limit, tried, radius>>

(* Nobody at this radius: expand, and stop once past the limit. *)
Expand ==
  LET next == ExpandRadius(radius, RadiusLimit(req))
  IN /\ found = <<>>
     /\ SelectInSeq(SortedList, Untried) = 0
     /\ radius' = next
     /\ found' = IF next > RadiusLimit(req) THEN <<NoDriver>> ELSE <<>>
     /\ UNCHANGED <<fleet, order, req, limit, tried>>

Next == Find \/ Expand

Spec == Init /\ [][Next]_vars /\ WF_vars(Next)

-----------------------------------------------------------------------------
(* Every distance looked at lies within what the job allows, and the loop  *)
(* variable never runs away: at most one kilometre past the limit.         *)
TypeOK ==
  /\ req \in Request
  /\ DOMAIN fleet \subseteq DriverId
  /\ radius \in FirstRadius(req) .. (RadiusLimit(req) + 10)
  /\ found \in {<<>>, <<NoDriver>>} \cup {<<d>> : d \in DOMAIN fleet}

(* The loop (limited, sorted, radius by radius, in hash order) ends where  *)
(* the closed form used by the engine model says it may end: with an       *)
(* untried driver that is nearest among the nearest `limit' of the last    *)
(* radius, or with nobody when those are all tried.                        *)
LoopMatchesClosedForm ==
  found # <<>> =>
    IF found = <<NoDriver>>
    THEN MayFindNobody(fleet, req, tried, limit)
    ELSE MayPick(fleet, req, tried, limit, found[1])

(* The search always comes to an end (initial, maximum and step: the clamp *)
(* past the limit must not turn into a radius that never grows).           *)
Terminates == <>(found # <<>>)

=============================================================================
