-------------------------- MODULE CandidateSearch --------------------------
(***************************************************************************)
(* The candidate search of the dispatch engine, as pure operators.         *)
(*                                                                         *)
(* A fleet is the engine's `drivers' map: a function from the ids it holds *)
(* to records [category, status, position].  Radii and distances are whole *)
(* numbers of 100 metres, so the 0.1 km floor on a radius is 1 and the     *)
(* 2 km step is 20.  Categories are classes of names equal up to case      *)
(* (the code compares with eq_ignore_ascii_case).  The haversine formula   *)
(* is the constant Distance: only the order it induces matters.            *)
(***************************************************************************)
EXTENDS Naturals, FiniteSets

CONSTANTS
  DriverId,        \* ids a driver may connect with
  Position,        \* the coordinates that occur
  Distance,        \* Distance[<<p, q>>]: haversine distance of two positions
  MinRadius,       \* the floor on a search radius (0.1 km)
  RadiusStep       \* what one expansion adds to the radius (2 km)

ASSUME DistanceAssumption == Distance \in [Position \X Position -> Nat]
ASSUME RadiusAssumption == MinRadius \in Nat /\ RadiusStep \in Nat \ {0}

(* The radius the search starts with, and the radius it may not exceed. *)
FirstRadius(req) ==
  IF req.initial_radius < MinRadius THEN MinRadius ELSE req.initial_radius

RadiusLimit(req) ==
  IF req.max_radius < FirstRadius(req) THEN FirstRadius(req) ELSE req.max_radius

(* Faults: the expansion is not clamped; it is clamped to the limit itself. *)
ExpandUnclamped(radius, limit) == radius + RadiusStep

ExpandToLimit(radius, limit) ==
  IF radius + RadiusStep < limit THEN radius + RadiusStep ELSE limit

(* What the loop does to the radius when a radius gave nobody.  A radius   *)
(* past the limit ends the loop, so the expansion that would pass it is    *)
(* clamped to one kilometre past it and never searched.                    *)
ExpandRadius(radius, limit) ==
  IF radius + RadiusStep < limit + 10 THEN radius + RadiusStep ELSE limit + 10

(* The widest radius the loop searches: whole steps from the first radius  *)
(* that stay within the limit.  The remainder is never searched.           *)
LastRadius(req) ==
  FirstRadius(req)
    + RadiusStep * ((RadiusLimit(req) - FirstRadius(req)) \div RadiusStep)

(* The drivers that may be asked at a radius. *)
Candidates(fleet, req, radius) ==
  {d \in DOMAIN fleet :
      /\ fleet[d].status = "Available"
      /\ fleet[d].category = req.category
      /\ Distance[<<req.pickup, fleet[d].position>>] <= radius}

Closer(fleet, req, d, e) ==
  Distance[<<req.pickup, fleet[d].position>>]
    < Distance[<<req.pickup, fleet[e].position>>]

(* The lists nearest_candidates_in_radius may return, as sets: the `limit' *)
(* nearest candidates.  Which of several equally distant drivers make it   *)
(* into the list depends on the iteration order of a HashMap.              *)
Batches(fleet, req, radius, limit) ==
  LET all == Candidates(fleet, req, radius)
  IN {B \in SUBSET all :
        /\ Cardinality(B) =
             (IF Cardinality(all) < limit THEN Cardinality(all) ELSE limit)
        /\ \A d \in B, e \in all \ B : ~ Closer(fleet, req, e, d)}

(* The whole search for one offer, in closed form: because farther drivers *)
(* only ever join the end of the sorted list, widening the radius step by  *)
(* step finds the same driver as one look at the last radius.  Module      *)
(* RadiusSearch runs the loop itself and checks that it ends in one of     *)
(* these outcomes.  `tried' are the drivers the job was offered to before. *)
MayPick(fleet, req, tried, limit, d) ==
  \E B \in Batches(fleet, req, LastRadius(req), limit) :
    /\ d \in B \ tried
    /\ \A e \in B \ tried : ~ Closer(fleet, req, e, d)

MayFindNobody(fleet, req, tried, limit) ==
  \E B \in Batches(fleet, req, LastRadius(req), limit) : B \subseteq tried

============================================================================
