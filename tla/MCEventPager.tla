---------------------------- MODULE MCEventPager ----------------------------
(* Instance of EventPager: readers of both loops, with the page sizes and  *)
(* bounds at which their behaviour changes.                                *)
EXTENDS EventPager

Asks(method, limit, kinds, maxPages, maxEvents, resume, allows) ==
  [method |-> method, limit |-> limit, kinds |-> kinds, maxPages |-> maxPages,
   maxEvents |-> maxEvents, resume |-> resume, allows |-> allows]

MCReading ==
  {Asks("iterate", 1, {}, 6, NoBound, TRUE, {}),
   Asks("iterate", 0, {"match"}, 6, NoBound, TRUE, {}),
   Asks("iterate", 2, {}, 2, 3, FALSE, {"broken"}),
   Asks("iterate", 1, {}, 2, 0, TRUE, {"refused"}),
   Asks("all", 1, {"match"}, 6, NoBound, FALSE, {}),
   Asks("all", 2, {}, 2, 0, FALSE, {}),
   Asks("all", 0, {}, 6, 3, TRUE, {}),
   Asks("legacy", 1, {"offer"}, 6, NoBound, FALSE, {})}

=============================================================================
