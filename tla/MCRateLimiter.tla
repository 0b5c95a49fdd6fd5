---------------------------- MODULE MCRateLimiter ----------------------------
(* Instance of RateLimiter: half seconds; an actor with two requests in    *)
(* two seconds, and a driver whose limits were configured to zero.       *)
EXTENDS RateLimiter

MCLimit == [k \in Key |-> IF k \in Actor THEN 2 ELSE 0]
MCWindow == [k \in Key |-> IF k \in Actor THEN 2 ELSE 0]

=============================================================================
