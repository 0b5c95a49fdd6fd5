----------------------------- MODULE RateLimiter -----------------------------
(***************************************************************************)
(* SlidingWindowRateLimiter and WsReconnectGuard: per key, a queue of the  *)
(* times of the requests that were admitted.  The key of a dispatcher's    *)
(* request is its endpoint and actor, that of a connection its driver.     *)
(* Both maps are behind a mutex, so that a request is one step.            *)
(*                                                                         *)
(* `history' is no part of the program.  The system clock does not step    *)
(* back, and the process is not restarted.                                 *)
(***************************************************************************)
EXTENDS Naturals, Sequences

CONSTANTS
  Actor,           \* keys of dispatch requests
  DriverId,        \* keys of the reconnect guard
  ConfiguredLimit, \* limit_per_window, max_reconnects_per_window, as configured
  ConfiguredWindow,\* window_seconds, as configured
  Second,          \* ticks of the clock in a second
  MaxTime,         \* bound: ticks
  MaxRequests      \* bound: admissions of a key

Key == Actor \cup DriverId

ASSUME ConfigurationAssumption ==
  /\ ConfiguredLimit \in [Key -> Nat]
  /\ ConfiguredWindow \in [Key -> Nat]
  /\ Second \in Nat \ {0}
(* The limiter and the guard keep a map each: their keys are not shared.   *)
ASSUME KeyAssumption == Actor \cap DriverId = {}
ASSUME BoundAssumption == MaxTime \in Nat /\ MaxRequests \in Nat

VARIABLES
  now,
  queue,           \* entries, attempts
  allowed,         \* the last verdict on each key
  retryAfter, at,  \* Retry-After of the last response, 0 if it had none, and when
  history          \* the times of all admissions

vars == <<now, queue, allowed, retryAfter, at, history>>

AtLeast(n, m) == IF m < n THEN n ELSE m

Limit == [k \in Key |-> AtLeast(1, ConfiguredLimit[k])]

Window == [k \in Key |-> AtLeast(1, ConfiguredWindow[k]) * Second]

-----------------------------------------------------------------------------
(* Fault: an entry leaves the queue in the last tick of its window. *)
TooOld(k, t) == t + Window[k] <= now + 1

Old(k, t) == t + Window[k] <= now

(* pop_front while the front is old. *)
Popped(k, n) ==
  /\ n \in 0..Len(queue[k])
  /\ \A i \in 1..n : Old(k, queue[k][i])
  /\ n < Len(queue[k]) => ~ Old(k, queue[k][n + 1])

Rest(k, n) == SubSeq(queue[k], n + 1, Len(queue[k]))

(* Fault: the limit itself is still admitted. *)
NotOver(k, q) == Len(q) <= Limit[k]

HasRoom(k, q) == Len(q) < Limit[k]

(* Fault: the seconds of a whole window, however old its first entry is. *)
WholeWindow(k, q) == Window[k] \div Second

(* num_seconds drops the fraction of a second. *)
ResetSeconds(k, q) == AtLeast(1, (q[1] + Window[k] - now) \div Second)

Admit(k, q) ==
  /\ HasRoom(k, q)
  /\ Len(history[k]) < MaxRequests
  /\ queue' = [queue EXCEPT ![k] = Append(q, now)]
  /\ history' = [history EXCEPT ![k] = Append(@, now)]
  /\ allowed' = [allowed EXCEPT ![k] = TRUE]

Refuse(k, q) ==
  /\ ~ HasRoom(k, q)
  /\ queue' = [queue EXCEPT ![k] = q]
  /\ allowed' = [allowed EXCEPT ![k] = FALSE]
  /\ UNCHANGED history

(* SlidingWindowRateLimiter::check, and the header made of its snapshot:   *)
(* only a response 429 has it, and its X-RateLimit-Remaining is always 0.  *)
Check(k) ==
  \E n \in 0..Len(queue[k]) :
    /\ Popped(k, n)
    /\ \/ /\ Admit(k, Rest(k, n))
          /\ retryAfter' = [retryAfter EXCEPT ![k] = 0]
       \/ /\ Refuse(k, Rest(k, n))
          /\ retryAfter' = [retryAfter EXCEPT ![k] = ResetSeconds(k, Rest(k, n))]
    /\ at' = [at EXCEPT ![k] = now]
    /\ UNCHANGED now

(* WsReconnectGuard::allow *)
Allow(d) ==
  \E n \in 0..Len(queue[d]) :
    /\ Popped(d, n)
    /\ Admit(d, Rest(d, n)) \/ Refuse(d, Rest(d, n))
    /\ UNCHANGED <<now, retryAfter, at>>

Tick ==
  /\ now < MaxTime
  /\ now' = now + 1
  /\ UNCHANGED <<queue, allowed, retryAfter, at, history>>

Init ==
  /\ now = 0
  /\ queue = [k \in Key |-> <<>>]
  /\ allowed = [k \in Key |-> TRUE]
  /\ retryAfter = [k \in Key |-> 0]
  /\ at = [k \in Key |-> 0]
  /\ history = [k \in Key |-> <<>>]

Next ==
  \/ \E k \in Actor : Check(k)
  \/ \E d \in DriverId : Allow(d)
  \/ Tick

Spec == Init /\ [][Next]_vars

-----------------------------------------------------------------------------
(* No key's queue outgrows its limit or holds what was not admitted.       *)
TypeOK ==
  /\ now \in Nat
  /\ queue \in [Key -> Seq(0..now)]
  /\ history \in [Key -> Seq(0..now)]
  /\ allowed \in [Key -> BOOLEAN]
  /\ retryAfter \in [Key -> Nat] /\ at \in [Key -> 0..now]
  /\ \A k \in Key : Len(queue[k]) <= Limit[k] /\ Len(queue[k]) <= Len(history[k])

Quota == INSTANCE RequestQuota

(* The queue forgets what no longer counts and nothing else: requests are  *)
(* admitted and refused as if every admission were remembered.             *)
ImplementsQuota == Quota!Spec

(* Never more than the limit in any window, at its very edges too. *)
WindowBound == Quota!WindowBound

(* Retry-After is truncated: a client that waits one second longer than    *)
(* told is admitted, one that is back more than a second early is not.     *)
RetryAfterIsClose ==
  \A k \in Actor : ~ allowed[k] =>
    /\ now >= at[k] + (retryAfter[k] + 1) * Second => Quota!Admissible(k)
    /\ now + Second < at[k] + retryAfter[k] * Second => ~ Quota!Admissible(k)

=============================================================================
