---------------------------- MODULE RequestQuota ----------------------------
(***************************************************************************)
(* What a sliding window promises: a request is admitted exactly when      *)
(* fewer than Limit were admitted in the Window before it.  It remembers   *)
(* every admission for ever.                                               *)
(***************************************************************************)
EXTENDS Naturals, Sequences

CONSTANTS
  Key,             \* whose requests are counted together
  Limit, Window    \* of each key: requests, and ticks of the clock

VARIABLES
  now,
  history,         \* key -> the times of its admissions
  allowed          \* key -> was its last request admitted?

vars == <<now, history, allowed>>

Init ==
  /\ now \in Nat
  /\ history = [k \in Key |-> <<>>]
  /\ allowed = [k \in Key |-> TRUE]

(* Of the last Limit admissions the first is a window ago, or there are    *)
(* not so many.                                                            *)
Admissible(k) ==
  \/ Len(history[k]) < Limit[k]
  \/ history[k][Len(history[k]) - Limit[k] + 1] + Window[k] <= now

Ask(k) ==
  /\ allowed' = [allowed EXCEPT ![k] = Admissible(k)]
  /\ history' = IF Admissible(k) THEN [history EXCEPT ![k] = Append(@, now)] ELSE history
  /\ UNCHANGED now

Pass == now' \in Nat /\ now' > now /\ UNCHANGED <<history, allowed>>

Next == Pass \/ \E k \in Key : Ask(k)

Spec == Init /\ [][Next]_vars

-----------------------------------------------------------------------------
(* Any Limit + 1 admissions take a whole window or more. *)
WindowBound ==
  \A k \in Key : \A i \in DOMAIN history[k] :
    i + Limit[k] \in DOMAIN history[k] =>
      history[k][i + Limit[k]] - history[k][i] >= Window[k]

=============================================================================
