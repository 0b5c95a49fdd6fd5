---------------------------- MODULE JobLifecycle ----------------------------
(***************************************************************************)
(* What dispatching promises about one job, as GET /dispatch/job reports   *)
(* it: the state the dispatcher reads and the offer that won.  Written for *)
(* dispatchers that use a job id once.  It knows nothing of drivers,       *)
(* deadlines, sweeps or mutexes.                                           *)
(***************************************************************************)
CONSTANTS JobId, OfferId

VARIABLES
  state,           \* job -> the dispatch state it reports
  winner           \* job -> the set of offers confirmed as its match

vars == <<state, winner>>

JobState ==
  {"unknown", "pending", "searching", "matched", "exhausted", "cancelled"}

Init ==
  /\ state = [j \in JobId |-> "unknown"]
  /\ winner = [j \in JobId |-> {}]

Move(j, from, to) ==
  /\ state[j] \in from
  /\ state' = [state EXCEPT ![j] = to]

(* A job becomes known, without an offer. *)
Register(j) == Move(j, {"unknown"}, "pending") /\ UNCHANGED winner

(* A driver is asked: the first one, or the next after one that failed. *)
Ask(j) == Move(j, {"pending", "exhausted"}, "searching") /\ UNCHANGED winner

(* The asked driver declines, or the offer expires or is withdrawn. *)
Fail(j) == Move(j, {"searching"}, "exhausted") /\ UNCHANGED winner

(* The asked driver accepts: the job, which has no winner, gets one. *)
Match(j, o) ==
  /\ Move(j, {"searching"}, "matched")
  /\ winner[j] = {}
  /\ winner' = [winner EXCEPT ![j] = {o}]

Cancel(j) == Move(j, {"searching", "exhausted"}, "cancelled") /\ UNCHANGED winner

(* The dispatcher cancels the winning offer: no match, and no new search.  *)
Undo(j) ==
  /\ Move(j, {"matched"}, "exhausted") \/ Move(j, {"matched"}, "cancelled")
  /\ winner' = [winner EXCEPT ![j] = {}]

Next ==
  \E j \in JobId :
    \/ Register(j) \/ Ask(j) \/ Fail(j) \/ Cancel(j) \/ Undo(j)
    \/ \E o \in OfferId : Match(j, o)

Spec == Init /\ [][Next]_vars

-----------------------------------------------------------------------------
(* A job reported cancelled is never searched for or matched again. *)
StaysCancelled == \A j \in JobId : state[j] = "cancelled" => state'[j] = "cancelled"

CancelledIsFinal == [][StaysCancelled]_vars

(* One match is never swapped for another: it can only be undone. *)
KeepsOrLosesWinner == \A j \in JobId : winner[j] # {} => winner'[j] \in {winner[j], {}}

NoRematch == [][KeepsOrLosesWinner]_vars

=============================================================================
