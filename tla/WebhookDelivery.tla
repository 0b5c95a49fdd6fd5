--------------------------- MODULE WebhookDelivery ---------------------------
(***************************************************************************)
(* A match is told to the integrator: send_match_webhook with its three    *)
(* attempts, and verifySpatiadWebhook of the express plugin, which admits  *)
(* a request to the integrator's handler.  The network may lose a request  *)
(* or an answer, delay it past the sender's time-out and deliver it twice. *)
(*                                                                         *)
(* `handled' and `restarted' are no part of the program: they record what  *)
(* went on at the receiver.                                                *)
(***************************************************************************)
EXTENDS Integers

CONSTANTS
  Delivery,        \* the matches to be told; a delivery names its nonce
  MaxSkew,         \* maxSkewSeconds
  NonceTtl,        \* nonceTtlSeconds
  Offsets,         \* how far the receiver's clock may be ahead of the sender's
  Attempts,        \* requests of one delivery: 3
  MaxTime,         \* bound: seconds that pass
  MaxRestarts      \* bound: restarts of the receiver

ASSUME WindowAssumption == MaxSkew \in Nat /\ NonceTtl \in Nat /\ NonceTtl >= 2 * MaxSkew
ASSUME ClockAssumption == Offsets \subseteq Int
ASSUME AttemptsAssumption == Attempts \in Nat \ {0}

VARIABLES
  now,             \* the sender's clock
  offset,          \* the receiver's clock is now + offset
  secret,          \* the sender's: none, shared with the receiver, or another
  phase,           \* of each delivery
  attempt,         \* the request being made, counted from 1
  stamp,           \* x-spatiad-timestamp of its requests
  requests,        \* requests sent: they may arrive at any time, or never
  answers,         \* answers given to them
  seenAt,          \* the plugin's usedNonceAt: nonce -> time
  handled,         \* how often each delivery reached the handler
  restarted        \* how often the receiver was restarted

sender == <<phase, attempt, stamp, requests>>
receiver == <<answers, seenAt, handled>>
vars == <<now, offset, secret, sender, receiver, restarted>>

Phase == {"none", "sending", "backoff", "ok", "failed", "recorded"}

Request == [delivery : Delivery, attempt : 1..Attempts, stamp : Int]

Post(d, n, t) == [delivery |-> d, attempt |-> n, stamp |-> t]

Statuses == {"ok", "error", "unauthorized"}

Answer(r, status) == [delivery |-> r.delivery, attempt |-> r.attempt, status |-> status]

Enter(d, p) == phase' = [phase EXCEPT ![d] = p]

-----------------------------------------------------------------------------
(* The sender: the session task of the driver who accepted. *)

(* Time, nonce and signature are drawn up once, before the first attempt. *)
Start(d) ==
  /\ phase[d] = "none"
  /\ Enter(d, "sending")
  /\ attempt' = [attempt EXCEPT ![d] = 1]
  /\ stamp' = [stamp EXCEPT ![d] = now]
  /\ requests' = requests \cup {Post(d, 1, now)}
  /\ UNCHANGED <<now, offset, secret, receiver, restarted>>

(* Fault: the attempts are counted from zero. *)
OnceTooOften(d) == IF attempt[d] <= Attempts THEN "backoff" ELSE "failed"

AfterFailure(d) == IF attempt[d] < Attempts THEN "backoff" ELSE "failed"

(* Fault: any answer will do. *)
IsAnswer(status) == status \in Statuses

IsSuccess(status) == status = "ok"

(* The answer to the attempt being made; answers to earlier ones have      *)
(* nobody waiting for them.                                                *)
TakeAnswer(d) ==
  \E a \in answers :
    /\ phase[d] = "sending"
    /\ a.delivery = d /\ a.attempt = attempt[d]
    /\ Enter(d, IF IsSuccess(a.status) THEN "ok" ELSE AfterFailure(d))
    /\ UNCHANGED <<now, offset, secret, attempt, stamp, requests, receiver, restarted>>

(* Fault: the client waits for an answer as long as it takes. *)
NoTimeOut(d) == FALSE

(* webhook_timeout_ms, or no connection. *)
TimeOut(d) ==
  /\ phase[d] = "sending"
  /\ Enter(d, AfterFailure(d))
  /\ UNCHANGED <<now, offset, secret, attempt, stamp, requests, receiver, restarted>>

(* The back-off is over. *)
Retry(d) ==
  /\ phase[d] = "backoff"
  /\ Enter(d, "sending")
  /\ attempt' = [attempt EXCEPT ![d] = @ + 1]
  /\ requests' = requests \cup {Post(d, attempt'[d], stamp[d])}
  /\ UNCHANGED <<now, offset, secret, stamp, receiver, restarted>>

(* The failure goes into the timeline, under the dispatch lock. *)
RecordFailure(d) ==
  /\ phase[d] = "failed"
  /\ Enter(d, "recorded")
  /\ UNCHANGED <<now, offset, secret, attempt, stamp, requests, receiver, restarted>>

-----------------------------------------------------------------------------
(* The receiver. *)

ReceiverClock == now + offset

Skewed(t) == ReceiverClock - t > MaxSkew \/ t - ReceiverClock > MaxSkew

(* Fault: a nonce is forgotten as soon as a request could have aged. *)
FreshForSkew ==
  [d \in {d \in DOMAIN seenAt : ReceiverClock - seenAt[d] <= MaxSkew} |-> seenAt[d]]

(* cleanupExpiredNonces *)
Fresh ==
  [d \in {d \in DOMAIN seenAt : ReceiverClock - seenAt[d] <= NonceTtl} |-> seenAt[d]]

Remember(nonces, d) ==
  [e \in DOMAIN nonces \cup {d} |-> IF e = d THEN ReceiverClock ELSE nonces[e]]

Refuse(r) ==
  /\ answers' = answers \cup {Answer(r, "unauthorized")}
  /\ UNCHANGED handled

(* A header is missing, or the timestamp is too far off. *)
RefuseEarly(r) ==
  /\ secret = "none" \/ Skewed(r.stamp)
  /\ Refuse(r)
  /\ UNCHANGED seenAt

(* A nonce seen before, or a signature made with another secret. *)
RefuseLate(r) ==
  /\ secret # "none" /\ ~ Skewed(r.stamp)
  /\ seenAt' = Fresh
  /\ r.delivery \in DOMAIN Fresh \/ secret # "shared"
  /\ Refuse(r)

(* next(): the handler runs, and answers as it likes. *)
Admit(r) ==
  /\ secret = "shared" /\ ~ Skewed(r.stamp)
  /\ r.delivery \notin DOMAIN Fresh
  /\ seenAt' = Remember(Fresh, r.delivery)
  /\ handled' = [handled EXCEPT ![r.delivery] = @ + 1]
  /\ \E status \in {"ok", "error"} : answers' = answers \cup {Answer(r, status)}

Receive(r) ==
  /\ RefuseEarly(r) \/ RefuseLate(r) \/ Admit(r)
  /\ UNCHANGED <<now, offset, secret, sender, restarted>>

(* The nonces are in memory only. *)
Restart ==
  /\ restarted < MaxRestarts
  /\ restarted' = restarted + 1
  /\ seenAt' = <<>>
  /\ UNCHANGED <<now, offset, secret, sender, answers, handled>>

Tick ==
  /\ now < MaxTime
  /\ now' = now + 1
  /\ UNCHANGED <<offset, secret, sender, receiver, restarted>>

-----------------------------------------------------------------------------
Init ==
  /\ now = 0
  /\ offset \in Offsets
  /\ secret \in {"none", "shared", "other"}
  /\ phase = [d \in Delivery |-> "none"]
  /\ attempt = [d \in Delivery |-> 0]
  /\ stamp = [d \in Delivery |-> 0]
  /\ requests = {} /\ answers = {}
  /\ seenAt = <<>>
  /\ handled = [d \in Delivery |-> 0]
  /\ restarted = 0

Send(d) == Start(d) \/ TakeAnswer(d) \/ TimeOut(d) \/ Retry(d) \/ RecordFailure(d)

Next ==
  \/ \E d \in Delivery : Send(d)
  \/ \E r \in requests : Receive(r)
  \/ Restart \/ Tick

Spec == Init /\ [][Next]_vars

(* The sender's time-outs are timers of its runtime and its task goes on   *)
(* after each: nothing is assumed of the network or the receiver.          *)
Fairness ==
  \A d \in Delivery :
    /\ WF_vars(TimeOut(d)) /\ WF_vars(Retry(d)) /\ WF_vars(RecordFailure(d))

FairSpec == Spec /\ Fairness

-----------------------------------------------------------------------------
(* Requests carry the timestamp of their delivery, and no more of them are *)
(* sent than there are attempts.                                           *)
TypeOK ==
  /\ now \in Nat /\ offset \in Int /\ restarted \in Nat
  /\ secret \in {"none", "shared", "other"}
  /\ phase \in [Delivery -> Phase]
  /\ attempt \in [Delivery -> 0..Attempts]
  /\ stamp \in [Delivery -> Nat]
  /\ requests \subseteq Request
  /\ \A r \in requests : phase[r.delivery] # "none" /\ r.stamp = stamp[r.delivery]
  /\ answers \subseteq [delivery : Delivery, attempt : 1..Attempts, status : Statuses]
  /\ DOMAIN seenAt \subseteq Delivery
  /\ \A d \in DOMAIN seenAt : seenAt[d] \in Int
  /\ handled \in [Delivery -> Nat]

(* However requests are repeated, delayed and reordered, the handler sees  *)
(* a delivery once at most, and once more at most for each time the        *)
(* receiver lost its memory: a nonce is forgotten only when its timestamp  *)
(* can no longer pass the skew check, on either side of its clock.         *)
HandledOnce == \A d \in Delivery : handled[d] <= 1 + restarted

(* A delivery the sender takes for done did reach the handler, and the     *)
(* handler said so to the attempt the sender believed.  The converse does  *)
(* not hold: once an answer is lost the retries are refused as replays.    *)
OkMeansHandled ==
  \A d \in Delivery :
    phase[d] = "ok" =>
      /\ handled[d] > 0
      /\ [delivery |-> d, attempt |-> attempt[d], status |-> "ok"] \in answers

(* Every delivery comes to an end whatever the network and the receiver    *)
(* do: done, or recorded as failed in the job's timeline.                  *)
EveryDeliveryEnds ==
  \A d \in Delivery : phase[d] # "none" ~> phase[d] \in {"ok", "recorded"}

=============================================================================
