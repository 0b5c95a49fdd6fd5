---------------------------- MODULE WebhookProofs ----------------------------
(***************************************************************************)
(* The handler of the receiver runs once at most for a delivery between    *)
(* two restarts, and ran for every delivery the sender takes for done: for any number of         *)
(* deliveries and attempts, any offset of the clocks and any window and    *)
(* nonce lifetime of which the second covers the first twice.              *)
(***************************************************************************)
EXTENDS WebhookDelivery, TLAPS

Waiting == \A d \in Delivery : phase[d] = "backoff" => attempt[d] < Attempts

HandledWasSent == \A d \in Delivery : handled[d] > 0 => phase[d] # "none"

OkWasHandled == \A a \in answers : a.status = "ok" => handled[a.delivery] > 0

(* No request of the delivery will be admitted: its nonce is known, and    *)
(* will be for as long as its timestamp passes, or the timestamp is past.  *)
Barred(d) ==
  \/ d \in DOMAIN seenAt /\ stamp[d] - MaxSkew <= seenAt[d]
  \/ stamp[d] + MaxSkew < ReceiverClock

(* Each restart makes room for one more. *)
Once(d) == handled[d] <= restarted \/ (handled[d] = restarted + 1 /\ Barred(d))

OnceEach == \A d \in Delivery : Once(d)

IInv == TypeOK /\ Waiting /\ HandledWasSent /\ OkWasHandled /\ OnceEach /\ OkMeansHandled

-----------------------------------------------------------------------------
LEMMA InitIInv == Init => IInv
<1> SUFFICES ASSUME Init PROVE IInv
  OBVIOUS
<1>1. TypeOK
  BY ClockAssumption, AttemptsAssumption DEF Init, TypeOK, Phase
<1>2. Waiting /\ HandledWasSent /\ OkWasHandled /\ OnceEach /\ OkMeansHandled
  <2>1. \A d \in Delivery : handled[d] = 0 /\ phase[d] = "none"
    BY DEF Init
  <2> QED BY <2>1 DEF Init, Waiting, HandledWasSent, OkWasHandled, OnceEach, Once, OkMeansHandled
<1> QED BY <1>1, <1>2 DEF IInv

(* A step of the sender that leaves its requests and time stamps alone and *)
(* takes a delivery from one phase to another.                             *)
LEMMA SenderMoves ==
  ASSUME IInv, NEW d \in Delivery, NEW p \in Phase \ {"none"}, phase[d] # "none",
         Enter(d, p), UNCHANGED <<now, offset, secret, attempt, stamp, requests, receiver, restarted>>,
         p = "backoff" => attempt[d] < Attempts,
         p = "ok" => [delivery |-> d, attempt |-> attempt[d], status |-> "ok"] \in answers
  PROVE  IInv'
<1>1. phase' = [phase EXCEPT ![d] = p] /\ phase \in [Delivery -> Phase]
  BY DEF Enter, IInv, TypeOK
<1>2. \A e \in Delivery : phase'[e] = IF e = d THEN p ELSE phase[e]
  BY <1>1
<1>3. TypeOK'
  <2>1. phase' \in [Delivery -> Phase]
    BY <1>1
  <2>2. \A r \in requests : r.delivery \in Delivery
    BY DEF IInv, TypeOK, Request
  <2>3. \A r \in requests : phase'[r.delivery] # "none" /\ r.stamp = stamp[r.delivery]
    BY <1>2, <2>2 DEF IInv, TypeOK
  <2> QED BY <2>1, <2>3 DEF IInv, TypeOK, receiver
<1>4. Waiting' /\ HandledWasSent' /\ OkWasHandled'
  BY <1>2 DEF IInv, Waiting, HandledWasSent, OkWasHandled, receiver
<1>5. OnceEach'
  BY DEF IInv, OnceEach, Once, Barred, ReceiverClock, receiver
<1>6. OkMeansHandled'
  <2>1. ASSUME NEW e \in Delivery, phase'[e] = "ok"
        PROVE  /\ handled[e] > 0
               /\ [delivery |-> e, attempt |-> attempt[e], status |-> "ok"] \in answers
    <3>1. CASE e = d
      <4>1. [delivery |-> d, attempt |-> attempt[d], status |-> "ok"] \in answers
        BY <1>2, <2>1, <3>1
      <4>2. handled[d] > 0
        BY <4>1 DEF IInv, OkWasHandled
      <4> QED BY <3>1, <4>1, <4>2
    <3>2. CASE e # d
      BY <1>2, <2>1, <3>2 DEF IInv, OkMeansHandled
    <3> QED BY <3>1, <3>2
  <2> QED BY <2>1 DEF OkMeansHandled, receiver
<1> QED BY <1>3, <1>4, <1>5, <1>6 DEF IInv

LEMMA StartIInv == ASSUME IInv, NEW d \in Delivery, Start(d) PROVE IInv'
<1>1. /\ phase[d] = "none" /\ phase' = [phase EXCEPT ![d] = "sending"]
      /\ attempt' = [attempt EXCEPT ![d] = 1] /\ stamp' = [stamp EXCEPT ![d] = now]
      /\ requests' = requests \cup {Post(d, 1, now)}
      /\ UNCHANGED <<now, offset, secret, answers, seenAt, handled, restarted>>
  BY DEF Start, Enter, receiver
<1>2. TypeOK /\ 1 \in 0..Attempts /\ 1 \in 1..Attempts
  BY AttemptsAssumption DEF IInv
<1>3. \A e \in Delivery :
        /\ phase'[e] = IF e = d THEN "sending" ELSE phase[e]
        /\ attempt'[e] = IF e = d THEN 1 ELSE attempt[e]
        /\ stamp'[e] = IF e = d THEN now ELSE stamp[e]
  BY <1>1, <1>2 DEF TypeOK
<1>4. TypeOK'
  <2>1. phase' \in [Delivery -> Phase] /\ attempt' \in [Delivery -> 0..Attempts]
        /\ stamp' \in [Delivery -> Nat]
    BY <1>1, <1>2 DEF TypeOK, Phase
  <2>2. requests' \subseteq Request
    BY <1>1, <1>2 DEF TypeOK, Request, Post
  <2>3. ASSUME NEW r \in requests'
        PROVE  phase'[r.delivery] # "none" /\ r.stamp = stamp'[r.delivery]
    <3>1. CASE r \in requests
      <4>1. r.delivery \in Delivery /\ phase[r.delivery] # "none"
            /\ r.stamp = stamp[r.delivery]
        BY <3>1, <1>2 DEF TypeOK, Request
      <4> QED BY <4>1, <1>1, <1>3
    <3>2. CASE r = Post(d, 1, now)
      BY <3>2, <1>3 DEF Post
    <3> QED BY <3>1, <3>2, <1>1
  <2> QED BY <1>1, <1>2, <2>1, <2>2, <2>3 DEF TypeOK
<1>5. handled[d] <= restarted
  BY <1>1 DEF IInv, TypeOK, HandledWasSent
<1>6. Waiting' /\ HandledWasSent' /\ OkWasHandled'
  BY <1>1, <1>3 DEF IInv, Waiting, HandledWasSent, OkWasHandled
<1>7. OnceEach'
  BY <1>1, <1>3, <1>5 DEF IInv, OnceEach, Once, Barred, ReceiverClock
<1>8. OkMeansHandled'
  BY <1>1, <1>3 DEF IInv, OkMeansHandled
<1> QED BY <1>4, <1>6, <1>7, <1>8 DEF IInv

LEMMA RetryIInv == ASSUME IInv, NEW d \in Delivery, Retry(d) PROVE IInv'
<1>1. /\ phase[d] = "backoff" /\ phase' = [phase EXCEPT ![d] = "sending"]
      /\ attempt' = [attempt EXCEPT ![d] = @ + 1]
      /\ requests' = requests \cup {Post(d, attempt'[d], stamp[d])}
      /\ UNCHANGED <<now, offset, secret, stamp, answers, seenAt, handled, restarted>>
  BY DEF Retry, Enter, receiver
<1>2. TypeOK /\ attempt[d] \in 0..Attempts /\ attempt[d] < Attempts
      /\ attempt[d] + 1 \in 0..Attempts /\ attempt[d] + 1 \in 1..Attempts
  BY <1>1, AttemptsAssumption DEF IInv, TypeOK, Waiting
<1>3. \A e \in Delivery :
        /\ phase'[e] = IF e = d THEN "sending" ELSE phase[e]
        /\ attempt'[e] = IF e = d THEN attempt[d] + 1 ELSE attempt[e]
  BY <1>1, <1>2 DEF TypeOK
<1>4. TypeOK'
  <2>1. phase' \in [Delivery -> Phase] /\ attempt' \in [Delivery -> 0..Attempts]
    BY <1>1, <1>2 DEF TypeOK, Phase
  <2>2. requests' \subseteq Request
    BY <1>1, <1>2, <1>3 DEF TypeOK, Request, Post
  <2>3. ASSUME NEW r \in requests'
        PROVE  phase'[r.delivery] # "none" /\ r.stamp = stamp'[r.delivery]
    <3>1. CASE r \in requests
      <4>1. r.delivery \in Delivery /\ phase[r.delivery] # "none"
            /\ r.stamp = stamp[r.delivery]
        BY <3>1, <1>2 DEF TypeOK, Request
      <4> QED BY <4>1, <1>1, <1>3
    <3>2. CASE r = Post(d, attempt'[d], stamp[d])
      BY <3>2, <1>1, <1>3 DEF Post
    <3> QED BY <3>1, <3>2, <1>1
  <2> QED BY <1>1, <1>2, <2>1, <2>2, <2>3 DEF TypeOK
<1>5. Waiting' /\ HandledWasSent' /\ OkWasHandled'
  BY <1>1, <1>3 DEF IInv, Waiting, HandledWasSent, OkWasHandled
<1>6. OnceEach'
  BY <1>1 DEF IInv, OnceEach, Once, Barred, ReceiverClock
<1>7. OkMeansHandled'
  BY <1>1, <1>3 DEF IInv, OkMeansHandled
<1> QED BY <1>4, <1>5, <1>6, <1>7 DEF IInv

(* Cleaning up forgets no nonce whose timestamp may still pass. *)
LEMMA FreshBars ==
  ASSUME IInv, NEW d \in Delivery, Barred(d)
  PROVE  \/ d \in DOMAIN Fresh /\ Fresh[d] = seenAt[d] /\ stamp[d] - MaxSkew <= seenAt[d]
         \/ stamp[d] + MaxSkew < ReceiverClock
<1>1. /\ ReceiverClock \in Int /\ stamp[d] \in Nat
      /\ d \in DOMAIN seenAt => seenAt[d] \in Int
  BY DEF IInv, TypeOK, ReceiverClock
<1>2. d \in DOMAIN seenAt /\ ReceiverClock - seenAt[d] <= NonceTtl
        => d \in DOMAIN Fresh /\ Fresh[d] = seenAt[d]
  BY DEF Fresh
<1>3. ASSUME d \in DOMAIN seenAt, stamp[d] - MaxSkew <= seenAt[d],
             ~ (ReceiverClock - seenAt[d] <= NonceTtl)
      PROVE  stamp[d] + MaxSkew < ReceiverClock
  BY <1>1, <1>3, WindowAssumption
<1> QED BY <1>2, <1>3 DEF Barred

LEMMA ReceiveIInv == ASSUME IInv, NEW r \in requests, Receive(r) PROVE IInv'
<1> DEFINE d == r.delivery
<1>1. /\ d \in Delivery /\ r.attempt \in 1..Attempts
      /\ r.stamp = stamp[d] /\ phase[d] # "none"
  BY DEF IInv, TypeOK, Request
<1>2. UNCHANGED <<now, offset, secret, phase, attempt, stamp, requests, restarted>>
  BY DEF Receive, sender
<1>3. /\ ReceiverClock \in Int /\ DOMAIN seenAt \subseteq Delivery
      /\ \A e \in Delivery : stamp[e] \in Nat /\ handled[e] \in Nat
      /\ \A e \in DOMAIN seenAt : seenAt[e] \in Int
      /\ handled \in [Delivery -> Nat]
  BY DEF IInv, TypeOK, ReceiverClock
<1>4. /\ DOMAIN Fresh \subseteq DOMAIN seenAt
      /\ \A e \in DOMAIN Fresh : Fresh[e] = seenAt[e]
  BY DEF Fresh
<1>5. ReceiverClock' = ReceiverClock
  BY <1>2 DEF ReceiverClock
<1>6. ASSUME NEW status \in Statuses
      PROVE  Answer(r, status) \in [delivery : Delivery, attempt : 1..Attempts, status : Statuses]
  BY <1>1 DEF Answer
<1>7. ASSUME handled' = handled, answers' = answers \cup {Answer(r, "unauthorized")},
             seenAt' = seenAt \/ seenAt' = Fresh
      PROVE  IInv'
  <2>1. Answer(r, "unauthorized").status # "ok" /\ "unauthorized" \in Statuses
    BY DEF Answer, Statuses
  <2>2. TypeOK'
    <3>1. DOMAIN seenAt' \subseteq Delivery /\ \A e \in DOMAIN seenAt' : seenAt'[e] \in Int
      BY <1>3, <1>4, <1>7
    <3>2. answers' \subseteq [delivery : Delivery, attempt : 1..Attempts, status : Statuses]
      BY <1>6, <1>7, <2>1 DEF IInv, TypeOK
    <3> QED BY <1>2, <1>7, <3>1, <3>2 DEF IInv, TypeOK
  <2>3. Waiting' /\ HandledWasSent' /\ OkWasHandled' /\ OkMeansHandled'
    BY <1>2, <1>7, <2>1 DEF IInv, Waiting, HandledWasSent, OkWasHandled, OkMeansHandled
  <2>4. ASSUME NEW e \in Delivery, Barred(e)
        PROVE  Barred(e)'
    BY <1>2, <1>5, <1>7, <2>4, FreshBars DEF Barred
  <2>5. OnceEach'
    BY <1>2, <1>7, <2>4 DEF IInv, OnceEach, Once
  <2> QED BY <2>2, <2>3, <2>5 DEF IInv
<1>8. CASE RefuseEarly(r)
  BY <1>7, <1>8 DEF RefuseEarly, Refuse
<1>9. CASE RefuseLate(r)
  BY <1>7, <1>9 DEF RefuseLate, Refuse
<1>10. CASE Admit(r)
  <2>1. /\ ~ Skewed(r.stamp) /\ d \notin DOMAIN Fresh
        /\ seenAt' = Remember(Fresh, d)
        /\ handled' = [handled EXCEPT ![d] = @ + 1]
    BY <1>10 DEF Admit
  <2>2. PICK status \in {"ok", "error"} : answers' = answers \cup {Answer(r, status)}
    BY <1>10 DEF Admit
  <2>3. \A e \in Delivery : handled'[e] = IF e = d THEN handled[d] + 1 ELSE handled[e]
    BY <1>3, <2>1
  <2>4. /\ DOMAIN seenAt' = DOMAIN Fresh \cup {d}
        /\ seenAt'[d] = ReceiverClock
        /\ \A e \in DOMAIN Fresh : e # d => seenAt'[e] = Fresh[e]
    BY <2>1 DEF Remember
  <2>5. stamp[d] - MaxSkew <= ReceiverClock /\ ~ (stamp[d] + MaxSkew < ReceiverClock)
    BY <1>1, <1>3, <2>1, WindowAssumption DEF Skewed
  <2>6. handled' \in [Delivery -> Nat]
    BY <1>1, <1>3, <2>1
  <2>7. TypeOK'
    <3>1. DOMAIN seenAt' \subseteq Delivery /\ \A e \in DOMAIN seenAt' : seenAt'[e] \in Int
      BY <1>1, <1>3, <1>4, <2>4
    <3>2. answers' \subseteq [delivery : Delivery, attempt : 1..Attempts, status : Statuses]
      BY <1>6, <2>2 DEF IInv, TypeOK, Statuses
    <3> QED BY <1>2, <2>6, <3>1, <3>2 DEF IInv, TypeOK
  <2>8. Waiting' /\ HandledWasSent'
    BY <1>1, <1>2, <2>3 DEF IInv, Waiting, HandledWasSent
  <2>9. OkWasHandled'
    <3>1. Answer(r, status).delivery = d
      BY DEF Answer
    <3>2. \A a \in answers : a.delivery \in Delivery
      BY DEF IInv, TypeOK
    <3>3. \A e \in Delivery : handled[e] > 0 => handled'[e] > 0
      BY <1>3, <2>3
    <3>4. handled'[d] > 0
      BY <1>1, <1>3, <2>3
    <3> QED BY <2>2, <3>1, <3>2, <3>3, <3>4 DEF IInv, OkWasHandled
  <2>10. OkMeansHandled'
    <3>1. \A e \in Delivery : handled[e] > 0 => handled'[e] > 0
      BY <1>3, <2>3
    <3> QED BY <1>2, <2>2, <3>1 DEF IInv, OkMeansHandled
  <2>11. OnceEach'
    <3>1. ASSUME NEW e \in Delivery
          PROVE  Once(e)'
      <4>1. Once(e)
        BY <3>1 DEF IInv, OnceEach
      <4>2. CASE e = d
        <5>1. ~ Barred(d)
          BY <1>1, <2>1, <2>5, FreshBars
        <5>2. handled[d] <= restarted
          BY <4>1, <4>2, <5>1 DEF Once
        <5>3. Barred(d)'
          BY <1>2, <2>4, <2>5 DEF Barred
        <5>4. handled[d] \in Nat /\ restarted \in Nat
          BY <1>1, <1>3 DEF IInv, TypeOK
        <5>5. handled'[d] = handled[d] + 1 /\ restarted' = restarted
          BY <1>1, <1>2, <2>3
        <5>6. handled'[d] <= restarted' \/ handled'[d] = restarted' + 1
          BY <5>2, <5>4, <5>5
        <5> QED BY <4>2, <5>3, <5>6 DEF Once
      <4>3. CASE e # d
        <5>1. Barred(e) => Barred(e)'
          BY <1>2, <1>5, <2>4, <4>3, FreshBars DEF Barred
        <5> QED BY <1>2, <2>3, <4>1, <4>3, <5>1 DEF Once
      <4> QED BY <4>2, <4>3
    <3> QED BY <1>2, <3>1 DEF OnceEach
  <2> QED BY <2>7, <2>8, <2>9, <2>10, <2>11 DEF IInv
<1> QED BY <1>8, <1>9, <1>10 DEF Receive

LEMMA RestartIInv == ASSUME IInv, Restart PROVE IInv'
<1>1. /\ restarted' = restarted + 1 /\ seenAt' = <<>>
      /\ UNCHANGED <<now, offset, secret, phase, attempt, stamp, requests, answers, handled>>
  BY DEF Restart, sender
<1>2. restarted \in Nat /\ \A d \in Delivery : handled[d] \in Nat
  BY DEF IInv, TypeOK
<1>3. TypeOK'
  <2>1. DOMAIN seenAt' = {}
    BY <1>1
  <2> QED BY <1>1, <1>2, <2>1 DEF IInv, TypeOK
<1>4. OnceEach'
  <2>1. ASSUME NEW d \in Delivery PROVE handled[d] <= restarted + 1
    BY <1>2, <2>1 DEF IInv, OnceEach, Once
  <2> QED BY <1>1, <2>1 DEF OnceEach, Once
<1> QED BY <1>1, <1>3, <1>4 DEF IInv, Waiting, HandledWasSent, OkWasHandled, OkMeansHandled

LEMMA TickIInv == ASSUME IInv, Tick PROVE IInv'
<1>1. /\ now' = now + 1
      /\ UNCHANGED <<offset, secret, phase, attempt, stamp, requests, answers, seenAt,
                     handled, restarted>>
  BY DEF Tick, sender, receiver
<1>2. TypeOK'
  BY <1>1 DEF IInv, TypeOK
<1>3. ASSUME NEW d \in Delivery, Barred(d)
      PROVE  Barred(d)'
  <2>1. now \in Nat /\ offset \in Int /\ stamp[d] \in Nat
    BY DEF IInv, TypeOK
  <2> QED BY <1>1, <1>3, <2>1, WindowAssumption DEF Barred, ReceiverClock
<1>4. OnceEach'
  BY <1>1, <1>3 DEF IInv, OnceEach, Once
<1> QED BY <1>1, <1>2, <1>4 DEF IInv, Waiting, HandledWasSent, OkWasHandled, OkMeansHandled

LEMMA StepIInv == IInv /\ [Next]_vars => IInv'
<1> SUFFICES ASSUME IInv, [Next]_vars PROVE IInv'
  OBVIOUS
<1>1. ASSUME NEW d \in Delivery, TakeAnswer(d) PROVE IInv'
  <2>1. PICK a \in answers :
          /\ phase[d] = "sending" /\ a.delivery = d /\ a.attempt = attempt[d]
          /\ Enter(d, IF IsSuccess(a.status) THEN "ok" ELSE AfterFailure(d))
          /\ UNCHANGED <<now, offset, secret, attempt, stamp, requests, receiver, restarted>>
    BY <1>1 DEF TakeAnswer
  <2> DEFINE p == IF IsSuccess(a.status) THEN "ok" ELSE AfterFailure(d)
  <2>2. p \in Phase \ {"none"} /\ (p = "backoff" => attempt[d] < Attempts)
    BY DEF Phase, AfterFailure
  <2>3. p = "ok" => a.status = "ok"
    BY DEF IsSuccess, AfterFailure
  <2>4. a = [delivery |-> a.delivery, attempt |-> a.attempt, status |-> a.status]
    BY DEF IInv, TypeOK
  <2>5. p = "ok" => [delivery |-> d, attempt |-> attempt[d], status |-> "ok"] \in answers
    BY <2>1, <2>3, <2>4
  <2> HIDE DEF p
  <2> QED BY <2>1, <2>2, <2>5, SenderMoves DEF p
<1>2. ASSUME NEW d \in Delivery, TimeOut(d) PROVE IInv'
  <2>1. AfterFailure(d) \in Phase \ {"none"} /\ AfterFailure(d) # "ok"
        /\ (AfterFailure(d) = "backoff" => attempt[d] < Attempts)
    BY DEF Phase, AfterFailure
  <2>2. phase[d] # "none" /\ Enter(d, AfterFailure(d))
    BY <1>2 DEF TimeOut
  <2>3. UNCHANGED <<now, offset, secret, attempt, stamp, requests, receiver, restarted>>
    BY <1>2 DEF TimeOut
  <2> QED BY <2>1, <2>2, <2>3, SenderMoves
<1>3. ASSUME NEW d \in Delivery, RecordFailure(d) PROVE IInv'
  <2>1. "recorded" \in Phase \ {"none"}
    BY DEF Phase
  <2>2. phase[d] # "none" /\ Enter(d, "recorded")
    BY <1>3 DEF RecordFailure
  <2>3. UNCHANGED <<now, offset, secret, attempt, stamp, requests, receiver, restarted>>
    BY <1>3 DEF RecordFailure
  <2> QED BY <2>1, <2>2, <2>3, SenderMoves
<1>4. CASE UNCHANGED vars
  BY <1>4 DEF vars, sender, receiver, IInv, TypeOK, Waiting, HandledWasSent, OkWasHandled,
              OnceEach, Once, Barred, ReceiverClock, OkMeansHandled
<1>5. ASSUME NEW d \in Delivery, Send(d) PROVE IInv'
  BY <1>1, <1>2, <1>3, <1>5, StartIInv, RetryIInv DEF Send
<1>6. ASSUME NEW r \in requests, Receive(r) PROVE IInv'
  BY <1>6, ReceiveIInv
<1>7. CASE Restart \/ Tick
  BY <1>7, RestartIInv, TickIInv
<1> QED BY <1>4, <1>5, <1>6, <1>7 DEF Next

-----------------------------------------------------------------------------
(* Deliveries, requests and answers are what they are said to be: no       *)
(* delivery makes more requests than attempts, all with one timestamp.     *)
THEOREM TypeCorrect == Spec => []TypeOK
<1>1. IInv => TypeOK
  BY DEF IInv
<1> QED BY <1>1, InitIInv, StepIInv, PTL DEF Spec

(* The integrator's handler runs once at most for a match, until a restart *)
(* allows for one more.                                                    *)
THEOREM MatchHandledOnce == Spec => []HandledOnce
<1>1. IInv => HandledOnce
  <2>1. ASSUME IInv, NEW d \in Delivery
        PROVE  handled[d] <= 1 + restarted
    <3>1. handled[d] \in Nat /\ restarted \in Nat
      BY <2>1 DEF IInv, TypeOK
    <3> QED BY <2>1, <3>1 DEF IInv, OnceEach, Once
  <2> QED BY <2>1 DEF HandledOnce
<1> QED BY <1>1, InitIInv, StepIInv, PTL DEF Spec

(* A delivery taken for done was handled. *)
THEOREM DoneWasHandled == Spec => []OkMeansHandled
<1>1. IInv => OkMeansHandled
  BY DEF IInv
<1> QED BY <1>1, InitIInv, StepIInv, PTL DEF Spec

=============================================================================
