-------------------------- MODULE RateLimiterProofs --------------------------
(***************************************************************************)
(* RateLimiter implements RequestQuota, for every limit, window and number *)
(* of keys.  The argument: a queue is the end of its key's history, and    *)
(* all that is missing from it is a window ago or more, now and for ever.  *)
(* The lemmas say what that means for one queue q and its history h, with  *)
(* limit l and window w, at time t.                                        *)
(***************************************************************************)
EXTENDS RateLimiter, SequenceTheorems, TLAPS

(* The queue is the end of the history ... *)
IsEnd(q, h) ==
  /\ Len(q) <= Len(h)
  /\ \A i \in 1..Len(q) : q[i] = h[i + (Len(h) - Len(q))]

(* ... and what is missing from it does not count any more. *)
MissingIsOld(q, h, w, t) == \A i \in 1..(Len(h) - Len(q)) : h[i] + w <= t

Spaced(h, l, w) ==
  \A i \in 1..Len(h) : i + l <= Len(h) => h[i] + w <= h[i + l]

Past(h, t) == \A i \in 1..Len(h) : h[i] <= t

Fits(q, h, l, w, t) ==
  /\ IsEnd(q, h) /\ MissingIsOld(q, h, w, t) /\ Spaced(h, l, w) /\ Past(h, t)
  /\ Len(q) <= l

Types ==
  /\ now \in Nat
  /\ queue \in [Key -> Seq(Nat)] /\ history \in [Key -> Seq(Nat)]
  /\ allowed \in [Key -> BOOLEAN]

IInv ==
  /\ Types
  /\ \A k \in Key : Fits(queue[k], history[k], Limit[k], Window[k], now)

-----------------------------------------------------------------------------
LEMMA ConfigurationType ==
  ASSUME NEW k \in Key
  PROVE  Limit[k] \in Nat \ {0} /\ Window[k] \in Nat
<1>1. AtLeast(1, ConfiguredLimit[k]) \in Nat \ {0}
  BY ConfigurationAssumption DEF AtLeast
<1>2. AtLeast(1, ConfiguredWindow[k]) \in Nat
  BY ConfigurationAssumption DEF AtLeast
<1>3. AtLeast(1, ConfiguredWindow[k]) * Second \in Nat
  BY <1>2, ConfigurationAssumption
<1> QED BY <1>1, <1>3 DEF Limit, Window

(* Popping what is old leaves a queue that fits. *)
LEMMA PopFits ==
  ASSUME NEW q \in Seq(Nat), NEW h \in Seq(Nat), NEW l \in Nat, NEW w \in Nat, NEW t \in Nat,
         Fits(q, h, l, w, t), NEW n \in 0..Len(q), \A i \in 1..n : q[i] + w <= t
  PROVE  LET r == SubSeq(q, n + 1, Len(q))
         IN  /\ r \in Seq(Nat) /\ Fits(r, h, l, w, t) /\ Len(r) = Len(q) - n
             /\ n < Len(q) => r[1] = q[n + 1]
<1> DEFINE r == SubSeq(q, n + 1, Len(q))
<1>1. Len(q) \in Nat /\ Len(h) \in Nat /\ n \in Nat /\ n <= Len(q) /\ Len(q) <= Len(h)
  BY DEF Fits, IsEnd
<1>2. r \in Seq(Nat) /\ Len(r) = Len(q) - n /\ \A i \in 1..(Len(q) - n) : r[i] = q[i + n]
  <2>1. \A i \in 1..(Len(q) - n) : r[i] = q[(n + 1) + i - 1]
    BY <1>1
  <2>2. \A i \in 1..(Len(q) - n) : (n + 1) + i - 1 = i + n
    BY <1>1
  <2>3. r \in Seq(Nat) /\ Len(r) = Len(q) - n
    BY <1>1
  <2> QED BY <2>1, <2>2, <2>3
<1> HIDE DEF r
<1>3. IsEnd(r, h)
  <2>1. ASSUME NEW i \in 1..Len(r)
        PROVE  r[i] = h[i + (Len(h) - Len(r))]
    <3>1. i + n \in 1..Len(q) /\ (i + n) + (Len(h) - Len(q)) = i + (Len(h) - Len(r))
      BY <1>1, <1>2
    <3>2. q[i + n] = h[(i + n) + (Len(h) - Len(q))]
      BY <3>1 DEF Fits, IsEnd
    <3> QED BY <3>1, <3>2, <1>2
  <2> QED BY <2>1, <1>1, <1>2 DEF IsEnd
<1>4. MissingIsOld(r, h, w, t)
  <2>1. ASSUME NEW i \in 1..(Len(h) - Len(r))
        PROVE  h[i] + w <= t
    <3>1. CASE i <= Len(h) - Len(q)
      BY <3>1, <1>1 DEF Fits, MissingIsOld
    <3>2. CASE i > Len(h) - Len(q)
      <4>1. PICK j \in 1..n : j + (Len(h) - Len(q)) = i /\ j \in 1..Len(q)
        <5>1. i - (Len(h) - Len(q)) \in 1..n
          BY <1>1, <1>2, <3>2
        <5>2. (i - (Len(h) - Len(q))) + (Len(h) - Len(q)) = i
          BY <1>1
        <5>3. 1..n \subseteq 1..Len(q)
          BY <1>1
        <5> QED BY <5>1, <5>2, <5>3
      <4>2. q[j] = h[i]
        BY <4>1 DEF Fits, IsEnd
      <4> QED BY <4>1, <4>2
    <3> QED BY <3>1, <3>2, <1>1
  <2> QED BY <2>1 DEF MissingIsOld
<1>5. Len(r) <= l
  BY <1>1, <1>2 DEF Fits
<1>6. ASSUME n < Len(q)
      PROVE  r[1] = q[n + 1]
  <2>1. 1 \in 1..(Len(q) - n) /\ 1 + n = n + 1
    BY <1>1, <1>6
  <2> QED BY <2>1, <1>2
<1> QED BY <1>2, <1>3, <1>4, <1>5, <1>6 DEF Fits, r

Admits(h, l, w, t) == Len(h) < l \/ h[Len(h) - l + 1] + w <= t

(* A queue whose front is not old has room exactly when the whole history  *)
(* allows another request.                                                 *)
LEMMA RoomIsRight ==
  ASSUME NEW r \in Seq(Nat), NEW h \in Seq(Nat), NEW l \in Nat \ {0}, NEW w \in Nat,
         NEW t \in Nat, Fits(r, h, l, w, t), Len(r) > 0 => ~ (r[1] + w <= t)
  PROVE  Len(r) < l <=> Admits(h, l, w, t)
<1>1. Len(r) \in Nat /\ Len(h) \in Nat /\ Len(r) <= Len(h) /\ Len(r) <= l
  BY DEF Fits, IsEnd
<1>2. ASSUME Len(r) < l, ~ (Len(h) < l)
      PROVE  h[Len(h) - l + 1] + w <= t
  <2>1. Len(h) - l + 1 \in 1..(Len(h) - Len(r))
    BY <1>1, <1>2
  <2> QED BY <2>1 DEF Fits, MissingIsOld
<1>3. ASSUME ~ (Len(r) < l)
      PROVE  ~ (Len(h) < l) /\ ~ (h[Len(h) - l + 1] + w <= t)
  <2>1. Len(r) = l /\ ~ (Len(h) < l) /\ 1 \in 1..Len(r)
    BY <1>1, <1>3
  <2>2. r[1] = h[1 + (Len(h) - Len(r))]
    BY <2>1 DEF Fits, IsEnd
  <2>3. 1 + (Len(h) - Len(r)) = Len(h) - l + 1
    BY <1>1, <2>1
  <2>4. ~ (r[1] + w <= t)
    BY <1>1, <2>1
  <2> QED BY <2>1, <2>2, <2>3, <2>4
<1> QED BY <1>2, <1>3 DEF Admits

(* Admitting a request that is due keeps the fit. *)
LEMMA AppendFits ==
  ASSUME NEW r \in Seq(Nat), NEW h \in Seq(Nat), NEW l \in Nat \ {0}, NEW w \in Nat,
         NEW t \in Nat, Fits(r, h, l, w, t), Len(r) < l, Admits(h, l, w, t)
  PROVE  Fits(Append(r, t), Append(h, t), l, w, t)
<1> DEFINE r1 == Append(r, t)  h1 == Append(h, t)
<1>1. Len(r) \in Nat /\ Len(h) \in Nat /\ Len(r) <= Len(h)
  BY DEF Fits, IsEnd
<1>2. Len(r1) = Len(r) + 1 /\ Len(h1) = Len(h) + 1
  OBVIOUS
<1>3. r1[Len(r) + 1] = t /\ \A i \in 1..Len(r) : r1[i] = r[i]
  OBVIOUS
<1>4. h1[Len(h) + 1] = t /\ \A i \in 1..Len(h) : h1[i] = h[i]
  OBVIOUS
<1> HIDE DEF r1, h1
<1>5. Len(h1) - Len(r1) = Len(h) - Len(r)
  BY <1>1, <1>2
<1>6. IsEnd(r1, h1)
  <2>1. ASSUME NEW i \in 1..Len(r1)
        PROVE  r1[i] = h1[i + (Len(h) - Len(r))]
    <3>1. CASE i = Len(r) + 1
      <4>1. i + (Len(h) - Len(r)) = Len(h) + 1
        BY <1>1, <3>1
      <4> QED BY <3>1, <4>1, <1>3, <1>4
    <3>2. CASE i # Len(r) + 1
      <4>1. i \in 1..Len(r) /\ i + (Len(h) - Len(r)) \in 1..Len(h)
        BY <1>1, <1>2, <3>2
      <4>2. r[i] = h[i + (Len(h) - Len(r))]
        BY <4>1 DEF Fits, IsEnd
      <4> QED BY <4>1, <4>2, <1>3, <1>4
    <3> QED BY <3>1, <3>2
  <2>2. Len(r1) <= Len(h1)
    BY <1>1, <1>2
  <2>3. \A i \in 1..Len(r1) : r1[i] = h1[i + (Len(h1) - Len(r1))]
    BY <2>1, <1>5
  <2> QED BY <2>2, <2>3 DEF IsEnd
<1>7. MissingIsOld(r1, h1, w, t)
  <2>1. ASSUME NEW i \in 1..(Len(h) - Len(r))
        PROVE  h1[i] + w <= t
    <3>1. i \in 1..Len(h)
      BY <1>1
    <3>2. h[i] + w <= t
      BY DEF Fits, MissingIsOld
    <3> QED BY <3>1, <3>2, <1>4
  <2> QED BY <2>1, <1>5 DEF MissingIsOld
<1>8. Spaced(h1, l, w)
  <2>1. ASSUME NEW i \in 1..Len(h1), i + l <= Len(h1)
        PROVE  h1[i] + w <= h1[i + l]
    <3>1. i \in 1..Len(h)
      BY <1>1, <1>2, <2>1
    <3>2. CASE i + l = Len(h) + 1
      <4>1. i = Len(h) - l + 1 /\ ~ (Len(h) < l)
        BY <1>1, <3>1, <3>2
      <4>2. h[i] + w <= t
        BY <4>1 DEF Admits
      <4> QED BY <3>1, <3>2, <4>2, <1>4
    <3>3. CASE i + l # Len(h) + 1
      <4>1. i + l \in 1..Len(h) /\ i + l <= Len(h)
        BY <1>1, <1>2, <2>1, <3>1, <3>3
      <4>2. h[i] + w <= h[i + l]
        BY <3>1, <4>1 DEF Fits, Spaced
      <4> QED BY <3>1, <4>1, <4>2, <1>4
    <3> QED BY <3>2, <3>3
  <2> QED BY <2>1 DEF Spaced
<1>9. Past(h1, t)
  <2>1. ASSUME NEW i \in 1..Len(h1)
        PROVE  h1[i] <= t
    <3>1. CASE i = Len(h) + 1
      BY <3>1, <1>4
    <3>2. CASE i # Len(h) + 1
      <4>1. i \in 1..Len(h)
        BY <1>1, <1>2, <3>2
      <4> QED BY <4>1, <1>4 DEF Fits, Past
    <3> QED BY <3>1, <3>2
  <2> QED BY <2>1 DEF Past
<1>10. Len(r1) <= l
  BY <1>1, <1>2
<1> QED BY <1>6, <1>7, <1>8, <1>9, <1>10 DEF Fits, r1, h1

(* Time passing keeps the fit. *)
LEMMA LaterFits ==
  ASSUME NEW q \in Seq(Nat), NEW h \in Seq(Nat), NEW l \in Nat, NEW w \in Nat, NEW t \in Nat,
         Fits(q, h, l, w, t)
  PROVE  Fits(q, h, l, w, t + 1)
<1>1. Len(q) \in Nat /\ Len(h) \in Nat /\ Len(q) <= Len(h)
  BY DEF Fits, IsEnd
<1>2. \A i \in 1..Len(h) : h[i] \in Nat
  OBVIOUS
<1>3. Past(h, t + 1)
  BY <1>2 DEF Fits, Past
<1>4. MissingIsOld(q, h, w, t + 1)
  <2>1. ASSUME NEW i \in 1..(Len(h) - Len(q))
        PROVE  h[i] + w <= t + 1
    <3>1. i \in 1..Len(h)
      BY <1>1
    <3>2. h[i] + w <= t /\ h[i] \in Nat
      BY <3>1, <1>2 DEF Fits, MissingIsOld
    <3> QED BY <3>2
  <2> QED BY <2>1 DEF MissingIsOld
<1> QED BY <1>3, <1>4 DEF Fits

-----------------------------------------------------------------------------
(* One answered request, whoever asks. *)
LEMMA Answered ==
  ASSUME IInv, NEW k \in Key, NEW n \in 0..Len(queue[k]), Popped(k, n), now' = now,
         Admit(k, Rest(k, n)) \/ Refuse(k, Rest(k, n))
  PROVE  IInv' /\ Quota!Ask(k)
<1> DEFINE q == queue[k]  h == history[k]  l == Limit[k]  w == Window[k]  r == Rest(k, n)
<1>1. q \in Seq(Nat) /\ h \in Seq(Nat) /\ now \in Nat /\ Fits(q, h, l, w, now)
  BY DEF IInv, Types
<1>2. l \in Nat \ {0} /\ w \in Nat
  BY ConfigurationType
<1>3. n \in 0..Len(q) /\ r = SubSeq(q, n + 1, Len(q))
  BY DEF Rest
<1>4. \A i \in 1..n : q[i] + w <= now
  BY DEF Popped, Old
<1>5. n < Len(q) => ~ (q[n + 1] + w <= now)
  BY DEF Popped, Old
<1>6. Quota!Admissible(k) <=> Admits(h, l, w, now)
  BY DEF Quota!Admissible, Admits
<1>7. HasRoom(k, r) <=> Len(r) < l
  BY DEF HasRoom
<1>8. Limit' = Limit /\ Window' = Window
  BY DEF Limit, Window
<1>9. Admit(k, r) \/ Refuse(k, r)
  OBVIOUS
<1>10. Types /\ \A e \in Key : Fits(queue[e], history[e], Limit[e], Window[e], now)
  BY DEF IInv
<1> HIDE DEF q, h, l, w, r
<1>11. r \in Seq(Nat) /\ Fits(r, h, l, w, now) /\ Len(r) = Len(q) - n
       /\ (n < Len(q) => r[1] = q[n + 1])
  BY <1>1, <1>2, <1>3, <1>4, PopFits
<1>12. Len(r) > 0 => ~ (r[1] + w <= now)
  <2>1. Len(q) \in Nat /\ n \in Nat
    BY <1>1, <1>3
  <2>2. Len(r) > 0 => n < Len(q)
    BY <1>11, <2>1
  <2> QED BY <2>2, <1>5, <1>11
<1>13. HasRoom(k, r) <=> Quota!Admissible(k)
  BY <1>1, <1>2, <1>6, <1>7, <1>11, <1>12, RoomIsRight
<1>14. CASE Admit(k, r)
  <2>1. /\ HasRoom(k, r)
        /\ queue' = [queue EXCEPT ![k] = Append(r, now)]
        /\ history' = [history EXCEPT ![k] = Append(h, now)]
        /\ allowed' = [allowed EXCEPT ![k] = TRUE]
    BY <1>14 DEF Admit, h
  <2>2. Fits(Append(r, now), Append(h, now), l, w, now)
    BY <1>1, <1>2, <1>6, <1>7, <1>11, <1>13, <2>1, AppendFits
  <2>3. queue \in [Key -> Seq(Nat)] /\ history \in [Key -> Seq(Nat)]
    BY <1>10 DEF Types
  <2>4. Append(r, now) \in Seq(Nat) /\ Append(h, now) \in Seq(Nat)
    BY <1>1, <1>11
  <2>5. Types'
    BY <1>10, <2>1, <2>4 DEF Types
  <2>6. ASSUME NEW e \in Key
        PROVE  Fits(queue'[e], history'[e], Limit'[e], Window'[e], now')
    <3>1. CASE e = k
      <4>1. queue'[e] = Append(r, now) /\ history'[e] = Append(h, now)
        BY <3>1, <2>1, <2>3
      <4> QED BY <4>1, <3>1, <2>2, <1>8 DEF l, w
    <3>2. CASE e # k
      <4>1. queue'[e] = queue[e] /\ history'[e] = history[e]
        BY <3>2, <2>1, <2>3
      <4> QED BY <4>1, <1>8, <1>10
    <3> QED BY <3>1, <3>2
  <2>7. Quota!Ask(k)
    BY <1>13, <2>1 DEF Quota!Ask, h
  <2> QED BY <2>5, <2>6, <2>7 DEF IInv
<1>15. CASE Refuse(k, r)
  <2>1. /\ ~ HasRoom(k, r)
        /\ queue' = [queue EXCEPT ![k] = r]
        /\ history' = history
        /\ allowed' = [allowed EXCEPT ![k] = FALSE]
    BY <1>15 DEF Refuse
  <2>2. queue \in [Key -> Seq(Nat)]
    BY <1>10 DEF Types
  <2>3. Types'
    BY <1>10, <1>11, <2>1 DEF Types
  <2>4. ASSUME NEW e \in Key
        PROVE  Fits(queue'[e], history'[e], Limit'[e], Window'[e], now')
    <3>1. CASE e = k
      <4>1. queue'[e] = r
        BY <3>1, <2>1, <2>2
      <4> QED BY <4>1, <3>1, <2>1, <1>8, <1>11 DEF l, w, h
    <3>2. CASE e # k
      <4>1. queue'[e] = queue[e]
        BY <3>2, <2>1, <2>2
      <4> QED BY <4>1, <2>1, <1>8, <1>10
    <3> QED BY <3>1, <3>2
  <2>5. Quota!Ask(k)
    <3>1. Quota!Admissible(k) = FALSE
      BY <1>13, <2>1 DEF Quota!Admissible
    <3>2. now' = now
      OBVIOUS
    <3> QED BY <3>1, <3>2, <2>1 DEF Quota!Ask
  <2> QED BY <2>3, <2>4, <2>5 DEF IInv
<1> QED BY <1>9, <1>14, <1>15

-----------------------------------------------------------------------------
LEMMA Initially == Init => IInv /\ Quota!Init
<1> SUFFICES ASSUME Init PROVE IInv /\ Quota!Init
  OBVIOUS
<1>1. now = 0 /\ queue = [k \in Key |-> <<>>] /\ history = [k \in Key |-> <<>>]
      /\ allowed = [k \in Key |-> TRUE]
  BY DEF Init
<1>2. Types
  BY <1>1 DEF Types
<1>3. \A l \in Nat, w \in Nat : Fits(<<>>, <<>>, l, w, 0)
  BY DEF Fits, IsEnd, MissingIsOld, Spaced, Past
<1>4. ASSUME NEW k \in Key
      PROVE  Fits(queue[k], history[k], Limit[k], Window[k], now)
  BY <1>1, <1>3, ConfigurationType
<1> QED BY <1>1, <1>2, <1>4 DEF IInv, Quota!Init

LEMMA EachStep == IInv /\ [Next]_vars => IInv' /\ [Quota!Next]_(Quota!vars)
<1> SUFFICES ASSUME IInv, [Next]_vars
             PROVE  IInv' /\ [Quota!Next]_(Quota!vars)
  OBVIOUS
<1>1. ASSUME NEW k \in Key, Check(k) \/ Allow(k)
      PROVE  IInv' /\ Quota!Ask(k)
  <2>1. PICK n \in 0..Len(queue[k]) :
          /\ Popped(k, n) /\ now' = now
          /\ Admit(k, Rest(k, n)) \/ Refuse(k, Rest(k, n))
    BY <1>1 DEF Check, Allow
  <2> QED BY <2>1, Answered
<1>2. Limit' = Limit /\ Window' = Window
  BY DEF Limit, Window
<1>3. CASE Tick
  <2>1. /\ now' = now + 1 /\ queue' = queue /\ allowed' = allowed /\ history' = history
    BY <1>3 DEF Tick
  <2>2. Types'
    BY <2>1 DEF IInv, Types
  <2>3. ASSUME NEW k \in Key
        PROVE  Fits(queue[k], history[k], Limit[k], Window[k], now + 1)
    <3>1. Fits(queue[k], history[k], Limit[k], Window[k], now)
      BY DEF IInv
    <3>2. history[k] \in Seq(Nat) /\ queue[k] \in Seq(Nat) /\ now \in Nat
      BY DEF IInv, Types
    <3> QED BY <3>1, <3>2, ConfigurationType, LaterFits
  <2>4. Quota!Pass
    BY <2>1 DEF Quota!Pass, IInv, Types
  <2> QED BY <1>2, <2>1, <2>2, <2>3, <2>4 DEF IInv, Quota!Next
<1>4. CASE UNCHANGED vars
  <2>1. /\ now' = now /\ queue' = queue /\ allowed' = allowed /\ history' = history
    BY <1>4 DEF vars
  <2> QED BY <1>2, <2>1 DEF IInv, Types, Quota!vars
<1>5. CASE \E k \in Actor : Check(k)
  BY <1>1, <1>5 DEF Key, Quota!Next
<1>6. CASE \E d \in DriverId : Allow(d)
  BY <1>1, <1>6 DEF Key, Quota!Next
<1> QED BY <1>3, <1>4, <1>5, <1>6 DEF Next

(* Requests are admitted and refused as RequestQuota says, though only the *)
(* times in the queue are remembered.                                      *)
THEOREM LimiterImplementsQuota == Spec => ImplementsQuota
<1>1. Init => IInv /\ Quota!Init
  BY Initially
<1>2. IInv /\ [Next]_vars => IInv' /\ [Quota!Next]_(Quota!vars)
  BY EachStep
<1> QED BY <1>1, <1>2, PTL DEF Spec, ImplementsQuota, Quota!Spec

(* No window has more admissions than the limit, wherever it begins. *)
THEOREM NeverOverLimit == Spec => []WindowBound
<1>1. IInv => WindowBound
  <2>1. ASSUME NEW h \in Seq(Nat), NEW l \in Nat, NEW w \in Nat, Spaced(h, l, w),
               NEW i \in DOMAIN h, i + l \in DOMAIN h
        PROVE  h[i + l] - h[i] >= w
    <3>1. i \in 1..Len(h) /\ i + l \in 1..Len(h) /\ i + l <= Len(h)
      BY <2>1
    <3>2. h[i] + w <= h[i + l] /\ h[i] \in Nat /\ h[i + l] \in Nat
      BY <2>1, <3>1 DEF Spaced
    <3> QED BY <3>2
  <2>2. ASSUME IInv, NEW k \in Key
        PROVE  \A i \in DOMAIN history[k] : i + Limit[k] \in DOMAIN history[k] =>
                 history[k][i + Limit[k]] - history[k][i] >= Window[k]
    <3>1. history[k] \in Seq(Nat) /\ Spaced(history[k], Limit[k], Window[k])
      BY <2>2 DEF IInv, Types, Fits
    <3> QED BY <2>1, <3>1, ConfigurationType
  <2> QED BY <2>2 DEF WindowBound, Quota!WindowBound
<1>2. Init => IInv
  BY Initially
<1>3. IInv /\ [Next]_vars => IInv'
  BY EachStep
<1> QED BY <1>1, <1>2, <1>3, PTL DEF Spec

-----------------------------------------------------------------------------
(* What the Retry-After of the last response still says.                   *)

LEMMA AfterPopping ==
  ASSUME IInv, NEW k \in Key, NEW n \in 0..Len(queue[k]), Popped(k, n)
  PROVE  /\ Rest(k, n) \in Seq(Nat)
         /\ Len(Rest(k, n)) <= Limit[k]
         /\ Len(Rest(k, n)) > 0 => Rest(k, n)[1] + Window[k] > now
<1> DEFINE q == queue[k]  h == history[k]  l == Limit[k]  w == Window[k]  r == Rest(k, n)
<1>1. q \in Seq(Nat) /\ h \in Seq(Nat) /\ now \in Nat /\ Fits(q, h, l, w, now)
  BY DEF IInv, Types
<1>2. l \in Nat /\ w \in Nat
  BY ConfigurationType
<1>3. n \in 0..Len(q) /\ r = SubSeq(q, n + 1, Len(q))
  BY DEF Rest
<1>4. \A i \in 1..n : q[i] + w <= now
  BY DEF Popped, Old
<1>5. n < Len(q) => ~ (q[n + 1] + w <= now)
  BY DEF Popped, Old
<1> HIDE DEF q, h, l, w, r
<1>6. /\ r \in Seq(Nat) /\ Fits(r, h, l, w, now) /\ Len(r) = Len(q) - n
      /\ (n < Len(q) => r[1] = q[n + 1])
  BY <1>1, <1>2, <1>3, <1>4, PopFits
<1>7. Len(r) > 0 => r[1] + w > now
  <2>1. Len(r) > 0 => n < Len(q)
    BY <1>1, <1>3, <1>6
  <2>2. Len(r) > 0 => r[1] \in Nat
    BY <1>6
  <2>3. QED
    BY <1>1, <1>2, <1>5, <1>6, <2>1, <2>2
<1>8. QED
  BY <1>6, <1>7 DEF Fits, r, l, w

(* A refusal was made of a full queue, which is still there, and its       *)
(* Retry-After of the oldest time in it.                                   *)
Promises(k) ==
  ~ allowed[k] =>
    /\ Len(queue[k]) = Limit[k]
    /\ queue[k][1] + Window[k] > at[k]
    /\ retryAfter[k] = AtLeast(1, (queue[k][1] + Window[k] - at[k]) \div Second)

HeaderTypes ==
  /\ retryAfter \in [Key -> Nat]
  /\ at \in [Key -> Nat] /\ \A k \in Key : at[k] <= now

HeaderInv == HeaderTypes /\ \A k \in Actor : Promises(k)

LEMMA DivisionRemainder ==
  ASSUME NEW d \in Nat, NEW s \in Nat \ {0}
  PROVE  /\ d \div s \in Nat
         /\ (d \div s) * s <= d
         /\ d < (d \div s) * s + s
OBVIOUS

LEMMA CheckPromises ==
  ASSUME IInv, HeaderInv, NEW k \in Actor, Check(k)
  PROVE  HeaderInv'
<1>0. k \in Key
  BY DEF Key
<1>1. PICK n \in 0..Len(queue[k]) :
        /\ Popped(k, n)
        /\ \/ /\ Admit(k, Rest(k, n))
              /\ retryAfter' = [retryAfter EXCEPT ![k] = 0]
           \/ /\ Refuse(k, Rest(k, n))
              /\ retryAfter' = [retryAfter EXCEPT ![k] = ResetSeconds(k, Rest(k, n))]
        /\ at' = [at EXCEPT ![k] = now]
        /\ UNCHANGED now
  BY DEF Check
<1> DEFINE r == Rest(k, n)
<1>2. /\ r \in Seq(Nat) /\ Len(r) \in Nat /\ Len(r) <= Limit[k]
      /\ Len(r) > 0 => r[1] + Window[k] > now
  BY <1>0, <1>1, AfterPopping
<1>3. Limit[k] \in Nat \ {0} /\ Window[k] \in Nat /\ now \in Nat
  BY <1>0, ConfigurationType DEF IInv, Types
<1>4. queue \in [Key -> Seq(Nat)] /\ allowed \in [Key -> BOOLEAN]
  BY DEF IInv, Types
<1>5. Limit' = Limit /\ Window' = Window
  BY DEF Limit, Window
<1>6. at' \in [Key -> Nat] /\ \A e \in Key : at'[e] <= now'
  BY <1>0, <1>1, <1>3 DEF HeaderInv, HeaderTypes
<1>7. CASE Admit(k, r) /\ retryAfter' = [retryAfter EXCEPT ![k] = 0]
  <2>1. /\ Len(r) < Limit[k]
        /\ queue' = [queue EXCEPT ![k] = Append(r, now)]
        /\ allowed' = [allowed EXCEPT ![k] = TRUE]
    BY <1>7 DEF Admit, HasRoom
  <2>4. HeaderTypes'
    BY <1>0, <1>6, <1>7 DEF HeaderInv, HeaderTypes
  <2>5. Promises(k)'
    <3>1. allowed'[k] = TRUE
      BY <1>0, <1>4, <2>1
    <3>2. QED
      BY <3>1 DEF Promises
  <2>6. ASSUME NEW e \in Actor, e # k
        PROVE  Promises(e)'
    <3>1. /\ queue'[e] = queue[e] /\ allowed'[e] = allowed[e]
          /\ retryAfter'[e] = retryAfter[e] /\ at'[e] = at[e]
      BY <1>1, <1>4, <1>7, <2>1, <2>6 DEF Key, HeaderInv, HeaderTypes
    <3>2. QED
      BY <1>5, <3>1 DEF HeaderInv, Promises
  <2>7. QED
    BY <2>4, <2>5, <2>6 DEF HeaderInv
<1>8. CASE Refuse(k, r) /\ retryAfter' = [retryAfter EXCEPT ![k] = ResetSeconds(k, r)]
  <2>1. /\ ~ (Len(r) < Limit[k])
        /\ queue' = [queue EXCEPT ![k] = r]
        /\ allowed' = [allowed EXCEPT ![k] = FALSE]
    BY <1>8 DEF Refuse, HasRoom
  <2>2. Len(r) = Limit[k] /\ r[1] \in Nat /\ r[1] + Window[k] > now
    BY <1>2, <1>3, <2>1
  <2>3. r[1] + Window[k] - now \in Nat
    BY <1>3, <2>2
  <2>4. ResetSeconds(k, r) = AtLeast(1, (r[1] + Window[k] - now) \div Second)
    BY DEF ResetSeconds
  <2>5. ResetSeconds(k, r) \in Nat
    <3>1. (r[1] + Window[k] - now) \div Second \in Nat
      BY <2>3, ConfigurationAssumption, DivisionRemainder
    <3>2. QED
      BY <2>4, <3>1 DEF AtLeast
  <2>6. HeaderTypes'
    BY <1>0, <1>6, <1>8, <2>5 DEF HeaderInv, HeaderTypes
  <2>7. Promises(k)'
    <3>1. /\ allowed'[k] = FALSE /\ retryAfter'[k] = ResetSeconds(k, r) /\ queue'[k] = r
          /\ at'[k] = now
      BY <1>0, <1>1, <1>4, <1>8, <2>1 DEF HeaderInv, HeaderTypes
    <3> HIDE DEF r
    <3>2. QED
      BY <1>5, <2>2, <2>4, <3>1 DEF Promises
  <2>8. ASSUME NEW e \in Actor, e # k
        PROVE  Promises(e)'
    <3>1. /\ queue'[e] = queue[e] /\ allowed'[e] = allowed[e]
          /\ retryAfter'[e] = retryAfter[e] /\ at'[e] = at[e]
      BY <1>1, <1>4, <1>8, <2>1, <2>8 DEF Key, HeaderInv, HeaderTypes
    <3>2. QED
      BY <1>5, <3>1 DEF HeaderInv, Promises
  <2>9. QED
    BY <2>6, <2>7, <2>8 DEF HeaderInv
<1>9. QED
  BY <1>1, <1>7, <1>8

LEMMA StepPromises == IInv /\ HeaderInv /\ [Next]_vars => HeaderInv'
<1> SUFFICES ASSUME IInv, HeaderInv, [Next]_vars PROVE HeaderInv'
  OBVIOUS
<1>0. Limit' = Limit /\ Window' = Window
  BY DEF Limit, Window
<1>1. CASE \E k \in Actor : Check(k)
  BY <1>1, CheckPromises
<1>2. ASSUME NEW d \in DriverId, Allow(d)
      PROVE  HeaderInv'
  <2>1. /\ UNCHANGED <<now, retryAfter, at>>
        /\ \A e \in Key \ {d} : queue'[e] = queue[e] /\ allowed'[e] = allowed[e]
    BY <1>2 DEF Allow, Admit, Refuse, IInv, Types
  <2>2. \A e \in Actor : e \in Key \ {d}
    BY KeyAssumption DEF Key
  <2>3. QED
    BY <1>0, <2>1, <2>2 DEF HeaderInv, HeaderTypes, Promises
<1>3. CASE Tick
  <2>1. UNCHANGED <<queue, allowed, retryAfter, at>> /\ now' = now + 1
    BY <1>3 DEF Tick
  <2>2. now \in Nat
    BY DEF IInv, Types
  <2>3. HeaderTypes'
    <3>1. ASSUME NEW k \in Key
          PROVE  at[k] <= now + 1
      BY <2>2 DEF HeaderInv, HeaderTypes
    <3>2. QED
      BY <2>1, <3>1 DEF HeaderInv, HeaderTypes
  <2>4. QED
    BY <1>0, <2>1, <2>3 DEF HeaderInv, Promises
<1>4. CASE UNCHANGED vars
  BY <1>0, <1>4 DEF vars, HeaderInv, HeaderTypes, Promises
<1>5. QED
  BY <1>1, <1>2, <1>3, <1>4 DEF Next

LEMMA Strengthened == Spec => [](IInv /\ HeaderInv)
<1>1. Init => IInv
  BY Initially
<1>2. Init => HeaderInv
  BY DEF Init, HeaderInv, HeaderTypes, Promises, Key
<1>3. IInv /\ [Next]_vars => IInv'
  BY EachStep
<1>4. QED
  BY <1>1, <1>2, <1>3, StepPromises, PTL DEF Spec

(* No queue of the limiter or of the reconnect guard outgrows its limit or *)
(* holds a time that has not come yet.                                     *)
THEOREM LimiterTypeCorrect == Spec => []TypeOK
<1>1. IInv /\ HeaderInv => TypeOK
  <2> SUFFICES ASSUME IInv, HeaderInv PROVE TypeOK
    OBVIOUS
  <2>1. ASSUME NEW k \in Key
        PROVE  /\ queue[k] \in Seq(0..now) /\ history[k] \in Seq(0..now)
               /\ Len(queue[k]) <= Limit[k] /\ Len(queue[k]) <= Len(history[k])
    <3> DEFINE q == queue[k]  h == history[k]
    <3>1. /\ q \in Seq(Nat) /\ h \in Seq(Nat) /\ now \in Nat
          /\ Fits(q, h, Limit[k], Window[k], now)
      BY DEF IInv, Types
    <3> HIDE DEF q, h
    <3>2. Len(q) \in Nat /\ Len(h) \in Nat /\ Len(q) <= Len(h) /\ Len(q) <= Limit[k]
      BY <3>1 DEF Fits, IsEnd
    <3>3. \A i \in 1..Len(h) : h[i] \in 0..now
      BY <3>1 DEF Fits, Past
    <3>4. \A i \in 1..Len(q) : q[i] \in 0..now
      <4>1. \A i \in 1..Len(q) : i + (Len(h) - Len(q)) \in 1..Len(h)
        BY <3>2
      <4>2. QED
        BY <3>1, <3>3, <4>1 DEF Fits, IsEnd
    <3>5. q \in Seq(0..now) /\ h \in Seq(0..now)
      <4>1. q = [i \in 1..Len(q) |-> q[i]] /\ h = [i \in 1..Len(h) |-> h[i]]
        BY <3>1
      <4>2. [i \in 1..Len(q) |-> q[i]] \in Seq(0..now)
        BY <3>2, <3>4, IsASeq
      <4>3. [i \in 1..Len(h) |-> h[i]] \in Seq(0..now)
        BY <3>2, <3>3, IsASeq
      <4>4. QED
        BY <4>1, <4>2, <4>3
    <3>6. QED
      BY <3>2, <3>5 DEF q, h
  <2>2. queue \in [Key -> Seq(0..now)] /\ history \in [Key -> Seq(0..now)]
    BY <2>1 DEF IInv, Types
  <2>3. at \in [Key -> 0..now]
    BY DEF HeaderInv, HeaderTypes, IInv, Types
  <2>4. QED
    BY <2>1, <2>2, <2>3 DEF TypeOK, IInv, Types, HeaderInv, HeaderTypes
<1>2. QED
  BY <1>1, Strengthened, PTL

(* Retry-After is off by less than a second either way: a client that      *)
(* waits one second more is served, one that comes more than a second too  *)
(* early is not.                                                           *)
THEOREM RetryAfterTellsTheWait == Spec => []RetryAfterIsClose
<1>1. IInv /\ HeaderInv => RetryAfterIsClose
  <2> SUFFICES ASSUME IInv, HeaderInv, NEW k \in Actor, ~ allowed[k]
               PROVE  /\ now >= at[k] + (retryAfter[k] + 1) * Second => Quota!Admissible(k)
                      /\ now + Second < at[k] + retryAfter[k] * Second
                           => ~ Quota!Admissible(k)
    BY DEF RetryAfterIsClose
  <2> DEFINE q == queue[k]  h == history[k]  l == Limit[k]  w == Window[k]
             wait == q[1] + w - at[k]
             seconds == wait \div Second
  <2>1. k \in Key
    BY DEF Key
  <2>2. q \in Seq(Nat) /\ h \in Seq(Nat) /\ now \in Nat /\ Fits(q, h, l, w, now)
    BY <2>1 DEF IInv, Types
  <2>3. /\ l \in Nat \ {0} /\ w \in Nat /\ at[k] \in Nat /\ at[k] <= now
        /\ Len(q) = l /\ q[1] + w > at[k]
        /\ retryAfter[k] = AtLeast(1, seconds)
    BY <2>1, ConfigurationType DEF HeaderInv, HeaderTypes, Promises
  <2>4. Quota!Admissible(k) <=> Len(h) < l \/ h[Len(h) - l + 1] + w <= now
    BY DEF Quota!Admissible
  <2> HIDE DEF q, h, l, w
  <2>5. q[1] \in Nat /\ Len(h) \in Nat /\ ~ (Len(h) < l) /\ q[1] = h[Len(h) - l + 1]
    <3>1. 1 \in 1..Len(q) /\ Len(q) <= Len(h) /\ Len(h) \in Nat
      BY <2>2, <2>3 DEF Fits, IsEnd
    <3>2. q[1] = h[1 + (Len(h) - Len(q))] /\ q[1] \in Nat
      BY <2>2, <3>1 DEF Fits, IsEnd
    <3>3. 1 + (Len(h) - Len(q)) = Len(h) - l + 1
      BY <2>3, <3>1
    <3>4. QED
      BY <2>3, <3>1, <3>2, <3>3
  <2>6. Quota!Admissible(k) <=> q[1] + w <= now
    BY <2>4, <2>5
  <2>7. wait \in Nat /\ at[k] + wait = q[1] + w
    BY <2>3, <2>5
  <2> HIDE DEF wait
  <2>8. seconds \in Nat /\ seconds * Second <= wait /\ wait < seconds * Second + Second
    BY <2>7, ConfigurationAssumption, DivisionRemainder
  <2> HIDE DEF seconds
  <2>9. \/ retryAfter[k] = seconds
        \/ retryAfter[k] = 1 /\ seconds = 0
    BY <2>3, <2>8 DEF AtLeast
  <2>10. Second \in Nat
    BY ConfigurationAssumption
  <2>11. /\ now >= at[k] + (retryAfter[k] + 1) * Second => q[1] + w <= now
         /\ now + Second < at[k] + retryAfter[k] * Second => ~ (q[1] + w <= now)
    <3>1. PICK x \in Nat : x = seconds * Second
      BY <2>8, <2>10
    <3>2. CASE retryAfter[k] = seconds
      <4>1. (retryAfter[k] + 1) * Second = x + Second /\ retryAfter[k] * Second = x
        BY <2>8, <2>10, <3>1, <3>2
      <4>2. x <= wait /\ wait < x + Second
        BY <2>8, <3>1
      <4>3. QED
        BY <2>2, <2>3, <2>7, <2>10, <4>1, <4>2
    <3>3. CASE retryAfter[k] = 1 /\ seconds = 0
      <4>1. /\ (retryAfter[k] + 1) * Second = Second + Second
            /\ retryAfter[k] * Second = Second
        BY <2>10, <3>3
      <4>2. wait < Second
        BY <2>8, <2>10, <3>3
      <4>3. QED
        BY <2>2, <2>3, <2>7, <2>10, <4>1, <4>2
    <3>4. QED
      BY <2>9, <3>2, <3>3
  <2>12. QED
    BY <2>6, <2>11
<1>2. QED
  BY <1>1, Strengthened, PTL

=============================================================================
