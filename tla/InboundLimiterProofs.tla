------------------------ MODULE InboundLimiterProofs ------------------------
(***************************************************************************)
(* InboundLimiter, for every rate, burst and clock: the bucket keeps its   *)
(* rate over every stretch of real time, and a peer that was quiet for the *)
(* time of one token is let through, although the wall clock that          *)
(* try_acquire reads may be stepped back at any moment.                    *)
(***************************************************************************)
EXTENDS InboundLimiter, TLAPS

\* A bucket that holds at most its capacity.
Buckets == [tokens : 0 .. Capacity, last_ms : Nat]

\* The capacity is worth a token at least, and no saturation lies below it.
LEMMA CapacityBounds ==
    Capacity \in Nat /\ Token <= Capacity /\ Capacity <= CountMax
<1> USE BucketAssumption
<1>1. CASE Burst > 1
  <2>1. Capacity = Burst * Token
    BY <1>1 DEF Capacity
  <2>2. Burst * Token \in Nat /\ 1 * Token <= Burst * Token
    BY <1>1
  <2>3. QED
    BY <1>1, <2>1, <2>2
<1>2. CASE ~(Burst > 1)
  BY <1>2 DEF Capacity
<1>3. QED
  BY <1>1, <1>2

\* What the milliseconds since the last call are worth.
LEMMA EarnedNatural ==
    ASSUME NEW d \in Nat
    PROVE  PerMs * d \in Nat
BY BucketAssumption

LEMMA EarnedMonotone ==
    ASSUME NEW d \in Nat, NEW e \in Nat, d <= e
    PROVE  PerMs * d <= PerMs * e
BY BucketAssumption

LEMMA EarnedAdds ==
    ASSUME NEW a \in Int, NEW b \in Int, NEW c \in Int
    PROVE  /\ PerMs * (b - a) \in Int
           /\ PerMs * (c - b) \in Int
           /\ PerMs * (c - a) \in Int
           /\ PerMs * (c - a) = PerMs * (c - b) + PerMs * (b - a)
BY BucketAssumption

\* The refill never passes the capacity, never credits more than the clock's advance
\* is worth, and never takes a token away, whatever it saturates at.
LEMMA RefilledBounds ==
    ASSUME NEW b \in Buckets, NEW now \in Nat, NEW d \in Nat,
           SaturatingSub(now, b.last_ms) <= d
    PROVE  /\ Refilled(b, now) \in 0 .. Capacity
           /\ Refilled(b, now) <= b.tokens + PerMs * d
           /\ b.tokens <= Refilled(b, now)
<1> DEFINE gap == SaturatingSub(now, b.last_ms)
           earned == PerMs * gap
<1>1. b.tokens \in 0 .. Capacity /\ b.last_ms \in Nat
  BY DEF Buckets
<1>2. gap \in Nat /\ gap <= d
  BY <1>1 DEF SaturatingSub
<1>3. earned \in Nat /\ PerMs * d \in Nat /\ earned <= PerMs * d
  BY <1>2, EarnedNatural, EarnedMonotone
<1>4. Refilled(b, now) = AtMost(Saturating(b.tokens + Saturating(earned)), Capacity)
  BY DEF Refilled
<1> HIDE DEF gap, earned
<1>5. QED
  BY <1>1, <1>3, <1>4, CapacityBounds, BucketAssumption DEF AtMost, Saturating

\* A clock that advanced by d milliseconds or more is credited for them, up to the
\* capacity.
LEMMA RefilledEnough ==
    ASSUME NEW b \in Buckets, NEW now \in Nat, NEW d \in Nat,
           d <= SaturatingSub(now, b.last_ms), PerMs * d >= Token
    PROVE  Acquires(b, now)
<1> DEFINE gap == SaturatingSub(now, b.last_ms)
           earned == PerMs * gap
<1>1. b.tokens \in 0 .. Capacity /\ b.last_ms \in Nat
  BY DEF Buckets
<1>2. gap \in Nat /\ d <= gap
  BY <1>1 DEF SaturatingSub
<1>3. earned \in Nat /\ PerMs * d \in Nat /\ PerMs * d <= earned
  BY <1>2, EarnedNatural, EarnedMonotone
<1>4. Refilled(b, now) = AtMost(Saturating(b.tokens + Saturating(earned)), Capacity)
  BY DEF Refilled
<1> HIDE DEF gap, earned
<1>5. Refilled(b, now) >= Token
  BY <1>1, <1>3, <1>4, CapacityBounds, BucketAssumption DEF AtMost, Saturating
<1>6. QED
  BY <1>5 DEF Acquires

\* The bucket try_acquire leaves: one token less exactly when it answers true.
LEMMA AcquireEffect ==
    ASSUME NEW b \in Buckets, NEW now \in Nat
    PROVE  /\ Acquire(b, now) \in Buckets
           /\ Acquire(b, now).last_ms = now
           /\ Acquires(b, now) => Acquire(b, now).tokens = Refilled(b, now) - Token
           /\ ~Acquires(b, now) => Acquire(b, now).tokens = Refilled(b, now)
<1>1. SaturatingSub(now, b.last_ms) \in Nat
  BY DEF SaturatingSub, Buckets
<1>2. Refilled(b, now) \in 0 .. Capacity
  BY <1>1, RefilledBounds
<1>3. QED
  BY <1>2, CapacityBounds, BucketAssumption DEF Acquire, Acquires, Buckets

-----------------------------------------------------------------------------
\* What the wall clock can have done since the last call: it advanced no further
\* than the time that went by, unless the bucket was never used, and at least as
\* far when it was not stepped back.
ClockBetweenCalls ==
    /\ now_ms <= StartMs + elapsed
    /\ limiter.tokens = Capacity \/ now_ms - limiter.last_ms <= elapsed - last_try
    /\ ~stepped => now_ms - limiter.last_ms >= elapsed - last_try

\* From every grant on: the tokens spent since, and those still in the bucket, are
\* no more than the capacity and what the time up to the last call was worth.
TokensConserved ==
    \A i \in 1 .. Len(granted) :
        (Len(granted) - i + 1) * Token + limiter.tokens
            <= Capacity + PerMs * (last_try - granted[i])

\* RateBound is not inductive: it does not say what is left in the bucket, nor what
\* the clock may still be credited for.
IInv == TypeOK /\ ClockBetweenCalls /\ TokensConserved /\ RateBound

LEMMA InitIInv == Init => IInv
<1> SUFFICES ASSUME Init PROVE IInv
  OBVIOUS
<1> USE LimiterAssumption, CapacityBounds
<1>1. limiter = [tokens |-> Capacity, last_ms |-> 0] /\ granted = <<>>
  BY DEF Init, NewLimiter
<1>2. TypeOK
  <2>1. limiter \in [tokens : 0 .. Capacity, last_ms : 0 .. StartMs + MaxElapsed]
    BY <1>1
  <2>2. granted \in Seq(0 .. elapsed)
    BY <1>1
  <2>3. now_ms \in 0 .. StartMs + MaxElapsed /\ elapsed \in 0 .. MaxElapsed
    BY DEF Init
  <2>4. last_try \in 0 .. elapsed /\ backsteps \in 0 .. MaxBacksteps
    BY DEF Init
  <2>5. stepped \in BOOLEAN
    BY DEF Init
  <2>6. QED
    BY <2>1, <2>2, <2>3, <2>4, <2>5 DEF TypeOK
<1>3. ClockBetweenCalls
  BY <1>1 DEF Init, ClockBetweenCalls
<1>4. TokensConserved /\ RateBound
  BY <1>1 DEF TokensConserved, RateBound
<1>5. QED
  BY <1>2, <1>3, <1>4 DEF IInv

LEMMA ElapseIInv == IInv /\ Elapse => IInv'
<1> SUFFICES ASSUME IInv, Elapse PROVE IInv'
  OBVIOUS
<1> USE LimiterAssumption DEF IInv, Elapse
<1>1. TypeOK'
  <2>1. granted \in Seq(0 .. elapsed + 1)
    BY DEF TypeOK
  <2>2. QED
    BY <2>1 DEF TypeOK, ClockBetweenCalls
<1>2. ClockBetweenCalls'
  BY DEF TypeOK, ClockBetweenCalls
<1>3. QED
  BY <1>1, <1>2 DEF TokensConserved, RateBound

LEMMA StepBackIInv ==
    ASSUME NEW t \in 0 .. StartMs + MaxElapsed
    PROVE  IInv /\ StepBack(t) => IInv'
<1> SUFFICES ASSUME IInv, StepBack(t) PROVE IInv'
  OBVIOUS
<1> USE LimiterAssumption DEF IInv, StepBack
<1>1. TypeOK'
  BY DEF TypeOK
<1>2. ClockBetweenCalls'
  BY DEF TypeOK, ClockBetweenCalls
<1>3. QED
  BY <1>1, <1>2 DEF TokensConserved, RateBound

\* What a call of try_acquire finds: the time since the last one is worth what the
\* refill credits, or more.
LEMMA CallCredit ==
    ASSUME IInv
    PROVE  /\ limiter \in Buckets /\ now_ms \in Nat
           /\ Refilled(limiter, now_ms) \in 0 .. Capacity
           /\ Refilled(limiter, now_ms) <= limiter.tokens + PerMs * (elapsed - last_try)
<1> USE LimiterAssumption, CapacityBounds
<1>1. /\ limiter \in Buckets /\ now_ms \in Nat
      /\ elapsed - last_try \in Nat
      /\ limiter.tokens \in 0 .. Capacity /\ limiter.last_ms \in Nat
  BY DEF IInv, TypeOK, Buckets
<1>2. SaturatingSub(now_ms, limiter.last_ms) \in Nat
  BY <1>1 DEF SaturatingSub
<1>3. Refilled(limiter, now_ms) \in 0 .. Capacity
  BY <1>1, <1>2, RefilledBounds
<1>4. PerMs * (elapsed - last_try) \in Nat
  BY <1>1, EarnedNatural
<1>5. CASE limiter.tokens = Capacity
  BY <1>1, <1>3, <1>4, <1>5
<1>6. CASE now_ms - limiter.last_ms <= elapsed - last_try
  <2>1. SaturatingSub(now_ms, limiter.last_ms) <= elapsed - last_try
    BY <1>1, <1>6 DEF SaturatingSub
  <2>2. QED
    BY <1>1, <1>3, <2>1, RefilledBounds
<1>7. QED
  BY <1>1, <1>3, <1>5, <1>6 DEF IInv, ClockBetweenCalls

\* What the grants so far and the bucket have used up stays within the capacity and
\* the time up to this call.
LEMMA CallConserves ==
    ASSUME IInv, NEW i \in 1 .. Len(granted)
    PROVE  (Len(granted) - i + 1) * Token + Refilled(limiter, now_ms)
               <= Capacity + PerMs * (elapsed - granted[i])
<1> USE CapacityBounds
<1> DEFINE spent == (Len(granted) - i + 1) * Token
           rest == Refilled(limiter, now_ms)
<1>1. /\ Len(granted) \in Nat /\ granted[i] \in Int
      /\ elapsed \in Int /\ last_try \in Int
  BY LimiterAssumption DEF IInv, TypeOK
<1>2. spent \in Int
  BY <1>1, BucketAssumption
<1>3. spent + limiter.tokens <= Capacity + PerMs * (last_try - granted[i])
  BY DEF IInv, TokensConserved
<1>4. /\ rest \in Int /\ limiter.tokens \in Int
      /\ rest <= limiter.tokens + PerMs * (elapsed - last_try)
  BY CallCredit DEF Buckets
<1>5. /\ PerMs * (elapsed - last_try) \in Int
      /\ PerMs * (last_try - granted[i]) \in Int
      /\ PerMs * (elapsed - granted[i]) \in Int
      /\ PerMs * (elapsed - granted[i])
             = PerMs * (elapsed - last_try) + PerMs * (last_try - granted[i])
  BY <1>1, EarnedAdds
<1> HIDE DEF spent, rest
<1>6. spent + rest <= Capacity + PerMs * (elapsed - granted[i])
  BY <1>2, <1>3, <1>4, <1>5
<1>7. QED
  BY <1>6 DEF spent, rest

LEMMA RefuseIInv == IInv /\ Refuse => IInv'
<1> SUFFICES ASSUME IInv, Refuse PROVE IInv'
  OBVIOUS
<1>1. /\ limiter' \in Buckets
      /\ limiter'.last_ms = now_ms
      /\ limiter'.tokens = Refilled(limiter, now_ms)
      /\ limiter' = Acquire(limiter, now_ms)
  BY CallCredit, AcquireEffect DEF Refuse
<1>2. TypeOK'
  <2>1. limiter' \in [tokens : 0 .. Capacity, last_ms : 0 .. StartMs + MaxElapsed]
    BY <1>1 DEF IInv, TypeOK, Buckets, Acquire
  <2>2. granted' \in Seq(0 .. elapsed')
    BY DEF IInv, TypeOK, Refuse
  <2>3. last_try' \in 0 .. elapsed'
    BY LimiterAssumption DEF IInv, TypeOK, Refuse
  <2>4. stepped' \in BOOLEAN
    BY DEF Refuse
  <2>5. QED
    BY <2>1, <2>2, <2>3, <2>4 DEF IInv, TypeOK, Refuse
<1>3. ClockBetweenCalls'
  BY <1>1, LimiterAssumption DEF IInv, TypeOK, ClockBetweenCalls, Refuse
<1>4. TokensConserved'
  <2>1. SUFFICES ASSUME NEW i \in 1 .. Len(granted)
                 PROVE  (Len(granted) - i + 1) * Token + limiter'.tokens
                            <= Capacity + PerMs * (last_try' - granted[i])
    BY DEF TokensConserved, Refuse
  <2>2. last_try' = elapsed
    BY DEF Refuse
  <2>3. QED
    BY <1>1, <2>2, CallConserves
<1>5. RateBound'
  BY DEF IInv, RateBound, Refuse
<1>6. QED
  BY <1>2, <1>3, <1>4, <1>5 DEF IInv

LEMMA GrantIInv == IInv /\ Grant => IInv'
<1> SUFFICES ASSUME IInv, Grant PROVE IInv'
  OBVIOUS
<1> DEFINE n == Len(granted)
<1>1. /\ limiter' \in Buckets
      /\ limiter'.last_ms = now_ms
      /\ limiter'.tokens = Refilled(limiter, now_ms) - Token
      /\ limiter' = Acquire(limiter, now_ms)
      /\ Refilled(limiter, now_ms) \in 0 .. Capacity
  BY CallCredit, AcquireEffect DEF Grant
<1>2. /\ granted \in Seq(0 .. elapsed) /\ elapsed \in Nat
      /\ granted' = Append(granted, elapsed)
      /\ last_try' = elapsed /\ elapsed' = elapsed /\ now_ms' = now_ms
  BY LimiterAssumption DEF IInv, TypeOK, Grant
<1>3. /\ n \in Nat /\ Len(granted') = n + 1
      /\ granted' \in Seq(0 .. elapsed)
      /\ granted'[n + 1] = elapsed
      /\ \A i \in 1 .. n : granted'[i] = granted[i] /\ granted[i] \in Int
  BY <1>2
<1>4. TypeOK'
  <2>1. limiter' \in [tokens : 0 .. Capacity, last_ms : 0 .. StartMs + MaxElapsed]
    BY <1>1 DEF IInv, TypeOK, Buckets, Acquire
  <2>2. last_try' \in 0 .. elapsed'
    BY LimiterAssumption DEF IInv, TypeOK, Grant
  <2>3. stepped' \in BOOLEAN
    BY DEF Grant
  <2>4. QED
    BY <1>2, <1>3, <2>1, <2>2, <2>3 DEF IInv, TypeOK, Grant
<1>5. ClockBetweenCalls'
  BY <1>1, <1>2, LimiterAssumption DEF IInv, TypeOK, ClockBetweenCalls, Grant
<1>6. TokensConserved'
  <2>1. SUFFICES ASSUME NEW i \in 1 .. n + 1
                 PROVE  (n + 1 - i + 1) * Token + limiter'.tokens
                            <= Capacity + PerMs * (elapsed - granted'[i])
    BY <1>2, <1>3 DEF TokensConserved
  <2>2. CASE i = n + 1
    <3>1. PerMs * (elapsed - granted'[i]) = 0
      BY <1>2, <1>3, <2>2, BucketAssumption
    <3>2. (n + 1 - i + 1) * Token = Token
      BY <1>3, <2>2, BucketAssumption
    <3>3. QED
      BY <1>1, <3>1, <3>2, CapacityBounds, BucketAssumption
  <2>3. CASE i \in 1 .. n
    <3>1. (n - i + 1) * Token + Refilled(limiter, now_ms)
             <= Capacity + PerMs * (elapsed - granted[i])
      BY <2>3, CallConserves
    <3>2. /\ (n - i + 1) * Token \in Int
          /\ (n + 1 - i + 1) * Token = (n - i + 1) * Token + Token
      BY <1>3, <2>3, BucketAssumption
    <3>3. PerMs * (elapsed - granted[i]) \in Int
      <4>1. granted[i] \in Int /\ elapsed \in Int
        BY <1>2, <1>3, <2>3
      <4>2. QED
        BY <4>1, BucketAssumption
    <3> DEFINE spent == (n - i + 1) * Token
               earned == PerMs * (elapsed - granted[i])
    <3> HIDE DEF spent, earned
    <3>4. spent + Refilled(limiter, now_ms) <= Capacity + earned
          /\ spent \in Int /\ earned \in Int
      BY <3>1, <3>2, <3>3 DEF spent, earned
    <3>5. (spent + Token) + limiter'.tokens <= Capacity + earned
      BY <1>1, <3>4, CapacityBounds, BucketAssumption
    <3>6. QED
      BY <1>3, <2>3, <3>2, <3>5 DEF spent, earned
  <2>4. QED
    BY <1>3, <2>1, <2>2, <2>3
<1>7. RateBound'
  <2>1. SUFFICES ASSUME NEW i \in 1 .. n + 1, NEW j \in 1 .. n + 1, i <= j
                 PROVE  (j - i + 1) * Token
                            <= Capacity + PerMs * (granted'[j] - granted'[i])
    BY <1>3 DEF RateBound
  <2>2. CASE j = n + 1
    <3>1. (n + 1 - i + 1) * Token + limiter'.tokens
             <= Capacity + PerMs * (elapsed - granted'[i])
      BY <1>2, <1>3, <1>6 DEF TokensConserved
    <3>2. (n + 1 - i + 1) * Token \in Int /\ limiter'.tokens \in Nat
      BY <1>1, <1>3, CapacityBounds, BucketAssumption DEF Buckets
    <3>3. PerMs * (elapsed - granted'[i]) \in Int
      <4>1. granted'[i] \in Int /\ elapsed \in Int
        BY <1>2, <1>3
      <4>2. QED
        BY <4>1, BucketAssumption
    <3> DEFINE spent == (n + 1 - i + 1) * Token
               earned == PerMs * (elapsed - granted'[i])
    <3> HIDE DEF spent, earned
    <3>4. spent + limiter'.tokens <= Capacity + earned
      BY <3>1 DEF spent, earned
    <3>5. spent <= Capacity + earned
      BY <3>2, <3>3, <3>4, CapacityBounds DEF spent, earned
    <3>6. QED
      BY <1>3, <2>2, <3>5 DEF spent, earned
  <2>3. CASE j \in 1 .. n
    <3>1. i \in 1 .. n
      BY <1>3, <2>1, <2>3
    <3>2. (j - i + 1) * Token <= Capacity + PerMs * (granted[j] - granted[i])
      BY <2>1, <2>3, <3>1 DEF IInv, RateBound
    <3>3. QED
      BY <1>3, <2>3, <3>1, <3>2
  <2>4. QED
    BY <1>3, <2>1, <2>2, <2>3
<1>8. QED
  BY <1>4, <1>5, <1>6, <1>7 DEF IInv

LEMMA NextIInv == IInv /\ [Next]_vars => IInv'
<1> SUFFICES ASSUME IInv, [Next]_vars PROVE IInv'
  OBVIOUS
<1>1. CASE UNCHANGED vars
  BY <1>1 DEF vars, IInv, TypeOK, ClockBetweenCalls, TokensConserved, RateBound
<1>2. QED
  BY <1>1, ElapseIInv, StepBackIInv, GrantIInv, RefuseIInv DEF Next

\* The inductive invariant of one limiter under any load and any clock.
THEOREM Inductive == Spec => []IInv
BY InitIInv, NextIInv, PTL DEF Spec

\* The bucket never holds more than its capacity nor less than nothing: the refill
\* and the spending of try_acquire never leave 0 .. Capacity.
THEOREM TypeCorrect == Spec => []TypeOK
BY Inductive, PTL DEF IInv

\* try_acquire grants at most the burst and the steady rate over every stretch of
\* real time, with a wall clock that steps back as often as it likes.
THEOREM RateHolds == Spec => []RateBound
BY Inductive, PTL DEF IInv

LEMMA QuietAdmitted == IInv => QuietPeerAdmitted
<1> SUFFICES ASSUME IInv, ~stepped, PerMs * (elapsed - last_try) >= Token
             PROVE  Acquires(limiter, now_ms)
  BY DEF QuietPeerAdmitted
<1> USE LimiterAssumption
<1>1. /\ elapsed - last_try \in Nat
      /\ limiter \in Buckets /\ now_ms \in Nat /\ limiter.last_ms \in Nat
  BY CallCredit DEF IInv, TypeOK, Buckets
<1>2. elapsed - last_try <= SaturatingSub(now_ms, limiter.last_ms)
  BY <1>1 DEF IInv, ClockBetweenCalls, SaturatingSub
<1>3. QED
  BY <1>1, <1>2, RefilledEnough

\* A peer that was quiet for the time of one token is let through, also after a
\* backward step once a call has seen it.
THEOREM QuietPeerPasses == Spec => []QuietPeerAdmitted
BY Inductive, QuietAdmitted, PTL
=============================================================================
