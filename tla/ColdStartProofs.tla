--------------------------- MODULE ColdStartProofs ---------------------------
(***************************************************************************)
(* ColdStart, for every length of epoch, floor and number of boots: a node *)
(* never runs ahead of the true time, no boot gets its time in an epoch    *)
(* before that of an earlier boot, and over all boots no (epoch, offset)   *)
(* is claimed twice, unless a boot took the time of an announcement sent   *)
(* before it began. Its requests keep the doubling intervals.              *)
(***************************************************************************)
EXTENDS ColdStart, TLAPS

\* Every number is a multiple of n and a remainder below n.
LEMMA Division ==
    ASSUME NEW n \in Nat \ {0}, NEW a \in Int
    PROVE  /\ a \div n \in Int
           /\ a % n \in 0 .. n - 1
           /\ a = n * (a \div n) + (a % n)
OBVIOUS

\* Writing a number as a multiple of n and a rest below n determines both.
LEMMA DivisionUnique ==
    ASSUME NEW n \in Nat \ {0}, NEW a \in Int, NEW k \in Int,
           NEW r \in 0 .. n - 1, a = n * k + r
    PROVE  a \div n = k /\ a % n = r
OBVIOUS

\* The quotient of a natural number below m * n is a natural number below m.
LEMMA QuotientBounded ==
    ASSUME NEW n \in Nat \ {0}, NEW m \in Nat, NEW a \in Nat, a < m * n
    PROVE  a \div n \in 0 .. m - 1
OBVIOUS

\* Division by n keeps the order, and does not leave the natural numbers.
LEMMA QuotientMonotone ==
    ASSUME NEW n \in Nat \ {0}, NEW a \in Int, NEW b \in Int, a <= b
    PROVE  a \div n <= b \div n
OBVIOUS

\* The position of a whole second.
Moment(s) == TupleAt(s * NanosPerSec)

\* Within the modelled time the cast of epoch_id_at drops nothing.
LEMMA EpochIdOf ==
    ASSUME NEW s \in 0 .. MaxTime
    PROVE  EpochIdAt(s) = s \div EpochSecs /\ EpochIdAt(s) \in Epochs
<1> USE EpochAssumption, ColdStartAssumption
<1> DEFINE e == s \div EpochSecs
<1>1. s \in Nat /\ s < EpochSpace * EpochSecs
  <2>1. EpochSpace * EpochSecs \in Nat
    OBVIOUS
  <2>2. QED
    BY <2>1
<1>2. e \in 0 .. EpochSpace - 1
  BY <1>1, QuotientBounded
<1> HIDE DEF e
<1>3. e = EpochSpace * 0 + e /\ e \in Int
  BY <1>2
<1>4. e % EpochSpace = e
  BY <1>2, <1>3, DivisionUnique
<1>5. QED
  BY <1>2, <1>4 DEF EpochIdAt, Epochs, e

\* The first second of the epoch of s is no later than s, and s lies in no epoch
\* before that of a floor it has reached.
LEMMA EpochStart ==
    ASSUME NEW s \in 0 .. MaxTime
    PROVE  /\ EpochIdAt(s) * EpochSecs <= s
           /\ \A k \in Nat : k * EpochSecs <= s => k <= EpochIdAt(s)
<1> USE EpochAssumption, ColdStartAssumption
<1> DEFINE e == s \div EpochSecs
           r == s % EpochSecs
<1>1. e \in Int /\ r \in 0 .. EpochSecs - 1 /\ s = EpochSecs * e + r
  BY Division
<1>2. EpochIdAt(s) = e
  BY EpochIdOf
<1> HIDE DEF e, r
<1>3. e * EpochSecs <= s
  <2>1. e * EpochSecs = EpochSecs * e /\ EpochSecs * e \in Int
    BY <1>1
  <2>2. QED
    BY <1>1, <2>1
<1>4. ASSUME NEW k \in Nat, k * EpochSecs <= s PROVE k <= e
  <2>1. k * EpochSecs = EpochSecs * k + 0 /\ 0 \in 0 .. EpochSecs - 1
        /\ k * EpochSecs \in Int
    OBVIOUS
  <2>2. (k * EpochSecs) \div EpochSecs = k
    BY <2>1, DivisionUnique
  <2>3. (k * EpochSecs) \div EpochSecs <= s \div EpochSecs
    BY <1>4, <2>1, QuotientMonotone
  <2>4. QED
    BY <2>2, <2>3 DEF e
<1>5. QED
  BY <1>2, <1>3, <1>4

\* A whole second stands for the first of its ticks.
LEMMA MomentIs ==
    ASSUME NEW s \in 0 .. MaxTime
    PROVE  /\ Moment(s) = [epoch |-> s \div EpochSecs,
                           offset |-> (s % EpochSecs) * TicksPerSec]
           /\ Moment(s) \in Tuples
<1> USE EpochAssumption, ColdStartAssumption
<1> DEFINE t == s * NanosPerSec
           r == s % EpochSecs
           o == r * TicksPerSec
<1>1. t \div NanosPerSec = s /\ t % NanosPerSec = 0
  <2>1. t = NanosPerSec * s + 0 /\ 0 \in 0 .. NanosPerSec - 1 /\ t \in Int /\ s \in Int
    OBVIOUS
  <2>2. QED
    BY <2>1, DivisionUnique
<1>2. (0 * TicksPerSec) \div NanosPerSec = 0
  <2>1. 0 * TicksPerSec = NanosPerSec * 0 + 0 /\ 0 \in 0 .. NanosPerSec - 1
        /\ 0 * TicksPerSec \in Int
    OBVIOUS
  <2>2. QED
    BY <2>1, DivisionUnique
<1>3. r \in 0 .. EpochSecs - 1
  BY Division
<1> HIDE DEF t, r
<1>4. o \in 0 .. (EpochSecs * TicksPerSec) - 1
  <2>1. (r + 1) * TicksPerSec <= EpochSecs * TicksPerSec
    BY <1>3
  <2>2. r * TicksPerSec \in Nat /\ (r + 1) * TicksPerSec = r * TicksPerSec + TicksPerSec
    BY <1>3
  <2>3. EpochSecs * TicksPerSec \in Nat
    OBVIOUS
  <2>4. QED
    BY <2>1, <2>2, <2>3
<1> HIDE DEF o
<1>5. TicksPerEpoch \in Nat \ {0} /\ o \in 0 .. TicksPerEpoch - 1
  BY <1>4 DEF TicksPerEpoch
<1>6. (o + 0) % TicksPerEpoch = o
  <2>1. o + 0 = TicksPerEpoch * 0 + o /\ o + 0 \in Int
    BY <1>5
  <2>2. QED
    BY <1>5, <2>1, DivisionUnique
<1>7. Moment(s) = [epoch |-> EpochIdAt(s), offset |-> o]
  BY <1>1, <1>2, <1>6 DEF Moment, TupleAt, EpochOffsetAt, t, o, r
<1>8. EpochIdAt(s) = s \div EpochSecs /\ EpochIdAt(s) \in Epochs
  BY EpochIdOf
<1>9. QED
  BY <1>5, <1>7, <1>8 DEF Tuples, Offsets, o, r

\* A later second stands for a later position.
LEMMA MomentsOrdered ==
    ASSUME NEW s \in 0 .. MaxTime, NEW u \in 0 .. MaxTime, s < u
    PROVE  Precedes(Moment(s), Moment(u))
<1> USE EpochAssumption, ColdStartAssumption
<1> DEFINE p == s \div EpochSecs
           q == u \div EpochSecs
           a == s % EpochSecs
           b == u % EpochSecs
<1>1. p \in Int /\ a \in 0 .. EpochSecs - 1 /\ s = EpochSecs * p + a
  BY Division
<1>2. q \in Int /\ b \in 0 .. EpochSecs - 1 /\ u = EpochSecs * q + b
  BY Division
<1>3. p <= q
  BY QuotientMonotone
<1>4. /\ Moment(s) = [epoch |-> p, offset |-> a * TicksPerSec]
      /\ Moment(u) = [epoch |-> q, offset |-> b * TicksPerSec]
  BY MomentIs
<1> HIDE DEF p, q, a, b
<1>5. CASE p = q
  <2>1. EpochSecs * p \in Int
    BY <1>1
  <2>2. a < b
    BY <1>1, <1>2, <1>5, <2>1
  <2>3. a * TicksPerSec < b * TicksPerSec
    BY <1>1, <1>2, <2>2
  <2>4. QED
    BY <1>4, <1>5, <2>3 DEF Precedes
<1>6. CASE p # q
  BY <1>1, <1>2, <1>3, <1>4, <1>6 DEF Precedes
<1>7. QED
  BY <1>5, <1>6

LEMMA PrecedesTransitive ==
    ASSUME NEW a \in Tuples, NEW b \in Tuples, NEW c \in Tuples,
           Precedes(a, b), Precedes(b, c)
    PROVE  Precedes(a, c)
BY EpochAssumption DEF Tuples, Epochs, Offsets, TicksPerEpoch, Precedes

-----------------------------------------------------------------------------
\* Where the node's clock may stand: between the floor and the true time.
ClockWithinTime ==
    /\ booted_at <= time /\ raw = time - booted_at
    /\ announced \subseteq 0 .. time
    /\ clock.last_epoch = stored
    /\ stored * EpochSecs <= time
    /\ clock.valid => nodeTime <= time /\ stored * EpochSecs <= nodeTime

\* The floor is the last epoch in which a boot got its time, and so past them all.
StartsBelowFloor ==
    /\ \A i \in 1 .. Len(started) : started[i] <= stored
    /\ \A i, j \in 1 .. Len(started) : i < j => started[i] <= started[j]
    /\ clock.valid => Len(started) > 0 /\ started[Len(started)] = stored

\* BootsNeverGoBack and NeverAhead are not inductive: that an accepted time is a true
\* one, and where the floor stands, are facts about the network and the storage.
TimeInv == TypeOK /\ ClockWithinTime /\ StartsBelowFloor

LEMMA InitTimeInv == Init => TimeInv
<1> SUFFICES ASSUME Init PROVE TimeInv
  OBVIOUS
<1> USE EpochAssumption, ColdStartAssumption, BackoffAssumption
<1>1. EpochIdAt(StartTime) \in Epochs /\ EpochIdAt(StartTime) * EpochSecs <= StartTime
  BY EpochIdOf, EpochStart
<1>2. stored \in 0 .. EpochIdAt(StartTime) /\ stored \in Epochs
  BY <1>1 DEF Init, Epochs
<1>3. stored * EpochSecs <= StartTime
  <2>1. stored * EpochSecs <= EpochIdAt(StartTime) * EpochSecs
    BY <1>1, <1>2 DEF Epochs
  <2>2. stored * EpochSecs \in Int /\ EpochIdAt(StartTime) * EpochSecs \in Int
    BY <1>1, <1>2 DEF Epochs
  <2>3. QED
    BY <1>1, <2>1, <2>2
<1>4. /\ clock.valid = FALSE /\ clock.last_epoch = stored
      /\ clock = [valid |-> FALSE, last_epoch |-> stored, correction |-> 0,
                  next_request_at |-> -1, request_backoff |-> RequestBase]
  BY DEF Init, Clockless, AnyTime
<1>5. TypeOK
  <2>1. clock \in [valid : BOOLEAN, last_epoch : Epochs, correction : Int,
                   next_request_at : Int, request_backoff : RequestBase .. RequestMax]
    BY <1>2, <1>4
  <2>2. started \in Seq(Epochs) /\ asks \in Seq(0 .. MaxTime) /\ claims \in Seq(Tuples)
    BY DEF Init
  <2>3. pinned \in BOOLEAN
    BY DEF Init
  <2>4. time \in 0 .. MaxTime /\ raw \in 0 .. MaxTime /\ booted_at \in 0 .. MaxTime
        /\ boots \in 0 .. MaxBoots /\ announced \subseteq 0 .. MaxTime
    BY DEF Init
  <2>5. QED
    BY <1>2, <2>1, <2>2, <2>3, <2>4 DEF Init, TypeOK
<1>6. ClockWithinTime
  BY <1>3, <1>4 DEF Init, ClockWithinTime
<1>7. StartsBelowFloor
  BY <1>4 DEF Init, StartsBelowFloor
<1>8. QED
  BY <1>5, <1>6, <1>7 DEF TimeInv

\* What the node reads is a second of the modelled time.
LEMMA NodeTimeBounded ==
    ASSUME TimeInv, clock.valid
    PROVE  nodeTime \in 0 .. MaxTime /\ nodeTime \in 0 .. time
<1> USE EpochAssumption, ColdStartAssumption
<1>1. stored * EpochSecs \in Nat
  BY DEF TimeInv, TypeOK, Epochs
<1>2. nodeTime \in Int /\ time \in 0 .. MaxTime
  BY DEF TimeInv, TypeOK, nodeTime, Corrected
<1>3. QED
  BY <1>1, <1>2 DEF TimeInv, ClockWithinTime

LEMMA ElapseTimeInv == TimeInv /\ Elapse => TimeInv'
<1> SUFFICES ASSUME TimeInv, Elapse PROVE TimeInv'
  OBVIOUS
<1> USE ColdStartAssumption
<1> DEFINE floor == stored * EpochSecs
<1>1. /\ time' = time + 1 /\ raw' = raw + 1 /\ time < MaxTime
      /\ UNCHANGED <<clock, stored, pacer, announced, booted_at, pinned, started, asks,
                     claims, boots>>
  BY DEF Elapse
<1>2. time \in 0 .. MaxTime /\ raw \in 0 .. MaxTime /\ booted_at \in 0 .. MaxTime
      /\ clock.correction \in Int /\ announced \subseteq 0 .. time
      /\ floor \in Int
  BY EpochAssumption DEF TimeInv, TypeOK, ClockWithinTime, Epochs
<1>3. ClockWithinTime'
  <2>1. nodeTime' = nodeTime + 1 /\ nodeTime \in Int
    BY <1>1, <1>2 DEF nodeTime, Corrected
  <2>2. floor' = floor /\ floor <= time
        /\ (clock.valid => nodeTime <= time /\ floor <= nodeTime)
    BY <1>1 DEF TimeInv, ClockWithinTime
  <2>3. announced' \subseteq 0 .. time'
    BY <1>1, <1>2
  <2> HIDE DEF floor
  <2>4. floor' <= time' /\ (clock'.valid => nodeTime' <= time' /\ floor' <= nodeTime')
    BY <1>1, <1>2, <2>1, <2>2
  <2>5. booted_at' <= time' /\ raw' = time' - booted_at' /\ clock'.last_epoch = stored'
    BY <1>1, <1>2 DEF TimeInv, ClockWithinTime
  <2>6. QED
    BY <2>3, <2>4, <2>5 DEF ClockWithinTime, floor
<1>4. TypeOK'
  <2>1. time' \in 0 .. MaxTime /\ raw' \in 0 .. MaxTime
    BY <1>1, <1>2 DEF TimeInv, ClockWithinTime
  <2>2. QED
    BY <1>1, <2>1 DEF TimeInv, TypeOK
<1>5. StartsBelowFloor'
  BY <1>1 DEF TimeInv, StartsBelowFloor
<1>6. QED
  BY <1>3, <1>4, <1>5 DEF TimeInv

LEMMA RequestTimeInv == TimeInv /\ Request => TimeInv'
<1> SUFFICES ASSUME TimeInv, Request PROVE TimeInv'
  OBVIOUS
<1> USE BackoffAssumption
<1>1. /\ ~clock.valid /\ asks' = Append(asks, raw)
      /\ clock' = Requested(clock, raw)
      /\ UNCHANGED <<time, raw, stored, pacer, announced, booted_at, pinned, started,
                     claims, boots>>
  BY DEF Request, MayRequest
<1>2. clock \in [valid : BOOLEAN, last_epoch : Epochs, correction : Int,
                 next_request_at : Int, request_backoff : RequestBase .. RequestMax]
      /\ raw \in 0 .. MaxTime
  BY DEF TimeInv, TypeOK
<1>3. clock' \in [valid : BOOLEAN, last_epoch : Epochs, correction : Int,
                  next_request_at : Int, request_backoff : RequestBase .. RequestMax]
  <2>1. raw + clock.request_backoff \in Int
    BY <1>2, ColdStartAssumption
  <2>2. (IF 2 * clock.request_backoff < RequestMax
         THEN 2 * clock.request_backoff ELSE RequestMax) \in RequestBase .. RequestMax
    BY <1>2
  <2>3. QED
    BY <1>1, <1>2, <2>1, <2>2 DEF Requested
<1>4. clock'.valid = clock.valid /\ clock'.last_epoch = clock.last_epoch
  BY <1>1, <1>2 DEF Requested
<1>5. TypeOK'
  <2>1. asks' \in Seq(0 .. MaxTime)
    BY <1>1, <1>2 DEF TimeInv, TypeOK
  <2>2. QED
    BY <1>1, <1>3, <2>1 DEF TimeInv, TypeOK
<1>6. ClockWithinTime' /\ StartsBelowFloor'
  BY <1>1, <1>4 DEF TimeInv, ClockWithinTime, StartsBelowFloor
<1>7. QED
  BY <1>5, <1>6 DEF TimeInv

\* An announcement is a true time of the past, and it is accepted only above the floor,
\* which it then moves up.
LEMMA AcceptAnnounceEffect ==
    ASSUME TimeInv, NEW asserted, AcceptAnnounce(asserted)
    PROVE  /\ asserted \in 0 .. time /\ asserted \in 0 .. MaxTime
           /\ ~clock.valid /\ clock'.valid
           /\ nodeTime' = asserted
           /\ stored' = EpochIdAt(asserted) /\ clock'.last_epoch = stored'
           /\ stored <= stored'
           /\ stored' \in Epochs
           /\ stored' * EpochSecs <= asserted
<1>1. asserted \in 0 .. time /\ asserted \in 0 .. MaxTime
  BY DEF AcceptAnnounce, TimeInv, TypeOK, ClockWithinTime
<1>2. ~clock.valid /\ asserted > stored * EpochSecs
  BY DEF AcceptAnnounce, Accepts, Floor, TimeInv, ClockWithinTime
<1>3. clock \in [valid : BOOLEAN, last_epoch : Epochs, correction : Int,
                 next_request_at : Int, request_backoff : RequestBase .. RequestMax]
      /\ raw \in 0 .. MaxTime /\ raw' = raw
  BY DEF AcceptAnnounce, TimeInv, TypeOK
<1>4. clock'.valid /\ clock'.correction = asserted - raw
      /\ clock'.last_epoch = EpochIdAt(asserted) /\ stored' = clock'.last_epoch
  BY <1>3 DEF AcceptAnnounce, SetTo
<1>5. nodeTime' = asserted
  BY <1>1, <1>3, <1>4, ColdStartAssumption DEF nodeTime, Corrected
<1>6. EpochIdAt(asserted) \in Epochs /\ EpochIdAt(asserted) * EpochSecs <= asserted
  BY <1>1, EpochIdOf, EpochStart
<1>7. stored <= EpochIdAt(asserted)
  <2>1. stored \in Nat /\ stored * EpochSecs <= asserted
    <3>1. stored \in Nat
      BY EpochAssumption DEF TimeInv, TypeOK, Epochs
    <3>2. stored * EpochSecs \in Int /\ asserted \in Int
      BY <1>1, <3>1, EpochAssumption, ColdStartAssumption
    <3>3. QED
      BY <1>2, <3>1, <3>2
  <2>2. QED
    BY <1>1, <2>1, EpochStart
<1>8. QED
  BY <1>1, <1>2, <1>4, <1>5, <1>6, <1>7

LEMMA AcceptAnnounceTimeInv ==
    ASSUME TimeInv, NEW asserted, AcceptAnnounce(asserted)
    PROVE  TimeInv'
<1> USE BackoffAssumption
<1>1. /\ asserted \in 0 .. time /\ asserted \in 0 .. MaxTime
      /\ ~clock.valid /\ clock'.valid /\ nodeTime' = asserted
      /\ stored' = EpochIdAt(asserted) /\ clock'.last_epoch = stored'
      /\ stored <= stored' /\ stored' \in Epochs
      /\ stored' * EpochSecs <= asserted
  BY AcceptAnnounceEffect
<1>2. /\ started' = Append(started, stored')
      /\ pinned' = (pinned \/ asserted < booted_at)
      /\ clock' = SetTo(clock, asserted, raw)
      /\ UNCHANGED <<time, raw, pacer, announced, booted_at, asks, claims, boots>>
  BY <1>1 DEF AcceptAnnounce
<1>3. time \in 0 .. MaxTime /\ stored' * EpochSecs \in Int /\ stored \in Int
      /\ stored' \in Int /\ started \in Seq(Epochs)
  BY <1>1, EpochAssumption DEF TimeInv, TypeOK, Epochs
<1>4. TypeOK'
  <2>1. clock' \in [valid : BOOLEAN, last_epoch : Epochs, correction : Int,
                    next_request_at : Int, request_backoff : RequestBase .. RequestMax]
    <3>1. clock \in [valid : BOOLEAN, last_epoch : Epochs, correction : Int,
                     next_request_at : Int, request_backoff : RequestBase .. RequestMax]
      BY DEF TimeInv, TypeOK
    <3>2. asserted - raw \in Int /\ EpochIdAt(asserted) \in Epochs
          /\ RequestBase \in RequestBase .. RequestMax
      BY <1>1, ColdStartAssumption DEF TimeInv, TypeOK
    <3>3. QED
      BY <1>2, <3>1, <3>2 DEF SetTo
  <2>2. started' \in Seq(Epochs)
    BY <1>1, <1>2, <1>3
  <2>3. pinned' \in BOOLEAN
    BY <1>2
  <2>4. QED
    BY <1>1, <1>2, <2>1, <2>2, <2>3 DEF TimeInv, TypeOK
<1>5. ClockWithinTime'
  <2>1. stored' * EpochSecs <= time
    BY <1>1, <1>3
  <2>2. nodeTime' <= time
    BY <1>1, <1>3
  <2>3. QED
    BY <1>1, <1>2, <2>1, <2>2 DEF TimeInv, ClockWithinTime
<1>6. StartsBelowFloor'
  <2>1. /\ Len(started') = Len(started) + 1 /\ Len(started) \in Nat
        /\ started'[Len(started) + 1] = stored'
        /\ \A i \in 1 .. Len(started) : started'[i] = started[i] /\ started[i] \in Epochs
    BY <1>1, <1>2, <1>3
  <2>2. ASSUME NEW i \in 1 .. Len(started) PROVE started'[i] <= stored'
    <3>1. started'[i] = started[i] /\ started[i] <= stored
      BY <2>1 DEF TimeInv, StartsBelowFloor
    <3>2. started[i] \in Int
      BY <2>1, EpochAssumption DEF Epochs
    <3>3. QED
      BY <1>1, <1>3, <3>1, <3>2
  <2>3. \A i \in 1 .. Len(started') : started'[i] <= stored'
    BY <1>3, <2>1, <2>2
  <2>4. ASSUME NEW i \in 1 .. Len(started'), NEW j \in 1 .. Len(started'), i < j
        PROVE  started'[i] <= started'[j]
    <3>1. i \in 1 .. Len(started)
      BY <2>1, <2>4
    <3>2. CASE j = Len(started) + 1
      BY <2>1, <2>2, <3>1, <3>2
    <3>3. CASE j # Len(started) + 1
      <4>1. j \in 1 .. Len(started)
        BY <2>1, <3>3
      <4>2. QED
        BY <2>1, <2>4, <3>1, <4>1 DEF TimeInv, StartsBelowFloor
    <3>4. QED
      BY <3>2, <3>3
  <2>5. Len(started') > 0 /\ started'[Len(started')] = stored'
    BY <2>1
  <2>6. QED
    BY <2>3, <2>4, <2>5 DEF StartsBelowFloor
<1>7. QED
  BY <1>4, <1>5, <1>6 DEF TimeInv

LEMMA ClaimTimeInv == TimeInv /\ Claim => TimeInv'
<1> SUFFICES ASSUME TimeInv, Claim PROVE TimeInv'
  OBVIOUS
<1>1. /\ clock.valid
      /\ pacer' = Claimed(Moment(nodeTime))
      /\ claims' = Append(claims, Moment(nodeTime))
      /\ UNCHANGED <<time, raw, clock, stored, announced, booted_at, pinned, started, asks,
                     boots>>
  BY DEF Claim, Moment
<1>2. Moment(nodeTime) \in Tuples
  BY <1>1, NodeTimeBounded, MomentIs
<1>3. TypeOK'
  <2>1. pacer' \in [epoch : Epochs, last_offset : Offsets]
    BY <1>1, <1>2 DEF Claimed, Tuples
  <2>2. claims' \in Seq(Tuples)
    BY <1>1, <1>2 DEF TimeInv, TypeOK
  <2>3. QED
    BY <1>1, <2>1, <2>2 DEF TimeInv, TypeOK
<1>4. ClockWithinTime' /\ StartsBelowFloor'
  BY <1>1 DEF TimeInv, ClockWithinTime, StartsBelowFloor, nodeTime
<1>5. QED
  BY <1>3, <1>4 DEF TimeInv

LEMMA RebootTimeInv == TimeInv /\ Reboot => TimeInv'
<1> SUFFICES ASSUME TimeInv, Reboot PROVE TimeInv'
  OBVIOUS
<1> USE ColdStartAssumption, BackoffAssumption
<1>1. /\ time < MaxTime /\ time' = time + 1 /\ booted_at' = time + 1 /\ raw' = 0
      /\ clock' = [valid |-> FALSE, last_epoch |-> stored, correction |-> 0,
                   next_request_at |-> -1, request_backoff |-> RequestBase]
      /\ boots < MaxBoots /\ boots' = boots + 1
      /\ pacer' = NewPacer /\ asks' = <<>>
      /\ UNCHANGED <<stored, announced, pinned, started, claims>>
  BY DEF Reboot, Clockless, AnyTime
<1>2. time \in 0 .. MaxTime /\ stored \in Epochs /\ stored * EpochSecs \in Int
      /\ stored * EpochSecs <= time /\ announced \subseteq 0 .. time
      /\ boots \in 0 .. MaxBoots
  BY EpochAssumption DEF TimeInv, TypeOK, ClockWithinTime, Epochs
<1>3. TypeOK'
  <2>1. clock' \in [valid : BOOLEAN, last_epoch : Epochs, correction : Int,
                    next_request_at : Int, request_backoff : RequestBase .. RequestMax]
    BY <1>1, <1>2
  <2>2. time' \in 0 .. MaxTime /\ raw' \in 0 .. MaxTime /\ booted_at' \in 0 .. MaxTime
        /\ boots' \in 0 .. MaxBoots
    BY <1>1, <1>2
  <2>3. asks' \in Seq(0 .. MaxTime)
    BY <1>1
  <2>4. QED
    BY <1>1, <2>1, <2>2, <2>3 DEF TimeInv, TypeOK
<1>4. ClockWithinTime'
  <2>1. announced' \subseteq 0 .. time' /\ stored' * EpochSecs <= time'
    BY <1>1, <1>2
  <2>2. ~clock'.valid /\ clock'.last_epoch = stored'
    BY <1>1
  <2>3. QED
    BY <1>1, <1>2, <2>1, <2>2 DEF ClockWithinTime
<1>5. StartsBelowFloor'
  BY <1>1 DEF TimeInv, StartsBelowFloor
<1>6. QED
  BY <1>3, <1>4, <1>5 DEF TimeInv

LEMMA NextTimeInv == TimeInv /\ [Next]_vars => TimeInv'
<1> SUFFICES ASSUME TimeInv, [Next]_vars PROVE TimeInv'
  OBVIOUS
<1>1. CASE UNCHANGED vars
  BY <1>1 DEF vars, TimeInv, TypeOK, ClockWithinTime, StartsBelowFloor, nodeTime
<1>2. CASE Announce
  <2>1. /\ announced' = announced \cup {time}
        /\ UNCHANGED <<time, raw, clock, stored, pacer, booted_at, pinned, started, asks,
                       claims, boots>>
    BY <1>2 DEF Announce
  <2>2. announced' \subseteq 0 .. time /\ announced' \subseteq 0 .. MaxTime
    BY <2>1, ColdStartAssumption DEF TimeInv, TypeOK, ClockWithinTime
  <2>3. QED
    BY <2>1, <2>2 DEF TimeInv, TypeOK, ClockWithinTime, StartsBelowFloor, nodeTime
<1>3. ASSUME NEW asserted \in announced, RefuseAnnounce(asserted) PROVE TimeInv'
  BY <1>1, <1>3 DEF RefuseAnnounce
<1>4. QED
  BY <1>1, <1>2, <1>3, ElapseTimeInv, RequestTimeInv, AcceptAnnounceTimeInv,
     ClaimTimeInv, RebootTimeInv DEF Next

\* The invariant of the node's clock over any replay of announcements and any reboots.
THEOREM TimeInductive == Spec => []TimeInv
BY InitTimeInv, NextTimeInv, PTL DEF Spec

\* Every field of NodeClock and Pacer keeps its type: the epochs fit the u32, the offsets
\* their field, and the backoff stays between its base and its ceiling.
THEOREM TypeCorrect == Spec => []TypeOK
BY TimeInductive, PTL DEF TimeInv

\* accept_time_announce never sets the clock ahead of the true time, nor is a floor
\* persisted above it, whatever is replayed to whichever boot.
THEOREM NeverRunsAhead == Spec => []NeverAhead
<1>1. TimeInv => NeverAhead
  BY DEF TimeInv, ClockWithinTime, NeverAhead
<1>2. QED
  BY <1>1, TimeInductive, PTL

LEMMA FloorHolds == TimeInv => BootsNeverGoBack
<1> SUFFICES ASSUME TimeInv PROVE BootsNeverGoBack
  OBVIOUS
<1>1. \A i, j \in 1 .. Len(started) : i < j => started[i] <= started[j]
  BY DEF TimeInv, StartsBelowFloor
<1>2. ASSUME clock.valid
      PROVE  TupleAt(nodeTime * NanosPerSec).epoch >= started[Len(started)]
  <2>1. nodeTime \in 0 .. MaxTime /\ stored * EpochSecs <= nodeTime
        /\ started[Len(started)] = stored
    BY <1>2, NodeTimeBounded DEF TimeInv, ClockWithinTime, StartsBelowFloor
  <2>2. Moment(nodeTime).epoch = EpochIdAt(nodeTime) /\ EpochIdAt(nodeTime) \in Epochs
    BY <2>1, MomentIs, EpochIdOf
  <2>3. stored \in Nat
    BY EpochAssumption DEF TimeInv, TypeOK, Epochs
  <2>4. stored <= EpochIdAt(nodeTime)
    BY <2>1, <2>3, EpochStart
  <2>5. QED
    BY <2>1, <2>2, <2>3, <2>4, EpochAssumption DEF Moment, Epochs
<1>3. QED
  BY <1>1, <1>2 DEF BootsNeverGoBack

\* The persisted floor keeps every boot out of the epochs before those of earlier boots.
THEOREM NeverGoesBack == Spec => []BootsNeverGoBack
BY TimeInductive, FloorHolds, PTL

-----------------------------------------------------------------------------
UpTo(a, b) == a = b \/ Precedes(a, b)

\* Every claim lies at or before the true time, and a boot that has claimed nothing yet
\* began after all of them.
ClaimsInThePast ==
    /\ \A i \in 1 .. Len(claims) : UpTo(claims[i], Moment(time))
    /\ pacer = NewPacer =>
          \A i \in 1 .. Len(claims) : Precedes(claims[i], Moment(booted_at))

\* A Pacer that has claimed remembers its last claim, which its clock has not gone
\* back behind.
PacerFollows ==
    pacer # NewPacer =>
        /\ clock.valid
        /\ Len(claims) > 0
        /\ claims[Len(claims)] = [epoch |-> pacer.epoch, offset |-> pacer.last_offset]
        /\ UpTo(claims[Len(claims)], Moment(nodeTime))

\* Unless a boot was pinned to a time before it began, the node's clock is past the
\* start of its boot, and each claim past the earlier ones.
ClaimsIncrease ==
    ~pinned =>
        /\ clock.valid => booted_at <= nodeTime
        /\ \A i, j \in 1 .. Len(claims) : i < j => Precedes(claims[i], claims[j])

\* UniqueUnlessPinned is not inductive: that a claim repeats none of an earlier boot
\* follows only from where the clock of this boot may stand.
ClaimInv == TimeInv /\ ClaimsInThePast /\ PacerFollows /\ ClaimsIncrease

LEMMA InitClaimInv == Init => ClaimInv
BY InitTimeInv DEF Init, ClaimInv, ClaimsInThePast, PacerFollows, ClaimsIncrease, Clockless

LEMMA ClaimsTyped ==
    TimeInv => /\ claims \in Seq(Tuples)
               /\ \A i \in 1 .. Len(claims) : claims[i] \in Tuples
               /\ Moment(time) \in Tuples /\ Moment(booted_at) \in Tuples
               /\ clock.valid => Moment(nodeTime) \in Tuples
BY NodeTimeBounded, MomentIs DEF TimeInv, TypeOK

\* Steps that leave the claims, the Pacer and the node's clock alone.
LEMMA SameClaims ==
    ASSUME ClaimInv,
           UNCHANGED <<time, pacer, booted_at, claims, pinned>>,
           clock'.valid = clock.valid, nodeTime' = nodeTime
    PROVE  ClaimsInThePast' /\ PacerFollows' /\ ClaimsIncrease'
BY DEF ClaimInv, ClaimsInThePast, PacerFollows, ClaimsIncrease, Moment

LEMMA ElapseClaimInv ==
    ASSUME ClaimInv, Elapse
    PROVE  ClaimsInThePast' /\ PacerFollows' /\ ClaimsIncrease'
<1>1. /\ time' = time + 1 /\ raw' = raw + 1
      /\ UNCHANGED <<clock, stored, pacer, announced, booted_at, pinned, started, asks,
                     claims, boots>>
      /\ time \in 0 .. MaxTime /\ time + 1 \in 0 .. MaxTime
  BY ColdStartAssumption DEF Elapse, ClaimInv, TimeInv, TypeOK
<1>2. nodeTime' = nodeTime + 1
  BY <1>1, ColdStartAssumption
     DEF nodeTime, Corrected, ClaimInv, TimeInv, TypeOK
<1>3. /\ \A i \in 1 .. Len(claims) : claims[i] \in Tuples
      /\ Moment(time) \in Tuples /\ Moment(time + 1) \in Tuples
      /\ Precedes(Moment(time), Moment(time + 1))
  <2>1. time < time + 1
    BY <1>1, ColdStartAssumption
  <2>2. QED
    BY <1>1, <2>1, ClaimsTyped, MomentIs, MomentsOrdered DEF ClaimInv
<1>4. ClaimsInThePast'
  <2>1. \A i \in 1 .. Len(claims) : Precedes(claims[i], Moment(time + 1))
    BY <1>3, PrecedesTransitive DEF ClaimInv, ClaimsInThePast, UpTo
  <2>2. Moment(time)' = Moment(time + 1) /\ Moment(booted_at)' = Moment(booted_at)
    BY <1>1 DEF Moment
  <2>3. QED
    BY <1>1, <2>1, <2>2 DEF ClaimInv, ClaimsInThePast, UpTo
<1>5. PacerFollows'
  <2>1. SUFFICES ASSUME pacer # NewPacer PROVE PacerFollows'
    BY <1>1 DEF PacerFollows
  <2>2. /\ clock.valid /\ Len(claims) > 0
        /\ claims[Len(claims)] = [epoch |-> pacer.epoch, offset |-> pacer.last_offset]
        /\ UpTo(claims[Len(claims)], Moment(nodeTime))
    BY <2>1 DEF ClaimInv, PacerFollows
  <2>3. nodeTime \in 0 .. MaxTime /\ nodeTime + 1 \in 0 .. MaxTime /\ nodeTime < nodeTime + 1
    BY <1>1, <2>2, NodeTimeBounded, ColdStartAssumption DEF ClaimInv
  <2>4. /\ Moment(nodeTime) \in Tuples /\ Moment(nodeTime + 1) \in Tuples
        /\ Precedes(Moment(nodeTime), Moment(nodeTime + 1))
    BY <2>3, MomentIs, MomentsOrdered
  <2>5. claims[Len(claims)] \in Tuples
    BY <2>2, ClaimsTyped DEF ClaimInv
  <2>6. Precedes(claims[Len(claims)], Moment(nodeTime + 1))
    BY <2>2, <2>4, <2>5, PrecedesTransitive DEF UpTo
  <2>7. Moment(nodeTime)' = Moment(nodeTime + 1)
    BY <1>2 DEF Moment
  <2>8. QED
    BY <1>1, <2>2, <2>6, <2>7 DEF PacerFollows, UpTo
<1>6. ClaimsIncrease'
  <2>1. clock.valid => nodeTime \in 0 .. MaxTime
    BY NodeTimeBounded DEF ClaimInv
  <2>2. booted_at \in 0 .. MaxTime
    BY DEF ClaimInv, TimeInv, TypeOK
  <2>3. clock.valid /\ booted_at <= nodeTime => booted_at <= nodeTime + 1
    BY <2>1, <2>2, ColdStartAssumption
  <2>4. QED
    BY <1>1, <1>2, <2>3 DEF ClaimInv, ClaimsIncrease
<1>7. QED
  BY <1>4, <1>5, <1>6

LEMMA AcceptAnnounceClaimInv ==
    ASSUME ClaimInv, NEW asserted, AcceptAnnounce(asserted)
    PROVE  ClaimsInThePast' /\ PacerFollows' /\ ClaimsIncrease'
<1>1. /\ asserted \in 0 .. MaxTime /\ ~clock.valid /\ clock'.valid /\ nodeTime' = asserted
  BY AcceptAnnounceEffect DEF ClaimInv
<1>2. /\ pinned' = (pinned \/ asserted < booted_at)
      /\ UNCHANGED <<time, raw, pacer, announced, booted_at, asks, claims, boots>>
  BY DEF AcceptAnnounce
<1>3. pacer = NewPacer
  BY <1>1 DEF ClaimInv, PacerFollows
<1>4. ClaimsInThePast'
  BY <1>2 DEF ClaimInv, ClaimsInThePast, Moment
<1>5. PacerFollows'
  BY <1>2, <1>3 DEF PacerFollows
<1>6. ClaimsIncrease'
  <2>1. ~(asserted < booted_at) => booted_at <= asserted
    BY <1>1, ColdStartAssumption DEF ClaimInv, TimeInv, TypeOK
  <2>2. QED
    BY <1>1, <1>2, <2>1 DEF ClaimInv, ClaimsIncrease
<1>7. QED
  BY <1>4, <1>5, <1>6

\* A claim of a node that was never pinned lies after every earlier one, of this boot
\* and of those before.
LEMMA ClaimIsNew ==
    ASSUME ClaimInv, Claim, ~pinned
    PROVE  \A i \in 1 .. Len(claims) : Precedes(claims[i], Moment(nodeTime))
<1> DEFINE new == Moment(nodeTime)
<1>1. /\ clock.valid /\ MayClaim(pacer, new)
      /\ new \in Tuples /\ nodeTime \in 0 .. MaxTime
      /\ \A i \in 1 .. Len(claims) : claims[i] \in Tuples
      /\ Moment(booted_at) \in Tuples /\ booted_at \in 0 .. MaxTime
  <2>1. clock.valid /\ MayClaim(pacer, new)
    BY DEF Claim, Moment
  <2>2. booted_at \in 0 .. MaxTime
    BY DEF ClaimInv, TimeInv, TypeOK
  <2>3. QED
    BY <2>1, <2>2, ClaimsTyped, NodeTimeBounded DEF ClaimInv
<1> HIDE DEF new
<1>2. CASE pacer = NewPacer
  <2>1. \A i \in 1 .. Len(claims) : Precedes(claims[i], Moment(booted_at))
    BY <1>2 DEF ClaimInv, ClaimsInThePast
  <2>2. Moment(booted_at) = new \/ Precedes(Moment(booted_at), new)
    <3>1. booted_at = nodeTime \/ booted_at < nodeTime
      BY <1>1, ColdStartAssumption DEF ClaimInv, ClaimsIncrease
    <3>2. QED
      BY <1>1, <3>1, MomentsOrdered DEF new
  <2>3. \A i \in 1 .. Len(claims) : Precedes(claims[i], new)
    BY <1>1, <2>1, <2>2, PrecedesTransitive
  <2>4. QED
    BY <2>3 DEF new
<1>3. CASE pacer # NewPacer
  <2> DEFINE last == claims[Len(claims)]
  <2>1. /\ Len(claims) \in 1 .. Len(claims)
        /\ last = [epoch |-> pacer.epoch, offset |-> pacer.last_offset]
        /\ last \in Tuples /\ (last = new \/ Precedes(last, new))
    BY <1>1, <1>3, ClaimsTyped DEF ClaimInv, PacerFollows, UpTo, new
  <2>2. pacer.last_offset # NoClaim
    BY <2>1 DEF Tuples, Offsets, NoClaim
  <2>3. last # new
    <3>1. SUFFICES ASSUME last = new PROVE FALSE
      OBVIOUS
    <3>2. pacer.epoch = new.epoch /\ pacer.last_offset = new.offset /\ new.offset \in Int
      BY <1>1, <2>1, <3>1, EpochAssumption DEF Tuples, Offsets, TicksPerEpoch
    <3>3. QED
      BY <1>1, <2>2, <3>2 DEF MayClaim
  <2>4. ASSUME NEW i \in 1 .. Len(claims) PROVE Precedes(claims[i], new)
    <3>1. CASE i = Len(claims)
      BY <2>1, <2>3, <3>1
    <3>2. CASE i # Len(claims)
      <4>1. i < Len(claims)
        BY <2>1, <3>2
      <4>2. Precedes(claims[i], last)
        BY <2>1, <4>1 DEF ClaimInv, ClaimsIncrease
      <4>3. QED
        BY <1>1, <2>1, <2>3, <4>2, PrecedesTransitive
    <3>3. QED
      BY <3>1, <3>2
  <2>5. QED
    BY <2>4 DEF new
<1>4. QED
  BY <1>2, <1>3

LEMMA ClaimClaimInv ==
    ASSUME ClaimInv, Claim
    PROVE  ClaimsInThePast' /\ PacerFollows' /\ ClaimsIncrease'
<1> DEFINE new == Moment(nodeTime)
<1>1. /\ clock.valid
      /\ pacer' = [epoch |-> new.epoch, last_offset |-> new.offset]
      /\ claims' = Append(claims, new)
      /\ UNCHANGED <<time, raw, clock, stored, announced, booted_at, pinned, started, asks,
                     boots>>
  BY DEF Claim, Moment, Claimed
<1>2. /\ new \in Tuples /\ claims \in Seq(Tuples)
      /\ nodeTime' = nodeTime /\ nodeTime \in 0 .. time /\ nodeTime \in 0 .. MaxTime
      /\ time \in 0 .. MaxTime
  BY <1>1, ClaimsTyped, NodeTimeBounded DEF ClaimInv, TimeInv, TypeOK, nodeTime
<1>3. /\ Len(claims') = Len(claims) + 1 /\ Len(claims) \in Nat
      /\ claims'[Len(claims) + 1] = new
      /\ \A i \in 1 .. Len(claims) : claims'[i] = claims[i]
  BY <1>1, <1>2
<1>4. pacer' # NewPacer
  BY <1>1, <1>2, EpochAssumption DEF NewPacer, Tuples, Epochs, NoEpoch
<1>5. Moment(time)' = Moment(time) /\ Moment(nodeTime)' = new
  BY <1>1, <1>2 DEF Moment
<1>6. UpTo(new, Moment(time))
  <2>1. nodeTime = time \/ nodeTime < time
    BY <1>2
  <2>2. QED
    BY <1>2, <2>1, MomentsOrdered DEF UpTo
<1>7. ~pinned => \A i \in 1 .. Len(claims) : Precedes(claims[i], new)
  BY ClaimIsNew
<1> HIDE DEF new
<1>8. ClaimsInThePast'
  <2>1. \A i \in 1 .. Len(claims') : UpTo(claims'[i], Moment(time))
    BY <1>3, <1>6 DEF ClaimInv, ClaimsInThePast
  <2>2. QED
    BY <1>4, <1>5, <2>1 DEF ClaimsInThePast, UpTo
<1>9. PacerFollows'
  <2>1. new = [epoch |-> pacer'.epoch, offset |-> pacer'.last_offset]
    BY <1>1, <1>2 DEF Tuples
  <2>2. QED
    BY <1>1, <1>3, <1>5, <2>1 DEF PacerFollows, UpTo
<1>10. ClaimsIncrease'
  <2>1. SUFFICES ASSUME ~pinned,
                        NEW i \in 1 .. Len(claims'), NEW j \in 1 .. Len(claims'), i < j
                 PROVE  Precedes(claims'[i], claims'[j])
    BY <1>1, <1>2 DEF ClaimInv, ClaimsIncrease, Precedes
  <2>2. i \in 1 .. Len(claims)
    BY <1>3, <2>1
  <2>3. CASE j = Len(claims) + 1
    BY <1>3, <1>7, <2>1, <2>2, <2>3
  <2>4. CASE j # Len(claims) + 1
    <3>1. j \in 1 .. Len(claims)
      BY <1>3, <2>4
    <3>2. QED
      BY <1>3, <2>1, <2>2, <3>1 DEF ClaimInv, ClaimsIncrease
  <2>5. QED
    BY <2>3, <2>4
<1>11. QED
  BY <1>8, <1>9, <1>10

LEMMA RebootClaimInv ==
    ASSUME ClaimInv, Reboot
    PROVE  ClaimsInThePast' /\ PacerFollows' /\ ClaimsIncrease'
<1>1. /\ time < MaxTime /\ time' = time + 1 /\ booted_at' = time + 1
      /\ ~clock'.valid /\ pacer' = NewPacer
      /\ UNCHANGED <<pinned, claims>>
  BY DEF Reboot, Clockless
<1>2. time \in 0 .. MaxTime /\ time + 1 \in 0 .. MaxTime /\ time < time + 1
  BY <1>1, ColdStartAssumption DEF ClaimInv, TimeInv, TypeOK
<1>3. /\ \A i \in 1 .. Len(claims) : claims[i] \in Tuples
      /\ Moment(time) \in Tuples /\ Moment(time + 1) \in Tuples
      /\ Precedes(Moment(time), Moment(time + 1))
  BY <1>2, ClaimsTyped, MomentIs, MomentsOrdered DEF ClaimInv
<1>4. \A i \in 1 .. Len(claims) : Precedes(claims[i], Moment(time + 1))
  BY <1>3, PrecedesTransitive DEF ClaimInv, ClaimsInThePast, UpTo
<1>5. Moment(time)' = Moment(time + 1) /\ Moment(booted_at)' = Moment(time + 1)
  BY <1>1 DEF Moment
<1>6. ClaimsInThePast'
  BY <1>1, <1>4, <1>5 DEF ClaimsInThePast, UpTo
<1>7. PacerFollows'
  BY <1>1 DEF PacerFollows, NewPacer
<1>8. ClaimsIncrease'
  BY <1>1 DEF ClaimInv, ClaimsIncrease
<1>9. QED
  BY <1>6, <1>7, <1>8

LEMMA NextClaimInv == ClaimInv /\ [Next]_vars => ClaimInv'
<1> SUFFICES ASSUME ClaimInv, [Next]_vars
             PROVE  ClaimsInThePast' /\ PacerFollows' /\ ClaimsIncrease'
  BY NextTimeInv DEF ClaimInv
<1>1. CASE UNCHANGED vars
  <2>1. /\ UNCHANGED <<time, pacer, booted_at, claims, pinned>>
        /\ clock' = clock /\ nodeTime' = nodeTime
    BY <1>1 DEF vars, nodeTime
  <2>2. QED
    BY <2>1, SameClaims
<1>2. CASE Request
  <2>1. /\ clock \in [valid : BOOLEAN, last_epoch : Epochs, correction : Int,
                      next_request_at : Int, request_backoff : RequestBase .. RequestMax]
        /\ clock' = Requested(clock, raw) /\ raw' = raw
        /\ UNCHANGED <<time, pacer, booted_at, claims, pinned>>
    BY <1>2 DEF Request, ClaimInv, TimeInv, TypeOK
  <2>2. clock'.valid = clock.valid /\ clock'.correction = clock.correction
    BY <2>1 DEF Requested
  <2>3. QED
    BY <2>1, <2>2, SameClaims DEF nodeTime, Corrected
<1>3. CASE Announce
  <2>1. /\ UNCHANGED <<time, pacer, booted_at, claims, pinned>>
        /\ clock' = clock /\ nodeTime' = nodeTime
    BY <1>3 DEF Announce, nodeTime
  <2>2. QED
    BY <2>1, SameClaims
<1>4. ASSUME NEW asserted \in announced, RefuseAnnounce(asserted)
      PROVE  ClaimsInThePast' /\ PacerFollows' /\ ClaimsIncrease'
  BY <1>1, <1>4 DEF RefuseAnnounce
<1>5. QED
  BY <1>1, <1>2, <1>3, <1>4, ElapseClaimInv, AcceptAnnounceClaimInv, ClaimClaimInv,
     RebootClaimInv DEF Next

\* The invariant of the claims over all boots.
THEOREM ClaimsInductive == Spec => []ClaimInv
BY InitClaimInv, NextClaimInv, PTL DEF Spec

LEMMA IncreaseUnique == ClaimInv => UniqueUnlessPinned
<1> SUFFICES ASSUME ClaimInv, ~pinned,
                    NEW i \in 1 .. Len(claims), NEW j \in 1 .. Len(claims), i < j,
                    claims[i] = claims[j]
             PROVE  FALSE
  BY DEF UniqueUnlessPinned, NoTupleReuse
<1>1. Precedes(claims[i], claims[i]) /\ claims[i] \in Tuples
  BY ClaimsTyped DEF ClaimInv, ClaimsIncrease
<1>2. QED
  BY <1>1, EpochAssumption DEF Precedes, Tuples, Epochs, Offsets, TicksPerEpoch

\* The clock replaces persisted counters: over all boots no (epoch, offset) is claimed
\* twice, unless a boot took its time from an announcement older than itself.
THEOREM UniqueAcrossBoots == Spec => []UniqueUnlessPinned
BY ClaimsInductive, IncreaseUnique, PTL

-----------------------------------------------------------------------------
\* The series of intervals is longer by the one in force, which the NodeClock keeps
\* until it has a time, and its next request waits for the one before.
OnSchedule(d) ==
    /\ d \in Backoffs(Len(asks) + 1)
    /\ \A i \in 1 .. Len(asks) - 1 : asks[i + 1] - asks[i] >= d[i]
    /\ \A i \in 1 .. Len(asks) : asks[i] <= raw
    /\ ~clock.valid =>
          /\ clock.request_backoff = d[Len(asks) + 1]
          /\ asks = <<>> => clock.next_request_at <= raw
          /\ asks # <<>> => clock.next_request_at = asks[Len(asks)] + d[Len(asks)]

\* RequestsSpaced is not inductive: it leaves open which interval the clock holds.
BackoffInv == TypeOK /\ \E d : OnSchedule(d)

\* An interval, and the one that follows it.
Doubled(b) == IF 2 * b < RequestMax THEN 2 * b ELSE RequestMax

LEMMA BackoffsTyped ==
    ASSUME NEW n \in Nat, NEW d \in Backoffs(n)
    PROVE  /\ d \in [1 .. n -> RequestBase .. RequestMax]
           /\ \A i \in 1 .. n : d[i] \in Nat /\ d[i] <= RequestMax
BY BackoffAssumption DEF Backoffs

\* A series of intervals is continued by the doubled last.
LEMMA BackoffsGrow ==
    ASSUME NEW n \in Nat \ {0}, NEW d \in Backoffs(n)
    PROVE  [i \in 1 .. n + 1 |-> IF i \in 1 .. n THEN d[i] ELSE Doubled(d[n])]
               \in Backoffs(n + 1)
<1> USE BackoffAssumption
<1> DEFINE e == [i \in 1 .. n + 1 |-> IF i \in 1 .. n THEN d[i] ELSE Doubled(d[n])]
<1>1. d \in [1 .. n -> RequestBase .. RequestMax] /\ n \in 1 .. n
  BY BackoffsTyped
<1>2. Doubled(d[n]) \in RequestBase .. RequestMax
  <2>1. d[n] \in RequestBase .. RequestMax
    BY <1>1
  <2>2. QED
    BY <2>1 DEF Doubled
<1>3. e \in [1 .. n + 1 -> RequestBase .. RequestMax]
  BY <1>1, <1>2
<1>4. ASSUME NEW i \in 1 .. n + 1
      PROVE  e[i] = IF i = 1 THEN RequestBase ELSE Doubled(e[i - 1])
  <2>1. CASE i \in 1 .. n
    <3>1. e[i] = d[i] /\ (i # 1 => i - 1 \in 1 .. n /\ e[i - 1] = d[i - 1])
      BY <2>1
    <3>2. QED
      BY <2>1, <3>1 DEF Backoffs, Doubled
  <2>2. CASE i \notin 1 .. n
    <3>1. i = n + 1 /\ i # 1 /\ i - 1 = n /\ i - 1 \in 1 .. n + 1
      BY <2>2
    <3>2. e[i] = Doubled(d[n]) /\ e[n] = d[n]
      BY <1>1, <2>2, <3>1
    <3>3. QED
      BY <3>1, <3>2
  <2>3. QED
    BY <2>1, <2>2
<1> HIDE DEF e
<1>5. e \in Backoffs(n + 1)
  BY <1>3, <1>4 DEF Backoffs, Doubled
<1>6. QED
  BY <1>5 DEF e

\* The series of a boot that has asked nothing yet.
Fresh == [i \in 1 .. 1 |-> RequestBase]

LEMMA FreshTyped == Fresh \in Backoffs(1) /\ Fresh[1] = RequestBase
BY BackoffAssumption DEF Fresh, Backoffs

LEMMA InitBackoff == Init => OnSchedule(Fresh)
<1> SUFFICES ASSUME Init PROVE OnSchedule(Fresh)
  OBVIOUS
<1>1. asks = <<>> /\ clock.request_backoff = RequestBase /\ clock.next_request_at <= raw
  BY DEF Init, Clockless, AnyTime
<1>2. Len(asks) + 1 = 1 /\ 1 .. Len(asks) = {} /\ 1 .. Len(asks) - 1 = {}
  BY <1>1
<1>3. QED
  BY <1>1, <1>2, FreshTyped DEF OnSchedule

LEMMA RebootBackoff == Reboot => OnSchedule(Fresh)'
<1> SUFFICES ASSUME Reboot PROVE OnSchedule(Fresh)'
  OBVIOUS
<1>1. /\ asks' = <<>> /\ clock'.request_backoff = RequestBase
      /\ clock'.next_request_at = -1 /\ raw' = 0
  BY DEF Reboot, Clockless, AnyTime
<1>2. clock'.next_request_at <= raw' /\ Len(asks') + 1 = 1
      /\ 1 .. Len(asks') = {} /\ 1 .. Len(asks') - 1 = {}
  BY <1>1
<1>3. Fresh' = Fresh
  BY DEF Fresh
<1>4. QED
  BY <1>1, <1>2, <1>3, FreshTyped DEF OnSchedule

LEMMA ElapseBackoff ==
    ASSUME TypeOK, NEW d, OnSchedule(d), Elapse
    PROVE  OnSchedule(d)'
<1>1. raw' = raw + 1 /\ UNCHANGED <<clock, asks>>
  BY DEF Elapse
<1>2. raw \in Int /\ \A i \in 1 .. Len(asks) : asks[i] \in Int
  BY ColdStartAssumption DEF TypeOK
<1>3. clock.next_request_at \in Int
  BY DEF TypeOK
<1>4. QED
  BY <1>1, <1>2, <1>3 DEF OnSchedule

LEMMA RequestBackoff ==
    ASSUME TypeOK, NEW d, OnSchedule(d), Request
    PROVE  \E e : OnSchedule(e)'
<1> USE BackoffAssumption, ColdStartAssumption
<1> DEFINE n == Len(asks)
<1>1. /\ ~clock.valid /\ raw >= clock.next_request_at
      /\ clock' = Requested(clock, raw) /\ asks' = Append(asks, raw) /\ raw' = raw
  BY DEF Request, MayRequest
<1>2. /\ n \in Nat /\ raw \in Nat /\ asks \in Seq(0 .. MaxTime)
      /\ \A i \in 1 .. n : asks[i] \in Int
      /\ clock \in [valid : BOOLEAN, last_epoch : Epochs, correction : Int,
                    next_request_at : Int, request_backoff : RequestBase .. RequestMax]
  BY DEF TypeOK
<1>3. /\ d \in Backoffs(n + 1) /\ \A i \in 1 .. n + 1 : d[i] \in Nat
      /\ clock.request_backoff = d[n + 1]
  BY <1>1, <1>2, BackoffsTyped DEF OnSchedule
<1>4. /\ clock'.next_request_at = raw + d[n + 1]
      /\ clock'.request_backoff = Doubled(d[n + 1])
  BY <1>1, <1>2, <1>3 DEF Requested, Doubled
<1>5. /\ Len(asks') = n + 1 /\ asks'[n + 1] = raw /\ asks' # <<>>
      /\ \A i \in 1 .. n : asks'[i] = asks[i]
  BY <1>1, <1>2
<1>6. PICK e : /\ e \in Backoffs(n + 2)
               /\ \A i \in 1 .. n + 1 : e[i] = d[i]
               /\ e[n + 2] = Doubled(d[n + 1])
  <2> DEFINE f == [i \in 1 .. n + 2 |-> IF i \in 1 .. n + 1 THEN d[i] ELSE Doubled(d[n + 1])]
  <2>1. n + 1 \in Nat \ {0} /\ (n + 1) + 1 = n + 2
    BY <1>2
  <2>2. f \in Backoffs(n + 2)
    BY <1>3, <2>1, BackoffsGrow
  <2>3. (\A i \in 1 .. n + 1 : f[i] = d[i]) /\ f[n + 2] = Doubled(d[n + 1])
    BY <1>2
  <2>4. QED
    BY <2>2, <2>3
<1> HIDE DEF n
<1>7. ASSUME NEW i \in 1 .. n PROVE asks'[i + 1] - asks'[i] >= e[i]
  <2>1. CASE i = n
    <3>1. asks[n] \in Int /\ d[n] \in Nat /\ e[n] = d[n] /\ n > 0
      BY <1>2, <1>3, <1>6, <2>1
    <3>2. asks # <<>>
      BY <3>1 DEF n
    <3>3. raw >= asks[n] + d[n]
      BY <1>1, <3>2 DEF OnSchedule, n
    <3>4. QED
      BY <1>2, <1>5, <2>1, <3>1, <3>3
  <2>2. CASE i # n
    <3>1. i \in 1 .. n - 1 /\ i + 1 \in 1 .. n /\ i \in 1 .. n + 1
      BY <1>2, <2>2
    <3>2. asks[i + 1] - asks[i] >= d[i]
      BY <3>1 DEF OnSchedule, n
    <3>3. QED
      BY <1>5, <1>6, <3>1, <3>2
  <2>3. QED
    BY <2>1, <2>2
<1>8. \A i \in 1 .. n + 1 : asks'[i] <= raw
  <2>1. \A i \in 1 .. n : asks[i] <= raw
    BY DEF OnSchedule, n
  <2>2. QED
    BY <1>2, <1>5, <2>1
<1>9. OnSchedule(e)'
  <2>1. (n + 1) + 1 = n + 2 /\ (n + 1) - 1 = n /\ n + 1 \in 1 .. n + 1
    BY <1>2
  <2>2. e[n + 1] = d[n + 1]
    BY <1>6, <2>1
  <2>3. QED
    BY <1>1, <1>4, <1>5, <1>6, <1>7, <1>8, <2>1, <2>2 DEF OnSchedule
<1>10. QED
  BY <1>9

LEMMA NextBackoff ==
    ASSUME TypeOK, NEW d, OnSchedule(d), [Next]_vars
    PROVE  (\E e : OnSchedule(e))'
<1>1. CASE UNCHANGED <<raw, clock, asks>>
  <2>1. OnSchedule(d)'
    BY <1>1 DEF OnSchedule
  <2>2. QED
    BY <2>1
<1>2. ASSUME NEW asserted \in announced, AcceptAnnounce(asserted)
      PROVE  (\E e : OnSchedule(e))'
  <2>1. clock'.valid /\ UNCHANGED <<raw, asks>>
    BY <1>2 DEF AcceptAnnounce, SetTo, TypeOK
  <2>2. OnSchedule(d)'
    BY <2>1 DEF OnSchedule
  <2>3. QED
    BY <2>2
<1>3. QED
  BY <1>1, <1>2, ElapseBackoff, RequestBackoff, RebootBackoff
     DEF Next, vars, Announce, RefuseAnnounce, Claim

\* The invariant of the backoff over the requests of each boot.
THEOREM BackoffInductive == Spec => []BackoffInv
<1>1. Init => BackoffInv
  BY InitBackoff, InitTimeInv DEF BackoffInv, TimeInv
<1>2. BackoffInv /\ TypeOK' /\ [Next]_vars => BackoffInv'
  BY NextBackoff DEF BackoffInv
<1>3. QED
  BY <1>1, <1>2, TypeCorrect, PTL DEF Spec

LEMMA ScheduleSpaced == BackoffInv => RequestsSpaced
<1> SUFFICES ASSUME TypeOK, NEW d, OnSchedule(d) PROVE RequestsSpaced
  BY DEF BackoffInv
<1> USE BackoffAssumption, ColdStartAssumption
<1> DEFINE n == Len(asks)
           e == [i \in 1 .. n |-> d[i]]
<1>1. n \in Nat /\ raw \in Int /\ (\A i \in 1 .. n : asks[i] \in Int)
      /\ clock.next_request_at \in Int
  BY DEF TypeOK
<1>2. d \in [1 .. n + 1 -> RequestBase .. RequestMax]
      /\ \A i \in 1 .. n + 1 : d[i] \in Nat
  BY <1>1, BackoffsTyped DEF OnSchedule
<1>3. e \in [1 .. n -> RequestBase .. RequestMax] /\ \A i \in 1 .. n : e[i] = d[i]
  BY <1>1, <1>2
<1> HIDE DEF e
<1>4. e \in Backoffs(n)
  <2>1. ASSUME NEW i \in 1 .. n
        PROVE  e[i] = IF i = 1 THEN RequestBase ELSE Doubled(e[i - 1])
    <3>1. i \in 1 .. n + 1 /\ (i # 1 => i - 1 \in 1 .. n)
      BY <1>1
    <3>2. d[i] = IF i = 1 THEN RequestBase ELSE Doubled(d[i - 1])
      BY <1>1, <3>1 DEF OnSchedule, Backoffs, Doubled
    <3>3. QED
      BY <1>3, <3>1, <3>2
  <2>2. QED
    BY <1>3, <2>1 DEF Backoffs, Doubled
<1>5. \A i \in 1 .. n - 1 : asks[i + 1] - asks[i] >= e[i]
  BY <1>1, <1>3 DEF OnSchedule
<1>6. ~clock.valid => clock.next_request_at <= raw + (IF asks = <<>> THEN 0 ELSE e[n])
  <2>1. SUFFICES ASSUME ~clock.valid, asks # <<>> PROVE clock.next_request_at <= raw + e[n]
    BY <1>1 DEF OnSchedule
  <2>2. n \in 1 .. n
    BY <1>1, <2>1 DEF TypeOK
  <2>3. clock.next_request_at = asks[n] + d[n] /\ asks[n] <= raw
    BY <2>1, <2>2 DEF OnSchedule
  <2>4. QED
    BY <1>1, <1>2, <1>3, <2>2, <2>3
<1>7. QED
  BY <1>4, <1>5, <1>6 DEF RequestsSpaced

\* record_time_request neither floods the collector nor falls silent: the requests of a
\* boot keep the doubling intervals, and the next one is never further off than the last.
THEOREM BackoffKept == Spec => []RequestsSpaced
BY BackoffInductive, ScheduleSpaced, PTL
=============================================================================
