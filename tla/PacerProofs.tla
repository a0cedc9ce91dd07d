----------------------------- MODULE PacerProofs -----------------------------
(***************************************************************************)
(* Pacer, for every length of epoch, tick and clock unit: as long as the   *)
(* clock is not taken back over the claims already made (neither of the    *)
(* Rewind constants is TRUE), no (epoch, offset) is handed out twice.      *)
(***************************************************************************)
EXTENDS Pacer, TLAPS

\* Every number is a multiple of n and a remainder below n.
LEMMA Division ==
    ASSUME NEW n \in Nat \ {0}, NEW a \in Int
    PROVE  /\ a \div n \in Int
           /\ a % n \in 0 .. n - 1
           /\ a = n * (a \div n) + (a % n)
OBVIOUS

\* Writing a number as a multiple of n and a rest below n determines both.
LEMMA DivisionUnique ==
    ASSUME NEW n \in Nat \ {0}, NEW a \in Int, NEW k \in Int,
           NEW r \in 0 .. n - 1, a = n * k + r
    PROVE  a \div n = k /\ a % n = r
OBVIOUS

\* The quotient of a natural number below m * n is a natural number below m.
LEMMA QuotientBounded ==
    ASSUME NEW n \in Nat \ {0}, NEW m \in Nat, NEW a \in Nat, a < m * n
    PROVE  a \div n \in 0 .. m - 1
OBVIOUS

\* A step of one: either the quotient stays and the remainder grows by one, or
\* the quotient grows by one and the remainder starts again at 0.
LEMMA DivisionStep ==
    ASSUME NEW n \in Nat \ {0}, NEW a \in Nat
    PROVE  \/ /\ (a + 1) \div n = a \div n
              /\ (a + 1) % n = (a % n) + 1
           \/ /\ (a + 1) \div n = a \div n + 1
              /\ (a + 1) % n = 0
              /\ a % n = n - 1
OBVIOUS

\* The whole reading of a clock, in seconds: below EpochSpace * EpochSecs, so that
\* its epoch fits the u32 and the cast of epoch_id_at drops nothing.
Readings == 0 .. MaxNow

LEMMA SecsBounded ==
    ASSUME NEW t \in Readings
    PROVE  /\ t \div NanosPerSec \in Nat
           /\ t % NanosPerSec \in 0 .. NanosPerSec - 1
           /\ (t \div NanosPerSec) \div EpochSecs \in Epochs
<1> USE EpochAssumption, PacerAssumption
<1> DEFINE secs == t \div NanosPerSec
<1>1. t \in Nat /\ NanosPerSec \in Nat \ {0} /\ EpochSecs \in Nat \ {0}
  BY DEF Readings
<1>2. EpochSpace * EpochSecs \in Nat
  OBVIOUS
<1>3. t < (EpochSpace * EpochSecs) * NanosPerSec
  BY DEF Readings
<1>4. secs \in 0 .. (EpochSpace * EpochSecs) - 1
  BY <1>1, <1>2, <1>3, QuotientBounded
<1> HIDE DEF secs
<1>5. secs \in Nat /\ secs < EpochSpace * EpochSecs
  BY <1>2, <1>4
<1>6. secs \div EpochSecs \in 0 .. EpochSpace - 1
  BY <1>5, QuotientBounded
<1>7. t % NanosPerSec \in 0 .. NanosPerSec - 1
  BY <1>1, Division
<1>8. QED
  BY <1>5, <1>6, <1>7 DEF secs, Epochs

\* Within the modelled time the epoch is the plain quotient.
LEMMA EpochOfReading ==
    ASSUME NEW t \in Readings
    PROVE  /\ TupleAt(t).epoch = (t \div NanosPerSec) \div EpochSecs
           /\ TupleAt(t).epoch \in Epochs
<1> USE EpochAssumption
<1> DEFINE e == (t \div NanosPerSec) \div EpochSecs
<1>1. e \in Epochs
  BY SecsBounded
<1> HIDE DEF e
<1>2. e = EpochSpace * 0 + e /\ e \in 0 .. EpochSpace - 1 /\ e \in Int
  BY <1>1 DEF Epochs
<1>3. e % EpochSpace = e
  BY <1>2, DivisionUnique
<1>4. QED
  BY <1>1, <1>3 DEF TupleAt, EpochIdAt, e

\* The ticks of the fraction of a second are less than a second's.
LEMMA TicksOfNanos ==
    ASSUME NEW x \in 0 .. NanosPerSec - 1
    PROVE  (x * TicksPerSec) \div NanosPerSec \in 0 .. TicksPerSec - 1
<1> USE EpochAssumption
<1>1. x * TicksPerSec \in Nat /\ x * TicksPerSec < TicksPerSec * NanosPerSec
  <2>1. x + 1 <= NanosPerSec
    OBVIOUS
  <2>2. (x + 1) * TicksPerSec <= NanosPerSec * TicksPerSec
    BY <2>1
  <2>3. QED
    BY <2>2
<1>2. QED
  BY <1>1, QuotientBounded

\* A later fraction has at least as many ticks.
LEMMA TicksMonotone ==
    ASSUME NEW x \in Nat
    PROVE  (x * TicksPerSec) \div NanosPerSec
               <= ((x + 1) * TicksPerSec) \div NanosPerSec
<1> USE EpochAssumption
<1> DEFINE a == x * TicksPerSec
           b == (x + 1) * TicksPerSec
           p == a \div NanosPerSec
           q == b \div NanosPerSec
           r == a % NanosPerSec
           s == b % NanosPerSec
<1>1. a \in Int /\ b \in Int /\ a <= b
  OBVIOUS
<1> HIDE DEF a, b
<1>2. p \in Int /\ r \in 0 .. NanosPerSec - 1 /\ a = NanosPerSec * p + r
  BY <1>1, Division
<1>3. q \in Int /\ s \in 0 .. NanosPerSec - 1 /\ b = NanosPerSec * q + s
  BY <1>1, Division
<1> HIDE DEF p, q, r, s
<1>4. SUFFICES ASSUME q + 1 <= p PROVE FALSE
  BY <1>2, <1>3 DEF p, q, a, b
<1>5. NanosPerSec * (q + 1) <= NanosPerSec * p
  BY <1>2, <1>3, <1>4
<1>6. QED
  BY <1>1, <1>2, <1>3, <1>5

\* The final reduction of epoch_offset_at is the identity: the offset is the whole
\* ticks into the epoch.
LEMMA OffsetOfReading ==
    ASSUME NEW t \in Readings
    PROVE  /\ TupleAt(t).offset =
                 ((t \div NanosPerSec) % EpochSecs) * TicksPerSec
                     + ((t % NanosPerSec) * TicksPerSec) \div NanosPerSec
           /\ TupleAt(t).offset \in Offsets
<1> USE EpochAssumption
<1> DEFINE s == (t \div NanosPerSec) % EpochSecs
           x == ((t % NanosPerSec) * TicksPerSec) \div NanosPerSec
           o == s * TicksPerSec + x
<1>1. s \in 0 .. EpochSecs - 1
  <2>1. t \div NanosPerSec \in Int
    BY SecsBounded
  <2>2. QED
    BY <2>1, Division
<1>2. x \in 0 .. TicksPerSec - 1
  BY SecsBounded, TicksOfNanos
<1> HIDE DEF s, x
<1>3. o \in 0 .. (EpochSecs * TicksPerSec) - 1
  <2>1. s + 1 <= EpochSecs
    BY <1>1
  <2>2. (s + 1) * TicksPerSec <= EpochSecs * TicksPerSec
    BY <1>1, <2>1
  <2>3. s * TicksPerSec \in Nat
    BY <1>1
  <2>4. QED
    BY <1>1, <1>2, <2>2, <2>3
<1> HIDE DEF o
<1>4. TicksPerEpoch \in Nat \ {0} /\ TicksPerEpoch = EpochSecs * TicksPerSec
  BY DEF TicksPerEpoch
<1>5. o = TicksPerEpoch * 0 + o /\ o \in 0 .. TicksPerEpoch - 1 /\ o \in Int
  BY <1>3, <1>4
<1>6. o % TicksPerEpoch = o
  BY <1>4, <1>5, DivisionUnique
<1>7. QED
  BY <1>5, <1>6 DEF TupleAt, EpochOffsetAt, Offsets, o, s, x
\* When the clock advances, the position it stands for stays or advances: within
\* a second, to the next second, and over the end of an epoch.
LEMMA TupleStep ==
    ASSUME NEW t \in Readings, t + 1 \in Readings
    PROVE  TupleAt(t + 1) = TupleAt(t) \/ Precedes(TupleAt(t), TupleAt(t + 1))
<1> USE EpochAssumption
<1> DEFINE secs == t \div NanosPerSec
           next == (t + 1) \div NanosPerSec
           x == t % NanosPerSec
           y == (t + 1) % NanosPerSec
           ticks(n) == (n * TicksPerSec) \div NanosPerSec
           a == TupleAt(t)
           b == TupleAt(t + 1)
<1>1. /\ secs \in Nat /\ next \in Nat
      /\ x \in 0 .. NanosPerSec - 1 /\ y \in 0 .. NanosPerSec - 1
  BY SecsBounded
<1>2. \/ next = secs /\ y = x + 1
      \/ next = secs + 1 /\ y = 0 /\ x = NanosPerSec - 1
  <2>1. t \in Nat /\ NanosPerSec \in Nat \ {0}
    BY PacerAssumption DEF Readings
  <2>2. QED
    BY <2>1, DivisionStep
<1>3. /\ a.epoch = secs \div EpochSecs
      /\ b.epoch = next \div EpochSecs
      /\ a.offset = (secs % EpochSecs) * TicksPerSec + ticks(x)
      /\ b.offset = (next % EpochSecs) * TicksPerSec + ticks(y)
      /\ a.epoch \in Epochs /\ b.epoch \in Epochs
      /\ a.offset \in Offsets /\ b.offset \in Offsets
  BY EpochOfReading, OffsetOfReading
<1>4. a = [epoch |-> a.epoch, offset |-> a.offset]
      /\ b = [epoch |-> b.epoch, offset |-> b.offset]
  BY DEF TupleAt
<1>5. ticks(x) \in 0 .. TicksPerSec - 1 /\ ticks(y) \in 0 .. TicksPerSec - 1
  BY <1>1, TicksOfNanos
<1>6. secs % EpochSecs \in 0 .. EpochSecs - 1
  <2>1. secs \in Int
    BY <1>1
  <2>2. QED
    BY <2>1, Division
<1>7. CASE next = secs /\ y = x + 1
  <2>1. ticks(x) <= ticks(y)
    BY <1>1, <1>7, TicksMonotone
  <2> HIDE DEF ticks, a, b, secs, next, x, y
  <2>2. a.epoch = b.epoch /\ (a.offset = b.offset \/ a.offset < b.offset)
    BY <1>3, <1>5, <1>6, <1>7, <2>1
  <2>3. QED
    BY <1>4, <2>2 DEF Precedes, a, b
<1>8. CASE next = secs + 1 /\ y = 0 /\ x = NanosPerSec - 1
  <2>1. \/ /\ next \div EpochSecs = secs \div EpochSecs
           /\ next % EpochSecs = (secs % EpochSecs) + 1
        \/ next \div EpochSecs = secs \div EpochSecs + 1
    BY <1>1, <1>8, DivisionStep
  <2> HIDE DEF ticks, a, b, secs, next, x, y
  <2>2. CASE /\ next \div EpochSecs = secs \div EpochSecs
             /\ next % EpochSecs = (secs % EpochSecs) + 1
    <3>1. ((secs % EpochSecs) + 1) * TicksPerSec
             = (secs % EpochSecs) * TicksPerSec + TicksPerSec
      BY <1>6
    <3>2. (secs % EpochSecs) * TicksPerSec \in Int
      BY <1>6
    <3>3. a.epoch = b.epoch /\ a.offset < b.offset
      BY <1>3, <1>5, <2>2, <3>1, <3>2
    <3>4. QED
      BY <3>3 DEF Precedes, a, b
  <2>3. CASE next \div EpochSecs = secs \div EpochSecs + 1
    <3>1. a.epoch < b.epoch
      BY <1>3, <2>3 DEF Epochs
    <3>2. QED
      BY <3>1 DEF Precedes, a, b
  <2>4. QED
    BY <2>1, <2>2, <2>3
<1>9. QED
  BY <1>2, <1>7, <1>8

\* What a clock reads is a position of the protocol: an epoch that fits the u32 and
\* an offset that fits its field.
LEMMA TupleInTuples ==
    ASSUME NEW t \in Readings
    PROVE  TupleAt(t) \in Tuples
BY EpochOfReading, OffsetOfReading DEF TupleAt, Tuples

-----------------------------------------------------------------------------
LEMMA InitTypeOK == Init => TypeOK
<1> SUFFICES ASSUME Init PROVE TypeOK
  OBVIOUS
<1>1. claims \in Seq(Tuples)
  BY DEF Init
<1>2. pacer = NewPacer /\ refused = FALSE /\ now \in 0 .. MaxNow
  BY DEF Init
<1>3. backsteps \in 0 .. MaxBacksteps /\ restarts \in 0 .. MaxRestarts
  BY PacerAssumption DEF Init
<1>4. QED
  BY <1>1, <1>2, <1>3 DEF TypeOK

LEMMA NextTypeOK == TypeOK /\ [Next]_vars => TypeOK'
<1> SUFFICES ASSUME TypeOK, [Next]_vars PROVE TypeOK'
  OBVIOUS
<1> USE PacerAssumption DEF TypeOK
<1>1. CASE Tick
  BY <1>1 DEF Tick
<1>2. ASSUME NEW t \in 0 .. MaxNow, StepBack(t) PROVE TypeOK'
  BY <1>2 DEF StepBack
<1>3. CASE Claim
  <2>1. TupleAt(now) \in Tuples
    BY TupleInTuples DEF Readings
  <2>2. /\ pacer' = [epoch |-> TupleAt(now).epoch, last_offset |-> TupleAt(now).offset]
        /\ claims' = Append(claims, TupleAt(now))
        /\ refused' = FALSE
        /\ UNCHANGED <<now, backsteps, restarts>>
    BY <1>3 DEF Claim, Claimed
  <2>3. pacer' \in [epoch : Epochs, last_offset : Offsets]
    BY <2>1, <2>2 DEF Tuples
  <2>4. claims' \in Seq(Tuples)
    BY <2>1, <2>2
  <2>5. QED
    BY <2>2, <2>3, <2>4
<1>4. CASE Shed
  BY <1>4 DEF Shed
<1>5. CASE Restart
  <2>1. restarts' \in 0 .. MaxRestarts
    BY <1>5 DEF Restart
  <2>2. pacer' = NewPacer /\ refused' = FALSE /\ UNCHANGED <<now, claims, backsteps>>
    BY <1>5 DEF Restart
  <2>3. QED
    BY <2>1, <2>2
<1>6. CASE UNCHANGED vars
  BY <1>6 DEF vars
<1>7. QED
  BY <1>1, <1>2, <1>3, <1>4, <1>5, <1>6 DEF Next

\* Type correctness, whatever the clock does: claim never hands out an offset that
\* does not fit the 19-bit field.
THEOREM TypeCorrect == Spec => []TypeOK
BY InitTypeOK, NextTypeOK, PTL DEF Spec

-----------------------------------------------------------------------------
\* The Pacer remembers its last claim, until the process restarts.
Remembers ==
    IF pacer.epoch = NoEpoch
    THEN pacer = NewPacer
    ELSE /\ Len(claims) > 0
         /\ claims[Len(claims)] =
                [epoch |-> pacer.epoch, offset |-> pacer.last_offset]

LEMMA NextRemembers == TypeOK /\ Remembers /\ [Next]_vars => Remembers'
<1> SUFFICES ASSUME TypeOK, Remembers, [Next]_vars PROVE Remembers'
  OBVIOUS
<1>1. CASE Tick
  BY <1>1 DEF Tick, Remembers
<1>2. ASSUME NEW t \in 0 .. MaxNow, StepBack(t) PROVE Remembers'
  BY <1>2 DEF StepBack, Remembers
<1>3. CASE Claim
  <2>1. TupleAt(now) \in Tuples
    BY TupleInTuples DEF Readings, TypeOK
  <2>2. /\ pacer' = [epoch |-> TupleAt(now).epoch, last_offset |-> TupleAt(now).offset]
        /\ claims' = Append(claims, TupleAt(now))
    BY <1>3 DEF Claim, Claimed
  <2>3. Len(claims') > 0 /\ claims'[Len(claims')] = TupleAt(now)
    BY <2>1, <2>2 DEF TypeOK
  <2>4. pacer'.epoch # NoEpoch
    BY <2>1, <2>2 DEF Tuples, Epochs, NoEpoch
  <2>5. QED
    BY <2>1, <2>2, <2>3, <2>4 DEF Remembers, Tuples
<1>4. CASE Shed
  BY <1>4 DEF Shed, Remembers
<1>5. CASE Restart
  BY <1>5 DEF Restart, Remembers, NewPacer
<1>6. CASE UNCHANGED vars
  BY <1>6 DEF vars, Remembers
<1>7. QED
  BY <1>1, <1>2, <1>3, <1>4, <1>5, <1>6 DEF Next

LEMMA ShedJustified == TypeOK /\ Remembers => ShedsOnlyOnConflict
<1> SUFFICES ASSUME TypeOK, Remembers, ~MayClaim(pacer, TupleAt(now))
             PROVE  \E i \in 1 .. Len(claims) :
                        /\ claims[i].epoch = TupleAt(now).epoch
                        /\ claims[i].offset >= TupleAt(now).offset
  BY DEF ShedsOnlyOnConflict
<1>1. TupleAt(now) \in Tuples
  BY TupleInTuples DEF Readings, TypeOK
<1>2. /\ pacer.epoch = TupleAt(now).epoch
      /\ ~(TupleAt(now).offset > pacer.last_offset)
  BY DEF MayClaim
<1>3. pacer.epoch # NoEpoch
  BY <1>1, <1>2 DEF Tuples, Epochs, NoEpoch
<1>4. pacer.last_offset \in Offsets
  BY <1>3 DEF TypeOK, NewPacer
<1>5. /\ Len(claims) \in 1 .. Len(claims)
      /\ claims[Len(claims)] = [epoch |-> pacer.epoch, offset |-> pacer.last_offset]
  BY <1>3 DEF Remembers, TypeOK
<1>6. pacer.last_offset >= TupleAt(now).offset
  BY <1>1, <1>2, <1>4, EpochAssumption DEF Tuples, Offsets, TicksPerEpoch
<1>7. QED
  BY <1>2, <1>5, <1>6

\* A datagram is shed only for a true conflict, whatever the clock does.
THEOREM ShedsJustified == Spec => []ShedsOnlyOnConflict
<1>1. Init => Remembers
  BY DEF Init, Remembers, NewPacer
<1>2. QED
  BY <1>1, TypeCorrect, NextRemembers, ShedJustified, PTL DEF Spec

-----------------------------------------------------------------------------
\* What the proviso on the clock keeps true: a fresh Pacer reads instants past
\* every claim, and one that remembers reads none of an epoch before a claim's.
CalmClock ==
    IF pacer.epoch = NoEpoch
    THEN PastAllClaims(now)
    ELSE \A i \in 1 .. Len(claims) : claims[i].epoch <= TupleAt(now).epoch

\* NoTupleReuse is not inductive: whether a claim repeats an earlier one depends
\* on what the Pacer remembers of them and on where the clock may stand.
NoReuseInv == TypeOK /\ Remembers /\ CalmClock /\ ClaimsIncrease

LEMMA PrecedesTransitive ==
    ASSUME NEW a \in Tuples, NEW b \in Tuples, NEW c \in Tuples,
           Precedes(a, b), Precedes(b, c)
    PROVE  Precedes(a, c)
BY EpochAssumption DEF Tuples, Epochs, Offsets, TicksPerEpoch, Precedes

\* A claim that is accepted lies after every earlier one.
LEMMA ClaimAfterAll ==
    ASSUME NoReuseInv, MayClaim(pacer, TupleAt(now))
    PROVE  PastAllClaims(now)
<1> USE EpochAssumption
<1> DEFINE new == TupleAt(now)
<1>1. new \in Tuples
  BY TupleInTuples DEF Readings, NoReuseInv, TypeOK
<1>2. CASE pacer.epoch = NoEpoch
  BY <1>2 DEF NoReuseInv, CalmClock
<1>3. CASE pacer.epoch # NoEpoch
  <2> DEFINE last == claims[Len(claims)]
  <2>1. /\ Len(claims) \in 1 .. Len(claims)
        /\ last = [epoch |-> pacer.epoch, offset |-> pacer.last_offset]
        /\ claims \in Seq(Tuples)
    BY <1>3 DEF NoReuseInv, Remembers, TypeOK
  <2>2. last \in Tuples /\ last.epoch <= new.epoch
    BY <1>3, <2>1 DEF NoReuseInv, CalmClock
  <2>3. last.epoch = new.epoch => last.offset < new.offset
    <3>1. pacer.last_offset # NoClaim
      BY <2>1, <2>2 DEF Tuples, Offsets, NoClaim
    <3>2. QED
      BY <1>1, <2>1, <2>2, <3>1 DEF MayClaim, Tuples, Offsets, TicksPerEpoch
  <2>4. Precedes(last, new)
    BY <1>1, <2>2, <2>3 DEF Precedes, Tuples, Epochs
  <2>5. SUFFICES ASSUME NEW i \in 1 .. Len(claims) PROVE Precedes(claims[i], new)
    BY DEF PastAllClaims
  <2>6. CASE i = Len(claims)
    BY <2>4, <2>6
  <2>7. CASE i # Len(claims)
    <3>1. claims[i] \in Tuples /\ i < Len(claims)
      BY <2>1, <2>7
    <3>2. Precedes(claims[i], last)
      BY <2>1, <3>1 DEF NoReuseInv, ClaimsIncrease
    <3>3. QED
      BY <1>1, <2>2, <2>4, <3>1, <3>2, PrecedesTransitive
  <2>8. QED
    BY <2>6, <2>7
<1>4. QED
  BY <1>2, <1>3

\* What the clock passed stays passed when it advances.
LEMMA TickKeepsCalm == NoReuseInv /\ Tick => CalmClock'
<1> SUFFICES ASSUME NoReuseInv, Tick PROVE CalmClock'
  OBVIOUS
<1> DEFINE a == TupleAt(now)
           b == TupleAt(now + 1)
<1>1. /\ now \in Readings /\ now + 1 \in Readings
      /\ claims \in Seq(Tuples)
      /\ now' = now + 1 /\ claims' = claims /\ pacer' = pacer
  BY PacerAssumption DEF NoReuseInv, TypeOK, Tick, Readings
<1>2. a \in Tuples /\ b \in Tuples /\ (b = a \/ Precedes(a, b))
  BY <1>1, TupleInTuples, TupleStep
<1>3. a.epoch <= b.epoch
  BY <1>2 DEF Precedes, Tuples, Epochs
<1>4. TupleAt(now)' = b
  BY <1>1 DEF TupleAt
<1> HIDE DEF a, b
<1>5. CASE pacer.epoch = NoEpoch
  <2>1. \A i \in 1 .. Len(claims) : Precedes(claims[i], a)
    BY <1>5 DEF NoReuseInv, CalmClock, PastAllClaims, a
  <2>2. \A i \in 1 .. Len(claims) : Precedes(claims[i], b)
    BY <1>1, <1>2, <2>1, PrecedesTransitive
  <2>3. QED
    BY <1>1, <1>4, <1>5, <2>2 DEF CalmClock, PastAllClaims
<1>6. CASE pacer.epoch # NoEpoch
  <2>1. \A i \in 1 .. Len(claims) : claims[i].epoch <= a.epoch
    BY <1>6 DEF NoReuseInv, CalmClock, a
  <2>2. \A i \in 1 .. Len(claims) : claims[i] \in Tuples
    BY <1>1
  <2>3. \A i \in 1 .. Len(claims) : claims[i].epoch <= b.epoch
    BY <1>2, <1>3, <2>1, <2>2, EpochAssumption DEF Tuples, Epochs
  <2>4. QED
    BY <1>1, <1>4, <1>6, <2>3 DEF CalmClock
<1>7. QED
  BY <1>5, <1>6
LEMMA ClaimKeepsOrder == NoReuseInv /\ Claim => CalmClock' /\ ClaimsIncrease'
<1> SUFFICES ASSUME NoReuseInv, Claim PROVE CalmClock' /\ ClaimsIncrease'
  OBVIOUS
<1> DEFINE new == TupleAt(now)
<1>1. /\ new \in Tuples
      /\ claims \in Seq(Tuples) /\ claims' = Append(claims, new)
      /\ pacer' = [epoch |-> new.epoch, last_offset |-> new.offset]
      /\ now' = now
      /\ MayClaim(pacer, new)
  BY TupleInTuples DEF Readings, NoReuseInv, TypeOK, Claim, Claimed
<1>2. \A i \in 1 .. Len(claims) : Precedes(claims[i], new)
  BY <1>1, ClaimAfterAll DEF PastAllClaims
<1>3. TupleAt(now)' = new
  BY <1>1 DEF TupleAt
<1> HIDE DEF new
<1>4. /\ Len(claims') = Len(claims) + 1 /\ Len(claims) \in Nat
      /\ claims'[Len(claims) + 1] = new
      /\ \A i \in 1 .. Len(claims) : claims'[i] = claims[i] /\ claims[i] \in Tuples
  BY <1>1
<1>5. CalmClock'
  <2>1. pacer'.epoch # NoEpoch
    BY <1>1, EpochAssumption DEF Tuples, Epochs, NoEpoch
  <2>2. \A i \in 1 .. Len(claims') : claims'[i].epoch <= new.epoch
    <3>1. \A i \in 1 .. Len(claims) : claims'[i].epoch <= new.epoch
      BY <1>1, <1>2, <1>4, EpochAssumption DEF Precedes, Tuples, Epochs
    <3>2. new.epoch <= new.epoch
      BY <1>1, EpochAssumption DEF Tuples, Epochs
    <3>3. QED
      BY <1>4, <3>1, <3>2
  <2>3. QED
    BY <1>3, <2>1, <2>2 DEF CalmClock
<1>6. ClaimsIncrease'
  <2>1. SUFFICES ASSUME NEW i \in 1 .. Len(claims'), NEW j \in 1 .. Len(claims'), i < j
                 PROVE  Precedes(claims'[i], claims'[j])
    BY DEF ClaimsIncrease, Precedes
  <2>2. i \in 1 .. Len(claims)
    BY <1>4, <2>1
  <2>3. CASE j = Len(claims) + 1
    BY <1>2, <1>4, <2>2, <2>3
  <2>4. CASE j # Len(claims) + 1
    <3>1. j \in 1 .. Len(claims)
      BY <1>4, <2>4
    <3>2. Precedes(claims[i], claims[j])
      BY <2>1, <2>2, <3>1 DEF NoReuseInv, ClaimsIncrease
    <3>3. QED
      BY <1>4, <2>2, <3>1, <3>2
  <2>5. QED
    BY <2>3, <2>4
<1>7. QED
  BY <1>5, <1>6

LEMMA NextNoReuse ==
    ASSUME ~StepsMayRewind, ~RestartsMayRewind
    PROVE  NoReuseInv /\ [Next]_vars => NoReuseInv'
<1> SUFFICES ASSUME NoReuseInv, [Next]_vars PROVE CalmClock' /\ ClaimsIncrease'
  BY NextTypeOK, NextRemembers DEF NoReuseInv
<1> USE DEF NoReuseInv
<1>1. CASE Tick
  <2>1. ClaimsIncrease'
    BY <1>1 DEF Tick, ClaimsIncrease, Precedes
  <2>2. QED
    BY <1>1, <2>1, TickKeepsCalm
<1>2. ASSUME NEW t \in 0 .. MaxNow, StepBack(t) PROVE CalmClock' /\ ClaimsIncrease'
  <2>1. /\ IF pacer.epoch = NoEpoch
           THEN PastAllClaims(t)
           ELSE \A i \in 1 .. Len(claims) : claims[i].epoch <= TupleAt(t).epoch
        /\ now' = t /\ UNCHANGED <<pacer, claims>>
    BY <1>2 DEF StepBack
  <2>2. CalmClock'
    BY <2>1 DEF CalmClock, PastAllClaims, Precedes, TupleAt
  <2>3. QED
    BY <2>1, <2>2 DEF ClaimsIncrease, Precedes
<1>3. CASE Claim
  BY <1>3, ClaimKeepsOrder
<1>4. CASE Shed
  BY <1>4 DEF Shed, CalmClock, PastAllClaims, ClaimsIncrease, Precedes, TupleAt
<1>5. CASE Restart
  <2>1. PastAllClaims(now) /\ pacer' = NewPacer /\ UNCHANGED <<now, claims>>
    BY <1>5 DEF Restart
  <2>2. CalmClock'
    BY <2>1 DEF CalmClock, PastAllClaims, Precedes, TupleAt, NewPacer
  <2>3. QED
    BY <2>1, <2>2 DEF ClaimsIncrease, Precedes
<1>6. CASE UNCHANGED vars
  BY <1>6 DEF vars, CalmClock, PastAllClaims, ClaimsIncrease, Precedes, TupleAt
<1>7. QED
  BY <1>1, <1>2, <1>3, <1>4, <1>5, <1>6 DEF Next

LEMMA NoReuseFromOrder == TypeOK /\ ClaimsIncrease => NoTupleReuse
<1> SUFFICES ASSUME TypeOK, ClaimsIncrease,
                    NEW i \in 1 .. Len(claims), NEW j \in 1 .. Len(claims), i < j,
                    claims[i] = claims[j]
             PROVE  FALSE
  BY DEF NoTupleReuse
<1>1. Precedes(claims[i], claims[i]) /\ claims[i] \in Tuples
  BY DEF ClaimsIncrease, TypeOK
<1>2. QED
  BY <1>1, EpochAssumption DEF Precedes, Tuples, Epochs, Offsets, TicksPerEpoch

\* While the clock is not taken back over the claims already made, each claim lies
\* after all the earlier ones (PROTOCOL.md 10.3).
THEOREM ClaimsInOrder ==
    ASSUME ~StepsMayRewind, ~RestartsMayRewind
    PROVE  Spec => []ClaimsIncrease
<1>1. Init => NoReuseInv
  BY InitTypeOK DEF Init, NoReuseInv, Remembers, CalmClock, PastAllClaims,
     ClaimsIncrease, NewPacer
<1>2. NoReuseInv /\ [Next]_vars => NoReuseInv'
  BY NextNoReuse
<1>3. NoReuseInv => ClaimsIncrease
  BY DEF NoReuseInv
<1>4. QED
  BY <1>1, <1>2, <1>3, PTL DEF Spec

\* And so no (epoch, offset) is handed out twice, across epochs, backward steps of
\* the clock within an epoch, and restarts (PROTOCOL.md 10.1).
THEOREM NoReuse ==
    ASSUME ~StepsMayRewind, ~RestartsMayRewind
    PROVE  Spec => []NoTupleReuse
BY ClaimsInOrder, TypeCorrect, NoReuseFromOrder, PTL
=============================================================================
