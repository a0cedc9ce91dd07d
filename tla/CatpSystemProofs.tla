--------------------------- MODULE CatpSystemProofs ---------------------------
(***************************************************************************)
(* CatpSystem, for any number of senders, length of epoch, size of window, *)
(* rate and difference of the clocks: senders, network and collector       *)
(* together implement Delivery, a datagram never spans an epoch, a genuine *)
(* one is refused for a reason only, and the counters account for all.     *)
(***************************************************************************)
EXTENDS CatpSystem, FiniteSetTheorems, TLAPS

\* Every number is a multiple of n and a remainder below n.
LEMMA Division ==
    ASSUME NEW n \in Nat \ {0}, NEW a \in Int
    PROVE  /\ a \div n \in Int
           /\ a % n \in 0 .. n - 1
           /\ a = n * (a \div n) + (a % n)
OBVIOUS

\* No multiple of n other than 0 lies strictly between -n and n.
LEMMA NoMultipleBetween ==
    ASSUME NEW n \in Nat \ {0}, NEW k \in Int, NEW d \in Int,
           d = n * k, -n < d, d < n
    PROVE  k = 0
OBVIOUS

\* Writing a number as a multiple of n and a rest below n determines both.
LEMMA DivisionUnique ==
    ASSUME NEW n \in Nat \ {0}, NEW a \in Int, NEW k \in Int,
           NEW r \in 0 .. n - 1, a = n * k + r
    PROVE  a \div n = k /\ a % n = r
OBVIOUS

\* The quotient of a natural number below m * n is a natural number below m.
LEMMA QuotientBounded ==
    ASSUME NEW n \in Nat \ {0}, NEW m \in Nat, NEW a \in Nat, a < m * n
    PROVE  a \div n \in 0 .. m - 1
OBVIOUS

\* Division by n keeps the order, and does not leave the natural numbers.
LEMMA QuotientMonotone ==
    ASSUME NEW n \in Nat \ {0}, NEW a \in Int, NEW b \in Int, a <= b
    PROVE  a \div n <= b \div n
OBVIOUS

\* A clock reads t n-ths of a second, and a second has k ticks. Of the whole ticks that
\* have gone by, the number of full groups of m seconds is that of the whole seconds, and
\* the rest is the ticks of the remaining seconds and of the fraction.
LEMMA TicksSplit ==
    ASSUME NEW n \in Nat \ {0}, NEW k \in Nat \ {0}, NEW m \in Nat \ {0}, NEW t \in Nat
    PROVE  /\ (t * k) \div n \in Nat
           /\ ((t * k) \div n) \div (m * k) = (t \div n) \div m
           /\ ((t * k) \div n) % (m * k)
                  = ((t \div n) % m) * k + ((t % n) * k) \div n
BY SMTT(30)

\* The facts about one bitmap, whatever window ReplayWindow is at.
Bitmap == INSTANCE ReplayWindowProofs
    WITH window <- NewWindow, admissions <- <<>>, answer <- <<>>

\* The bitmap there is the bitmap here.
LEMMA SameBitmap ==
    /\ Bitmap!Offset = Offset
    /\ Bitmap!Windows = Windows
    /\ Bitmap!NewWindow = NewWindow
    /\ \A w, off : /\ Bitmap!Admits(w, off) <=> Admits(w, off)
                  /\ Bitmap!Admit(w, off) = Admit(w, off)
    /\ \A w, A : Bitmap!ExactFor(w, A) <=> ExactFor(w, A)
BY DEF Bitmap!Offset, Bitmap!NoOffset, Bitmap!Positions, Bitmap!Windows, Bitmap!NewWindow,
       Bitmap!Index, Bitmap!Seen, Bitmap!Lesser, Bitmap!Cleared, Bitmap!Admits, Bitmap!Admit,
       Bitmap!ExactFor, Offset, NoOffset, Positions, Windows, NewWindow, Index, Seen, Lesser,
       Cleared, Admits, Admit, ExactFor

LEMMA NewWindowExact == NewWindow \in Windows /\ ExactFor(NewWindow, {})
BY WindowAssumption, SameBitmap, Bitmap!NewWindowExact

LEMMA AdmitInWindows ==
    ASSUME NEW w \in Windows, NEW off \in Offset
    PROVE  Admit(w, off) \in Windows
BY WindowAssumption, SameBitmap, Bitmap!AdmitInWindows

LEMMA AdmitKeepsExact ==
    ASSUME NEW w \in Windows, NEW A \in SUBSET Offset, ExactFor(w, A),
           NEW off \in Offset, Admits(w, off)
    PROVE  /\ off \notin A
           /\ ExactFor(Admit(w, off), A \cup {off})
BY WindowAssumption, SameBitmap, Bitmap!AdmitKeepsExact

LEMMA RefusedWasSeen ==
    ASSUME NEW w \in Windows, NEW A \in SUBSET Offset, ExactFor(w, A),
           NEW off \in Offset, ~Admits(w, off)
    PROVE  off \in A \/ \E a \in A : a - off >= Entries
BY WindowAssumption, SameBitmap, Bitmap!RefusedWasSeen

-----------------------------------------------------------------------------
At(dg) == [epoch |-> dg.epoch, offset |-> dg.offset]

UpTo(a, b) == a = b \/ Precedes(a, b)

\* What a sender claimed a position for, sent or not.
Used(s) == {dg \in sent \cup {outbox[s]} : dg.sender = s}

Last(pacer) == [epoch |-> pacer.epoch, offset |-> pacer.last_offset]

\* The positions a sender used lie behind what its Pacer remembers, which the clock has
\* reached; and once it is started again and remembers nothing, behind the clock.
PacersFollow ==
    \A s \in Senders :
        IF pacers[s] = NewPacer
        THEN \A dg \in Used(s) : Precedes(At(dg), TupleAt(now))
        ELSE /\ UpTo(Last(pacers[s]), TupleAt(now))
             /\ \A dg \in Used(s) : UpTo(At(dg), Last(pacers[s]))

\* What waits to be sent goes by a position nothing was sent by.
OutboxNew ==
    \A s \in Senders : outbox[s] # Nothing =>
        /\ outbox[s].sender = s
        /\ \A dg \in sent : dg.sender = s => At(dg) # At(outbox[s])

\* The epoch the collector's clock is in, and the one its next answer is made for.
Current == EpochIdAt(Clock \div NanosPerSec)

Local == IF received = NoCall THEN Current ELSE received.local_epoch

\* The call under way is the last one; the epoch it read may be over.
CallUnderWay ==
    received # NoCall =>
        /\ calls \in Nat \ {0} /\ calls \notin DOMAIN log
        /\ received.datagram \in sent \cup Junk
        /\ received.local_epoch <= Current

\* What the collector was called with was sent, or is junk; and junk does not pass.
LogGenuine ==
    \A n \in DOMAIN log :
        /\ log[n].datagram \in sent \cup Junk
        /\ log[n].answer \in Passed =>
              log[n].datagram \in sent /\ log[n].epoch_id = log[n].datagram.epoch

KeptIn(windows, epoch) ==
    IF epoch \in DOMAIN windows THEN windows[epoch] ELSE NewWindow

\* The epochs that a datagram may be accepted for, by the epoch the collector read.
Acceptable(local) == {local - 1, local} \cap Epochs

\* What is kept for an epoch that a datagram may still be accepted for is the history
\* of its offsets; and nothing is known of an epoch that is still to come.
Remembers(windows, past, local) ==
    /\ \A e \in DOMAIN windows : e <= local
    /\ \A e \in Epochs : e > local => past[e] = {}
    /\ \A e \in Acceptable(local) : ExactFor(KeptIn(windows, e), past[e])

\* The offsets of a sender that passed, by their epoch.
Past(s) == [e \in Epochs |-> PassedBefore(calls + 1, s, e)]

WindowsExact == \A s \in Senders : Remembers(peers[s].windows, Past(s), Local)

SenderInv == PacersFollow /\ OutboxNew /\ NothingSpansEpochs

CollectorInv == CallUnderWay /\ LogGenuine /\ WindowsExact

\* What Delivery promises rests on both ends: that no position is sent twice, and that
\* the collector remembers those it passed for as long as it would pass them again.
SystemInv == TypeOK /\ SenderInv /\ CollectorInv /\ RefusalJustified

-----------------------------------------------------------------------------
\* The readings whose epoch fits the u32, and the ticks that have gone by at one.
Readings == {t \in Nat : t < EpochSpace * EpochSecs * NanosPerSec}

Ticks(t) == (t * TicksPerSec) \div NanosPerSec

\* The epoch of a reading is the quotient, which the cast of epoch_id_at keeps.
LEMMA EpochOf ==
    ASSUME NEW t \in Readings
    PROVE  /\ EpochIdAt(t \div NanosPerSec) = (t \div NanosPerSec) \div EpochSecs
           /\ EpochIdAt(t \div NanosPerSec) \in Epochs
<1> USE EpochAssumption
<1> DEFINE secs == t \div NanosPerSec
           e == secs \div EpochSecs
<1>1. t \in Nat /\ t < (EpochSpace * EpochSecs) * NanosPerSec /\ EpochSpace * EpochSecs \in Nat
  BY DEF Readings
<1>2. secs \in 0 .. (EpochSpace * EpochSecs) - 1
  BY <1>1, QuotientBounded
<1> HIDE DEF secs
<1>3. secs \in Nat /\ secs < EpochSpace * EpochSecs
  BY <1>1, <1>2
<1>4. e \in 0 .. EpochSpace - 1
  BY <1>3, QuotientBounded
<1> HIDE DEF e
<1>5. e = EpochSpace * 0 + e /\ e \in Int
  BY <1>4
<1>6. e % EpochSpace = e
  BY <1>4, <1>5, DivisionUnique
<1>7. QED
  BY <1>4, <1>6 DEF EpochIdAt, Epochs, e, secs

\* The position of a reading is that of the ticks that have gone by.
LEMMA TupleOf ==
    ASSUME NEW t \in Readings
    PROVE  /\ TupleAt(t) = [epoch |-> Ticks(t) \div TicksPerEpoch,
                            offset |-> Ticks(t) % TicksPerEpoch]
           /\ TupleAt(t) \in Tuples
           /\ Ticks(t) \in Nat /\ TicksPerEpoch \in Nat \ {0}
<1> USE EpochAssumption
<1> DEFINE o == ((t \div NanosPerSec) % EpochSecs) * TicksPerSec
                    + ((t % NanosPerSec) * TicksPerSec) \div NanosPerSec
<1>1. TicksPerEpoch \in Nat \ {0} /\ TicksPerEpoch = EpochSecs * TicksPerSec
  BY DEF TicksPerEpoch
<1>2. t \in Nat
  BY DEF Readings
<1>3. /\ Ticks(t) \in Nat
      /\ Ticks(t) \div TicksPerEpoch = (t \div NanosPerSec) \div EpochSecs
      /\ Ticks(t) % TicksPerEpoch = o
  <2>1. /\ NanosPerSec \in Nat \ {0} /\ TicksPerSec \in Nat \ {0}
        /\ EpochSecs \in Nat \ {0}
    OBVIOUS
  <2>2. /\ (t * TicksPerSec) \div NanosPerSec \in Nat
        /\ ((t * TicksPerSec) \div NanosPerSec) \div (EpochSecs * TicksPerSec)
               = (t \div NanosPerSec) \div EpochSecs
        /\ ((t * TicksPerSec) \div NanosPerSec) % (EpochSecs * TicksPerSec) = o
    BY ONLY <1>2, <2>1, TicksSplit, Zenon
  <2>3. QED
    BY ONLY <2>2 DEF Ticks, TicksPerEpoch
<1> HIDE DEF o
<1>4. o \in 0 .. TicksPerEpoch - 1
  <2>1. Ticks(t) \in Int
    BY <1>3
  <2>2. QED
    BY <1>1, <1>3, <2>1, Division
<1>5. o % TicksPerEpoch = o
  <2>1. o = TicksPerEpoch * 0 + o /\ o \in Int
    BY <1>1, <1>4
  <2>2. QED
    BY <1>1, <1>4, <2>1, DivisionUnique
<1>6. TupleAt(t) = [epoch |-> EpochIdAt(t \div NanosPerSec), offset |-> o]
  BY <1>5 DEF TupleAt, EpochOffsetAt, o
<1>7. QED
  BY <1>1, <1>3, <1>4, <1>6, EpochOf DEF Tuples, Offsets

\* The position of a reading does not run backwards.
LEMMA TupleMonotone ==
    ASSUME NEW t \in Readings, NEW u \in Readings, t <= u
    PROVE  UpTo(TupleAt(t), TupleAt(u))
<1> USE EpochAssumption
<1> DEFINE n == TicksPerEpoch
           a == Ticks(t)
           b == Ticks(u)
           p == a \div n
           q == b \div n
           r == a % n
           s == b % n
<1>1. /\ TupleAt(t) = [epoch |-> p, offset |-> r]
      /\ TupleAt(u) = [epoch |-> q, offset |-> s]
      /\ a \in Nat /\ b \in Nat /\ n \in Nat \ {0}
  BY TupleOf
<1>2. a <= b
  <2>1. t \in Nat /\ u \in Nat
    BY DEF Readings
  <2>2. t * TicksPerSec <= u * TicksPerSec /\ t * TicksPerSec \in Int /\ u * TicksPerSec \in Int
    BY <2>1
  <2>3. QED
    BY <2>2, QuotientMonotone DEF Ticks
<1> HIDE DEF a, b, n
<1>3. p <= q
  BY <1>1, <1>2, QuotientMonotone
<1>4. p \in Int /\ r \in 0 .. n - 1 /\ a = n * p + r
  BY <1>1, Division
<1>5. q \in Int /\ s \in 0 .. n - 1 /\ b = n * q + s
  BY <1>1, Division
<1> HIDE DEF p, q, r, s
<1>6. CASE p = q
  <2>1. n * p \in Int
    BY <1>1, <1>4
  <2>2. r <= s
    BY <1>2, <1>4, <1>5, <1>6, <2>1
  <2>3. QED
    BY <1>1, <1>4, <1>5, <1>6, <2>2 DEF UpTo, Precedes
<1>7. CASE p # q
  BY <1>1, <1>3, <1>4, <1>5, <1>7 DEF UpTo, Precedes
<1>8. QED
  BY <1>6, <1>7

LEMMA PrecedesTransitive ==
    ASSUME NEW a \in Tuples, NEW b \in Tuples, NEW c \in Tuples
    PROVE  /\ UpTo(a, b) /\ UpTo(b, c) => UpTo(a, c)
           /\ Precedes(a, b) /\ UpTo(b, c) => Precedes(a, c)
           /\ UpTo(a, b) /\ Precedes(b, c) => Precedes(a, c)
           /\ Precedes(a, b) => a # b
BY EpochAssumption DEF Tuples, Epochs, Offsets, TicksPerEpoch, Precedes, UpTo

\* Both clocks stay among the readings, and the collector's keeps up with time.
LEMMA NowReads ==
    ASSUME now \in 0 .. MaxNow
    PROVE  now \in Readings /\ Clock \in Readings /\ Clock \in Nat
BY EpochAssumption, SystemAssumption DEF Readings, Clock

LEMMA CurrentEpoch ==
    ASSUME now \in 0 .. MaxNow
    PROVE  Current \in Epochs
BY NowReads, EpochOf DEF Current

LEMMA CurrentAdvances ==
    ASSUME now \in 0 .. MaxNow, now' = now + 1, now' \in 0 .. MaxNow
    PROVE  Current' \in Epochs /\ Current <= Current'
<1> USE EpochAssumption
<1> DEFINE later == IF now + 1 + Skew > 0 THEN now + 1 + Skew ELSE 0
<1>1. Clock' = later
  BY DEF Clock
<1>2. later \in Readings /\ Clock \in Readings /\ Clock <= later
  BY SystemAssumption DEF Readings, Clock
<1> HIDE DEF later
<1>3. Clock \div NanosPerSec <= later \div NanosPerSec
      /\ Clock \div NanosPerSec \in Int /\ later \div NanosPerSec \in Int
  <2>1. Clock \in Int /\ later \in Int
    BY <1>2 DEF Readings
  <2>2. QED
    BY <1>2, <2>1, Division, QuotientMonotone
<1>4. (Clock \div NanosPerSec) \div EpochSecs <= (later \div NanosPerSec) \div EpochSecs
  BY <1>3, QuotientMonotone
<1>5. QED
  BY <1>1, <1>2, <1>4, EpochOf DEF Current

-----------------------------------------------------------------------------
LEMMA TableOf ==
    ASSUME NEW S \in SUBSET Epochs, NEW local \in Epochs, S \subseteq {local - 1, local},
           NEW ws \in [S -> Windows]
    PROVE  ws \in Tables
BY DEF Tables

LEMMA TableHas ==
    ASSUME NEW ws \in Tables
    PROVE  DOMAIN ws \subseteq Epochs /\ \A e \in DOMAIN ws : ws[e] \in Windows
BY DEF Tables

\* reconstruct_epoch answers with the local epoch or the one before it, and finds those
\* two by their low bits.
LEMMA ReconstructedAcceptable ==
    ASSUME NEW local \in Epochs, NEW low
    PROVE  ReconstructEpoch(local, low) \in {NoEpoch} \cup Acceptable(local)
<1> USE EpochAssumption
<1>1. local \in Nat /\ (local > 0 => local - 1 \in Epochs)
  BY DEF Epochs
<1>2. QED
  BY <1>1 DEF ReconstructEpoch, Acceptable

LEMMA AcceptableFound ==
    ASSUME NEW local \in Epochs, NEW e \in Acceptable(local)
    PROVE  ReconstructEpoch(local, LowBits(e)) = e /\ e # NoEpoch
<1> USE EpochAssumption
<1>1. local \in Int /\ local - 1 \in Int /\ e \in Nat
  BY DEF Epochs, Acceptable
<1>2. LowBits(local) # LowBits(local - 1)
  <2> DEFINE p == local \div LowSpace
             q == (local - 1) \div LowSpace
             r == local % LowSpace
             s == (local - 1) % LowSpace
  <2>1. p \in Int /\ r \in 0 .. LowSpace - 1 /\ local = LowSpace * p + r
    BY <1>1, Division
  <2>2. q \in Int /\ s \in 0 .. LowSpace - 1 /\ local - 1 = LowSpace * q + s
    BY <1>1, Division
  <2> HIDE DEF p, q, r, s
  <2>3. SUFFICES ASSUME r = s PROVE FALSE
    BY DEF LowBits, r, s
  <2>4. LowSpace * (p - q) = 1
    BY <1>1, <2>1, <2>2, <2>3
  <2>5. p - q \in Int /\ -LowSpace < 1 /\ 1 < LowSpace /\ LowSpace \in Nat \ {0}
    BY <2>1, <2>2
  <2>6. p - q = 0
    BY <2>4, <2>5, NoMultipleBetween
  <2>7. QED
    BY <2>4, <2>6
<1>3. CASE e = local
  BY <1>1, <1>3 DEF ReconstructEpoch, NoEpoch
<1>4. CASE e = local - 1
  BY <1>1, <1>2, <1>4 DEF ReconstructEpoch, NoEpoch
<1>5. QED
  BY <1>3, <1>4 DEF Acceptable

\* What prune and window_for leave: the windows of acceptable epochs as they were,
\* and one for the epoch asked for.
LEMMA PreparedKeeps ==
    ASSUME NEW ws \in Tables, NEW local \in Epochs, NEW e \in Acceptable(local)
    PROVE  /\ Prepared(ws, local, e) \in Tables
           /\ e \in DOMAIN Prepared(ws, local, e)
           /\ DOMAIN Prepared(ws, local, e) \subseteq Acceptable(local)
           /\ \A f \in Acceptable(local) : KeptIn(Prepared(ws, local, e), f) = KeptIn(ws, f)
           /\ Prepared(ws, local, e)[e] = KeptIn(ws, e)
           /\ KeptIn(ws, e) \in Windows
<1> DEFINE S == {e} \cup (DOMAIN ws \cap {local - 1, local})
           vs == Prepared(ws, local, e)
<1>1. DOMAIN ws \subseteq Epochs /\ \A f \in DOMAIN ws : ws[f] \in Windows
  BY TableHas
<1>2. S \subseteq Acceptable(local) /\ S \in SUBSET Epochs /\ S \subseteq {local - 1, local}
  BY <1>1 DEF Acceptable
<1>3. /\ vs \in [S -> Windows]
      /\ \A f \in S : vs[f] = IF f \in DOMAIN ws THEN ws[f] ELSE NewWindow
  BY <1>1, NewWindowExact DEF Prepared
<1>4. vs \in Tables
  BY <1>2, <1>3, TableOf
<1>5. \A f \in Acceptable(local) : f \in DOMAIN ws => f \in S
  BY DEF Acceptable
<1>6. \A f \in Acceptable(local) : KeptIn(vs, f) = KeptIn(ws, f)
  BY <1>3, <1>5 DEF KeptIn
<1>7. KeptIn(ws, e) \in Windows
  BY <1>1, NewWindowExact DEF KeptIn
<1>8. QED
  BY <1>2, <1>3, <1>4, <1>6, <1>7 DEF KeptIn

LEMMA CapacityNatural == Capacity \in Nat
BY BucketAssumption DEF Capacity

LEMMA AcquireTyped ==
    ASSUME NEW b \in [tokens : 0 .. Capacity, last_ms : Nat], NEW t \in Nat
    PROVE  Acquire(b, t) \in [tokens : 0 .. Capacity, last_ms : Nat]
<1> USE BucketAssumption
<1> DEFINE earned == PerMs * SaturatingSub(t, b.last_ms)
           r == Refilled(b, t)
<1>1. SaturatingSub(t, b.last_ms) \in Nat
  BY DEF SaturatingSub
<1>2. earned \in Nat
  BY <1>1
<1>3. r = AtMost(Saturating(b.tokens + Saturating(earned)), Capacity)
  BY DEF Refilled
<1> HIDE DEF earned
<1>4. r \in 0 .. Capacity
  BY <1>2, <1>3, CapacityNatural DEF AtMost, Saturating
<1> HIDE DEF r
<1>5. Acquires(b, t) => r - Token \in 0 .. Capacity
  BY <1>4, CapacityNatural DEF Acquires, r
<1>6. QED
  BY <1>4, <1>5 DEF Acquire, r

\* PeerState::accept on a datagram of this sender: what it answers, and the windows it
\* leaves.
Peers == [windows : Tables, limiter : [tokens : 0 .. Capacity, last_ms : Nat],
          stats : [PeerCounters -> Nat]]

LEMMA NewPeerTyped == NewPeer \in Peers
<1>1. NewPeer.windows \in Tables
  <2>1. 0 \in Epochs
    BY EpochAssumption DEF Epochs
  <2>2. [e \in {} |-> NewWindow] \in [{} -> Windows]
    OBVIOUS
  <2>3. QED
    BY <2>1, <2>2, TableOf DEF NewPeer
<1>2. NewLimiter \in [tokens : 0 .. Capacity, last_ms : Nat]
  BY CapacityNatural DEF NewLimiter
<1>3. QED
  BY <1>1, <1>2 DEF NewPeer, Peers

\* The datagrams that Collector::accept gives to a peer.
Routable == {dg \in Datagrams \cup Junk : dg.sender \in Senders}

LEMMA RoutableIs ==
    ASSUME NEW dg \in Routable
    PROVE  /\ dg.sender \in Senders /\ dg.epoch \in Epochs /\ dg.offset \in Offset
           /\ dg.kind # "forged" => dg \in Datagrams /\ dg \notin Junk
           /\ dg.kind = "forged" => dg \notin Datagrams
<1>1. 0 \in Epochs /\ 0 \in Offset /\ Offset = Offsets
  BY EpochAssumption, WindowAssumption, SystemAssumption DEF Epochs, Offset, Offsets
<1>2. CASE dg \in Datagrams
  BY <1>1, <1>2 DEF Datagrams, Junk, Datagram, Routable
<1>3. CASE dg \in Junk
  <2>1. PICK s \in Senders \cup {Stranger} :
           \/ dg = Datagram(s, [epoch |-> 0, offset |-> 0], "forged")
           \/ dg = Datagram(Stranger, [epoch |-> 0, offset |-> 0], "short")
    BY <1>3 DEF Junk
  <2>2. dg.sender \in Senders
    BY DEF Routable
  <2>3. dg # Datagram(Stranger, [epoch |-> 0, offset |-> 0], "short")
    BY <2>2, SystemAssumption DEF Datagram
  <2>4. dg.kind = "forged" /\ dg.epoch = 0 /\ dg.offset = 0
    BY <2>1, <2>3 DEF Datagram
  <2>5. dg \notin Datagrams
    BY <2>4 DEF Datagrams
  <2>6. QED
    BY <1>1, <2>2, <2>4, <2>5
<1>4. QED
  BY <1>2, <1>3 DEF Routable

\* What each answer of PeerState::accept tells of the datagram.
LEMMA AnswerMeans ==
    ASSUME NEW p \in Peers, NEW dg \in Routable, NEW local \in Epochs, NEW t \in Nat
    PROVE  LET e == ReconstructEpoch(local, LowBits(dg.epoch))
               a == Answer(p, dg, local, t)
               w == KeptIn(p.windows, dg.epoch)
           IN  /\ a \in PeerCounters
               /\ a = "epoch_out_of_window" => dg.epoch \notin Acceptable(local)
               /\ a = "epoch_out_of_window" <=> e = NoEpoch
               /\ a = "auth_failed" =>
                     dg.kind = "forged" \/ dg.epoch \notin Acceptable(local)
               /\ a \in Passed \cup {"replay"} =>
                     /\ dg \in Datagrams
                     /\ e = dg.epoch /\ dg.epoch \in Acceptable(local)
                     /\ Admits(w, dg.offset) <=> a \in Passed
<1> DEFINE e == ReconstructEpoch(local, LowBits(dg.epoch))
           a == Answer(p, dg, local, t)
           w == KeptIn(p.windows, dg.epoch)
           v == Prepared(p.windows, local, e)[e]
<1>1. e \in {NoEpoch} \cup Acceptable(local)
  BY ReconstructedAcceptable
<1>2. dg.epoch \in Acceptable(local) => e = dg.epoch /\ e # NoEpoch
  BY AcceptableFound
<1>3. /\ dg.epoch \in Epochs
      /\ dg.kind # "forged" => dg \in Datagrams
  BY RoutableIs
<1>4. NoEpoch \notin Epochs
  BY EpochAssumption DEF NoEpoch, Epochs
<1>5. e = dg.epoch => e \in Acceptable(local) /\ v = w
  <2>1. SUFFICES ASSUME e = dg.epoch PROVE e \in Acceptable(local) /\ v = w
    OBVIOUS
  <2>2. e \in Acceptable(local)
    BY <1>1, <1>3, <1>4, <2>1
  <2>3. p.windows \in Tables
    BY DEF Peers
  <2>4. QED
    BY <2>1, <2>2, <2>3, PreparedKeeps
<1>6. a = IF e = NoEpoch THEN "epoch_out_of_window"
          ELSE IF dg.kind = "forged" \/ e # dg.epoch THEN "auth_failed"
          ELSE IF ~Admits(v, dg.offset) THEN "replay"
          ELSE IF ~Acquires(p.limiter, t) THEN "rate_limited"
          ELSE "accepted"
  BY DEF Answer
<1> HIDE DEF a, e, v, w
<1>7. QED
  BY <1>1, <1>2, <1>3, <1>5, <1>6 DEF PeerCounters, Passed, a, e, w

\* What PeerState::accept leaves of a peer: only the window of a datagram that passes
\* changes among those of the acceptable epochs, and no other epoch gets one.
LEMMA AfterMeans ==
    ASSUME NEW p \in Peers, NEW dg \in Routable, NEW local \in Epochs, NEW t \in Nat
    PROVE  LET a == Answer(p, dg, local, t)
               q == After(p, dg, local, t)
           IN  /\ q \in Peers
               /\ \A f \in Acceptable(local) :
                     KeptIn(q.windows, f) =
                         IF a \in Passed /\ f = dg.epoch
                         THEN Admit(KeptIn(p.windows, f), dg.offset)
                         ELSE KeptIn(p.windows, f)
               /\ DOMAIN q.windows \subseteq DOMAIN p.windows \cup Acceptable(local)
<1> DEFINE e == ReconstructEpoch(local, LowBits(dg.epoch))
           a == Answer(p, dg, local, t)
           q == After(p, dg, local, t)
           ready == Prepared(p.windows, local, e)
           marked == [ready EXCEPT ![e] = Admit(@, dg.offset)]
<1>1. /\ p.windows \in Tables
      /\ p.limiter \in [tokens : 0 .. Capacity, last_ms : Nat]
      /\ p.stats \in [PeerCounters -> Nat]
  BY DEF Peers
<1>2. /\ a \in PeerCounters
      /\ a = "epoch_out_of_window" <=> e = NoEpoch
      /\ a \in Passed => e = dg.epoch /\ e \in Acceptable(local)
  BY AnswerMeans
<1>3. e # NoEpoch => e \in Acceptable(local)
  BY ReconstructedAcceptable
<1>4. q = [windows |-> IF a = "epoch_out_of_window" THEN p.windows
                       ELSE IF a \in Passed THEN marked ELSE ready,
           limiter |-> IF a \in Passed THEN Acquire(p.limiter, t) ELSE p.limiter,
           stats   |-> [p.stats EXCEPT ![a] = @ + 1]]
  BY DEF After
<1> HIDE DEF a, e, q
<1>5. e # NoEpoch =>
         /\ ready \in Tables /\ e \in DOMAIN ready
         /\ DOMAIN ready \subseteq Acceptable(local)
         /\ \A f \in Acceptable(local) : KeptIn(ready, f) = KeptIn(p.windows, f)
         /\ ready[e] = KeptIn(p.windows, e)
         /\ KeptIn(p.windows, e) \in Windows
  BY <1>1, <1>3, PreparedKeeps
<1> HIDE DEF ready
<1>6. q.limiter \in [tokens : 0 .. Capacity, last_ms : Nat]
      /\ q.stats \in [PeerCounters -> Nat]
  <2>1. [p.stats EXCEPT ![a] = @ + 1] \in [PeerCounters -> Nat]
    BY <1>1, <1>2
  <2>2. QED
    BY <1>1, <1>4, <2>1, AcquireTyped
<1>7. CASE a = "epoch_out_of_window"
  <2>1. q.windows = p.windows /\ a \notin Passed
    BY <1>4, <1>7 DEF Passed
  <2>2. q \in Peers
    BY <1>1, <1>4, <1>6, <2>1 DEF Peers
  <2>3. QED
    BY <2>1, <2>2 DEF a, q
<1>8. CASE a \in Passed
  <2>1. /\ a # "epoch_out_of_window" /\ e # NoEpoch
        /\ e = dg.epoch /\ e \in Acceptable(local)
    BY <1>2, <1>8 DEF Passed
  <2>2. q.windows = marked
    BY <1>4, <1>8, <2>1
  <2>3. Admit(ready[e], dg.offset) \in Windows
    BY <1>5, <2>1, RoutableIs, AdmitInWindows
  <2>4. /\ DOMAIN marked = DOMAIN ready /\ marked[e] = Admit(ready[e], dg.offset)
        /\ \A f \in DOMAIN ready : f # e => marked[f] = ready[f]
    BY <1>5, <2>1 DEF Tables
  <2>5. marked \in Tables
    <3>1. DOMAIN ready \subseteq Epochs /\ \A f \in DOMAIN ready : ready[f] \in Windows
      BY <1>5, <2>1, TableHas
    <3>2. marked \in [DOMAIN ready -> Windows]
      BY <2>3, <2>4, <3>1
    <3>3. DOMAIN ready \subseteq {local - 1, local}
      BY <1>5, <2>1 DEF Acceptable
    <3>4. QED
      BY <3>1, <3>2, <3>3, TableOf
  <2> HIDE DEF marked
  <2>6. \A f \in Acceptable(local) :
           KeptIn(marked, f) = IF f = e THEN Admit(KeptIn(p.windows, f), dg.offset)
                               ELSE KeptIn(p.windows, f)
    BY <1>5, <2>1, <2>4 DEF KeptIn
  <2>7. q \in Peers
    BY <1>4, <1>6, <2>2, <2>5 DEF Peers
  <2>8. QED
    BY <1>5, <1>8, <2>1, <2>2, <2>4, <2>6, <2>7 DEF a, q
<1>9. CASE a # "epoch_out_of_window" /\ a \notin Passed
  <2>1. e # NoEpoch
    BY <1>2, <1>9
  <2>2. q.windows = ready
    BY <1>4, <1>9
  <2>3. q \in Peers
    BY <1>4, <1>5, <1>6, <2>1, <2>2 DEF Peers
  <2>4. QED
    BY <1>5, <1>9, <2>1, <2>2, <2>3 DEF a, q
<1>10. QED
  BY <1>7, <1>8, <1>9

-----------------------------------------------------------------------------
\* The entries of the log.
Entry == [datagram : Datagrams \cup Junk, answer : OwnCounters \cup PeerCounters,
          local_epoch : Epochs, epoch_id : Epochs \cup {NoEpoch}]

\* A call that ends adds its entry, and changes no other.
LEMMA ProcessedLogs ==
    ASSUME TypeOK, CallUnderWay, received # NoCall,
           NEW answer \in OwnCounters \cup PeerCounters, NEW epoch \in Epochs \cup {NoEpoch},
           Processed(answer, epoch)
    PROVE  /\ DOMAIN log' = DOMAIN log \cup {calls}
           /\ \A n \in DOMAIN log : n # calls /\ log'[n] = log[n]
           /\ log'[calls] = [datagram |-> received.datagram, answer |-> answer,
                             local_epoch |-> received.local_epoch, epoch_id |-> epoch]
           /\ log' \in [DOMAIN log' -> Entry]
           /\ DOMAIN log' \subseteq 1 .. calls'
           /\ received' = NoCall
<1> DEFINE new == [datagram |-> received.datagram, answer |-> answer,
                   local_epoch |-> received.local_epoch, epoch_id |-> epoch]
           D == DOMAIN log \cup {calls}
<1>1. received \in [datagram : Datagrams \cup Junk, local_epoch : Epochs]
  BY DEF TypeOK
<1>2. new \in Entry
  BY <1>1 DEF Entry
<1>3. calls \notin DOMAIN log /\ calls \in Nat \ {0} /\ DOMAIN log \subseteq 1 .. calls
  BY DEF TypeOK, CallUnderWay
<1>4. log \in [DOMAIN log -> Entry]
  BY DEF TypeOK, Entry
<1>5. /\ log' = [n \in D |-> IF n = calls THEN new ELSE log[n]]
      /\ received' = NoCall /\ calls' = calls
  BY DEF Processed
<1> HIDE DEF new
<1>6. log' \in [D -> Entry] /\ DOMAIN log' = D
  BY <1>2, <1>4, <1>5
<1>7. /\ \A n \in DOMAIN log : n # calls /\ log'[n] = log[n]
      /\ log'[calls] = new
  BY <1>3, <1>5
<1>8. D \subseteq 1 .. calls'
  BY <1>3, <1>5
<1>9. QED
  BY <1>5, <1>6, <1>7, <1>8 DEF new

\* The states of a call that Collector::accept gives to a peer.
LEMMA RoutedReads ==
    ASSUME TypeOK, received # NoCall, received.datagram \in Datagrams \cup Junk,
           received.datagram.sender \in Senders
    PROVE  /\ received.datagram \in Routable
           /\ received.local_epoch \in Epochs
           /\ peers \in [Senders -> Peers]
           /\ peers[received.datagram.sender] \in Peers
           /\ Clock \in Nat
<1>1. received \in [datagram : Datagrams \cup Junk, local_epoch : Epochs]
  BY DEF TypeOK
<1>2. peers \in [Senders -> Peers]
  BY DEF TypeOK, Peers
<1>3. Clock \in Nat
  BY NowReads DEF TypeOK
<1>4. QED
  BY <1>1, <1>2, <1>3 DEF Routable

LEMMA InitTyped == Init => TypeOK
<1> SUFFICES ASSUME Init PROVE TypeOK
  OBVIOUS
<1>1. now \in 0 .. MaxNow
  BY SystemAssumption DEF Init
<1>2. peers \in [Senders -> Peers]
  BY NewPeerTyped DEF Init
<1>3. log \in [DOMAIN log -> Entry] /\ DOMAIN log = {}
  BY DEF Init, NoLog
<1>4. QED
  BY <1>1, <1>2, <1>3 DEF Init, TypeOK, Peers, Entry

\* A step of a sender.
LEMMA SenderTyped ==
    ASSUME TypeOK,
           \/ \E s \in Senders \ Silent, kind \in {"message", "series"} : Claim(s, kind)
           \/ \E s \in Senders : Send(s) \/ RestartSender(s)
    PROVE  TypeOK'
<1>1. CASE \E s \in Senders \ Silent, kind \in {"message", "series"} : Claim(s, kind)
  <2>1. PICK s \in Senders, kind \in {"message", "series"} : Claim(s, kind)
    BY <1>1
  <2>2. TupleAt(now) \in Tuples
    BY NowReads, TupleOf DEF TypeOK
  <2>3. Claimed(TupleAt(now)) \in [epoch : Epochs, last_offset : Offsets]
    BY <2>2 DEF Claimed, Tuples
  <2>4. Datagram(s, TupleAt(now), kind) \in Datagrams
    BY <2>2 DEF Datagram, Datagrams, Tuples
  <2>5. pacers' \in [Senders -> {NewPacer} \cup [epoch : Epochs, last_offset : Offsets]]
    BY <2>1, <2>3 DEF Claim, TypeOK
  <2>6. outbox' \in [Senders -> Datagrams \cup {Nothing}]
    BY <2>1, <2>4 DEF Claim, TypeOK
  <2>7. claims' \in Nat
    BY <2>1 DEF Claim, TypeOK
  <2>8. QED
    BY <2>1, <2>5, <2>6, <2>7 DEF Claim, TypeOK, collectorVars
<1>2. ASSUME NEW s \in Senders, Send(s) PROVE TypeOK'
  <2>1. outbox[s] \in Datagrams
    BY <1>2 DEF Send, TypeOK
  <2>2. sent' \subseteq Datagrams
    BY <1>2, <2>1 DEF Send, TypeOK
  <2>3. outbox' \in [Senders -> Datagrams \cup {Nothing}]
    BY <1>2 DEF Send, TypeOK
  <2>4. QED
    BY <1>2, <2>2, <2>3 DEF Send, TypeOK, collectorVars
<1>3. ASSUME NEW s \in Senders, RestartSender(s) PROVE TypeOK'
  <2>1. outbox' \in [Senders -> Datagrams \cup {Nothing}]
    BY <1>3 DEF RestartSender, TypeOK
  <2>2. pacers' \in [Senders -> {NewPacer} \cup [epoch : Epochs, last_offset : Offsets]]
    BY <1>3 DEF RestartSender, TypeOK
  <2>3. QED
    BY <1>3, <2>1, <2>2 DEF RestartSender, TypeOK, collectorVars
<1>4. QED
  BY <1>1, <1>2, <1>3

\* A step of the collector.
LEMMA CollectorTyped ==
    ASSUME TypeOK, CallUnderWay,
           \/ \E dg \in sent \cup Junk : Receive(dg)
           \/ Unrouted
           \/ Routed
           \/ \E s \in Senders : Provision(s)
           \/ RestartCollector
    PROVE  TypeOK'
<1>1. peers \in [Senders -> Peers] /\ log \in [DOMAIN log -> Entry]
  BY DEF TypeOK, Peers, Entry
<1>2. ASSUME NEW dg \in sent \cup Junk, Receive(dg) PROVE TypeOK'
  <2>1. Current \in Epochs
    BY CurrentEpoch DEF TypeOK
  <2>2. received' \in [datagram : Datagrams \cup Junk, local_epoch : Epochs]
    BY <1>2, <2>1 DEF Receive, TypeOK, Current
  <2>3. calls' \in Nat /\ junk' \in Nat /\ DOMAIN log' \subseteq 1 .. calls'
    BY <1>2 DEF Receive, TypeOK
  <2>4. QED
    BY <1>2, <2>2, <2>3 DEF Receive, TypeOK, senderVars
<1>3. CASE Unrouted
  <2> DEFINE c == IF received.datagram.kind = "short" THEN "too_short" ELSE "unknown_sender"
  <2>1. c \in OwnCounters
    BY DEF OwnCounters
  <2>2. Processed(c, NoEpoch) /\ received # NoCall
    BY <1>3 DEF Unrouted
  <2>3. own_stats' \in [OwnCounters -> Nat] /\ peers' = peers
    BY <1>3, <2>1 DEF Unrouted, TypeOK
  <2>4. /\ log' \in [DOMAIN log' -> Entry] /\ DOMAIN log' \subseteq 1 .. calls'
        /\ received' = NoCall
    BY <2>1, <2>2, ProcessedLogs
  <2>5. QED
    BY <1>1, <2>2, <2>3, <2>4 DEF Processed, TypeOK, senderVars, Entry
<1>4. CASE Routed
  <2> DEFINE dg == received.datagram
             local == received.local_epoch
             answer == Answer(peers[dg.sender], dg, local, Clock)
             epoch == ReconstructEpoch(local, LowBits(dg.epoch))
             after == After(peers[dg.sender], dg, local, Clock)
  <2>1. received # NoCall /\ dg.sender \in Senders
    BY <1>4 DEF Routed
  <2>2. dg \in Datagrams \cup Junk
    BY <2>1 DEF TypeOK
  <2>3. dg \in Routable /\ local \in Epochs /\ peers[dg.sender] \in Peers /\ Clock \in Nat
    BY <2>1, <2>2, RoutedReads
  <2>4. answer \in PeerCounters
    BY <2>3, AnswerMeans
  <2>5. after \in Peers
    BY <2>3, AfterMeans
  <2>6. epoch \in Epochs \cup {NoEpoch}
    BY <2>3, ReconstructedAcceptable DEF Acceptable
  <2>7. Processed(answer, epoch) /\ own_stats' = own_stats
        /\ peers' = [peers EXCEPT ![dg.sender] = after]
    BY <1>4 DEF Routed
  <2> HIDE DEF answer, epoch, after
  <2>8. peers' \in [Senders -> Peers]
    BY <1>1, <2>5, <2>7
  <2>9. /\ log' \in [DOMAIN log' -> Entry] /\ DOMAIN log' \subseteq 1 .. calls'
        /\ received' = NoCall
    BY <2>1, <2>4, <2>6, <2>7, ProcessedLogs
  <2>10. QED
    BY <2>7, <2>8, <2>9 DEF Processed, TypeOK, senderVars, Entry, Peers
<1>5. ASSUME NEW s \in Senders, Provision(s) PROVE TypeOK'
  <2>1. peers' \in [Senders -> Peers]
    BY <1>1, <1>5, NewPeerTyped DEF Provision
  <2>2. log' \in [DOMAIN log' -> Entry] /\ DOMAIN log' \subseteq DOMAIN log
    BY <1>1, <1>5 DEF Provision
  <2>3. resets' \in Nat
    BY <1>5 DEF Provision, TypeOK
  <2>4. QED
    BY <1>5, <2>1, <2>2, <2>3 DEF Provision, TypeOK, senderVars, Entry, Peers
<1>6. CASE RestartCollector
  <2>1. peers' \in [Senders -> Peers]
    BY <1>6, NewPeerTyped DEF RestartCollector
  <2>2. log' \in [DOMAIN log' -> Entry] /\ DOMAIN log' = {}
    BY <1>6 DEF RestartCollector, NoLog
  <2>3. resets' \in Nat /\ own_stats' \in [OwnCounters -> Nat] /\ received' = NoCall
    BY <1>6 DEF RestartCollector, TypeOK
  <2>4. QED
    BY <1>6, <2>1, <2>2, <2>3 DEF RestartCollector, TypeOK, senderVars, Entry, Peers
<1>7. QED
  BY <1>2, <1>3, <1>4, <1>5, <1>6

LEMMA NextTyped ==
    ASSUME TypeOK, CallUnderWay, [Next]_vars
    PROVE  TypeOK'
<1>1. CASE Tick
  <2>1. now' \in 0 .. MaxNow
    BY <1>1, SystemAssumption DEF Tick, TypeOK
  <2>2. QED
    BY <1>1, <2>1 DEF Tick, TypeOK, senderVars, collectorVars
<1>2. CASE UNCHANGED vars
  BY <1>2 DEF vars, TypeOK
<1>3. QED
  BY <1>1, <1>2, SenderTyped, CollectorTyped DEF Next

-----------------------------------------------------------------------------
\* What a sender used is a datagram of the protocol.
LEMMA UsedTyped ==
    ASSUME TypeOK, NEW s \in Senders, NEW dg \in Used(s)
    PROVE  dg \in Datagrams /\ dg.sender = s /\ At(dg) \in Tuples
<1>1. dg.sender = s /\ (dg \in sent \/ dg = outbox[s])
  BY DEF Used
<1>2. dg # Nothing
  BY <1>1, SystemAssumption DEF Nothing, Datagram
<1>3. dg \in Datagrams
  BY <1>1, <1>2 DEF TypeOK
<1>4. QED
  BY <1>1, <1>3 DEF Datagrams, At, Tuples

\* A Pacer that remembers a claim remembers a position.
LEMMA LastTyped ==
    ASSUME TypeOK, NEW s \in Senders, pacers[s] # NewPacer
    PROVE  /\ Last(pacers[s]) \in Tuples
           /\ pacers[s] = Claimed(Last(pacers[s])) /\ pacers[s].last_offset # NoClaim
<1>1. pacers[s] \in [epoch : Epochs, last_offset : Offsets]
  BY DEF TypeOK
<1>2. NoClaim \notin Offsets
  BY DEF NoClaim, Offsets
<1>3. QED
  BY <1>1, <1>2 DEF Last, Tuples, Claimed

\* What a sender used lies behind the position it may claim next, whether its Pacer
\* remembers the last claim or was lost with the sender.
LEMMA UsedPrecedes ==
    ASSUME TypeOK, PacersFollow, NEW s \in Senders,
           \/ MayClaim(pacers[s], TupleAt(now))
           \/ pacers[s] # Claimed(TupleAt(now))
    PROVE  \A dg \in Used(s) : Precedes(At(dg), TupleAt(now))
<1> DEFINE tuple == TupleAt(now)
<1>1. CASE pacers[s] = NewPacer
  BY <1>1 DEF PacersFollow
<1>2. CASE pacers[s] # NewPacer
  <2> DEFINE last == Last(pacers[s])
  <2>1. tuple \in Tuples
    BY NowReads, TupleOf DEF TypeOK
  <2>2. /\ last \in Tuples
        /\ pacers[s] = Claimed(last) /\ pacers[s].last_offset # NoClaim
    BY <1>2, LastTyped
  <2>3. UpTo(last, tuple) /\ \A dg \in Used(s) : UpTo(At(dg), last)
    BY <1>2 DEF PacersFollow
  <2> HIDE DEF tuple, last
  <2>4. Precedes(last, tuple)
    <3>1. SUFFICES ASSUME last = tuple PROVE FALSE
      BY <2>3 DEF UpTo
    <3>2. pacers[s] = Claimed(tuple) /\ tuple.offset \in Offsets
      BY <2>1, <2>2, <3>1 DEF Tuples
    <3>3. ~MayClaim(pacers[s], tuple)
      BY <2>2, <3>2 DEF MayClaim, Claimed, Offsets
    <3>4. QED
      BY <3>2, <3>3 DEF tuple
  <2>5. ASSUME NEW dg \in Used(s) PROVE Precedes(At(dg), tuple)
    <3>1. At(dg) \in Tuples /\ UpTo(At(dg), last)
      BY <2>3, UsedTyped
    <3>2. QED
      BY <2>1, <2>2, <2>4, <3>1, PrecedesTransitive
  <2>6. QED
    BY <2>5 DEF tuple
<1>3. QED
  BY <1>1, <1>2

LEMMA InitSenders == Init => SenderInv
<1> SUFFICES ASSUME Init PROVE SenderInv
  OBVIOUS
<1>1. \A s \in Senders : Used(s) = {}
  BY SystemAssumption DEF Init, Used, Nothing, Datagram
<1>2. QED
  BY <1>1 DEF Init, SenderInv, PacersFollow, OutboxNew, NothingSpansEpochs

\* Time passes, and no position falls back.
LEMMA TickSenders ==
    ASSUME TypeOK, SenderInv, Tick
    PROVE  SenderInv'
<1>1. /\ now' = now + 1 /\ now \in Readings /\ now + 1 \in Readings
      /\ pacers' = pacers /\ outbox' = outbox /\ sent' = sent
  <2>1. now + 1 \in 0 .. MaxNow
    BY SystemAssumption DEF Tick, TypeOK
  <2>2. now + 1 \in Readings
    BY <2>1, SystemAssumption, EpochAssumption DEF Readings
  <2>3. QED
    BY <2>2, NowReads DEF Tick, TypeOK, senderVars
<1> DEFINE tuple == TupleAt(now)
           later == TupleAt(now + 1)
<1>2. UpTo(tuple, later) /\ tuple \in Tuples /\ later \in Tuples
  <2>1. now <= now + 1
    BY DEF TypeOK
  <2>2. QED
    BY <1>1, <2>1, TupleMonotone, TupleOf
<1>3. TupleAt(now)' = later /\ \A s \in Senders : Used(s)' = Used(s)
  BY <1>1 DEF Used
<1>4. PacersFollow'
  <2>1. ASSUME NEW s \in Senders
        PROVE  IF pacers[s] = NewPacer
               THEN \A dg \in Used(s) : Precedes(At(dg), later)
               ELSE /\ UpTo(Last(pacers[s]), later)
                    /\ \A dg \in Used(s) : UpTo(At(dg), Last(pacers[s]))
    <3>1. CASE pacers[s] = NewPacer
      <4>1. \A dg \in Used(s) : At(dg) \in Tuples /\ Precedes(At(dg), tuple)
        BY <3>1, UsedTyped DEF SenderInv, PacersFollow
      <4> HIDE DEF tuple, later
      <4>2. \A dg \in Used(s) : Precedes(At(dg), later)
        BY <1>2, <4>1, PrecedesTransitive
      <4>3. QED
        BY <3>1, <4>2
    <3>2. CASE pacers[s] # NewPacer
      <4>1. /\ UpTo(Last(pacers[s]), tuple) /\ Last(pacers[s]) \in Tuples
            /\ \A dg \in Used(s) : UpTo(At(dg), Last(pacers[s]))
        BY <3>2, LastTyped DEF SenderInv, PacersFollow
      <4> HIDE DEF tuple, later
      <4>2. UpTo(Last(pacers[s]), later)
        BY <1>2, <4>1, PrecedesTransitive
      <4>3. QED
        BY <3>2, <4>1, <4>2
    <3>3. QED
      BY <3>1, <3>2
  <2> HIDE DEF later
  <2>2. QED
    BY <1>1, <1>3, <2>1 DEF PacersFollow, Last
<1>5. QED
  BY <1>1, <1>4 DEF SenderInv, OutboxNew, NothingSpansEpochs

\* A claim leads past every position used.
LEMMA ClaimSenders ==
    ASSUME TypeOK, SenderInv, NEW s \in Senders, NEW kind, Claim(s, kind)
    PROVE  SenderInv'
<1> DEFINE tuple == TupleAt(now)
           new == Datagram(s, tuple, kind)
<1>1. /\ pacers' = [pacers EXCEPT ![s] = Claimed(tuple)]
      /\ outbox' = [outbox EXCEPT ![s] = new]
      /\ sent' = sent /\ now' = now
      /\ MayClaim(pacers[s], tuple)
  BY DEF Claim
<1>2. /\ pacers'[s] = Claimed(tuple) /\ outbox'[s] = new
      /\ \A t \in Senders : t # s => pacers'[t] = pacers[t] /\ outbox'[t] = outbox[t]
  BY <1>1 DEF TypeOK
<1>3. \A dg \in Used(s) : Precedes(At(dg), tuple) /\ At(dg) # tuple
  <2>1. tuple \in Tuples /\ \A dg \in Used(s) : Precedes(At(dg), tuple)
    BY <1>1, UsedPrecedes, NowReads, TupleOf DEF SenderInv, TypeOK
  <2> HIDE DEF tuple
  <2>2. QED
    BY <2>1, UsedTyped, PrecedesTransitive
<1>4. /\ At(new) = tuple /\ new.sender = s
      /\ Claimed(tuple) # NewPacer /\ Last(Claimed(tuple)) = tuple
  <2>1. tuple \in Tuples
    BY NowReads, TupleOf DEF TypeOK
  <2> HIDE DEF tuple
  <2>2. tuple = [epoch |-> tuple.epoch, offset |-> tuple.offset] /\ tuple.offset # NoClaim
    BY <2>1 DEF Tuples, Offsets, NoClaim
  <2>3. QED
    BY <2>2 DEF At, Datagram, Claimed, NewPacer, Last
<1> HIDE DEF new
<1>5. /\ Used(s)' \subseteq Used(s) \cup {new}
      /\ \A t \in Senders : t # s => Used(t)' = Used(t)
  BY <1>1, <1>2 DEF Used
<1>6. PacersFollow'
  <2>1. \A dg \in Used(s)' : UpTo(At(dg), tuple)
    BY <1>3, <1>4, <1>5 DEF UpTo
  <2>2. UpTo(tuple, tuple)
    BY DEF UpTo
  <2> HIDE DEF tuple
  <2>3. ASSUME NEW t \in Senders
        PROVE  IF pacers'[t] = NewPacer
               THEN \A dg \in Used(t)' : Precedes(At(dg), TupleAt(now))
               ELSE /\ UpTo(Last(pacers'[t]), TupleAt(now))
                    /\ \A dg \in Used(t)' : UpTo(At(dg), Last(pacers'[t]))
    <3>1. CASE t = s
      BY <1>2, <1>4, <2>1, <2>2, <3>1 DEF tuple
    <3>2. CASE t # s
      BY <1>2, <1>5, <3>2 DEF SenderInv, PacersFollow
    <3>3. QED
      BY <3>1, <3>2
  <2>4. QED
    BY <1>1, <2>3 DEF PacersFollow, Last
<1>7. OutboxNew'
  <2>1. ASSUME NEW dg \in sent, dg.sender = s PROVE At(dg) # At(new)
    BY <1>3, <1>4, <2>1 DEF Used
  <2>2. ASSUME NEW t \in Senders, outbox'[t] # Nothing
        PROVE  /\ outbox'[t].sender = t
               /\ \A dg \in sent : dg.sender = t => At(dg) # At(outbox'[t])
    <3>1. CASE t = s
      BY <1>2, <1>4, <2>1, <3>1
    <3>2. CASE t # s
      BY <1>2, <2>2, <3>2 DEF SenderInv, OutboxNew
    <3>3. QED
      BY <3>1, <3>2
  <2>3. QED
    BY <1>1, <2>2 DEF OutboxNew, At
<1>8. QED
  BY <1>1, <1>6, <1>7 DEF SenderInv, NothingSpansEpochs

\* A sender that has nothing more to send, and is perhaps started again.
LEMMA SendSenders ==
    ASSUME TypeOK, SenderInv, NEW s \in Senders, Send(s) \/ RestartSender(s)
    PROVE  SenderInv'
<1>1. /\ now' = now
      /\ outbox'[s] = Nothing
      /\ \A t \in Senders : t # s => pacers'[t] = pacers[t] /\ outbox'[t] = outbox[t]
      /\ sent' = sent \/ (outbox[s] # Nothing /\ sent' = sent \cup {outbox[s]})
  BY DEF Send, RestartSender, TypeOK
<1>2. \A t \in Senders : Used(t)' \subseteq Used(t)
  <2>1. outbox[s] # Nothing => outbox[s].sender = s
    BY DEF SenderInv, OutboxNew
  <2>2. Nothing.sender \notin Senders
    BY SystemAssumption DEF Nothing, Datagram
  <2>3. ASSUME NEW t \in Senders, NEW dg, dg \in sent' \cup {outbox'[t]}, dg.sender = t
        PROVE  dg \in sent \cup {outbox[t]}
    <3>1. CASE t = s
      BY <1>1, <2>2, <2>3, <3>1
    <3>2. CASE t # s
      BY <1>1, <2>1, <2>3, <3>2
    <3>3. QED
      BY <3>1, <3>2
  <2>4. QED
    BY <2>3 DEF Used
<1>3. PacersFollow'
  <2>1. ASSUME NEW t \in Senders, pacers'[t] = pacers[t]
        PROVE  IF pacers'[t] = NewPacer
               THEN \A dg \in Used(t)' : Precedes(At(dg), TupleAt(now))
               ELSE /\ UpTo(Last(pacers'[t]), TupleAt(now))
                    /\ \A dg \in Used(t)' : UpTo(At(dg), Last(pacers'[t]))
    BY <1>2, <2>1 DEF SenderInv, PacersFollow
  <2>2. pacers'[s] # pacers[s] =>
            /\ pacers'[s] = NewPacer
            /\ \A dg \in Used(s)' : Precedes(At(dg), TupleAt(now))
    <3>1. SUFFICES ASSUME pacers'[s] # pacers[s]
                   PROVE  /\ pacers'[s] = NewPacer
                          /\ \A dg \in Used(s)' : Precedes(At(dg), TupleAt(now))
      OBVIOUS
    <3>2. pacers'[s] = NewPacer /\ pacers[s] # Claimed(TupleAt(now))
      BY <3>1 DEF Send, RestartSender, TypeOK
    <3>3. QED
      BY <1>2, <3>2, UsedPrecedes DEF SenderInv
  <2>3. ASSUME NEW t \in Senders
        PROVE  IF pacers'[t] = NewPacer
               THEN \A dg \in Used(t)' : Precedes(At(dg), TupleAt(now))
               ELSE /\ UpTo(Last(pacers'[t]), TupleAt(now))
                    /\ \A dg \in Used(t)' : UpTo(At(dg), Last(pacers'[t]))
    <3>1. CASE pacers'[t] = pacers[t]
      BY <2>1, <3>1
    <3>2. CASE pacers'[t] # pacers[t]
      BY <1>1, <2>2, <3>2
    <3>3. QED
      BY <3>1, <3>2
  <2>4. QED
    BY <1>1, <2>3 DEF PacersFollow, Last
<1>4. OutboxNew'
  <2>1. ASSUME NEW t \in Senders, outbox'[t] # Nothing
        PROVE  /\ outbox'[t].sender = t
               /\ \A dg \in sent' : dg.sender = t => At(dg) # At(outbox'[t])
    <3>1. t # s /\ outbox'[t] = outbox[t]
      BY <1>1, <2>1
    <3>2. outbox[s] # Nothing => outbox[s].sender = s
      BY DEF SenderInv, OutboxNew
    <3>3. \A dg \in sent' : dg.sender = t => dg \in sent
      BY <1>1, <3>1, <3>2
    <3>4. QED
      BY <2>1, <3>1, <3>3 DEF SenderInv, OutboxNew
  <2>2. QED
    BY <2>1 DEF OutboxNew, At
<1>5. NothingSpansEpochs'
  <2>1. CASE sent' = sent
    BY <2>1 DEF SenderInv, NothingSpansEpochs
  <2>2. CASE sent' # sent
    <3>1. Builds(outbox[s]) /\ outbox[s] # Nothing /\ sent' = sent \cup {outbox[s]}
      BY <2>2 DEF Send, RestartSender
    <3>2. outbox[s].offset \in Offsets
      BY <3>1 DEF TypeOK, Datagrams
    <3>3. TicksPerEpoch \in Nat
      BY EpochAssumption DEF TicksPerEpoch
    <3>4. outbox[s].kind = "series" => outbox[s].offset + SeriesSpan \in Offsets
      BY <3>1, <3>2, <3>3, SystemAssumption DEF Builds, Offsets
    <3>5. QED
      BY <3>1, <3>4 DEF SenderInv, NothingSpansEpochs
  <2>3. QED
    BY <2>1, <2>2
<1>6. QED
  BY <1>3, <1>4, <1>5 DEF SenderInv

\* The steps of the collector leave the senders as they are.
LEMMA OtherSenders ==
    ASSUME SenderInv, UNCHANGED <<now, senderVars>>
    PROVE  SenderInv'
BY DEF SenderInv, PacersFollow, OutboxNew, NothingSpansEpochs, senderVars, Used, Last, At

LEMMA NextSenders ==
    ASSUME TypeOK, SenderInv, [Next]_vars
    PROVE  SenderInv'
<1>1. CASE Tick
  BY <1>1, TickSenders
<1>2. CASE \E s \in Senders \ Silent, kind \in {"message", "series"} : Claim(s, kind)
  BY <1>2, ClaimSenders
<1>3. CASE \E s \in Senders : Send(s) \/ RestartSender(s)
  BY <1>3, SendSenders
<1>4. CASE UNCHANGED <<now, senderVars>>
  BY <1>4, OtherSenders
<1>5. QED
  BY <1>1, <1>2, <1>3, <1>4
     DEF Next, Receive, Unrouted, Routed, Processed, Provision, RestartCollector, vars,
         senderVars

-----------------------------------------------------------------------------
Histories == [Epochs -> SUBSET Offset]

LEMMA RemembersNothing ==
    ASSUME NEW local \in Epochs
    PROVE  Remembers(NewPeer.windows, [e \in Epochs |-> {}], local)
BY NewWindowExact DEF Remembers, NewPeer, KeptIn, Acceptable

\* As time passes, an epoch that becomes acceptable is one of which nothing is known.
LEMMA RemembersLater ==
    ASSUME NEW ws \in Tables, NEW past \in Histories,
           NEW local \in Epochs, Remembers(ws, past, local),
           NEW later \in Epochs, local <= later
    PROVE  Remembers(ws, past, later)
<1>1. local \in Int /\ later \in Int /\ Epochs \subseteq Int
  BY EpochAssumption DEF Epochs
<1>2. DOMAIN ws \subseteq Int
  BY <1>1, TableHas
<1>3. ASSUME NEW e \in Acceptable(later) PROVE ExactFor(KeptIn(ws, e), past[e])
  <2>1. CASE e \in Acceptable(local)
    BY <2>1 DEF Remembers
  <2>2. CASE e \notin Acceptable(local)
    <3>1. e \in Epochs /\ e > local
      BY <1>1, <2>2 DEF Acceptable
    <3>2. past[e] = {} /\ e \notin DOMAIN ws
      BY <1>1, <3>1 DEF Remembers
    <3>3. QED
      BY <3>2, NewWindowExact DEF KeptIn
  <2>3. QED
    BY <2>1, <2>2
<1>4. \A e \in DOMAIN ws : e <= later
  BY <1>1, <1>2 DEF Remembers
<1>5. \A e \in Epochs : e > later => past[e] = {}
  BY <1>1 DEF Remembers
<1>6. QED
  BY <1>3, <1>4, <1>5 DEF Remembers

\* The history with one more offset.
With(past, epoch, offset) == [past EXCEPT ![epoch] = @ \cup {offset}]

\* PeerState::accept lets a datagram pass only if its offset is new, and the peer
\* remembers the history with it; what is refused as replayed is in the history, or an
\* offset Entries or more ahead of it.
LEMMA RemembersAfter ==
    ASSUME NEW p \in Peers, NEW dg \in Routable, NEW local \in Epochs, NEW t \in Nat,
           NEW past \in Histories, Remembers(p.windows, past, local)
    PROVE  LET a == Answer(p, dg, local, t)
               q == After(p, dg, local, t)
           IN  /\ a \in Passed => dg.offset \notin past[dg.epoch]
               /\ Remembers(q.windows,
                            IF a \in Passed THEN With(past, dg.epoch, dg.offset) ELSE past,
                            local)
               /\ a = "replay" => \E offset \in past[dg.epoch] :
                                     offset = dg.offset \/ offset >= dg.offset + Entries
<1> DEFINE a == Answer(p, dg, local, t)
           q == After(p, dg, local, t)
           w == KeptIn(p.windows, dg.epoch)
           longer == With(past, dg.epoch, dg.offset)
<1>1. dg.epoch \in Epochs /\ dg.offset \in Offset /\ past[dg.epoch] \in SUBSET Offset
  BY RoutableIs DEF Histories
<1>2. a \in Passed \cup {"replay"} =>
          /\ dg.epoch \in Acceptable(local)
          /\ Admits(w, dg.offset) <=> a \in Passed
  BY AnswerMeans
<1>3. /\ \A f \in Acceptable(local) :
            KeptIn(q.windows, f) = IF a \in Passed /\ f = dg.epoch
                                   THEN Admit(KeptIn(p.windows, f), dg.offset)
                                   ELSE KeptIn(p.windows, f)
      /\ DOMAIN q.windows \subseteq DOMAIN p.windows \cup Acceptable(local)
  BY AfterMeans
<1>4. w \in Windows
  <2>1. p.windows \in Tables
    BY DEF Peers
  <2>2. QED
    BY <2>1, TableHas, NewWindowExact DEF KeptIn
<1>5. dg.epoch \in Acceptable(local) => ExactFor(w, past[dg.epoch])
  BY DEF Remembers
<1>6. local \in Int /\ Epochs \subseteq Int
  BY EpochAssumption DEF Epochs
<1> HIDE DEF a, q, w
<1>7. \A e \in DOMAIN q.windows : e <= local
  <2>1. \A e \in Acceptable(local) : e <= local
    BY <1>6 DEF Acceptable
  <2>2. QED
    BY <1>3, <2>1 DEF Remembers
<1>8. CASE a \in Passed
  <2>1. dg.epoch \in Acceptable(local) /\ Admits(w, dg.offset) /\ ExactFor(w, past[dg.epoch])
    BY <1>2, <1>5, <1>8
  <2>2. /\ dg.offset \notin past[dg.epoch]
        /\ ExactFor(Admit(w, dg.offset), past[dg.epoch] \cup {dg.offset})
    BY <1>1, <1>4, <2>1, AdmitKeepsExact
  <2>3. /\ longer[dg.epoch] = past[dg.epoch] \cup {dg.offset}
        /\ \A e \in Epochs : e # dg.epoch => longer[e] = past[e]
    BY <1>1 DEF Histories, With
  <2>4. dg.epoch <= local
    BY <1>6, <2>1 DEF Acceptable
  <2> HIDE DEF longer
  <2>5. \A e \in Epochs : e > local => longer[e] = {}
    BY <1>6, <2>3, <2>4 DEF Remembers
  <2>6. \A e \in Acceptable(local) : ExactFor(KeptIn(q.windows, e), longer[e])
    <3>1. ASSUME NEW e \in Acceptable(local), e = dg.epoch
          PROVE  ExactFor(KeptIn(q.windows, e), longer[e])
      BY <1>3, <1>8, <2>2, <2>3, <3>1 DEF w
    <3>2. ASSUME NEW e \in Acceptable(local), e # dg.epoch
          PROVE  ExactFor(KeptIn(q.windows, e), longer[e])
      BY <1>3, <2>3, <3>2 DEF Remembers, Acceptable
    <3>3. QED
      BY <3>1, <3>2
  <2>7. a # "replay"
    BY <1>8 DEF Passed
  <2>8. Remembers(q.windows, longer, local)
    BY <1>7, <2>5, <2>6 DEF Remembers
  <2>9. QED
    BY <1>8, <2>2, <2>7, <2>8 DEF a, q, longer
<1>9. CASE a \notin Passed
  <2>1. Remembers(q.windows, past, local)
    BY <1>3, <1>7, <1>9 DEF Remembers
  <2>2. ASSUME a = "replay"
        PROVE  \E offset \in past[dg.epoch] :
                   offset = dg.offset \/ offset >= dg.offset + Entries
    <3>1. ~Admits(w, dg.offset) /\ ExactFor(w, past[dg.epoch])
      BY <1>2, <1>5, <1>9, <2>2
    <3>2. dg.offset \in past[dg.epoch]
              \/ \E offset \in past[dg.epoch] : offset - dg.offset >= Entries
      BY <1>1, <1>4, <3>1, RefusedWasSeen
    <3>3. Offset \subseteq Int /\ Entries \in Int
      BY WindowAssumption DEF Offset
    <3>4. CASE dg.offset \in past[dg.epoch]
      BY <3>4
    <3>5. CASE \E offset \in past[dg.epoch] : offset - dg.offset >= Entries
      <4>1. PICK offset \in past[dg.epoch] : offset - dg.offset >= Entries
        BY <3>5
      <4>2. offset \in Int /\ dg.offset \in Int /\ Entries \in Int
        BY <1>1, <3>3
      <4>3. offset >= dg.offset + Entries
        BY ONLY <4>1, <4>2
      <4>4. QED
        BY <4>3
    <3>6. QED
      BY <3>2, <3>4, <3>5
  <2>3. QED
    BY <1>9, <2>1, <2>2 DEF a, q
<1>10. QED
  BY <1>8, <1>9

-----------------------------------------------------------------------------
\* The calls before n that a datagram of that sender and epoch passed.
PassedCalls(n, s, epoch) ==
    {i \in DOMAIN log : /\ i < n /\ log[i].answer \in Passed
                        /\ log[i].datagram.sender = s
                        /\ log[i].datagram.epoch = epoch}

LEMMA PassedBy ==
    ASSUME NEW n, NEW s, NEW epoch
    PROVE  PassedBefore(n, s, epoch)
               = {log[i].datagram.offset : i \in PassedCalls(n, s, epoch)}
BY DEF PassedBefore, PassedCalls

LEMMA PastTyped ==
    ASSUME TypeOK, LogGenuine, NEW s
    PROVE  Past(s) \in Histories
<1>1. ASSUME NEW e \in Epochs PROVE PassedBefore(calls + 1, s, e) \subseteq Offset
  <2>1. Offset = Offsets
    BY SystemAssumption DEF Offset, Offsets
  <2>2. ASSUME NEW i \in PassedCalls(calls + 1, s, e)
        PROVE  log[i].datagram.offset \in Offset
    <3>1. log[i].datagram \in Datagrams
      BY <2>2 DEF PassedCalls, LogGenuine, TypeOK
    <3>2. QED
      BY <2>1, <3>1 DEF Datagrams
  <2>3. QED
    BY <2>2, PassedBy
<1>2. QED
  BY <1>1 DEF Past, Histories

\* Before the call under way there is all of the log.
LEMMA PastBeforeCall ==
    ASSUME TypeOK, calls \notin DOMAIN log, NEW s, NEW e \in Epochs
    PROVE  PassedBefore(calls, s, e) = Past(s)[e]
<1>1. \A i \in DOMAIN log : i < calls /\ i < calls + 1
  <2>1. DOMAIN log \subseteq 1 .. calls /\ calls \in Nat
    BY DEF TypeOK
  <2>2. QED
    BY <2>1
<1>2. PassedCalls(calls, s, e) = PassedCalls(calls + 1, s, e)
  BY <1>1 DEF PassedCalls
<1>3. QED
  BY <1>2, PassedBy DEF Past

\* A call that ends leaves what passed before it, and before every earlier call, as it
\* was.
LEMMA ProcessedBefore ==
    ASSUME TypeOK, CallUnderWay, received # NoCall,
           NEW answer \in OwnCounters \cup PeerCounters, NEW epoch \in Epochs \cup {NoEpoch},
           Processed(answer, epoch),
           NEW s, NEW e, NEW n \in DOMAIN log'
    PROVE  PassedBefore(n, s, e)' = PassedBefore(n, s, e)
<1> DEFINE I == PassedCalls(n, s, e)
<1>1. /\ DOMAIN log' = DOMAIN log \cup {calls}
      /\ \A i \in DOMAIN log : log'[i] = log[i]
  BY ProcessedLogs
<1>2. \A i \in DOMAIN log' : i < n => i \in DOMAIN log
  <2>1. calls \in Nat /\ DOMAIN log \subseteq 1 .. calls
    BY DEF TypeOK
  <2>2. QED
    BY <1>1, <2>1
<1>3. I' = I
  BY <1>1, <1>2 DEF PassedCalls
<1>4. PassedBefore(n, s, e)' = {log'[i].datagram.offset : i \in I'}
  BY DEF PassedBefore, PassedCalls
<1>5. PassedBefore(n, s, e) = {log[i].datagram.offset : i \in I}
  BY PassedBy
<1>6. I \subseteq DOMAIN log
  BY DEF PassedCalls
<1> HIDE DEF I
<1>7. {log'[i].datagram.offset : i \in I} = {log[i].datagram.offset : i \in I}
  BY <1>1, <1>6
<1>8. QED
  BY <1>3, <1>4, <1>5, <1>7

\* A call that ends adds its offset to the history of its sender, if that passed.
LEMMA ProcessedPast ==
    ASSUME TypeOK, CallUnderWay, received # NoCall,
           NEW answer \in OwnCounters \cup PeerCounters, NEW epoch \in Epochs \cup {NoEpoch},
           Processed(answer, epoch),
           NEW s, NEW e \in Epochs
    PROVE  LET dg == received.datagram
           IN  /\ answer \in Passed /\ dg.sender = s /\ dg.epoch = e =>
                      Past(s)'[e] = Past(s)[e] \cup {dg.offset}
               /\ ~(answer \in Passed /\ dg.sender = s /\ dg.epoch = e) =>
                      Past(s)'[e] = Past(s)[e]
<1> DEFINE dg == received.datagram
           n == calls + 1
           I == PassedCalls(n, s, e)
           passes == answer \in Passed /\ dg.sender = s /\ dg.epoch = e
<1>1. /\ DOMAIN log' = DOMAIN log \cup {calls}
      /\ \A i \in DOMAIN log : i # calls /\ log'[i] = log[i]
      /\ log'[calls].answer = answer /\ log'[calls].datagram = dg
      /\ calls' = calls
  BY ProcessedLogs DEF Processed
<1>2. \A i \in DOMAIN log' : i < n
  <2>1. calls \in Nat /\ DOMAIN log \subseteq 1 .. calls
    BY DEF TypeOK
  <2>2. QED
    BY <1>1, <2>1
<1>3. I' = I \cup (IF passes THEN {calls} ELSE {})
  <2>1. ASSUME NEW i \in DOMAIN log PROVE i \in I' <=> i \in I
    BY <1>1, <1>2 DEF PassedCalls
  <2>2. calls \in I' <=> passes
    BY <1>1, <1>2 DEF PassedCalls
  <2>3. I \subseteq DOMAIN log /\ I' \subseteq DOMAIN log \cup {calls}
    BY <1>1 DEF PassedCalls
  <2> HIDE DEF I, passes
  <2>4. QED
    BY <1>1, <2>1, <2>2, <2>3
<1>4. PassedBefore(n, s, e)' = {log'[i].datagram.offset : i \in I'}
  BY <1>1 DEF PassedBefore, PassedCalls
<1>5. PassedBefore(n, s, e) = {log[i].datagram.offset : i \in I}
  BY PassedBy
<1>6. \A i \in I : log'[i].datagram.offset = log[i].datagram.offset
  BY <1>1 DEF PassedCalls
<1>7. Past(s)'[e] = PassedBefore(n, s, e)' /\ Past(s)[e] = PassedBefore(n, s, e)
  BY <1>1 DEF Past
<1> HIDE DEF I, passes
<1>8. {log'[i].datagram.offset : i \in I'}
          = {log[i].datagram.offset : i \in I} \cup (IF passes THEN {dg.offset} ELSE {})
  BY <1>1, <1>3, <1>6
<1>9. QED
  BY <1>4, <1>5, <1>7, <1>8 DEF passes

-----------------------------------------------------------------------------
LEMMA LocalTyped ==
    ASSUME TypeOK, CallUnderWay
    PROVE  /\ Local \in Epochs /\ Current \in Epochs /\ Epochs \subseteq Int
           /\ Local <= Current
<1>1. Current \in Epochs /\ Epochs \subseteq Int
  BY CurrentEpoch, EpochAssumption DEF TypeOK, Epochs
<1>2. CASE received = NoCall
  BY <1>1, <1>2 DEF Local
<1>3. CASE received # NoCall
  BY <1>1, <1>3 DEF Local, TypeOK, CallUnderWay
<1>4. QED
  BY <1>2, <1>3, <1>1

LEMMA JunkUnsent ==
    ASSUME NEW dg \in Junk
    PROVE  dg \notin Datagrams
BY DEF Junk, Datagram, Datagrams

LEMMA InitCollector == Init => CollectorInv /\ RefusalJustified
<1> SUFFICES ASSUME Init PROVE CollectorInv /\ RefusalJustified
  OBVIOUS
<1>1. DOMAIN log = {} /\ received = NoCall
  BY DEF Init, NoLog
<1>2. \A s \in Senders : peers[s] = NewPeer /\ Past(s) = [e \in Epochs |-> {}]
  BY <1>1 DEF Init, Past, PassedBefore
<1>3. TypeOK
  BY InitTyped
<1>4. Local \in Epochs
  BY <1>1, <1>3, LocalTyped DEF CallUnderWay
<1>5. WindowsExact
  BY <1>2, <1>4, RemembersNothing DEF WindowsExact
<1>6. QED
  BY <1>1, <1>5 DEF CollectorInv, CallUnderWay, LogGenuine, RefusalJustified

\* While the collector waits, time passes and more is sent.
LEMMA OtherCollector ==
    ASSUME TypeOK, CollectorInv, RefusalJustified, TypeOK',
           UNCHANGED collectorVars, sent \subseteq sent',
           Current' \in Epochs, Current <= Current'
    PROVE  CollectorInv' /\ RefusalJustified'
<1>1. /\ peers' = peers /\ received' = received /\ log' = log /\ calls' = calls
  BY DEF collectorVars
<1>2. /\ Local \in Epochs /\ Current \in Epochs /\ Epochs \subseteq Int
      /\ Local <= Current
  BY LocalTyped DEF CollectorInv
<1>3. CallUnderWay'
  <2>1. received # NoCall => received.local_epoch = Local
    BY DEF Local
  <2>2. received # NoCall => received.local_epoch <= Current'
    BY <1>2, <2>1
  <2>3. QED
    BY <1>1, <2>2 DEF CollectorInv, CallUnderWay
<1>4. LogGenuine'
  BY <1>1 DEF CollectorInv, LogGenuine
<1>5. WindowsExact'
  <2>1. Local' \in Epochs /\ Local <= Local'
    <3>1. CASE received = NoCall
      BY <1>1, <1>2, <3>1 DEF Local
    <3>2. CASE received # NoCall
      <4>1. Local' = Local
        BY <1>1, <3>2 DEF Local
      <4>2. QED
        BY <1>2, <4>1
    <3>3. QED
      BY <3>1, <3>2
  <2>2. ASSUME NEW s \in Senders PROVE Remembers(peers[s].windows, Past(s), Local')
    <3>1. peers[s].windows \in Tables
      BY DEF TypeOK
    <3>2. Past(s) \in Histories
      BY PastTyped DEF CollectorInv
    <3>3. Remembers(peers[s].windows, Past(s), Local)
      BY DEF CollectorInv, WindowsExact
    <3>4. QED
      BY <1>2, <2>1, <3>1, <3>2, <3>3, RemembersLater
  <2>3. \A s \in Senders : Past(s)' = Past(s)
    BY <1>1 DEF Past, PassedBefore
  <2>4. QED
    BY <1>1, <2>2, <2>3 DEF WindowsExact
<1>6. RefusalJustified'
  <2>1. ASSUME NEW n \in DOMAIN log, log[n].datagram \in sent'
        PROVE  log[n].datagram \in sent
    <3>1. log[n].datagram \in sent \cup Junk
      BY DEF CollectorInv, LogGenuine
    <3>2. log[n].datagram \in Datagrams
      BY <2>1 DEF TypeOK
    <3>3. QED
      BY <3>1, <3>2, JunkUnsent
  <2>2. QED
    BY <1>1, <2>1 DEF RefusalJustified, PassedBefore
<1>7. QED
  BY <1>3, <1>4, <1>5, <1>6 DEF CollectorInv

LEMMA ReceiveCollector ==
    ASSUME TypeOK, CollectorInv, RefusalJustified,
           NEW dg \in sent \cup Junk, Receive(dg)
    PROVE  CollectorInv' /\ RefusalJustified'
<1>1. /\ peers' = peers /\ log' = log /\ calls' = calls + 1 /\ sent' = sent /\ now' = now
      /\ received = NoCall
      /\ received' = [datagram |-> dg, local_epoch |-> Current]
  BY DEF Receive, senderVars, Current
<1>2. Current \in Epochs /\ Epochs \subseteq Int /\ calls \in Nat /\ DOMAIN log \subseteq 1 .. calls
  BY LocalTyped DEF CollectorInv, TypeOK
<1>3. Current' = Current
  BY <1>1 DEF Current, Clock
<1>4. CallUnderWay'
  <2>1. calls + 1 \in Nat \ {0} /\ calls + 1 \notin DOMAIN log
    BY <1>2
  <2>2. Current <= Current
    BY <1>2
  <2>3. QED
    BY <1>1, <1>3, <2>1, <2>2 DEF CallUnderWay
<1>5. LogGenuine'
  BY <1>1 DEF CollectorInv, LogGenuine
<1>6. WindowsExact'
  <2>1. Local' = Local
    BY <1>1, <1>3 DEF Local
  <2>2. ASSUME NEW s PROVE Past(s)' = Past(s)
    <3>1. \A i \in DOMAIN log : i < calls + 1 /\ i < calls + 1 + 1
      BY <1>2
    <3>2. ASSUME NEW e \in Epochs
          PROVE  PassedBefore(calls + 1 + 1, s, e) = PassedBefore(calls + 1, s, e)
      <4>1. PassedCalls(calls + 1 + 1, s, e) = PassedCalls(calls + 1, s, e)
        BY <3>1 DEF PassedCalls
      <4>2. QED
        BY <4>1, PassedBy
    <3>3. \A e \in Epochs : PassedBefore(calls + 1, s, e)' = PassedBefore(calls + 1 + 1, s, e)
      BY <1>1 DEF PassedBefore
    <3>4. QED
      BY <3>2, <3>3 DEF Past
  <2>3. QED
    BY <1>1, <2>1, <2>2 DEF CollectorInv, WindowsExact
<1>7. RefusalJustified'
  BY <1>1 DEF RefusalJustified, PassedBefore
<1>8. QED
  BY <1>4, <1>5, <1>6, <1>7 DEF CollectorInv

\* The answer to the call under way is justified by what passed before it, and the
\* answers to all calls before it are as they were.
LEMMA ProcessedJustified ==
    ASSUME TypeOK, CallUnderWay, received # NoCall, LogGenuine, RefusalJustified,
           NEW answer \in OwnCounters \cup PeerCounters, NEW epoch \in Epochs \cup {NoEpoch},
           Processed(answer, epoch),
           answer \in Passed =>
               received.datagram \in sent /\ epoch = received.datagram.epoch,
           received.datagram \in sent =>
               /\ answer \in {"epoch_out_of_window", "auth_failed"} =>
                      received.datagram.epoch
                          \notin {received.local_epoch - 1, received.local_epoch}
               /\ answer = "replay" =>
                      \E offset \in Past(received.datagram.sender)[received.datagram.epoch] :
                          \/ offset = received.datagram.offset
                          \/ offset >= received.datagram.offset + Entries
    PROVE  LogGenuine' /\ RefusalJustified' /\ CallUnderWay'
<1> DEFINE dg == received.datagram
<1>1. /\ DOMAIN log' = DOMAIN log \cup {calls}
      /\ \A n \in DOMAIN log : n # calls /\ log'[n] = log[n]
      /\ log'[calls] = [datagram |-> dg, answer |-> answer,
                        local_epoch |-> received.local_epoch, epoch_id |-> epoch]
      /\ received' = NoCall /\ sent' = sent
  BY ProcessedLogs DEF Processed, senderVars
<1>2. calls \notin DOMAIN log /\ dg \in sent \cup Junk
  BY DEF CallUnderWay
<1>3. /\ log'[calls].datagram = dg /\ log'[calls].answer = answer
      /\ log'[calls].local_epoch = received.local_epoch /\ log'[calls].epoch_id = epoch
  BY <1>1
<1>4. LogGenuine'
  <2>1. ASSUME NEW n \in DOMAIN log'
        PROVE  /\ log'[n].datagram \in sent \cup Junk
               /\ log'[n].answer \in Passed =>
                     log'[n].datagram \in sent /\ log'[n].epoch_id = log'[n].datagram.epoch
    <3>1. CASE n = calls
      BY <1>2, <1>3, <3>1
    <3>2. CASE n # calls
      BY <1>1, <3>2 DEF LogGenuine
    <3>3. QED
      BY <3>1, <3>2
  <2>2. QED
    BY <1>1, <2>1 DEF LogGenuine
<1>5. RefusalJustified'
  <2>1. ASSUME NEW n \in DOMAIN log', NEW d, d = log'[n].datagram, d \in sent
        PROVE  /\ log'[n].answer \in {"epoch_out_of_window", "auth_failed"} =>
                      d.epoch \notin {log'[n].local_epoch - 1, log'[n].local_epoch}
               /\ log'[n].answer = "replay" =>
                      \E offset \in PassedBefore(n, d.sender, d.epoch) :
                          offset = d.offset \/ offset >= d.offset + Entries
    <3>1. d.epoch \in Epochs
      BY <2>1 DEF TypeOK, Datagrams
    <3>2. CASE n = calls
      <4>1. PassedBefore(calls, d.sender, d.epoch) = Past(d.sender)[d.epoch]
        BY <1>2, <3>1, PastBeforeCall
      <4>2. QED
        BY <1>3, <2>1, <3>2, <4>1
    <3>3. CASE n # calls
      <4>1. n \in DOMAIN log /\ log'[n] = log[n]
        BY <1>1, <3>3
      <4>2. QED
        BY <2>1, <4>1 DEF RefusalJustified
    <3>4. QED
      BY <3>2, <3>3
  <2>2. ASSUME NEW n \in DOMAIN log', NEW s, NEW e
        PROVE  PassedBefore(n, s, e)' = PassedBefore(n, s, e)
    BY ProcessedBefore
  <2>3. ASSUME NEW n \in DOMAIN log', NEW d, d = log'[n].datagram, d \in sent
        PROVE  /\ log'[n].answer \in {"epoch_out_of_window", "auth_failed"} =>
                      d.epoch \notin {log'[n].local_epoch - 1, log'[n].local_epoch}
               /\ log'[n].answer = "replay" =>
                      \E offset \in PassedBefore(n, d.sender, d.epoch)' :
                          offset = d.offset \/ offset >= d.offset + Entries
    <3>1. d.epoch \in Epochs
      BY <2>3 DEF TypeOK, Datagrams
    <3>2. PassedBefore(n, d.sender, d.epoch)' = PassedBefore(n, d.sender, d.epoch)
      BY <2>2, <3>1
    <3>3. QED
      BY <2>1, <2>3, <3>2
  <2>4. QED
    BY <1>1, <2>3 DEF RefusalJustified, PassedBefore
<1>6. QED
  BY <1>1, <1>4, <1>5 DEF CallUnderWay

\* After a call that ended, the epoch of the clock counts, and the peers remember by it.
LEMMA ProcessedWindows ==
    ASSUME TypeOK, CallUnderWay, LogGenuine, received # NoCall,
           NEW answer \in OwnCounters \cup PeerCounters, NEW epoch \in Epochs \cup {NoEpoch},
           Processed(answer, epoch), TypeOK',
           \A s \in Senders : Past(s)' \in Histories /\ Remembers(peers'[s].windows, Past(s)', Local)
    PROVE  WindowsExact'
<1>1. Local \in Epochs /\ Current \in Epochs /\ Local <= Current
  BY LocalTyped
<1>2. Local' = Current
  BY ProcessedLogs DEF Local, Current, Clock, Processed
<1>3. ASSUME NEW s \in Senders PROVE Remembers(peers'[s].windows, Past(s)', Current)
  <2>1. peers'[s].windows \in Tables
    BY DEF TypeOK
  <2>2. QED
    BY <1>1, <2>1, RemembersLater
<1>4. QED
  BY <1>2, <1>3 DEF WindowsExact

LEMMA UnroutedCollector ==
    ASSUME TypeOK, CollectorInv, RefusalJustified, TypeOK', Unrouted
    PROVE  CollectorInv' /\ RefusalJustified'
<1> DEFINE c == IF received.datagram.kind = "short" THEN "too_short" ELSE "unknown_sender"
           dg == received.datagram
<1>1. c \in OwnCounters /\ c \notin Passed \cup {"epoch_out_of_window", "auth_failed", "replay"}
  BY DEF OwnCounters, Passed
<1>2. Processed(c, NoEpoch) /\ received # NoCall /\ peers' = peers /\ dg.sender \notin Senders
  BY DEF Unrouted
<1> HIDE DEF c
<1>3. LogGenuine' /\ RefusalJustified' /\ CallUnderWay'
  BY <1>1, <1>2, ProcessedJustified DEF CollectorInv
<1>4. ASSUME NEW s \in Senders PROVE Past(s)' = Past(s)
  <2>1. \A e \in Epochs : Past(s)'[e] = Past(s)[e]
    BY <1>1, <1>2, ProcessedPast DEF CollectorInv
  <2>2. QED
    BY <2>1 DEF Past
<1>5. ASSUME NEW s \in Senders
      PROVE  Past(s)' \in Histories /\ Remembers(peers'[s].windows, Past(s)', Local)
  BY <1>2, <1>4, PastTyped DEF CollectorInv, WindowsExact
<1>6. WindowsExact'
  BY <1>1, <1>2, <1>5, ProcessedWindows DEF CollectorInv
<1>7. QED
  BY <1>3, <1>6 DEF CollectorInv

LEMMA RoutedCollector ==
    ASSUME TypeOK, CollectorInv, RefusalJustified, TypeOK', Routed
    PROVE  CollectorInv' /\ RefusalJustified'
<1> DEFINE dg == received.datagram
           local == received.local_epoch
           p == peers[dg.sender]
           answer == Answer(p, dg, local, Clock)
           epoch == ReconstructEpoch(local, LowBits(dg.epoch))
           after == After(p, dg, local, Clock)
<1>1. /\ received # NoCall /\ dg.sender \in Senders
      /\ peers' = [peers EXCEPT ![dg.sender] = after]
      /\ Processed(answer, epoch)
  BY DEF Routed
<1>2. dg \in sent \cup Junk /\ dg \in Datagrams \cup Junk /\ sent \subseteq Datagrams
  BY <1>1 DEF CollectorInv, CallUnderWay, TypeOK
<1>3. /\ dg \in Routable /\ local \in Epochs /\ p \in Peers /\ Clock \in Nat
      /\ peers \in [Senders -> Peers]
  BY <1>1, <1>2, RoutedReads
<1>4. Past(dg.sender) \in Histories /\ Remembers(p.windows, Past(dg.sender), local)
  <2>1. Local = local
    BY <1>1 DEF Local
  <2>2. QED
    BY <1>1, <2>1, PastTyped DEF CollectorInv, WindowsExact
<1>5. /\ answer \in PeerCounters
      /\ answer = "epoch_out_of_window" => dg.epoch \notin Acceptable(local)
      /\ answer = "auth_failed" => dg.kind = "forged" \/ dg.epoch \notin Acceptable(local)
      /\ answer \in Passed => dg \in Datagrams /\ epoch = dg.epoch
  BY <1>3, AnswerMeans
<1>6. /\ Remembers(after.windows,
                   IF answer \in Passed THEN With(Past(dg.sender), dg.epoch, dg.offset)
                                        ELSE Past(dg.sender),
                   local)
      /\ answer = "replay" => \E offset \in Past(dg.sender)[dg.epoch] :
                                 offset = dg.offset \/ offset >= dg.offset + Entries
  BY <1>3, <1>4, RemembersAfter
<1>7. epoch \in Epochs \cup {NoEpoch}
  BY <1>3, ReconstructedAcceptable DEF Acceptable
<1>8. dg.epoch \in Epochs /\ dg.offset \in Offset
      /\ (dg.kind = "forged" => dg \notin Datagrams)
  BY <1>3, RoutableIs
<1> HIDE DEF answer, epoch, after
<1>9. LogGenuine' /\ RefusalJustified' /\ CallUnderWay'
  <2>1. answer \in Passed => dg \in sent /\ epoch = dg.epoch
    BY <1>2, <1>5, JunkUnsent
  <2>2. dg \in sent => /\ answer \in {"epoch_out_of_window", "auth_failed"} =>
                              dg.epoch \notin {local - 1, local}
                       /\ answer = "replay" =>
                              \E offset \in Past(dg.sender)[dg.epoch] :
                                  offset = dg.offset \/ offset >= dg.offset + Entries
    BY <1>2, <1>5, <1>6, <1>8 DEF Acceptable
  <2>3. QED
    BY <1>1, <1>5, <1>7, <2>1, <2>2, ProcessedJustified DEF CollectorInv
<1>10. ASSUME NEW s \in Senders
       PROVE  Past(s)' \in Histories /\ Remembers(peers'[s].windows, Past(s)', Local)
  <2>1. Local = local
    BY <1>1 DEF Local
  <2>2. Past(s) \in Histories /\ Remembers(peers[s].windows, Past(s), Local)
    BY PastTyped DEF CollectorInv, WindowsExact
  <2>3. ASSUME NEW e \in Epochs
        PROVE  /\ answer \in Passed /\ dg.sender = s /\ dg.epoch = e =>
                      Past(s)'[e] = Past(s)[e] \cup {dg.offset}
               /\ ~(answer \in Passed /\ dg.sender = s /\ dg.epoch = e) =>
                      Past(s)'[e] = Past(s)[e]
    <3>1. CallUnderWay /\ answer \in OwnCounters \cup PeerCounters
      BY <1>5 DEF CollectorInv
    <3>2. QED
      BY <1>1, <1>7, <3>1, ProcessedPast
  <2>4. Past(s)' = [e \in Epochs |-> Past(s)'[e]]
    BY DEF Past
  <2>5. CASE dg.sender = s /\ answer \in Passed
    <3>1. With(Past(s), dg.epoch, dg.offset) \in Histories
      BY <1>8, <2>2 DEF With, Histories
    <3>2. \A e \in Epochs : With(Past(s), dg.epoch, dg.offset)[e] = Past(s)'[e]
      BY <2>2, <2>3, <2>5 DEF With, Histories
    <3>3. Past(s)' = With(Past(s), dg.epoch, dg.offset)
      BY <2>4, <3>1, <3>2 DEF Histories
    <3>4. peers'[s] = after
      BY <1>1, <1>3, <2>5
    <3>5. QED
      BY <1>6, <2>1, <2>5, <3>1, <3>3, <3>4
  <2>6. CASE ~(dg.sender = s /\ answer \in Passed)
    <3>1. \A e \in Epochs : Past(s)'[e] = Past(s)[e]
      BY <2>3, <2>6
    <3>2. Past(s)' = Past(s)
      BY <2>2, <2>4, <3>1 DEF Histories
    <3>3. CASE dg.sender = s
      <4>1. peers'[s] = after
        BY <1>1, <1>3, <3>3
      <4>2. QED
        BY <1>6, <2>1, <2>2, <2>6, <3>2, <3>3, <4>1
    <3>4. CASE dg.sender # s
      <4>1. peers'[s] = peers[s]
        BY <1>1, <1>3, <3>4
      <4>2. QED
        BY <2>2, <3>2, <4>1
    <3>5. QED
      BY <3>3, <3>4
  <2>7. QED
    BY <2>5, <2>6
<1>11. WindowsExact'
  BY <1>1, <1>5, <1>7, <1>10, ProcessedWindows DEF CollectorInv
<1>12. QED
  BY <1>9, <1>11 DEF CollectorInv

\* What is known of a sender that is provisioned again goes, log and windows together.
LEMMA ProvisionCollector ==
    ASSUME TypeOK, CollectorInv, RefusalJustified, NEW s \in Senders, Provision(s)
    PROVE  CollectorInv' /\ RefusalJustified'
<1> DEFINE D == {n \in DOMAIN log : log[n].datagram.sender # s}
<1>1. /\ peers' = [peers EXCEPT ![s] = NewPeer] /\ log' = [n \in D |-> log[n]]
      /\ received' = received /\ calls' = calls /\ sent' = sent /\ now' = now
  BY DEF Provision, senderVars
<1>2. DOMAIN log' = D /\ D \subseteq DOMAIN log /\ \A n \in D : log'[n] = log[n]
  BY <1>1
<1>3. Local' = Local /\ Current' = Current
  BY <1>1 DEF Local, Current, Clock
<1>4. ASSUME NEW n, NEW t, NEW e
      PROVE  PassedBefore(n, t, e)' = IF t = s THEN {} ELSE PassedBefore(n, t, e)
  <2> DEFINE I == {i \in DOMAIN log' : /\ i < n /\ log'[i].answer \in Passed
                                       /\ log'[i].datagram.sender = t
                                       /\ log'[i].datagram.epoch = e}
  <2>1. I = IF t = s THEN {} ELSE PassedCalls(n, t, e)
    BY <1>2 DEF PassedCalls
  <2>2. I \subseteq D
    BY <1>2
  <2>3. PassedBefore(n, t, e)' = {log'[i].datagram.offset : i \in I}
    BY DEF PassedBefore
  <2> HIDE DEF I
  <2>4. {log'[i].datagram.offset : i \in I} = {log[i].datagram.offset : i \in I}
    BY <1>2, <2>2
  <2>5. QED
    BY <2>1, <2>3, <2>4, PassedBy
<1>5. WindowsExact'
  <2>1. Local \in Epochs
    BY LocalTyped DEF CollectorInv
  <2>2. ASSUME NEW t \in Senders
        PROVE  Past(t)' = IF t = s THEN [e \in Epochs |-> {}] ELSE Past(t)
    <3>1. \A e \in Epochs : Past(t)'[e] = IF t = s THEN {} ELSE Past(t)[e]
      <4>1. ASSUME NEW e \in Epochs, NEW n, n = calls + 1
            PROVE  PassedBefore(n, t, e)' = IF t = s THEN {} ELSE PassedBefore(n, t, e)
        BY <1>4
      <4>2. QED
        BY <1>1, <4>1 DEF Past, PassedBefore
    <3>2. QED
      BY <3>1 DEF Past
  <2>3. ASSUME NEW t \in Senders PROVE Remembers(peers'[t].windows, Past(t)', Local)
    <3>1. CASE t = s
      <4>1. peers'[t] = NewPeer
        BY <1>1, <3>1 DEF TypeOK
      <4>2. QED
        BY <2>1, <2>2, <3>1, <4>1, RemembersNothing
    <3>2. CASE t # s
      <4>1. peers'[t] = peers[t]
        BY <1>1, <3>2 DEF TypeOK
      <4>2. QED
        BY <2>2, <3>2, <4>1 DEF CollectorInv, WindowsExact
    <3>3. QED
      BY <3>1, <3>2
  <2>4. QED
    BY <1>3, <2>3 DEF WindowsExact
<1>6. RefusalJustified'
  <2>1. ASSUME NEW n \in D, NEW d, d = log[n].datagram, d \in sent
        PROVE  /\ log[n].answer \in {"epoch_out_of_window", "auth_failed"} =>
                      d.epoch \notin {log[n].local_epoch - 1, log[n].local_epoch}
               /\ log[n].answer = "replay" =>
                      \E offset \in PassedBefore(n, d.sender, d.epoch)' :
                          offset = d.offset \/ offset >= d.offset + Entries
    <3>1. PassedBefore(n, d.sender, d.epoch)' = PassedBefore(n, d.sender, d.epoch)
      <4>1. d.sender # s
        BY <2>1
      <4>2. QED
        BY <1>4, <4>1
    <3>2. QED
      BY <2>1, <3>1 DEF RefusalJustified
  <2>2. QED
    BY <1>1, <1>2, <2>1 DEF RefusalJustified, PassedBefore
<1>7. CallUnderWay' /\ LogGenuine'
  BY <1>1, <1>2, <1>3 DEF CollectorInv, CallUnderWay, LogGenuine
<1>8. QED
  BY <1>5, <1>6, <1>7 DEF CollectorInv

LEMMA RestartCollectorStep ==
    ASSUME TypeOK, CollectorInv, RestartCollector
    PROVE  CollectorInv' /\ RefusalJustified'
<1>1. /\ DOMAIN log' = {} /\ received' = NoCall /\ now' = now
      /\ \A s \in Senders : peers'[s] = NewPeer
  BY DEF RestartCollector, NoLog
<1>2. Local' = Current
  BY <1>1 DEF Local, Current, Clock
<1>3. Current \in Epochs
  BY LocalTyped DEF CollectorInv
<1>4. \A s \in Senders : Past(s)' = [e \in Epochs |-> {}]
  BY <1>1 DEF Past, PassedBefore
<1>5. WindowsExact'
  BY <1>1, <1>2, <1>3, <1>4, RemembersNothing DEF WindowsExact
<1>6. QED
  BY <1>1, <1>5 DEF CollectorInv, CallUnderWay, LogGenuine, RefusalJustified

LEMMA NextCollector ==
    ASSUME TypeOK, CollectorInv, RefusalJustified, TypeOK', [Next]_vars
    PROVE  CollectorInv' /\ RefusalJustified'
<1>1. Current \in Epochs /\ Epochs \subseteq Int
  BY LocalTyped DEF CollectorInv
<1>2. CASE Tick
  <2>1. Current' \in Epochs /\ Current <= Current'
    BY <1>2, CurrentAdvances DEF Tick, TypeOK
  <2>2. QED
    BY <1>2, <2>1, OtherCollector DEF Tick, senderVars
<1>3. CASE UNCHANGED <<now, collectorVars>> /\ sent \subseteq sent'
  <2>1. Current' = Current
    BY <1>3 DEF Current, Clock
  <2>2. Current <= Current
    BY <1>1
  <2>3. QED
    BY <1>1, <1>3, <2>1, <2>2, OtherCollector
<1>4. ASSUME \/ \E s \in Senders \ Silent, kind \in {"message", "series"} : Claim(s, kind)
             \/ \E s \in Senders : Send(s) \/ RestartSender(s)
             \/ UNCHANGED vars
      PROVE  UNCHANGED <<now, collectorVars>> /\ sent \subseteq sent'
  BY <1>4 DEF Claim, Send, RestartSender, collectorVars, vars
<1>5. QED
  BY <1>2, <1>3, <1>4, ReceiveCollector, UnroutedCollector, RoutedCollector,
     ProvisionCollector, RestartCollectorStep DEF Next

-----------------------------------------------------------------------------
LEMMA InitInv == Init => SystemInv
BY InitTyped, InitSenders, InitCollector DEF SystemInv

LEMMA NextInv == SystemInv /\ [Next]_vars => SystemInv'
<1> SUFFICES ASSUME SystemInv, [Next]_vars PROVE SystemInv'
  OBVIOUS
<1>1. TypeOK'
  BY NextTyped DEF SystemInv, CollectorInv
<1>2. SenderInv'
  BY NextSenders DEF SystemInv
<1>3. CollectorInv' /\ RefusalJustified'
  BY <1>1, NextCollector DEF SystemInv
<1>4. QED
  BY <1>1, <1>2, <1>3 DEF SystemInv

\* The senders' Pacers stay ahead of all they used, and the peers remember what passed,
\* in every state (Pacer::claim of lib.rs; PeerState::accept of peer.rs).
THEOREM Inductive == Spec => []SystemInv
BY InitInv, NextInv, PTL DEF Spec

\* However many epochs a peer is sent datagrams for, it keeps the windows of no more
\* than two, one after the other; nothing leaves its type (prune and window_for).
THEOREM TypeCorrect == Spec => []TypeOK
BY Inductive, PTL DEF SystemInv

\* No SERIES is sent whose readings pass the end of its epoch (Datagram::series).
THEOREM NeverSpans == Spec => []NothingSpansEpochs
BY Inductive, PTL DEF SystemInv, SenderInv

\* A genuine datagram is refused only for the epoch the collector read, an offset that
\* passed, or the limit (PeerState::accept), across restarts of either side, repeated
\* provisionings and all the network does.
THEOREM RefusalsJustified == Spec => []RefusalJustified
BY Inductive, PTL DEF SystemInv

-----------------------------------------------------------------------------
\* What the collector handed over, by its calls, as Delivery sees it.
Handed == [n \in Accepts |-> [log[n].datagram EXCEPT !.epoch = log[n].epoch_id]]

\* It is what it was called with.
LEMMA HandedIs ==
    ASSUME TypeOK, LogGenuine
    PROVE  /\ Handed = [n \in Accepts |-> log[n].datagram]
           /\ \A n \in Accepts : log[n].datagram \in sent /\ log[n].datagram.sender \in Senders
<1>1. ASSUME NEW n \in Accepts
      PROVE  /\ [log[n].datagram EXCEPT !.epoch = log[n].epoch_id] = log[n].datagram
             /\ log[n].datagram \in sent /\ log[n].datagram.sender \in Senders
  <2>1. log[n].datagram \in sent /\ log[n].epoch_id = log[n].datagram.epoch
    BY DEF Accepts, Passed, LogGenuine
  <2>2. log[n].datagram \in Datagrams
    BY <2>1 DEF TypeOK
  <2>3. QED
    BY <2>1, <2>2 DEF Datagrams
<1>2. QED
  BY <1>1 DEF Handed

\* A datagram is sent by a position of its own.
LEMMA SendRefines ==
    ASSUME TypeOK, SenderInv, NEW s \in Senders, Send(s), sent' # sent, Handed' = Handed
    PROVE  Promise!Next
<1> DEFINE m == outbox[s]
<1>1. m # Nothing /\ sent' = sent \cup {m} /\ m \in sent' \ sent
  BY DEF Send
<1>2. /\ m.sender = s
      /\ \A dg \in sent : dg.sender = s => At(dg) # At(m)
  BY <1>1 DEF SenderInv, OutboxNew
<1> HIDE DEF m
<1>3. ASSUME NEW other \in sent PROVE Promise!Position(other) # Promise!Position(m)
  <2>1. CASE other.sender # m.sender
    BY <2>1 DEF Promise!Position
  <2>2. CASE other.sender = m.sender
    <3>1. other.epoch # m.epoch \/ other.offset # m.offset
      BY <1>2, <2>2 DEF At
    <3>2. QED
      BY <3>1 DEF Promise!Position
  <2>3. QED
    BY <2>1, <2>2
<1>4. Promise!Send(m)
  BY <1>1, <1>3 DEF Promise!Send, Handed
<1>5. QED
  BY <1>1, <1>4 DEF Promise!Next

\* What the collector accepts was sent and is handed over for the first time.
LEMMA RoutedRefines ==
    ASSUME TypeOK, CollectorInv, Routed, TypeOK', LogGenuine'
    PROVE  (UNCHANGED <<sent, Handed>>) \/ Promise!Next
<1> DEFINE dg == received.datagram
           local == received.local_epoch
           p == peers[dg.sender]
           answer == Answer(p, dg, local, Clock)
           epoch == ReconstructEpoch(local, LowBits(dg.epoch))
<1>1. /\ received # NoCall /\ dg.sender \in Senders
      /\ Processed(answer, epoch) /\ sent' = sent
  BY DEF Routed, Processed, senderVars
<1>2. dg \in Datagrams \cup Junk /\ calls \notin DOMAIN log
  BY <1>1 DEF CollectorInv, CallUnderWay, TypeOK
<1>3. dg \in Routable /\ local \in Epochs /\ p \in Peers /\ Clock \in Nat
  BY <1>1, <1>2, RoutedReads
<1>4. /\ answer \in PeerCounters /\ epoch \in Epochs \cup {NoEpoch}
      /\ dg.epoch \in Epochs
  BY <1>3, AnswerMeans, ReconstructedAcceptable, RoutableIs DEF Acceptable
<1>5. answer \in Passed => dg.offset \notin Past(dg.sender)[dg.epoch]
  <2>1. Local = local
    BY <1>1 DEF Local
  <2>2. Past(dg.sender) \in Histories /\ Remembers(p.windows, Past(dg.sender), local)
    BY <1>1, <2>1, PastTyped DEF CollectorInv, WindowsExact
  <2>3. QED
    BY <1>3, <2>2, RemembersAfter
<1> HIDE DEF answer, epoch
<1>6. /\ DOMAIN log' = DOMAIN log \cup {calls}
      /\ \A n \in DOMAIN log : n # calls /\ log'[n] = log[n]
      /\ log'[calls].answer = answer /\ log'[calls].datagram = dg
  <2>1. CallUnderWay /\ answer \in OwnCounters \cup PeerCounters
    BY <1>4 DEF CollectorInv
  <2>2. /\ DOMAIN log' = DOMAIN log \cup {calls}
        /\ \A n \in DOMAIN log : n # calls /\ log'[n] = log[n]
        /\ log'[calls] = [datagram |-> dg, answer |-> answer,
                          local_epoch |-> local, epoch_id |-> epoch]
    BY <1>1, <1>4, <2>1, ProcessedLogs
  <2>3. QED
    BY <2>2
<1>7. Handed = [n \in Accepts |-> log[n].datagram]
  BY HandedIs DEF CollectorInv
<1>8. /\ Handed' = [n \in Accepts' |-> log'[n].datagram]
      /\ \A n \in Accepts' : log'[n].datagram \in sent
  <2>1. ASSUME NEW n \in Accepts'
        PROVE  /\ [log'[n].datagram EXCEPT !.epoch = log'[n].epoch_id] = log'[n].datagram
               /\ log'[n].datagram \in sent
    <3>1. log'[n].datagram \in sent /\ log'[n].epoch_id = log'[n].datagram.epoch
      BY <1>1 DEF Accepts, Passed, LogGenuine
    <3>2. log'[n].datagram \in Datagrams
      BY <3>1 DEF TypeOK
    <3>3. QED
      BY <3>1, <3>2 DEF Datagrams
  <2>2. QED
    BY <2>1 DEF Handed
<1>9. Accepts' = Accepts \cup (IF answer = "accepted" THEN {calls} ELSE {})
  BY <1>6 DEF Accepts
<1>10. Accepts \subseteq DOMAIN log
  BY DEF Accepts
<1>11. CASE answer # "accepted"
  <2>1. Accepts' = Accepts
    BY <1>9, <1>11
  <2>2. Handed' = Handed
    BY <1>6, <1>7, <1>8, <1>10, <2>1
  <2>3. QED
    BY <1>1, <2>2
<1>12. CASE answer = "accepted"
  <2>1. Accepts' = Accepts \cup {calls} /\ calls \notin Accepts
    BY <1>2, <1>9, <1>10, <1>12
  <2>2. DOMAIN Handed = Accepts /\ \A n \in Accepts : Handed[n] = log[n].datagram
    BY <1>7
  <2>3. Handed' = [n \in DOMAIN Handed \cup {calls} |-> IF n = calls THEN dg ELSE Handed[n]]
    BY <1>6, <1>8, <1>10, <2>1, <2>2
  <2>4. dg \in sent
    BY <1>6, <1>8, <2>1
  <2>5. ASSUME NEW n \in Accepts PROVE Handed[n] # dg
    <3>1. SUFFICES ASSUME log[n].datagram = dg PROVE FALSE
      BY <2>2
    <3>2. n \in PassedCalls(calls, dg.sender, dg.epoch)
      <4>1. calls \in Nat /\ DOMAIN log \subseteq 1 .. calls
        BY DEF TypeOK
      <4>2. n < calls
        BY <1>2, <1>10, <4>1
      <4>3. QED
        BY <3>1, <4>2 DEF Accepts, Passed, PassedCalls
    <3>3. dg.offset \in PassedBefore(calls, dg.sender, dg.epoch)
      BY <3>1, <3>2, PassedBy
    <3>4. dg.offset \in Past(dg.sender)[dg.epoch]
      BY <1>2, <1>4, <3>3, PastBeforeCall
    <3>5. QED
      BY <1>5, <1>12, <3>4 DEF Passed
  <2>6. calls \in DOMAIN Handed'
    BY <2>3
  <2>7. ASSUME NEW n, n = calls, NEW m, m = dg PROVE Promise!Next
    <3>1. /\ m \in sent /\ n \notin DOMAIN Handed /\ sent' = sent
          /\ m \notin {Handed[i] : i \in DOMAIN Handed}
          /\ Handed' = [i \in DOMAIN Handed \cup {n} |-> IF i = n THEN m ELSE Handed[i]]
      BY <1>1, <2>1, <2>2, <2>3, <2>4, <2>5, <2>7
    <3>2. Promise!Deliver(n, m)
      BY <3>1 DEF Promise!Deliver, Promise!Delivered, Handed
    <3>3. n \in DOMAIN Handed'
      BY <2>6, <2>7
    <3>4. QED
      BY <3>1, <3>2, <3>3 DEF Promise!Next, Handed
  <2>8. QED
    BY <2>7
<1>13. QED
  BY <1>11, <1>12

\* A collector that forgets a sender, or all of them, forgets what it handed over.
LEMMA ProvisionRefines ==
    ASSUME TypeOK, CollectorInv, NEW s \in Senders, Provision(s)
    PROVE  Promise!Next
<1> DEFINE D == {n \in DOMAIN log : log[n].datagram.sender # s}
<1>1. log' = [n \in D |-> log[n]] /\ sent' = sent
  BY DEF Provision, senderVars
<1>2. /\ Handed = [n \in Accepts |-> log[n].datagram]
      /\ \A n \in Accepts : log[n].datagram \in sent
  BY HandedIs DEF CollectorInv
<1>3. Accepts' = {n \in DOMAIN Handed : Handed[n].sender \notin {s}}
  BY <1>1, <1>2 DEF Accepts
<1>4. Handed' = [n \in Accepts' |-> Handed[n]]
  <2>1. Accepts' \subseteq D /\ Accepts' \subseteq Accepts
    BY <1>1 DEF Accepts
  <2>2. \A n \in Accepts' : log'[n] = log[n]
    BY <1>1, <2>1
  <2>3. Handed' = [n \in Accepts' |-> [log'[n].datagram EXCEPT !.epoch = log'[n].epoch_id]]
    BY DEF Handed
  <2>4. \A n \in Accepts : Handed[n] = [log[n].datagram EXCEPT !.epoch = log[n].epoch_id]
    BY DEF Handed
  <2>5. QED
    BY <2>1, <2>2, <2>3, <2>4
<1>5. ASSUME NEW S, S = {s} PROVE Promise!Next
  <2>1. Handed' = [n \in {n \in DOMAIN Handed : Handed[n].sender \notin S} |-> Handed[n]]
    BY <1>3, <1>4, <1>5
  <2>2. Promise!Forget(S)
    BY <1>1, <2>1 DEF Promise!Forget, Handed
  <2>3. QED
    BY <1>5, <2>2 DEF Promise!Next
<1>6. QED
  BY <1>5

LEMMA RestartRefines ==
    ASSUME TypeOK, CollectorInv, RestartCollector
    PROVE  Promise!Next
<1>1. DOMAIN log' = {} /\ sent' = sent
  BY DEF RestartCollector, NoLog, senderVars
<1>2. DOMAIN Handed = Accepts /\ \A n \in Accepts : Handed[n].sender \in Senders
  BY HandedIs DEF CollectorInv
<1>3. Accepts' = {}
  BY <1>1 DEF Accepts
<1>4. {n \in DOMAIN Handed : Handed[n].sender \notin Senders} = {}
  BY <1>2
<1>5. Handed' = [n \in {n \in DOMAIN Handed : Handed[n].sender \notin Senders} |-> Handed[n]]
  BY <1>3, <1>4 DEF Handed
<1>6. Promise!Forget(Senders)
  BY <1>1, <1>5 DEF Promise!Forget, Handed
<1>7. QED
  BY <1>6 DEF Promise!Next

LEMMA UnroutedRefines ==
    ASSUME TypeOK, CollectorInv, Unrouted
    PROVE  UNCHANGED <<sent, Handed>>
<1> DEFINE c == IF received.datagram.kind = "short" THEN "too_short" ELSE "unknown_sender"
<1>1. c \in OwnCounters /\ c # "accepted"
  BY DEF OwnCounters
<1>2. Processed(c, NoEpoch) /\ received # NoCall /\ sent' = sent
  BY DEF Unrouted, Processed, senderVars
<1> HIDE DEF c
<1>3. /\ DOMAIN log' = DOMAIN log \cup {calls}
      /\ \A n \in DOMAIN log : n # calls /\ log'[n] = log[n]
      /\ log'[calls].answer = c
  <2>1. /\ DOMAIN log' = DOMAIN log \cup {calls}
        /\ \A n \in DOMAIN log : n # calls /\ log'[n] = log[n]
        /\ log'[calls] = [datagram |-> received.datagram, answer |-> c,
                          local_epoch |-> received.local_epoch, epoch_id |-> NoEpoch]
    BY <1>1, <1>2, ProcessedLogs DEF CollectorInv
  <2>2. QED
    BY <2>1
<1>4. Accepts' = Accepts /\ Accepts \subseteq DOMAIN log
  BY <1>1, <1>3 DEF Accepts
<1>5. Handed' = Handed
  BY <1>3, <1>4 DEF Handed
<1>6. QED
  BY <1>2, <1>5

LEMMA StepRefines ==
    SystemInv /\ SystemInv' /\ [Next]_vars => [Promise!Next]_<<sent, Handed>>
<1> SUFFICES ASSUME SystemInv, SystemInv', [Next]_vars
             PROVE  (UNCHANGED <<sent, Handed>>) \/ Promise!Next
  OBVIOUS
<1> USE DEF SystemInv
<1>1. log' = log => Handed' = Handed
  BY DEF Handed, Accepts
<1>2. ASSUME NEW s \in Senders, Send(s)
      PROVE  (UNCHANGED <<sent, Handed>>) \/ Promise!Next
  <2>1. Handed' = Handed
    BY <1>1, <1>2 DEF Send, collectorVars
  <2>2. QED
    BY <1>2, <2>1, SendRefines
<1>3. CASE UNCHANGED <<sent, log>>
  BY <1>1, <1>3
<1>4. \/ Tick
      \/ \E s \in Senders \ Silent, kind \in {"message", "series"} : Claim(s, kind)
      \/ \E s \in Senders : RestartSender(s)
      \/ \E dg \in sent \cup Junk : Receive(dg)
      \/ UNCHANGED vars
      => UNCHANGED <<sent, log>>
  BY DEF Tick, Claim, RestartSender, Receive, vars, senderVars, collectorVars
<1>5. Routed => (UNCHANGED <<sent, Handed>>) \/ Promise!Next
  BY RoutedRefines DEF CollectorInv
<1>6. QED
  BY <1>2, <1>3, <1>4, <1>5, UnroutedRefines, ProvisionRefines, RestartRefines DEF Next

\* Whatever is delivered, repeated, reordered or lost, and whoever restarts: no position
\* is sent twice, and what was sent is handed over as it was sent and once at most, for
\* as long as its sender is remembered (Pacer::claim; PeerState::accept; Collector).
THEOREM Implements == Spec => KeepsPromise
<1>1. Init => Promise!Init
  BY DEF Init, NoLog, Accepts, Promise!Init
<1>2. QED
  BY <1>1, Inductive, StepRefines, PTL DEF Spec, KeepsPromise, Promise!Spec, Handed

-----------------------------------------------------------------------------
\* The calls of a log that were answered by a counter, and those of them from some senders.
Answered(l, c) == {n \in DOMAIN l : l[n].answer = c}

AnsweredTo(l, c, S) == {n \in Answered(l, c) : l[n].datagram.sender \in S}

\* Each counter is the number of the calls it stands for, a peer's that of its own calls;
\* and the counters of the peers stand for the calls of senders that have one.
CountsExact ==
    /\ \A n \in DOMAIN log :
          log[n].answer \in PeerCounters <=> log[n].datagram.sender \in Senders
    /\ \A c \in OwnCounters : own_stats[c] = Cardinality(Answered(log, c))
    /\ \A s \in Senders, c \in PeerCounters :
          peers[s].stats[c] = Cardinality(AnsweredTo(log, c, {s}))

\* There are finitely many, so that they can be counted one by one.
LEMMA AnsweredFinite ==
    ASSUME TypeOK, NEW c, NEW S
    PROVE  /\ IsFiniteSet(Answered(log, c)) /\ Cardinality(Answered(log, c)) \in Nat
           /\ IsFiniteSet(AnsweredTo(log, c, S)) /\ Cardinality(AnsweredTo(log, c, S)) \in Nat
<1>1. 1 \in Int /\ calls \in Int /\ DOMAIN log \subseteq 1 .. calls
  BY DEF TypeOK
<1>2. IsFiniteSet(1 .. calls)
  BY <1>1, FS_Interval
<1>3. Answered(log, c) \subseteq 1 .. calls /\ AnsweredTo(log, c, S) \subseteq 1 .. calls
  BY <1>1 DEF Answered, AnsweredTo
<1>4. IsFiniteSet(Answered(log, c)) /\ IsFiniteSet(AnsweredTo(log, c, S))
  BY <1>2, <1>3, FS_Subset
<1>5. QED
  BY <1>4, FS_CardinalityType

\* What Stats adds up, as an equation for the function from sets of senders to sums that
\* the definition recurs on.
Merging(c, t) ==
    [S \in SUBSET Senders |->
        IF S = {} THEN 0
        ELSE LET s == CHOOSE s \in S : TRUE IN peers[s].stats[c] + t[S \ {s}]]

LEMMA StatsMerges ==
    ASSUME NEW c \in PeerCounters
    PROVE  Stats(c) = (CHOOSE t : t = Merging(c, t))[Senders]
<1>1. c \notin OwnCounters
  BY DEF PeerCounters, OwnCounters
<1>2. QED
  BY <1>1 DEF Stats, Merging

\* A nonempty collection of subsets of a finite set has one that holds no other.
LEMMA SmallestSubset ==
    ASSUME NEW S, IsFiniteSet(S), NEW T \in SUBSET (SUBSET S), T # {}
    PROVE  \E U \in T : \A V \in T : V \subseteq U => V = U
<1>1. IsWellFoundedOn(StrictSubsetOrdering(S), SUBSET S)
  BY FS_StrictSubsetOrderingWellFounded, FS_FiniteSubsetsOfFinite
<1>2. PICK U \in T : \A V \in T : ~(<<V, U>> \in StrictSubsetOrdering(S))
  BY <1>1, WFMin
<1>3. QED
  BY <1>2 DEF StrictSubsetOrdering

\* It has one solution: two of them would part at a set and not at a smaller one.
LEMMA MergingUnique ==
    ASSUME NEW c, NEW t, NEW u, t = Merging(c, t), u = Merging(c, u)
    PROVE  t = u
<1> DEFINE T == {S \in SUBSET Senders : t[S] # u[S]}
<1>1. SUFFICES ASSUME T # {} PROVE FALSE
  <2>1. ASSUME NEW F, F = SUBSET Senders PROVE t = [S \in F |-> t[S]] /\ u = [S \in F |-> u[S]]
    BY <2>1 DEF Merging
  <2>2. t = [S \in SUBSET Senders |-> t[S]] /\ u = [S \in SUBSET Senders |-> u[S]]
    BY <2>1
  <2>3. QED
    BY <2>2
<1>2. PICK U \in T : \A V \in T : V \subseteq U => V = U
  <2>1. T \in SUBSET (SUBSET Senders) /\ IsFiniteSet(Senders)
    BY SystemAssumption
  <2> HIDE DEF T
  <2>2. QED
    BY <1>1, <2>1, SmallestSubset
<1> DEFINE s == CHOOSE s \in U : TRUE
<1>3. U # {}
  BY <1>2 DEF Merging
<1>4. s \in U
  BY <1>3
<1>5. t[U \ {s}] = u[U \ {s}]
  BY <1>2, <1>4
<1>6. t[U] = peers[s].stats[c] + t[U \ {s}] /\ u[U] = peers[s].stats[c] + u[U \ {s}]
  BY <1>2, <1>3 DEF Merging
<1>7. QED
  BY <1>2, <1>5, <1>6

\* The numbers of calls are a solution: each sender adds its own.
LEMMA MergingCounts ==
    ASSUME TypeOK, CountsExact, NEW c \in PeerCounters,
           NEW t, t = [S \in SUBSET Senders |-> Cardinality(AnsweredTo(log, c, S))]
    PROVE  t = Merging(c, t)
<1>1. ASSUME NEW S \in SUBSET Senders, S = {} PROVE t[S] = 0
  <2>1. AnsweredTo(log, c, S) = {}
    BY <1>1 DEF AnsweredTo
  <2>2. QED
    BY <2>1, FS_EmptySet
<1>2. ASSUME NEW S \in SUBSET Senders, NEW s \in S
      PROVE  t[S] = peers[s].stats[c] + t[S \ {s}]
  <2> DEFINE one == AnsweredTo(log, c, {s})
             others == AnsweredTo(log, c, S \ {s})
  <2>1. AnsweredTo(log, c, S) = one \cup others /\ one \cap others = {}
    BY DEF AnsweredTo
  <2>2. /\ IsFiniteSet(one) /\ IsFiniteSet(others)
        /\ Cardinality(one) \in Nat /\ Cardinality(others) \in Nat
    BY AnsweredFinite
  <2>3. peers[s].stats[c] = Cardinality(one)
    BY DEF CountsExact
  <2> HIDE DEF one, others
  <2>4. Cardinality(one \cup others) = Cardinality(one) + Cardinality(others) - Cardinality({})
    BY <2>1, <2>2, FS_Union
  <2>5. Cardinality({}) = 0
    BY FS_EmptySet
  <2>6. t[S] = Cardinality(one \cup others) /\ t[S \ {s}] = Cardinality(others)
    BY <2>1 DEF others
  <2>7. QED
    BY <2>2, <2>3, <2>4, <2>5, <2>6
<1>3. \A S \in SUBSET Senders : S # {} =>
          t[S] = peers[CHOOSE s \in S : TRUE].stats[c] + t[S \ {CHOOSE s \in S : TRUE}]
  BY <1>2
<1>4. \A S \in SUBSET Senders : t[S] = Merging(c, t)[S]
  BY <1>1, <1>3 DEF Merging
<1>5. QED
  BY <1>4 DEF Merging

LEMMA StatsOfCounts == TypeOK /\ CountsExact => StatsAddUp
<1> SUFFICES ASSUME TypeOK, CountsExact PROVE StatsAddUp
  OBVIOUS
<1>1. ASSUME NEW c \in OwnCounters PROVE Stats(c) = Cardinality(Answered(log, c))
  BY DEF Stats, CountsExact
<1>2. ASSUME NEW c \in PeerCounters PROVE Stats(c) = Cardinality(Answered(log, c))
  <2> DEFINE t == [S \in SUBSET Senders |-> Cardinality(AnsweredTo(log, c, S))]
             u == CHOOSE u : u = Merging(c, u)
  <2>1. t = Merging(c, t)
    BY MergingCounts
  <2>2. u = Merging(c, u)
    <3> HIDE DEF t
    <3>1. QED
      BY <2>1
  <2>3. u = t
    <3> HIDE DEF t, u
    <3>1. QED
      BY <2>1, <2>2, MergingUnique
  <2>4. Stats(c) = u[Senders]
    BY StatsMerges
  <2>5. AnsweredTo(log, c, Senders) = Answered(log, c)
    BY DEF AnsweredTo, Answered, CountsExact
  <2> HIDE DEF u
  <2>6. QED
    BY <2>3, <2>4, <2>5
<1>3. QED
  BY <1>1, <1>2 DEF StatsAddUp, Answered

\* The call under way is counted once, under its answer.
LEMMA ProcessedCounts ==
    ASSUME TypeOK, TypeOK', CallUnderWay, received # NoCall,
           NEW answer \in OwnCounters \cup PeerCounters, NEW epoch \in Epochs \cup {NoEpoch},
           Processed(answer, epoch), NEW c, NEW s
    PROVE  /\ c = answer =>
                 Cardinality(Answered(log', c)) = Cardinality(Answered(log, c)) + 1
           /\ c # answer => Answered(log', c) = Answered(log, c)
           /\ c = answer /\ s = received.datagram.sender =>
                 Cardinality(AnsweredTo(log', c, {s})) = Cardinality(AnsweredTo(log, c, {s})) + 1
           /\ c # answer \/ s # received.datagram.sender =>
                 AnsweredTo(log', c, {s}) = AnsweredTo(log, c, {s})
<1>1. /\ DOMAIN log' = DOMAIN log \cup {calls}
      /\ \A n \in DOMAIN log : n # calls /\ log'[n] = log[n]
      /\ log'[calls].answer = answer /\ log'[calls].datagram = received.datagram
  <2>1. log'[calls] = [datagram |-> received.datagram, answer |-> answer,
                       local_epoch |-> received.local_epoch, epoch_id |-> epoch]
    BY ProcessedLogs
  <2>2. QED
    BY <2>1, ProcessedLogs
<1>2. /\ Answered(log', c) = IF c = answer THEN Answered(log, c) \cup {calls} ELSE Answered(log, c)
      /\ AnsweredTo(log', c, {s}) = IF c = answer /\ s = received.datagram.sender
                               THEN AnsweredTo(log, c, {s}) \cup {calls} ELSE AnsweredTo(log, c, {s})
  BY <1>1 DEF Answered, AnsweredTo
<1>3. calls \notin Answered(log, c) /\ calls \notin AnsweredTo(log, c, {s})
  BY <1>1 DEF Answered, AnsweredTo
<1>4. /\ IsFiniteSet(Answered(log, c)) /\ Cardinality(Answered(log, c)) \in Nat
      /\ IsFiniteSet(AnsweredTo(log, c, {s})) /\ Cardinality(AnsweredTo(log, c, {s})) \in Nat
  BY AnsweredFinite
<1>5. /\ Cardinality(Answered(log, c) \cup {calls}) = Cardinality(Answered(log, c)) + 1
      /\ Cardinality(AnsweredTo(log, c, {s}) \cup {calls}) = Cardinality(AnsweredTo(log, c, {s})) + 1
  BY <1>3, <1>4, FS_AddElement
<1>6. QED
  BY <1>2, <1>4, <1>5

LEMMA InitCounts == Init => CountsExact
<1> SUFFICES ASSUME Init PROVE CountsExact
  OBVIOUS
<1>1. DOMAIN log = {}
  BY DEF Init, NoLog
<1>2. \A c, S : Answered(log, c) = {} /\ AnsweredTo(log, c, S) = {}
  BY <1>1 DEF Answered, AnsweredTo
<1>3. \A s \in Senders, c \in PeerCounters : peers[s].stats[c] = 0
  BY DEF Init, NewPeer
<1>4. \A c \in OwnCounters : own_stats[c] = 0
  BY DEF Init
<1>5. QED
  BY <1>1, <1>2, <1>3, <1>4, FS_EmptySet DEF CountsExact

LEMMA UnroutedCounts ==
    ASSUME TypeOK, TypeOK', CollectorInv, CountsExact, Unrouted
    PROVE  CountsExact'
<1> DEFINE answer == IF received.datagram.kind = "short" THEN "too_short" ELSE "unknown_sender"
<1>1. answer \in OwnCounters /\ answer \notin PeerCounters
  BY DEF OwnCounters, PeerCounters
<1>2. /\ Processed(answer, NoEpoch) /\ received # NoCall
      /\ received.datagram.sender \notin Senders
      /\ own_stats' = [own_stats EXCEPT ![answer] = @ + 1] /\ peers' = peers
  BY DEF Unrouted
<1>3. own_stats \in [OwnCounters -> Nat]
  BY DEF TypeOK
<1> HIDE DEF answer
<1>4. ASSUME NEW c, NEW s
      PROVE  /\ c = answer =>
                   Cardinality(Answered(log', c)) = Cardinality(Answered(log, c)) + 1
             /\ c # answer => Answered(log', c) = Answered(log, c)
             /\ c = answer /\ s = received.datagram.sender =>
                   Cardinality(AnsweredTo(log', c, {s})) = Cardinality(AnsweredTo(log, c, {s})) + 1
             /\ c # answer \/ s # received.datagram.sender =>
                   AnsweredTo(log', c, {s}) = AnsweredTo(log, c, {s})
  BY <1>1, <1>2, ProcessedCounts DEF CollectorInv
<1>5. ASSUME NEW c \in OwnCounters PROVE own_stats'[c] = Cardinality(Answered(log', c))
  <2>1. own_stats'[c] = IF c = answer THEN own_stats[c] + 1 ELSE own_stats[c]
    BY <1>1, <1>2, <1>3
  <2>2. QED
    BY <1>4, <2>1 DEF CountsExact
<1>6. ASSUME NEW s \in Senders, NEW c \in PeerCounters
      PROVE  peers'[s].stats[c] = Cardinality(AnsweredTo(log', c, {s}))
  <2>1. Cardinality(AnsweredTo(log, c, {s})) \in Nat
    BY AnsweredFinite
  <2>2. QED
    BY <1>1, <1>2, <1>4, <2>1 DEF CountsExact
<1>7. \A n \in DOMAIN log' :
          log'[n].answer \in PeerCounters <=> log'[n].datagram.sender \in Senders
  <2>1. log'[calls] = [datagram |-> received.datagram, answer |-> answer,
                       local_epoch |-> received.local_epoch, epoch_id |-> NoEpoch]
    BY <1>1, <1>2, ProcessedLogs DEF CollectorInv
  <2>2. DOMAIN log' = DOMAIN log \cup {calls} /\ \A n \in DOMAIN log : log'[n] = log[n]
    BY <1>1, <1>2, ProcessedLogs DEF CollectorInv
  <2>3. log'[calls].answer = answer /\ log'[calls].datagram = received.datagram
    BY <2>1
  <2>4. QED
    BY <1>1, <1>2, <2>2, <2>3 DEF CountsExact
<1>8. QED
  BY <1>5, <1>6, <1>7 DEF CountsExact

LEMMA RoutedCounts ==
    ASSUME TypeOK, TypeOK', CollectorInv, CountsExact, Routed
    PROVE  CountsExact'
<1> DEFINE dg == received.datagram
           local == received.local_epoch
           p == peers[dg.sender]
           answer == Answer(p, dg, local, Clock)
           epoch == ReconstructEpoch(local, LowBits(dg.epoch))
           after == After(p, dg, local, Clock)
<1>1. /\ received # NoCall /\ dg.sender \in Senders
      /\ peers' = [peers EXCEPT ![dg.sender] = after]
      /\ Processed(answer, epoch) /\ own_stats' = own_stats
  BY DEF Routed
<1>2. dg \in Datagrams \cup Junk
  BY <1>1 DEF TypeOK
<1>3. /\ dg \in Routable /\ local \in Epochs /\ p \in Peers /\ Clock \in Nat
      /\ peers \in [Senders -> Peers]
  BY <1>1, <1>2, RoutedReads
<1>4. answer \in PeerCounters /\ answer \notin OwnCounters
  <2>1. answer \in PeerCounters
    BY <1>3, AnswerMeans
  <2>2. QED
    BY <2>1 DEF PeerCounters, OwnCounters
<1>5. epoch \in Epochs \cup {NoEpoch}
  BY <1>3, ReconstructedAcceptable DEF Acceptable
<1>6. after.stats = [p.stats EXCEPT ![answer] = @ + 1]
  BY DEF After
<1>7. p.stats \in [PeerCounters -> Nat]
  BY <1>3 DEF Peers
<1> HIDE DEF answer, epoch, after
<1>8. ASSUME NEW c, NEW s
      PROVE  /\ c = answer =>
                   Cardinality(Answered(log', c)) = Cardinality(Answered(log, c)) + 1
             /\ c # answer => Answered(log', c) = Answered(log, c)
             /\ c = answer /\ s = dg.sender =>
                   Cardinality(AnsweredTo(log', c, {s})) = Cardinality(AnsweredTo(log, c, {s})) + 1
             /\ c # answer \/ s # dg.sender =>
                   AnsweredTo(log', c, {s}) = AnsweredTo(log, c, {s})
  BY <1>1, <1>4, <1>5, ProcessedCounts DEF CollectorInv
<1>9. ASSUME NEW c \in OwnCounters PROVE own_stats'[c] = Cardinality(Answered(log', c))
  <2>1. Cardinality(Answered(log, c)) \in Nat
    BY AnsweredFinite
  <2>2. QED
    BY <1>1, <1>4, <1>8, <2>1 DEF CountsExact
<1>10. ASSUME NEW s \in Senders, NEW c \in PeerCounters
       PROVE  peers'[s].stats[c] = Cardinality(AnsweredTo(log', c, {s}))
  <2>1. peers[s].stats[c] = Cardinality(AnsweredTo(log, c, {s})) /\ peers[s].stats[c] \in Nat
    BY AnsweredFinite DEF CountsExact
  <2>2. peers'[s].stats[c] =
            peers[s].stats[c] + (IF c = answer /\ s = dg.sender THEN 1 ELSE 0)
    <3>1. CASE s = dg.sender
      <4>1. peers'[s].stats = [p.stats EXCEPT ![answer] = @ + 1]
        BY <1>1, <1>3, <1>6, <3>1
      <4>2. QED
        BY <1>7, <2>1, <3>1, <4>1
    <3>2. CASE s # dg.sender
      BY <1>1, <1>3, <2>1, <3>2
    <3>3. QED
      BY <3>1, <3>2
  <2>3. QED
    BY <1>8, <2>1, <2>2
<1>11. \A n \in DOMAIN log' :
           log'[n].answer \in PeerCounters <=> log'[n].datagram.sender \in Senders
  <2>1. log'[calls] = [datagram |-> dg, answer |-> answer,
                       local_epoch |-> received.local_epoch, epoch_id |-> epoch]
    BY <1>1, <1>4, <1>5, ProcessedLogs DEF CollectorInv
  <2>2. DOMAIN log' = DOMAIN log \cup {calls} /\ \A n \in DOMAIN log : log'[n] = log[n]
    BY <1>1, <1>4, <1>5, ProcessedLogs DEF CollectorInv
  <2>3. log'[calls].answer = answer /\ log'[calls].datagram = dg
    BY <2>1
  <2>4. QED
    BY <1>1, <1>4, <2>2, <2>3 DEF CountsExact
<1>12. QED
  BY <1>9, <1>10, <1>11 DEF CountsExact

\* A peer that is set up again counts from nothing, and its calls are out of the log.
LEMMA ProvisionCounts ==
    ASSUME TypeOK, CountsExact, NEW s \in Senders, Provision(s)
    PROVE  CountsExact'
<1> DEFINE D == {n \in DOMAIN log : log[n].datagram.sender # s}
<1>1. /\ peers' = [peers EXCEPT ![s] = NewPeer] /\ log' = [n \in D |-> log[n]]
      /\ own_stats' = own_stats
  BY DEF Provision
<1>2. DOMAIN log' = D /\ D \subseteq DOMAIN log /\ \A n \in D : log'[n] = log[n]
  BY <1>1
<1>3. ASSUME NEW c \in OwnCounters PROVE Answered(log', c) = Answered(log, c)
  <2>1. c \notin PeerCounters
    BY DEF OwnCounters, PeerCounters
  <2>2. QED
    BY <1>2, <2>1 DEF Answered, CountsExact
<1>4. ASSUME NEW t \in Senders, NEW c \in PeerCounters
      PROVE  peers'[t].stats[c] = Cardinality(AnsweredTo(log', c, {t}))
  <2>1. CASE t = s
    <3>1. AnsweredTo(log', c, {t}) = {}
      BY <1>2, <2>1 DEF AnsweredTo, Answered
    <3>2. peers'[t] = NewPeer
      BY <1>1, <2>1 DEF TypeOK
    <3>3. NewPeer.stats[c] = 0
      BY DEF NewPeer
    <3>4. QED
      BY <3>1, <3>2, <3>3, FS_EmptySet
  <2>2. CASE t # s
    <3>1. AnsweredTo(log', c, {t}) = AnsweredTo(log, c, {t})
      BY <1>2, <2>2 DEF AnsweredTo, Answered
    <3>2. peers'[t] = peers[t]
      BY <1>1, <2>2 DEF TypeOK
    <3>3. QED
      BY <3>1, <3>2 DEF CountsExact
  <2>3. QED
    BY <2>1, <2>2
<1>5. QED
  BY <1>1, <1>2, <1>3, <1>4 DEF CountsExact

LEMMA RestartCounts ==
    ASSUME RestartCollector
    PROVE  CountsExact'
<1>1. DOMAIN log' = {}
  BY DEF RestartCollector, NoLog
<1>2. \A c, S : Answered(log', c) = {} /\ AnsweredTo(log', c, S) = {}
  BY <1>1 DEF Answered, AnsweredTo
<1>3. \A s \in Senders, c \in PeerCounters : peers'[s].stats[c] = 0
  BY DEF RestartCollector, NewPeer
<1>4. \A c \in OwnCounters : own_stats'[c] = 0
  BY DEF RestartCollector
<1>5. QED
  BY <1>1, <1>2, <1>3, <1>4, FS_EmptySet DEF CountsExact

LEMMA NextCounts == SystemInv /\ SystemInv' /\ CountsExact /\ [Next]_vars => CountsExact'
<1> SUFFICES ASSUME SystemInv, SystemInv', CountsExact, [Next]_vars PROVE CountsExact'
  OBVIOUS
<1>1. \/ Tick
      \/ \E s \in Senders \ Silent, kind \in {"message", "series"} : Claim(s, kind)
      \/ \E s \in Senders : Send(s)
      \/ \E s \in Senders : RestartSender(s)
      \/ \E dg \in sent \cup Junk : Receive(dg)
      \/ UNCHANGED vars
      => UNCHANGED <<peers, own_stats, log>>
  BY DEF Tick, Claim, Send, RestartSender, Receive, vars, senderVars, collectorVars
<1>2. UNCHANGED <<peers, own_stats, log>> => CountsExact'
  BY DEF CountsExact
<1>3. QED
  BY <1>1, <1>2, UnroutedCounts, RoutedCounts, ProvisionCounts, RestartCounts
     DEF Next, SystemInv

\* The statistics the collector prints add up: every call since it started is counted
\* once, under its answer, in its own counters or in those of the one peer the datagram
\* was for, but for the calls of a peer that was set up again (Collector::accept and
\* stats, Stats::merge).
THEOREM CountersAddUp == Spec => []StatsAddUp
<1>1. Spec => []CountsExact
  BY InitCounts, NextCounts, Inductive, PTL DEF Spec
<1>2. QED
  BY <1>1, StatsOfCounts, TypeCorrect, PTL
=============================================================================
