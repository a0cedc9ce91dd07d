--------------------------- MODULE PeerStateProofs ---------------------------
(***************************************************************************)
(* PeerState, for every window size, epoch length and set of flaws. What   *)
(* does not depend on the clock: the two slots never run out, junk spends  *)
(* nothing, and every call is counted. And for a clock that is not stepped *)
(* back into an earlier epoch: the windows stay exact and no datagram is   *)
(* taken twice.                                                            *)
(***************************************************************************)
EXTENDS PeerState, TLAPS

\* Division by n keeps the order, and does not leave the natural numbers.
LEMMA QuotientMonotone ==
    ASSUME NEW n \in Nat \ {0}, NEW a \in Int, NEW b \in Int, a <= b
    PROVE  a \div n <= b \div n
OBVIOUS

LEMMA QuotientNatural ==
    ASSUME NEW n \in Nat \ {0}, NEW a \in Nat
    PROVE  a \div n \in Nat
OBVIOUS

\* A step of one: either the quotient stays and the remainder grows by one, or
\* the quotient grows by one and the remainder starts again at 0.
LEMMA DivisionStep ==
    ASSUME NEW n \in Nat \ {0}, NEW a \in Nat
    PROVE  \/ /\ (a + 1) \div n = a \div n
              /\ (a + 1) % n = (a % n) + 1
           \/ /\ (a + 1) \div n = a \div n + 1
              /\ (a + 1) % n = 0
              /\ a % n = n - 1
OBVIOUS

\* The facts about one bitmap, whatever window ReplayWindow is at.
Bitmap == INSTANCE ReplayWindowProofs
    WITH window <- NewWindow, admissions <- <<>>, answer <- <<>>

\* The bitmap there is the bitmap here.
LEMMA SameBitmap ==
    /\ Bitmap!Offset = Offset
    /\ Bitmap!Windows = Windows
    /\ Bitmap!NewWindow = NewWindow
    /\ \A w, off : /\ Bitmap!Admits(w, off) <=> Admits(w, off)
                  /\ Bitmap!Admit(w, off) = Admit(w, off)
    /\ \A w, A : Bitmap!ExactFor(w, A) <=> ExactFor(w, A)
BY DEF Bitmap!Offset, Bitmap!NoOffset, Bitmap!Positions, Bitmap!Windows, Bitmap!NewWindow,
       Bitmap!Index, Bitmap!Seen, Bitmap!Lesser, Bitmap!Cleared, Bitmap!Admits, Bitmap!Admit,
       Bitmap!ExactFor, Offset, NoOffset, Positions, Windows, NewWindow, Index, Seen, Lesser,
       Cleared, Admits, Admit, ExactFor

LEMMA NewWindowExact == NewWindow \in Windows /\ ExactFor(NewWindow, {})
BY WindowAssumption, SameBitmap, Bitmap!NewWindowExact

LEMMA AdmitInWindows ==
    ASSUME NEW w \in Windows, NEW off \in Offset
    PROVE  Admit(w, off) \in Windows
BY WindowAssumption, SameBitmap, Bitmap!AdmitInWindows

LEMMA AdmitKeepsExact ==
    ASSUME NEW w \in Windows, NEW A \in SUBSET Offset, ExactFor(w, A),
           NEW off \in Offset, Admits(w, off)
    PROVE  /\ off \notin A
           /\ ExactFor(Admit(w, off), A \cup {off})
BY WindowAssumption, SameBitmap, Bitmap!AdmitKeepsExact

-----------------------------------------------------------------------------
Tables == [Slots -> [epoch : Epochs \cup {NoEpoch}, window : Windows]]

\* Slots that hold no epoch twice, and nothing of an epoch they have given up.
SlotsSound(ws) ==
    /\ ws \in Tables
    /\ ws[1].epoch = ws[2].epoch => ws[1].epoch = NoEpoch
    /\ \A i \in Slots : ws[i].epoch = NoEpoch => ws[i].window = NewWindow

\* The epochs a datagram may be accepted for.
Acceptable == {local_epoch - 1, local_epoch}

LEMMA LocalEpochNatural == now \in 0 .. MaxNow => local_epoch \in Epochs /\ local_epoch \in Nat
<1> SUFFICES ASSUME now \in 0 .. MaxNow PROVE local_epoch \in Epochs /\ local_epoch \in Nat
  OBVIOUS
<1> USE PeerAssumption
<1>1. now \div EpochMs \in Nat /\ MaxNow \div EpochMs \in Nat
  BY QuotientNatural
<1>2. now \div EpochMs <= MaxNow \div EpochMs
  BY QuotientMonotone
<1>3. QED
  BY <1>1, <1>2 DEF local_epoch, Epochs

-----------------------------------------------------------------------------
\* What is kept for an epoch is what its slot holds.
LEMMA KeptInSlot ==
    ASSUME NEW ws, SlotsSound(ws), NEW i \in Slots
    PROVE  KeptIn(ws, ws[i].epoch) = ws[i].window
<1> DEFINE e == ws[i].epoch
           j == CHOOSE k \in Slots : ws[k].epoch = e
<1>1. j \in Slots /\ ws[j].epoch = e
  OBVIOUS
<1>2. ws[j].window = ws[i].window
  BY <1>1 DEF SlotsSound, Slots
<1>3. QED
  BY <1>1, <1>2 DEF KeptIn

LEMMA KeptInNone ==
    ASSUME NEW ws, NEW e, \A i \in Slots : ws[i].epoch # e
    PROVE  KeptIn(ws, e) = NewWindow
BY DEF KeptIn

\* Slots that agree on the slots of an epoch keep the same for it.
LEMMA KeptInAgrees ==
    ASSUME NEW ws, SlotsSound(ws), NEW vs, SlotsSound(vs), NEW e,
           \A i \in Slots : ws[i].epoch = e => vs[i] = ws[i],
           \A i \in Slots : vs[i].epoch = e => vs[i].window = NewWindow \/ vs[i] = ws[i]
    PROVE  KeptIn(vs, e) = KeptIn(ws, e)
<1>1. CASE \E i \in Slots : ws[i].epoch = e
  <2>1. PICK i \in Slots : ws[i].epoch = e
    BY <1>1
  <2>2. KeptIn(ws, e) = ws[i].window /\ KeptIn(vs, e) = vs[i].window
    BY <2>1, KeptInSlot
  <2>3. QED
    BY <2>1, <2>2
<1>2. CASE \A i \in Slots : ws[i].epoch # e
  <2>1. KeptIn(ws, e) = NewWindow
    BY <1>2, KeptInNone
  <2>2. CASE \E i \in Slots : vs[i].epoch = e
    <3>1. PICK i \in Slots : vs[i].epoch = e
      BY <2>2
    <3>2. KeptIn(vs, e) = vs[i].window
      BY <3>1, KeptInSlot
    <3>3. QED
      BY <1>2, <2>1, <3>1, <3>2
  <2>3. CASE \A i \in Slots : vs[i].epoch # e
    BY <2>1, <2>3, KeptInNone
  <2>4. QED
    BY <2>2, <2>3
<1>3. QED
  BY <1>1, <1>2

\* prune keeps the windows of the acceptable epochs and nothing else.
LEMMA PruneSound ==
    ASSUME NEW ws, SlotsSound(ws), local_epoch \in Nat
    PROVE  /\ SlotsSound(Prune(ws))
           /\ \A i \in Slots : Prune(ws)[i].epoch \in {NoEpoch} \cup Acceptable
           /\ \A e \in Acceptable : KeptIn(Prune(ws), e) = KeptIn(ws, e)
<1> DEFINE vs == Prune(ws)
<1>1. /\ Free \in [epoch : Epochs \cup {NoEpoch}, window : Windows]
      /\ Free.epoch = NoEpoch /\ Free.window = NewWindow
  BY NewWindowExact DEF Free
<1>2. /\ vs \in Tables
      /\ \A i \in Slots : vs[i] = ws[i] \/ vs[i] = Free
      /\ \A i \in Slots : ws[i].epoch \in Acceptable => vs[i] = ws[i]
      /\ \A i \in Slots : vs[i].epoch \in {NoEpoch} \cup Acceptable
  <2>1. ws \in Tables /\ \A i \in Slots : ws[i].epoch \in Int
    BY DEF SlotsSound, Tables, Epochs, NoEpoch
  <2>2. vs \in Tables
    BY <1>1, <2>1 DEF Prune, Tables
  <2>3. \A i \in Slots : vs[i] = ws[i] \/ vs[i] = Free
    BY DEF Prune
  <2>4. \A i \in Slots : ws[i].epoch \in Acceptable => vs[i] = ws[i]
    BY <2>1 DEF Prune, Acceptable
  <2>5. \A i \in Slots : vs[i].epoch \in {NoEpoch} \cup Acceptable
    BY <1>1, <2>1 DEF Prune, Acceptable
  <2>6. QED
    BY <2>2, <2>3, <2>4, <2>5
<1>3. SlotsSound(vs)
  BY <1>1, <1>2 DEF SlotsSound, Slots
<1>4. ASSUME NEW e \in Acceptable PROVE KeptIn(vs, e) = KeptIn(ws, e)
  <2>1. \A i \in Slots : ws[i].epoch = e => vs[i] = ws[i]
    BY <1>2
  <2>2. \A i \in Slots : vs[i].epoch = e => vs[i].window = NewWindow \/ vs[i] = ws[i]
    BY <1>1, <1>2
  <2>3. QED
    BY <1>3, <2>1, <2>2, KeptInAgrees
<1>5. QED
  BY <1>2, <1>3, <1>4

\* After prune, window_for finds the slot of the epoch, or a free one: the fallback
\* that would evict another epoch is unreachable.
LEMMA SlotForFinds ==
    ASSUME NEW ws, SlotsSound(ws), local_epoch \in Nat,
           \A i \in Slots : ws[i].epoch \in {NoEpoch} \cup Acceptable,
           NEW e \in Acceptable
    PROVE  /\ SlotFor(ws, e) \in Slots
           /\ ws[SlotFor(ws, e)].epoch \in {NoEpoch, e}
           /\ (\E i \in Slots : ws[i].epoch = e) => ws[SlotFor(ws, e)].epoch = e
<1>1. CASE \E i \in Slots : ws[i].epoch = e
  BY <1>1 DEF SlotFor, Slots
<1>2. CASE \A i \in Slots : ws[i].epoch # e
  <2>1. \E i \in Slots : ws[i].epoch = NoEpoch
    BY <1>2 DEF SlotsSound, Slots, Acceptable
  <2>2. QED
    BY <1>2, <2>1 DEF SlotFor, Slots
<1>3. QED
  BY <1>1, <1>2

\* window_for gives the epoch a slot and takes no other epoch's away.
LEMMA WindowForSound ==
    ASSUME NEW ws, SlotsSound(ws), local_epoch \in Nat,
           \A i \in Slots : ws[i].epoch \in {NoEpoch} \cup Acceptable,
           NEW e \in Acceptable, e \in Epochs
    PROVE  /\ SlotsSound(WindowFor(ws, e))
           /\ \A i \in Slots : WindowFor(ws, e)[i].epoch \in {NoEpoch} \cup Acceptable
           /\ SlotFor(WindowFor(ws, e), e) \in Slots
           /\ WindowFor(ws, e)[SlotFor(WindowFor(ws, e), e)].epoch = e
           /\ \A f \in Acceptable : KeptIn(WindowFor(ws, e), f) = KeptIn(ws, f)
<1> DEFINE s == SlotFor(ws, e)
           vs == WindowFor(ws, e)
           new == [epoch |-> e, window |-> NewWindow]
<1>1. /\ s \in Slots /\ ws[s].epoch \in {NoEpoch, e}
      /\ (\E i \in Slots : ws[i].epoch = e) => ws[s].epoch = e
  BY SlotForFinds
<1>2. CASE ws[s].epoch = e
  <2>1. vs = ws
    BY <1>2 DEF WindowFor
  <2>2. QED
    BY <1>1, <1>2, <2>1
<1>3. CASE ws[s].epoch # e
  <2>1. vs = [ws EXCEPT ![s] = new]
    BY <1>3 DEF WindowFor
  <2>2. e \in Nat /\ e # NoEpoch
    BY PeerAssumption, QuotientNatural DEF Epochs, NoEpoch
  <2>3. ws[s].epoch = NoEpoch /\ \A i \in Slots : ws[i].epoch # e
    BY <1>1, <1>3
  <2>4. new \in [epoch : Epochs \cup {NoEpoch}, window : Windows]
    BY NewWindowExact
  <2>5. /\ vs \in Tables
        /\ vs[s] = new
        /\ \A i \in Slots : i # s => vs[i] = ws[i]
    BY <1>1, <2>1, <2>4 DEF SlotsSound, Tables
  <2>6. SlotsSound(vs)
    <3>1. vs[1].epoch = vs[2].epoch => vs[1].epoch = NoEpoch
      BY <1>1, <2>2, <2>3, <2>5 DEF Slots
    <3>2. \A i \in Slots : vs[i].epoch = NoEpoch => vs[i].window = NewWindow
      BY <2>5 DEF SlotsSound
    <3>3. QED
      BY <2>5, <3>1, <3>2 DEF SlotsSound
  <2>7. \A i \in Slots : vs[i].epoch \in {NoEpoch} \cup Acceptable
    BY <2>5
  <2>8. SlotFor(vs, e) \in Slots /\ vs[SlotFor(vs, e)].epoch = e
    BY <1>1, <2>5, <2>6, <2>7, SlotForFinds
  <2>9. ASSUME NEW f \in Acceptable PROVE KeptIn(vs, f) = KeptIn(ws, f)
    <3>1. CASE f = NoEpoch
      <4>1. \A i \in Slots : ws[i].epoch = f => ws[i].window = NewWindow
        BY <3>1 DEF SlotsSound
      <4>2. KeptIn(ws, f) = NewWindow
        BY <2>3, <3>1, <4>1, <1>1, KeptInSlot
      <4>3. KeptIn(vs, f) = NewWindow
        <5>1. CASE \E i \in Slots : vs[i].epoch = f
          BY <2>6, <3>1, <5>1, KeptInSlot DEF SlotsSound
        <5>2. CASE \A i \in Slots : vs[i].epoch # f
          BY <5>2, KeptInNone
        <5>3. QED
          BY <5>1, <5>2
      <4>4. QED
        BY <4>2, <4>3
    <3>2. CASE f # NoEpoch
      <4>1. \A i \in Slots : ws[i].epoch = f => vs[i] = ws[i]
        BY <2>3, <2>5, <3>2
      <4>2. \A i \in Slots : vs[i].epoch = f => vs[i].window = NewWindow \/ vs[i] = ws[i]
        BY <2>5
      <4>3. QED
        BY <2>6, <4>1, <4>2, KeptInAgrees
    <3>3. QED
      BY <3>1, <3>2
  <2>10. QED
    BY <2>6, <2>7, <2>8, <2>9
<1>4. QED
  BY <1>2, <1>3

-----------------------------------------------------------------------------
\* reconstruct_epoch answers with the local epoch or the one before it.
LEMMA ReconstructedAcceptable ==
    ASSUME NEW dg \in Datagrams, local_epoch \in Epochs, local_epoch \in Nat,
           Reconstructed(dg) # NoEpoch
    PROVE  Reconstructed(dg) \in Acceptable /\ Reconstructed(dg) \in Epochs
<1>1. Reconstructed(dg) \in {local_epoch, local_epoch - 1, NoEpoch}
  BY DEF Reconstructed, Epoch!ReconstructEpoch, Epoch!NoEpoch, NoEpoch
<1>2. QED
  <2>1. MaxNow \div EpochMs \in Nat
    BY PeerAssumption, QuotientNatural
  <2>2. local_epoch # 0 => local_epoch - 1 \in Epochs
    BY <2>1 DEF Epochs
  <2>3. local_epoch - 1 = NoEpoch <=> local_epoch = 0
    BY DEF NoEpoch
  <2>4. QED
    BY <1>1, <2>2, <2>3 DEF Acceptable

\* The slots decode finds, whatever becomes of the datagram: the window of its
\* epoch, and all that is kept for the acceptable epochs.
LEMMA PreparedSound ==
    ASSUME NEW dg \in Datagrams, SlotsSound(windows),
           local_epoch \in Epochs, local_epoch \in Nat, Reconstructed(dg) # NoEpoch
    PROVE  /\ SlotsSound(Prepared(dg))
           /\ \A i \in Slots : Prepared(dg)[i].epoch \in {NoEpoch} \cup Acceptable
           /\ SlotFor(Prepared(dg), Reconstructed(dg)) \in Slots
           /\ Prepared(dg)[SlotFor(Prepared(dg), Reconstructed(dg))].epoch
                  = Reconstructed(dg)
           /\ WindowOf(dg) = Kept(Reconstructed(dg))
           /\ \A f \in Acceptable : KeptIn(Prepared(dg), f) = Kept(f)
<1> DEFINE e == Reconstructed(dg)
           ws == Prune(windows)
           s == SlotFor(Prepared(dg), e)
<1>1. e \in Acceptable /\ e \in Epochs
  BY ReconstructedAcceptable
<1>2. /\ SlotsSound(ws)
      /\ \A i \in Slots : ws[i].epoch \in {NoEpoch} \cup Acceptable
      /\ \A f \in Acceptable : KeptIn(ws, f) = Kept(f)
  BY PruneSound DEF Kept
<1>3. /\ SlotsSound(Prepared(dg))
      /\ \A i \in Slots : Prepared(dg)[i].epoch \in {NoEpoch} \cup Acceptable
      /\ s \in Slots
      /\ Prepared(dg)[s].epoch = e
      /\ \A f \in Acceptable : KeptIn(Prepared(dg), f) = KeptIn(ws, f)
  BY <1>1, <1>2, WindowForSound DEF Prepared
<1>4. KeptIn(Prepared(dg), e) = Prepared(dg)[s].window
  BY <1>3, KeptInSlot
<1>5. WindowOf(dg) = Kept(e)
  BY <1>1, <1>2, <1>3, <1>4 DEF WindowOf
<1>6. QED
  BY <1>2, <1>3, <1>5

\* The key of another epoch does not verify: an authentic datagram is looked up
\* under the epoch its sender used.
LEMMA AuthenticEpoch ==
    ASSUME NEW dg \in Datagrams, Authentic(dg)
    PROVE  Reconstructed(dg) = dg.epoch /\ Reconstructed(dg) # NoEpoch
<1>1. Len(Checks) = 9 /\ Checks[2] = "epoch" /\ Checks[9] = "mac"
  BY DEF Checks
<1>2. ~Fails(dg, "epoch") /\ ~Fails(dg, "mac")
  BY <1>1 DEF Authentic
<1>3. QED
  BY <1>2 DEF Fails

\* The windows after an authentic datagram whose offset was new.
LEMMA MarkSound ==
    ASSUME NEW dg \in Datagrams, SlotsSound(windows),
           local_epoch \in Epochs, local_epoch \in Nat,
           Authentic(dg), Kept(dg.epoch) \in Windows
    PROVE  /\ SlotsSound(Mark(dg))
           /\ \A i \in Slots : Mark(dg)[i].epoch \in {NoEpoch} \cup Acceptable
           /\ KeptIn(Mark(dg), dg.epoch) = Admit(Kept(dg.epoch), dg.offset)
           /\ \A f \in Acceptable : f # dg.epoch => KeptIn(Mark(dg), f) = Kept(f)
<1> DEFINE e == dg.epoch
           ws == Prepared(dg)
           s == SlotFor(ws, e)
           w == Admit(Kept(e), dg.offset)
           vs == Mark(dg)
<1>1. /\ Reconstructed(dg) = e
      /\ e \in Acceptable /\ e \in Epochs /\ e # NoEpoch
  BY AuthenticEpoch, ReconstructedAcceptable
<1>2. /\ SlotsSound(ws)
      /\ \A i \in Slots : ws[i].epoch \in {NoEpoch} \cup Acceptable
      /\ s \in Slots /\ ws[s].epoch = e /\ WindowOf(dg) = Kept(e)
      /\ \A f \in Acceptable : KeptIn(ws, f) = Kept(f)
  BY <1>1, PreparedSound
<1>3. w \in Windows
  <2>1. dg.offset \in Offset
    BY DEF Datagrams
  <2>2. QED
    BY <2>1, AdmitInWindows
<1>4. vs = [ws EXCEPT ![s].window = w]
  BY <1>2 DEF Mark
<1>5. /\ ws \in Tables
      /\ ws[s] \in [epoch : Epochs \cup {NoEpoch}, window : Windows]
  BY <1>2 DEF SlotsSound, Tables
<1>6. /\ vs \in Tables
      /\ vs[s].epoch = e /\ vs[s].window = w
      /\ \A i \in Slots : i # s => vs[i] = ws[i]
  BY <1>2, <1>3, <1>4, <1>5 DEF Tables
<1>7. SlotsSound(vs)
  <2>1. vs[1].epoch = vs[2].epoch => vs[1].epoch = NoEpoch
    BY <1>2, <1>6 DEF SlotsSound, Slots
  <2>2. \A i \in Slots : vs[i].epoch = NoEpoch => vs[i].window = NewWindow
    BY <1>1, <1>2, <1>6 DEF SlotsSound
  <2>3. QED
    BY <1>6, <2>1, <2>2 DEF SlotsSound
<1>8. \A i \in Slots : vs[i].epoch \in {NoEpoch} \cup Acceptable
  BY <1>1, <1>2, <1>6
<1>9. KeptIn(vs, e) = w
  BY <1>2, <1>6, <1>7, KeptInSlot
<1>10. ASSUME NEW f \in Acceptable, f # e PROVE KeptIn(vs, f) = Kept(f)
  <2>1. \A i \in Slots : ws[i].epoch = f => vs[i] = ws[i]
    BY <1>2, <1>6, <1>10
  <2>2. \A i \in Slots : vs[i].epoch = f => vs[i].window = NewWindow \/ vs[i] = ws[i]
    BY <1>6, <1>10
  <2>3. KeptIn(vs, f) = KeptIn(ws, f)
    BY <1>2, <1>7, <2>1, <2>2, KeptInAgrees
  <2>4. QED
    BY <1>2, <2>3
<1>11. QED
  BY <1>7, <1>8, <1>9, <1>10

\* What is kept for an epoch is a window.
LEMMA KeptIsWindow ==
    ASSUME SlotsSound(windows), NEW e
    PROVE  Kept(e) \in Windows
<1>1. CASE \E i \in Slots : windows[i].epoch = e
  <2>1. PICK i \in Slots : windows[i].epoch = e
    BY <1>1
  <2>2. Kept(e) = windows[i].window
    BY <2>1, KeptInSlot DEF Kept
  <2>3. QED
    BY <2>2 DEF SlotsSound, Tables
<1>2. CASE \A i \in Slots : windows[i].epoch # e
  BY <1>2, KeptInNone, NewWindowExact DEF Kept
<1>3. QED
  BY <1>1, <1>2

-----------------------------------------------------------------------------
\* The counters one of which ends every call.
Tallied ==
    {"accepted", "too_short", "epoch_out_of_window", "unsupported_version",
     "bad_msg_type", "unknown_sender", "cipher_mismatch", "auth_failed", "replay",
     "framing", "rate_limited"}

Tally(s) ==
    s.accepted + s.too_short + s.epoch_out_of_window
        + s.unsupported_version + s.bad_msg_type + s.unknown_sender
        + s.cipher_mismatch + s.auth_failed + s.replay
        + s.framing + s.rate_limited

LEMMA CountersAre == Counters = Tallied \cup {"skipped_records"}
<1>1. DOMAIN CounterOf = {"header", "epoch", "version", "msg_type", "sender", "cipher",
                          "tag_length", "mac"}
  BY DEF CounterOf
<1>2. {CounterOf[c] : c \in DOMAIN CounterOf}
          = {"too_short", "epoch_out_of_window", "unsupported_version", "bad_msg_type",
             "unknown_sender", "cipher_mismatch", "auth_failed"}
  BY <1>1 DEF CounterOf
<1>3. QED
  BY <1>2 DEF Counters, Tallied

\* record_error has a counter of its own for every failed check but "oversize".
LEMMA CounterOfCheck ==
    ASSUME NEW i \in 1 .. Len(Checks), Checks[i] # "oversize"
    PROVE  CounterOf[Checks[i]] \in Tallied
<1>1. Len(Checks) = 9
  BY DEF Checks
<1>2. Checks[i] \in {"header", "epoch", "version", "msg_type", "sender", "cipher",
                     "tag_length", "mac"}
  BY <1>1 DEF Checks
<1>3. QED
  BY <1>2 DEF CounterOf, Tallied

LEMMA TallyNatural ==
    ASSUME NEW s, \A d \in Tallied : s[d] \in Nat
    PROVE  Tally(s) \in Nat
<1>1. /\ s.accepted \in Nat /\ s.too_short \in Nat /\ s.epoch_out_of_window \in Nat
      /\ s.unsupported_version \in Nat /\ s.bad_msg_type \in Nat
      /\ s.unknown_sender \in Nat /\ s.cipher_mismatch \in Nat /\ s.auth_failed \in Nat
      /\ s.replay \in Nat /\ s.framing \in Nat /\ s.rate_limited \in Nat
  BY DEF Tallied
<1>2. QED
  BY <1>1 DEF Tally

\* One counter raised is one call more in the tally.
LEMMA TallyRaised ==
    ASSUME NEW s, NEW t, NEW c \in Tallied,
           \A d \in Tallied : s[d] \in Nat /\ t[d] = IF d = c THEN s[d] + 1 ELSE s[d]
    PROVE  Tally(s) \in Nat /\ Tally(t) = Tally(s) + 1
<1> DEFINE gain == [d \in Tallied |-> IF d = c THEN 1 ELSE 0]
           Raised(d) == s[d] \in Nat /\ gain[d] \in Nat /\ t[d] = s[d] + gain[d]
<1>1. \A d \in Tallied : Raised(d)
  OBVIOUS
<1>2. Tally(gain) = 1
  BY DEF Tally, Tallied
<1> HIDE DEF Raised, gain
<1>3. /\ Raised("accepted") /\ Raised("too_short") /\ Raised("epoch_out_of_window")
      /\ Raised("unsupported_version") /\ Raised("bad_msg_type")
      /\ Raised("unknown_sender") /\ Raised("cipher_mismatch") /\ Raised("auth_failed")
      /\ Raised("replay") /\ Raised("framing") /\ Raised("rate_limited")
  BY <1>1 DEF Tallied
<1>4. Tally(t) = Tally(s) + 1
  BY <1>2, <1>3 DEF Raised, Tally
<1>5. QED
  BY <1>4, TallyNatural

LEMMA CountedTally ==
    ASSUME NEW s \in [Counters -> Nat], NEW c \in Tallied
    PROVE  /\ [s EXCEPT ![c] = @ + 1] \in [Counters -> Nat]
           /\ Tally([s EXCEPT ![c] = @ + 1]) = Tally(s) + 1
           /\ Tally(s) \in Nat
<1> DEFINE t == [s EXCEPT ![c] = @ + 1]
<1>1. c \in Counters
  BY CountersAre
<1>2. t \in [Counters -> Nat]
  BY <1>1
<1>3. \A d \in Tallied : s[d] \in Nat /\ t[d] = IF d = c THEN s[d] + 1 ELSE s[d]
  BY CountersAre
<1> HIDE DEF t
<1>4. Tally(s) \in Nat /\ Tally(t) = Tally(s) + 1
  BY <1>3, TallyRaised
<1>5. QED
  BY <1>2, <1>4 DEF t

\* The records that were skipped are no part of the tally.
LEMMA AcceptedTally ==
    ASSUME NEW s \in [Counters -> Nat], NEW n \in Nat
    PROVE  LET t == [s EXCEPT !["accepted"] = @ + 1, !["skipped_records"] = n]
           IN  t \in [Counters -> Nat] /\ Tally(t) = Tally(s) + 1
<1> DEFINE t == [s EXCEPT !["accepted"] = @ + 1, !["skipped_records"] = n]
<1>1. t \in [Counters -> Nat]
  BY CountersAre DEF Tallied
<1>2. \A d \in Tallied : s[d] \in Nat /\ t[d] = IF d = "accepted" THEN s[d] + 1 ELSE s[d]
  BY CountersAre DEF Tallied
<1>3. "accepted" \in Tallied
  BY DEF Tallied
<1> HIDE DEF t
<1>4. Tally(t) = Tally(s) + 1
  BY <1>2, <1>3, TallyRaised
<1>5. QED
  BY <1>1, <1>4 DEF t

\* Every delivery is one call of accept and raises one counter of the tally, or
\* none when the staging buffer was too short.
LEMMA DeliverCounts ==
    ASSUME TypeOK, NEW dg \in Datagrams, Deliver(dg)
    PROVE  /\ calls' = calls + 1 /\ calls' \in 0 .. MaxCalls
           /\ stats' \in [Counters -> Nat]
           /\ oversized' \in {oversized, oversized + 1}
           /\ Tally(stats') + oversized' = Tally(stats) + oversized + 1
<1>1. /\ stats \in [Counters -> Nat] /\ oversized \in Nat /\ calls \in Nat
      /\ "accepted" \in Tallied /\ Tally(stats) \in Nat
  <2>1. stats \in [Counters -> Nat] /\ oversized \in Nat /\ calls \in Nat
    BY DEF TypeOK
  <2>2. "accepted" \in Tallied
    BY DEF Tallied
  <2>3. QED
    BY <2>1, <2>2, CountedTally
<1>2. calls' = calls + 1 /\ calls < MaxCalls
  BY DEF Deliver, RejectEarly, RejectUnauthentic, RejectReplay, RejectFraming,
         RejectRate, Accept, Decoded, Called
<1>3. calls' \in 0 .. MaxCalls
  BY <1>1, <1>2, PeerAssumption
<1>4. ASSUME NEW c \in Tallied, stats' = Counted(c), oversized' = oversized
      PROVE  /\ stats' \in [Counters -> Nat]
             /\ Tally(stats') + oversized' = Tally(stats) + oversized + 1
  <2>1. stats' \in [Counters -> Nat] /\ Tally(stats') = Tally(stats) + 1
    BY <1>1, <1>4, CountedTally DEF Counted
  <2>2. QED
    BY <1>1, <1>4, <2>1
<1>5. CASE RejectEarly(dg)
  <2>1. PICK i \in 1 .. 2 : stats' = Counted(CounterOf[Checks[i]])
    BY <1>5 DEF RejectEarly
  <2>2. i \in 1 .. Len(Checks) /\ Checks[i] # "oversize"
    BY <2>1 DEF Checks
  <2>3. oversized' = oversized
    BY <1>5 DEF RejectEarly
  <2>4. QED
    BY <1>2, <1>3, <1>4, <2>1, <2>2, <2>3, CounterOfCheck
<1>6. CASE RejectUnauthentic(dg)
  <2>1. PICK i \in 3 .. Len(Checks) :
            IF Checks[i] = "oversize"
            THEN stats' = stats /\ oversized' = oversized + 1
            ELSE stats' = Counted(CounterOf[Checks[i]]) /\ oversized' = oversized
    BY <1>6 DEF RejectUnauthentic
  <2>2. i \in 1 .. Len(Checks)
    BY <2>1 DEF Checks
  <2>3. CASE Checks[i] = "oversize"
    BY <1>1, <1>2, <1>3, <2>1, <2>3
  <2>4. CASE Checks[i] # "oversize"
    BY <1>2, <1>3, <1>4, <2>1, <2>2, <2>4, CounterOfCheck
  <2>5. QED
    BY <2>3, <2>4
<1>7. CASE RejectReplay(dg) \/ RejectFraming(dg) \/ RejectRate(dg)
  <2>1. PICK c \in {"replay", "framing", "rate_limited"} :
            stats' = Counted(c) /\ oversized' = oversized
    BY <1>7 DEF RejectReplay, RejectFraming, RejectRate, Decoded
  <2>2. c \in Tallied
    BY <2>1 DEF Tallied
  <2>3. QED
    BY <1>2, <1>3, <1>4, <2>1, <2>2
<1>8. CASE Accept(dg)
  <2>1. PICK n \in Nat :
            stats' = [stats EXCEPT !["accepted"] = @ + 1, !["skipped_records"] = n]
    <3> DEFINE n == IF "layout" \in dg.flaws THEN stats["skipped_records"] + 1
                                             ELSE stats["skipped_records"]
    <3>1. n \in Nat
      BY <1>1, CountersAre
    <3>2. stats' = [stats EXCEPT !["accepted"] = @ + 1, !["skipped_records"] = n]
      BY <1>8 DEF Accept
    <3>3. QED
      BY <3>1, <3>2
  <2>2. oversized' = oversized
    BY <1>8 DEF Accept, Decoded
  <2>3. stats' \in [Counters -> Nat] /\ Tally(stats') = Tally(stats) + 1
    BY <1>1, <2>1, AcceptedTally
  <2>4. QED
    BY <1>1, <1>2, <1>3, <2>2, <2>3
<1>9. QED
  BY <1>5, <1>6, <1>7, <1>8 DEF Deliver

-----------------------------------------------------------------------------
\* try_acquire leaves a bucket that holds at most its capacity.
LEMMA AcquireInBounds ==
    ASSUME NEW b \in [tokens : 0 .. Capacity, last_ms : 0 .. MaxNow],
           NEW t \in 0 .. MaxNow
    PROVE  Acquire(b, t) \in [tokens : 0 .. Capacity, last_ms : 0 .. MaxNow]
<1> USE BucketAssumption
<1> DEFINE credit == PerMs * SaturatingSub(t, b.last_ms)
           cap == (IF Burst > 1 THEN Burst ELSE 1) * Token
<1>1. cap \in Nat /\ cap = Capacity /\ cap <= CountMax
  BY DEF Capacity
<1>2. credit \in Nat
  <2>1. SaturatingSub(t, b.last_ms) \in Nat
    BY PeerAssumption DEF SaturatingSub
  <2>2. QED
    BY <2>1
<1>3. Refilled(b, t) = AtMost(Saturating(b.tokens + Saturating(credit)), cap)
  BY <1>1 DEF Refilled
<1> HIDE DEF credit, cap
<1>4. Refilled(b, t) \in 0 .. cap
  BY <1>1, <1>2, <1>3 DEF AtMost, Saturating
<1>5. Acquires(b, t) => Refilled(b, t) - Token \in 0 .. cap
  BY <1>1, <1>4 DEF Acquires
<1>6. QED
  BY <1>1, <1>4, <1>5 DEF Acquire

\* A delivery that is taken for a replay or for junk: nothing kept for an
\* acceptable epoch changes, and no token is spent.
Dropped ==
    /\ taken' = taken
    /\ limiter' = limiter
    /\ SlotsSound(windows')
    /\ windows' = windows \/ \A i \in Slots : windows'[i].epoch \in {NoEpoch} \cup Acceptable
    /\ \A e \in Acceptable : KeptIn(windows', e) = Kept(e)

\* A delivery whose offset is taken.
Took(dg) ==
    /\ Authentic(dg)
    /\ Admits(WindowOf(dg), dg.offset)
    /\ windows' = Mark(dg)
    /\ taken' = Taken(dg)
    /\ limiter' \in {limiter, Acquire(limiter, now)}

\* A datagram whose first failed check is a check of decode has a candidate epoch.
LEMMA UnauthenticEpoch ==
    ASSUME NEW dg \in Datagrams, NEW i \in 3 .. Len(Checks), FailsAt(dg, i)
    PROVE  Reconstructed(dg) # NoEpoch
<1>1. Len(Checks) = 9 /\ Checks[2] = "epoch" /\ 2 \in 1 .. i - 1
  BY DEF Checks
<1>2. ~Fails(dg, "epoch")
  BY <1>1 DEF FailsAt
<1>3. QED
  BY <1>2 DEF Fails

LEMMA DeliverWindows ==
    ASSUME TypeOK, SlotsSound(windows), NEW dg \in Datagrams, Deliver(dg)
    PROVE  /\ now' = now /\ backsteps' = backsteps
           /\ highest_epoch_announced' = highest_epoch_announced
           /\ Dropped \/ Took(dg)
<1>1. local_epoch \in Epochs /\ local_epoch \in Nat
  BY LocalEpochNatural DEF TypeOK
<1>2. ASSUME taken' = taken, limiter' = limiter, windows' = Prepared(dg),
             Reconstructed(dg) # NoEpoch
      PROVE  Dropped
  BY <1>1, <1>2, PreparedSound DEF Dropped
<1>3. CASE RejectEarly(dg)
  <2>1. windows' = windows /\ taken' = taken /\ limiter' = limiter
    BY <1>3 DEF RejectEarly
  <2>2. Dropped
    BY <2>1 DEF Dropped, Kept
  <2>3. QED
    BY <1>3, <2>2 DEF RejectEarly
<1>4. CASE RejectUnauthentic(dg)
  <2>1. Reconstructed(dg) # NoEpoch
    BY <1>4, UnauthenticEpoch DEF RejectUnauthentic
  <2>2. QED
    BY <1>2, <1>4, <2>1 DEF RejectUnauthentic
<1>5. CASE RejectReplay(dg)
  <2>1. Reconstructed(dg) # NoEpoch
    BY <1>5, AuthenticEpoch DEF RejectReplay
  <2>2. QED
    BY <1>2, <1>5, <2>1 DEF RejectReplay
<1>6. CASE RejectFraming(dg)
  BY <1>6 DEF RejectFraming, Took
<1>7. CASE RejectRate(dg) \/ Accept(dg)
  BY <1>7 DEF RejectRate, Accept, Decoded, Took
<1>8. QED
  BY <1>3, <1>4, <1>5, <1>6, <1>7 DEF Deliver

LEMMA TakenTyped ==
    ASSUME taken \in [Epochs -> [Offset -> Nat]],
           NEW dg, dg.epoch \in Epochs, dg.offset \in Offset
    PROVE  /\ Taken(dg) \in [Epochs -> [Offset -> Nat]]
           /\ \A e \in Epochs, o \in Offset :
                 Taken(dg)[e][o] = IF e = dg.epoch /\ o = dg.offset
                                   THEN taken[e][o] + 1 ELSE taken[e][o]
<1> DEFINE row == [taken[dg.epoch] EXCEPT ![dg.offset] = @ + 1]
<1>1. taken[dg.epoch] \in [Offset -> Nat]
  OBVIOUS
<1>2. row \in [Offset -> Nat] /\ row[dg.offset] = taken[dg.epoch][dg.offset] + 1
      /\ \A o \in Offset : o # dg.offset => row[o] = taken[dg.epoch][o]
  BY <1>1
<1>3. Taken(dg) = [taken EXCEPT ![dg.epoch] = row]
  BY DEF Taken
<1> HIDE DEF row
<1>4. Taken(dg) \in [Epochs -> [Offset -> Nat]]
  BY <1>2, <1>3
<1>5. /\ Taken(dg)[dg.epoch] = row
      /\ \A e \in Epochs : e # dg.epoch => Taken(dg)[e] = taken[e]
  BY <1>3
<1>6. QED
  BY <1>2, <1>4, <1>5

-----------------------------------------------------------------------------
\* What holds whatever the clock does.
SlotInv == TypeOK /\ SlotsSound(windows) /\ EveryCallCounted

LEMMA CountedIsTally ==
    EveryCallCounted <=> calls = Tally(stats) + oversized
BY DEF EveryCallCounted, Tally

LEMMA InitSlotInv == Init => SlotInv
<1> SUFFICES ASSUME Init PROVE SlotInv
  OBVIOUS
<1> USE PeerAssumption
<1>1. /\ Free \in [epoch : Epochs \cup {NoEpoch}, window : Windows]
      /\ Free.epoch = NoEpoch /\ Free.window = NewWindow
  BY NewWindowExact DEF Free
<1>2. SlotsSound(windows)
  BY <1>1 DEF Init, SlotsSound, Tables, Slots
<1>3. EveryCallCounted
  <2>1. \A c \in Tallied : stats[c] = 0
    BY CountersAre DEF Init
  <2>2. Tally(stats) = 0
    BY <2>1 DEF Tally, Tallied
  <2>3. QED
    BY <2>2, CountedIsTally DEF Init
<1>4. TypeOK
  <2>1. limiter \in [tokens : 0 .. Capacity, last_ms : 0 .. MaxNow]
    <3>1. Capacity \in Nat
      BY BucketAssumption DEF Capacity
    <3>2. QED
      BY <3>1 DEF Init, NewLimiter
  <2>2. windows \in Tables /\ stats \in [Counters -> Nat]
    BY <1>2 DEF Init, SlotsSound
  <2>3. taken \in [Epochs -> [Offset -> Nat]]
    BY DEF Init
  <2>4. QED
    BY <2>1, <2>2, <2>3 DEF Init, TypeOK, Tables
<1>5. QED
  BY <1>2, <1>3, <1>4 DEF SlotInv

LEMMA DeliverSlotInv ==
    ASSUME SlotInv, NEW dg \in Datagrams, Deliver(dg)
    PROVE  SlotInv'
<1>1. /\ TypeOK /\ SlotsSound(windows)
      /\ local_epoch \in Epochs /\ local_epoch \in Nat
      /\ calls = Tally(stats) + oversized
  BY LocalEpochNatural, CountedIsTally DEF SlotInv, TypeOK
<1>2. /\ calls' = calls + 1 /\ calls' \in 0 .. MaxCalls
      /\ stats' \in [Counters -> Nat]
      /\ oversized' \in {oversized, oversized + 1}
      /\ Tally(stats') + oversized' = Tally(stats) + oversized + 1
  BY <1>1, DeliverCounts
<1>3. /\ now' = now /\ backsteps' = backsteps
      /\ highest_epoch_announced' = highest_epoch_announced
      /\ Dropped \/ Took(dg)
  BY <1>1, DeliverWindows
<1>4. dg.epoch \in Epochs /\ dg.offset \in Offset
  BY DEF Datagrams
<1>5. SlotsSound(windows')
  <2>1. CASE Took(dg)
    BY <1>1, <2>1, MarkSound, KeptIsWindow DEF Took
  <2>2. QED
    BY <1>3, <2>1 DEF Dropped
<1>6. taken' \in [Epochs -> [Offset -> Nat]]
  <2>1. CASE Took(dg)
    <3>1. taken \in [Epochs -> [Offset -> Nat]]
      BY <1>1 DEF TypeOK
    <3>2. QED
      BY <1>4, <2>1, <3>1, TakenTyped DEF Took
  <2>2. QED
    BY <1>1, <1>3, <2>1 DEF Dropped, TypeOK
<1>7. limiter' \in [tokens : 0 .. Capacity, last_ms : 0 .. MaxNow]
  BY <1>1, <1>3, AcquireInBounds DEF Dropped, Took, TypeOK
<1>8. EveryCallCounted'
  <2>1. calls' = Tally(stats') + oversized'
    BY <1>1, <1>2
  <2>2. QED
    BY <2>1 DEF EveryCallCounted, Tally
<1>9. TypeOK'
  <2>1. windows' \in Tables
    BY <1>5 DEF SlotsSound
  <2>2. oversized' \in 0 .. calls'
    BY <1>1, <1>2 DEF TypeOK
  <2>3. QED
    BY <1>1, <1>2, <1>3, <1>6, <1>7, <2>1, <2>2 DEF TypeOK, Tables
<1>10. QED
  BY <1>5, <1>8, <1>9 DEF SlotInv

LEMMA NextSlotInv == SlotInv /\ [Next]_vars => SlotInv'
<1> SUFFICES ASSUME SlotInv, [Next]_vars PROVE SlotInv'
  OBVIOUS
<1> USE PeerAssumption
<1>1. CASE \E dg \in Datagrams : Deliver(dg)
  BY <1>1, DeliverSlotInv
<1>2. ASSUME NEW target \in AnnounceTargets, AnnounceEpoch(target) PROVE SlotInv'
  BY <1>2 DEF AnnounceEpoch, SlotInv, TypeOK, SlotsSound, EveryCallCounted
<1>3. CASE Tick
  BY <1>3 DEF Tick, SlotInv, TypeOK, SlotsSound, EveryCallCounted
<1>4. ASSUME NEW t \in 0 .. MaxNow, StepBack(t) PROVE SlotInv'
  BY <1>4 DEF StepBack, SlotInv, TypeOK, SlotsSound, EveryCallCounted
<1>5. CASE UNCHANGED vars
  BY <1>5 DEF vars, SlotInv, TypeOK, SlotsSound, EveryCallCounted
<1>6. QED
  BY <1>1, <1>2, <1>3, <1>4, <1>5 DEF Next, RefuseAnnounce

\* The invariant of the slots under any delivery and any clock.
THEOREM SlotsInductive == Spec => []SlotInv
BY InitSlotInv, NextSlotInv, PTL DEF Spec

\* Every field of PeerState keeps its type, its two windows and its bucket their bounds.
THEOREM TypeCorrect == Spec => []TypeOK
BY SlotsInductive, PTL DEF SlotInv

\* accept counts every datagram it is given once, but for the oversized ones.
THEOREM AllCounted == Spec => []EveryCallCounted
BY SlotsInductive, PTL DEF SlotInv

LEMMA SoundNeverEvicts == SlotInv => NeverEvicts
<1> SUFFICES ASSUME SlotInv PROVE NeverEvicts
  OBVIOUS
<1>1. SlotsSound(windows) /\ local_epoch \in Nat
  BY LocalEpochNatural DEF SlotInv, TypeOK
<1>2. /\ SlotsSound(Prune(windows))
      /\ \A i \in Slots : Prune(windows)[i].epoch \in {NoEpoch} \cup Acceptable
  BY <1>1, PruneSound
<1>3. \A e \in Acceptable : Prune(windows)[SlotFor(Prune(windows), e)].epoch \in {NoEpoch, e}
  BY <1>1, <1>2, SlotForFinds
<1>4. QED
  BY <1>1, <1>3 DEF NeverEvicts, SlotsSound, Acceptable

\* window_for's fallback "should never fire": it never does, on any clock, forwards
\* or back, and for any datagrams.
THEOREM NoEviction == Spec => []NeverEvicts
BY SlotsInductive, SoundNeverEvicts, PTL

-----------------------------------------------------------------------------
LEMMA TookCounts ==
    ASSUME TypeOK, NEW dg \in Datagrams, Took(dg)
    PROVE  /\ dg.epoch \in Epochs /\ dg.offset \in Offset
           /\ \A e \in Epochs, o \in Offset :
                 taken'[e][o] = IF e = dg.epoch /\ o = dg.offset
                                THEN taken[e][o] + 1 ELSE taken[e][o]
<1>1. dg.epoch \in Epochs /\ dg.offset \in Offset
  BY DEF Datagrams
<1>2. taken \in [Epochs -> [Offset -> Nat]]
  BY DEF TypeOK
<1>3. QED
  BY <1>1, <1>2, TakenTyped DEF Took

LEMMA StepHarmless ==
    SlotInv /\ [Next]_vars =>
        [(calls' # calls /\ taken' = taken) =>
            /\ limiter' = limiter
            /\ \A e \in {local_epoch - 1, local_epoch} : Kept(e)' = Kept(e)]_vars
<1> SUFFICES ASSUME SlotInv, Next, calls' # calls, taken' = taken
             PROVE  /\ limiter' = limiter
                    /\ \A e \in Acceptable : Kept(e)' = Kept(e)
  BY DEF Acceptable
<1>1. PICK dg \in Datagrams : Deliver(dg)
  BY DEF Next, AnnounceEpoch, RefuseAnnounce, Tick, StepBack, vars
<1>2. Dropped \/ Took(dg)
  BY <1>1, DeliverWindows DEF SlotInv
<1>3. ~Took(dg)
  <2>1. SUFFICES ASSUME Took(dg) PROVE FALSE
    OBVIOUS
  <2>2. taken[dg.epoch][dg.offset] = taken[dg.epoch][dg.offset] + 1
    BY <2>1, TookCounts DEF SlotInv
  <2>3. taken[dg.epoch][dg.offset] \in Nat
    BY <2>1, TookCounts DEF SlotInv, TypeOK
  <2>4. QED
    BY <2>2, <2>3
<1>4. QED
  BY <1>2, <1>3 DEF Dropped, Kept

\* Forged datagrams and replays cost a peer neither a token nor a window, at any
\* flood of them and on any clock.
THEOREM JunkHarmless == Spec => JunkIsHarmless
BY SlotsInductive, StepHarmless, PTL DEF Spec, JunkIsHarmless

-----------------------------------------------------------------------------
\* Nothing is known of an epoch that has not begun.
FutureUntouched ==
    /\ \A e \in Epochs : e > local_epoch => TakenIn(e) = {}
    /\ \A i \in Slots : windows[i].epoch <= local_epoch

\* WindowsExact speaks of the two acceptable epochs: it survives the start of an epoch
\* only because FutureUntouched holds of that epoch until then. AtMostOnce also speaks
\* of the epochs whose windows are gone.
ExactInv == SlotInv /\ FutureUntouched /\ WindowsExact /\ AtMostOnce

LEMMA InitExactInv == Init => ExactInv
<1> SUFFICES ASSUME Init PROVE ExactInv
  OBVIOUS
<1>1. SlotInv
  BY InitSlotInv
<1>2. local_epoch \in Nat
  BY <1>1, LocalEpochNatural DEF SlotInv, TypeOK
<1>3. \A e \in Epochs : TakenIn(e) = {}
  BY DEF Init, TakenIn
<1>4. \A i \in Slots : windows[i].epoch = NoEpoch /\ windows[i].window = NewWindow
  BY DEF Init, Free
<1>5. FutureUntouched
  BY <1>2, <1>3, <1>4 DEF FutureUntouched, NoEpoch
<1>6. WindowsExact
  <2>1. ASSUME NEW e PROVE Kept(e) = NewWindow
    <3>1. CASE e = NoEpoch
      <4>1. 1 \in Slots /\ windows[1].epoch = e
        BY <1>4, <3>1 DEF Slots
      <4>2. QED
        BY <1>1, <1>4, <4>1, KeptInSlot DEF Kept, SlotInv
    <3>2. CASE e # NoEpoch
      BY <1>4, <3>2, KeptInNone DEF Kept
    <3>3. QED
      BY <3>1, <3>2
  <2>2. QED
    BY <1>3, <2>1, NewWindowExact DEF WindowsExact
<1>7. AtMostOnce
  BY DEF Init, AtMostOnce
<1>8. QED
  BY <1>1, <1>5, <1>6, <1>7 DEF ExactInv

\* An offset is taken only when it was new, and the window then knows of it.
LEMMA TookExact ==
    ASSUME ExactInv, NEW dg \in Datagrams, Took(dg), now' = now
    PROVE  FutureUntouched' /\ WindowsExact' /\ AtMostOnce'
<1> DEFINE e == dg.epoch
           o == dg.offset
<1>1. /\ TypeOK /\ SlotsSound(windows)
      /\ local_epoch \in Epochs /\ local_epoch \in Nat /\ local_epoch' = local_epoch
      /\ Authentic(dg)
      /\ taken \in [Epochs -> [Offset -> Nat]]
  BY LocalEpochNatural DEF ExactInv, SlotInv, TypeOK, Took, local_epoch
<1>2. e \in Acceptable /\ Reconstructed(dg) = e /\ Reconstructed(dg) # NoEpoch
  BY <1>1, AuthenticEpoch, ReconstructedAcceptable
<1>3. /\ e \in Epochs /\ o \in Offset
      /\ \A f \in Epochs, p \in Offset :
            taken'[f][p] = IF f = e /\ p = o THEN taken[f][p] + 1 ELSE taken[f][p]
  BY <1>1, TookCounts
<1>4. Kept(e) \in Windows /\ WindowOf(dg) = Kept(e) /\ Admits(Kept(e), o)
  BY <1>1, <1>2, KeptIsWindow, PreparedSound DEF Took
<1>5. ExactFor(Kept(e), TakenIn(e)) /\ TakenIn(e) \in SUBSET Offset
  BY <1>2, <1>3 DEF ExactInv, WindowsExact, Acceptable, TakenIn
<1>6. o \notin TakenIn(e) /\ ExactFor(Admit(Kept(e), o), TakenIn(e) \cup {o})
  BY <1>3, <1>4, <1>5, AdmitKeepsExact
<1>7. taken[e][o] = 0
  <2>1. taken[e][o] \in Nat
    BY <1>1, <1>3
  <2>2. ~(taken[e][o] > 0)
    BY <1>3, <1>6 DEF TakenIn
  <2>3. QED
    BY <2>1, <2>2
<1>8. /\ TakenIn(e)' = TakenIn(e) \cup {o}
      /\ \A f \in Epochs : f # e => TakenIn(f)' = TakenIn(f)
  BY <1>3, <1>7 DEF TakenIn
<1>9. /\ \A i \in Slots : windows'[i].epoch \in {NoEpoch} \cup Acceptable
      /\ KeptIn(windows', e) = Admit(Kept(e), o)
      /\ \A f \in Acceptable : f # e => KeptIn(windows', f) = Kept(f)
  BY <1>1, <1>4, MarkSound DEF Took
<1>10. FutureUntouched'
  <2>1. ASSUME NEW f \in Epochs, f > local_epoch
        PROVE  f # e /\ TakenIn(f) = {}
    <3>1. ~(e > local_epoch)
      BY <1>1, <1>2 DEF Acceptable
    <3>2. TakenIn(f) = {}
      BY <2>1 DEF ExactInv, FutureUntouched
    <3>3. QED
      BY <2>1, <3>1, <3>2
  <2>2. \A i \in Slots : windows'[i].epoch <= local_epoch
    BY <1>1, <1>9 DEF Acceptable, NoEpoch
  <2>3. QED
    BY <1>1, <1>8, <2>1, <2>2 DEF FutureUntouched
<1>11. WindowsExact'
  <2>1. ASSUME NEW f \in Acceptable \cap Epochs
        PROVE  ExactFor(KeptIn(windows', f), TakenIn(f)')
    <3>1. CASE f = e
      BY <1>6, <1>8, <1>9, <3>1
    <3>2. CASE f # e
      <4>1. ExactFor(Kept(f), TakenIn(f))
        BY DEF ExactInv, WindowsExact, Acceptable
      <4>2. QED
        BY <1>8, <1>9, <3>2, <4>1
    <3>3. QED
      BY <3>1, <3>2
  <2>2. QED
    BY <1>1, <2>1 DEF WindowsExact, Kept, Acceptable
<1>12. AtMostOnce'
  BY <1>3, <1>7 DEF ExactInv, AtMostOnce
<1>13. QED
  BY <1>10, <1>11, <1>12

LEMMA DroppedExact ==
    ASSUME ExactInv, Dropped, now' = now
    PROVE  FutureUntouched' /\ WindowsExact' /\ AtMostOnce'
<1>1. /\ local_epoch \in Nat /\ local_epoch' = local_epoch
      /\ \A f : TakenIn(f)' = TakenIn(f)
  BY LocalEpochNatural DEF ExactInv, SlotInv, TypeOK, local_epoch, Dropped, TakenIn
<1>2. FutureUntouched'
  <2>1. \A i \in Slots : windows'[i].epoch <= local_epoch
    BY <1>1 DEF Dropped, Acceptable, NoEpoch, ExactInv, FutureUntouched
  <2>2. QED
    BY <1>1, <2>1 DEF ExactInv, FutureUntouched
<1>3. WindowsExact'
  BY <1>1 DEF Dropped, ExactInv, WindowsExact, Kept, Acceptable
<1>4. AtMostOnce'
  BY DEF Dropped, ExactInv, AtMostOnce
<1>5. QED
  BY <1>2, <1>3, <1>4

LEMMA TickExact ==
    ASSUME ExactInv, Tick
    PROVE  FutureUntouched' /\ WindowsExact' /\ AtMostOnce'
<1>1. /\ now \in Nat /\ local_epoch \in Nat
      /\ windows' = windows /\ taken' = taken /\ now' = now + 1
      /\ \A f : TakenIn(f)' = TakenIn(f) /\ Kept(f)' = Kept(f)
      /\ \A i \in Slots : windows[i].epoch \in Int
  <2>1. windows \in Tables /\ now \in 0 .. MaxNow
    BY DEF ExactInv, SlotInv, SlotsSound, TypeOK
  <2>2. \A i \in Slots : windows[i].epoch \in Int
    BY <2>1, PeerAssumption, QuotientNatural DEF Tables, Epochs, NoEpoch
  <2>3. QED
    BY <2>1, <2>2, LocalEpochNatural, PeerAssumption DEF Tick, TakenIn, Kept
<1>2. local_epoch' = local_epoch \/ local_epoch' = local_epoch + 1
  BY <1>1, PeerAssumption, DivisionStep DEF local_epoch
<1>3. \A e \in Epochs : e \in Int
  BY PeerAssumption, QuotientNatural DEF Epochs
<1>4. FutureUntouched'
  BY <1>1, <1>2, <1>3 DEF ExactInv, FutureUntouched
<1>5. ASSUME NEW e \in Epochs, e = local_epoch + 1
      PROVE  ExactFor(Kept(e), TakenIn(e))
  <2>1. TakenIn(e) = {} /\ \A i \in Slots : windows[i].epoch # e
    BY <1>1, <1>5 DEF ExactInv, FutureUntouched
  <2>2. QED
    BY <2>1, KeptInNone, NewWindowExact DEF Kept
<1>6. WindowsExact'
  <2>1. ASSUME NEW e \in {local_epoch' - 1, local_epoch'} \cap Epochs
        PROVE  ExactFor(Kept(e), TakenIn(e))
    <3>1. CASE e = local_epoch + 1
      BY <1>5, <3>1
    <3>2. CASE e # local_epoch + 1
      BY <1>1, <1>2, <2>1, <3>2 DEF ExactInv, WindowsExact
    <3>3. QED
      BY <3>1, <3>2
  <2>2. QED
    BY <1>1, <2>1 DEF WindowsExact
<1>7. AtMostOnce'
  BY <1>1 DEF ExactInv, AtMostOnce
<1>8. QED
  BY <1>4, <1>6, <1>7

LEMMA SameEpochExact ==
    ASSUME ExactInv, UNCHANGED <<windows, taken>>, local_epoch' = local_epoch
    PROVE  FutureUntouched' /\ WindowsExact' /\ AtMostOnce'
BY DEF ExactInv, FutureUntouched, WindowsExact, AtMostOnce, TakenIn, Kept

LEMMA NextExactInv ==
    ASSUME ~StepsMayRewind
    PROVE  ExactInv /\ [Next]_vars => ExactInv'
<1> SUFFICES ASSUME ExactInv, [Next]_vars PROVE ExactInv'
  OBVIOUS
<1>1. SlotInv'
  BY NextSlotInv DEF ExactInv
<1>2. ASSUME NEW dg \in Datagrams, Deliver(dg)
      PROVE  FutureUntouched' /\ WindowsExact' /\ AtMostOnce'
  <2>1. now' = now /\ (Dropped \/ Took(dg))
    BY <1>2, DeliverWindows DEF ExactInv, SlotInv
  <2>2. QED
    BY <2>1, TookExact, DroppedExact
<1>3. ASSUME NEW target \in AnnounceTargets, AnnounceEpoch(target) \/ RefuseAnnounce(target)
      PROVE  FutureUntouched' /\ WindowsExact' /\ AtMostOnce'
  BY <1>3, SameEpochExact DEF AnnounceEpoch, RefuseAnnounce, vars, local_epoch
<1>4. ASSUME NEW t \in 0 .. MaxNow, StepBack(t)
      PROVE  FutureUntouched' /\ WindowsExact' /\ AtMostOnce'
  BY <1>4, SameEpochExact DEF StepBack, local_epoch
<1>5. CASE UNCHANGED vars
  <2>1. UNCHANGED <<windows, taken>> /\ local_epoch' = local_epoch
    BY <1>5 DEF vars, local_epoch
  <2>2. QED
    BY <1>1, <2>1, SameEpochExact DEF ExactInv
<1>6. QED
  BY <1>1, <1>2, <1>3, <1>4, <1>5, TickExact DEF Next, ExactInv

\* The inductive invariant of the windows, as long as the receiver's clock is not
\* stepped back into an earlier epoch.
THEOREM WindowsInductive ==
    ASSUME ~StepsMayRewind
    PROVE  Spec => []ExactInv
<1>1. Init => ExactInv
  BY InitExactInv
<1>2. ExactInv /\ [Next]_vars => ExactInv'
  BY NextExactInv
<1>3. QED
  BY <1>1, <1>2, PTL DEF Spec

\* The windows kept for the two acceptable epochs describe exactly what passed the
\* replay check, although they are pruned and allocated before a MAC is checked.
THEOREM Exactness ==
    ASSUME ~StepsMayRewind
    PROVE  Spec => []WindowsExact
<1>1. Spec => []ExactInv
  BY WindowsInductive
<1>2. ExactInv => WindowsExact
  BY DEF ExactInv
<1>3. QED
  BY <1>1, <1>2, PTL

\* No authentic datagram passes the replay check of accept twice, in whatever epoch it
\* arrives and whatever its bits alias.
THEOREM NoReplay ==
    ASSUME ~StepsMayRewind
    PROVE  Spec => []AtMostOnce
<1>1. Spec => []ExactInv
  BY WindowsInductive
<1>2. ExactInv => AtMostOnce
  BY DEF ExactInv
<1>3. QED
  BY <1>1, <1>2, PTL
=============================================================================
