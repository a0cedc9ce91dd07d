------------------------- MODULE ReplayWindowProofs -------------------------
(***************************************************************************)
(* ReplayWindow, for every number of entries and every offset space: the   *)
(* window stays exact, no offset is accepted twice, and the bitmap         *)
(* implements the filter that remembers every offset.                      *)
(*                                                                         *)
(* First the facts about the bitmap as a value, which the proofs of        *)
(* PeerState and CatpSystem use too. The main one is AdmitKeepsExact: a    *)
(* window that describes a set of accepted offsets exactly admits only an  *)
(* offset outside that set, and afterwards describes the set with it.      *)
(***************************************************************************)
EXTENDS ReplayWindow, TLAPS

\* Every number is a multiple of n and a remainder below n.
LEMMA Division ==
    ASSUME NEW n \in Nat \ {0}, NEW a \in Int
    PROVE  /\ a \div n \in Int
           /\ a % n \in 0 .. n - 1
           /\ a = n * (a \div n) + (a % n)
OBVIOUS

\* No multiple of n other than 0 lies strictly between -n and n.
LEMMA NoMultipleBetween ==
    ASSUME NEW n \in Nat \ {0}, NEW k \in Int, NEW d \in Int,
           d = n * k, -n < d, d < n
    PROVE  k = 0
OBVIOUS

\* Writing a number as a multiple of n and a rest below n determines both.
LEMMA DivisionUnique ==
    ASSUME NEW n \in Nat \ {0}, NEW a \in Int, NEW k \in Int,
           NEW r \in 0 .. n - 1, a = n * k + r
    PROVE  a \div n = k /\ a % n = r
OBVIOUS

\* The position of an offset is a position of the bitmap.
LEMMA IndexInPositions ==
    ASSUME NEW off \in Nat
    PROVE  Index(off) \in Positions
BY WindowAssumption DEF Index, Positions

\* Two offsets less than Entries apart never share a position: within one
\* window every bit stands for one offset only.
LEMMA IndexSeparates ==
    ASSUME NEW x \in Int, NEW y \in Int, x < y, y - x < Entries
    PROVE  Index(x) # Index(y)
<1> USE WindowAssumption
<1> DEFINE p == x \div Entries
           q == y \div Entries
           r == x % Entries
           s == y % Entries
<1>1. p \in Int /\ r \in Positions /\ x = Entries * p + r
  BY Division DEF Positions
<1>2. q \in Int /\ s \in Positions /\ y = Entries * q + s
  BY Division DEF Positions
<1> HIDE DEF p, q, r, s
<1>3. SUFFICES ASSUME r = s PROVE FALSE
  BY DEF Index, r, s
<1>4. y - x = Entries * (q - p)
  BY <1>1, <1>2, <1>3 DEF Positions
<1>5. q - p = 0
  BY <1>1, <1>2, <1>4, NoMultipleBetween
<1>6. QED
  BY <1>4, <1>5

\* Any Entries consecutive offsets use every position once: the clearing loop,
\* bounded by Entries iterations, clears the whole bitmap.
LEMMA IndexCovers ==
    ASSUME NEW base \in Int, NEW off \in Int
    PROVE  \E i \in 1 .. Entries : Index(base + i) = Index(off)
<1> USE WindowAssumption
<1> DEFINE d == off - base - 1
           q == d \div Entries
           r == d % Entries
           p == off \div Entries
           s == off % Entries
<1>1. d \in Int /\ off = base + d + 1
  OBVIOUS
<1>2. q \in Int /\ r \in Positions /\ d = Entries * q + r
  BY <1>1, Division DEF Positions
<1>3. p \in Int /\ s \in Positions /\ off = Entries * p + s
  BY Division DEF Positions
<1> HIDE DEF d, q, r, p, s
<1>4. base + (r + 1) = Entries * (p - q) + s
  BY <1>1, <1>2, <1>3 DEF Positions
<1>5. (base + (r + 1)) % Entries = s
  <2>1. base + (r + 1) \in Int /\ p - q \in Int
    BY <1>2, <1>3 DEF Positions
  <2>2. QED
    BY <2>1, <1>3, <1>4, DivisionUnique DEF Positions
<1>6. r + 1 \in 1 .. Entries
  BY <1>2 DEF Positions
<1>7. QED
  BY <1>5, <1>6 DEF Index, s

-----------------------------------------------------------------------------
\* A new window describes the empty set.
LEMMA NewWindowExact == NewWindow \in Windows /\ ExactFor(NewWindow, {})
BY DEF NewWindow, Windows, Offset, NoOffset, Positions, ExactFor

\* check_and_set answers with a window again: the high-water mark is an offset
\* and no bit outside the bitmap is touched.
LEMMA AdmitInWindows ==
    ASSUME NEW w \in Windows, NEW off \in Offset
    PROVE  Admit(w, off) \in Windows
<1>1. Index(off) \in Positions
  BY IndexInPositions, WindowAssumption DEF Offset
<1>2. QED
  BY <1>1 DEF Admit, Windows

\* An offset that check_and_set accepts is new, and the window describes the
\* accepted offsets with it. The delicate case is the slide: a position the
\* clearing loop misses would hold the bit of an offset at least one turn of the
\* ring older, a position it clears in excess would forget an accepted offset.
LEMMA AdmitKeepsExact ==
    ASSUME NEW w \in Windows, NEW A \in SUBSET Offset, ExactFor(w, A),
           NEW off \in Offset, Admits(w, off)
    PROVE  /\ off \notin A
           /\ ExactFor(Admit(w, off), A \cup {off})
<1> USE WindowAssumption DEF Offset, NoOffset
<1> DEFINE v == Admit(w, off)
<1>1. w.high \in Offset \cup {NoOffset} /\ w.bits \subseteq Positions
  BY DEF Windows
<1>2. CASE w.high = NoOffset
  <2>1. A = {} /\ w.bits = {}
    BY <1>2 DEF ExactFor
  <2>2. v = [high |-> off, bits |-> {Index(off)}]
    BY <1>2, <2>1 DEF Admit
  <2>3. ASSUME NEW o \in Offset, o <= off, o > off - Entries
        PROVE  Index(o) = Index(off) <=> o = off
    BY <2>3, IndexSeparates
  <2>4. QED
    BY <2>1, <2>2, <2>3 DEF ExactFor, Seen
<1>3. CASE w.high # NoOffset /\ off > w.high
  <2>1. /\ w.high \in A
        /\ \A a \in A : a <= w.high
        /\ \A o \in Offset :
             o <= w.high /\ o > w.high - Entries => (Index(o) \in w.bits <=> o \in A)
    BY <1>3 DEF ExactFor, Seen
  <2>2. v.high = off /\ v.bits = (w.bits \ Cleared(w, off)) \cup {Index(off)}
    BY <1>3 DEF Admit
  <2>3. off \notin A
    BY <1>1, <1>3, <2>1
  <2>4. ASSUME NEW o \in Offset, o <= off, o > off - Entries
        PROVE  Index(o) \in v.bits <=> o \in A \cup {off}
    <3>1. CASE o = off
      BY <2>2, <3>1
    <3>2. CASE o # off /\ o > w.high
      <4>1. Index(o) # Index(off)
        BY <2>4, <3>2, IndexSeparates
      <4>2. Index(o) \in Cleared(w, off)
        <5>1. CASE off - w.high < Entries
          <6>1. o - w.high \in 1 .. Lesser(off - w.high, Entries)
            BY <1>1, <1>3, <2>4, <3>2, <5>1 DEF Lesser
          <6>2. w.high + (o - w.high) = o
            BY <1>1, <1>3
          <6>3. QED
            BY <6>1, <6>2 DEF Cleared
        <5>2. CASE off - w.high >= Entries
          <6>1. Lesser(off - w.high, Entries) = Entries
            BY <1>1, <1>3, <5>2 DEF Lesser
          <6>2. PICK i \in 1 .. Entries : Index(w.high + i) = Index(o)
            <7>1. w.high \in Int /\ o \in Int
              BY <1>1, <1>3
            <7>2. QED
              BY <7>1, IndexCovers
          <6>3. QED
            BY <6>1, <6>2 DEF Cleared
        <5>3. QED
          BY <1>1, <1>3, <5>1, <5>2
      <4>3. o \notin A
        BY <1>1, <1>3, <2>1, <3>2
      <4>4. QED
        BY <2>2, <3>2, <4>1, <4>2, <4>3
    <3>3. CASE o # off /\ o <= w.high
      <4>1. Index(o) # Index(off)
        BY <1>1, <1>3, <2>4, <3>3, IndexSeparates
      <4>2. Index(o) \notin Cleared(w, off)
        <5>1. ASSUME NEW i \in 1 .. Lesser(off - w.high, Entries)
              PROVE  Index(w.high + i) # Index(o)
          <6>1. /\ w.high + i \in Int
                /\ o < w.high + i
                /\ (w.high + i) - o < Entries
            BY <1>1, <1>3, <2>4, <3>3, <5>1 DEF Lesser
          <6>2. QED
            BY <6>1, IndexSeparates
        <5>2. QED
          BY <5>1 DEF Cleared
      <4>3. Index(o) \in w.bits <=> o \in A
        BY <1>1, <1>3, <2>1, <2>4, <3>3
      <4>4. QED
        BY <2>2, <3>3, <4>1, <4>2, <4>3
    <3>4. QED
      BY <1>1, <1>3, <3>1, <3>2, <3>3
  <2>5. \A a \in A \cup {off} : a <= off
    BY <1>1, <1>3, <2>1
  <2>6. QED
    BY <2>2, <2>3, <2>4, <2>5 DEF ExactFor, Seen
<1>4. CASE w.high # NoOffset /\ ~(off > w.high)
  <2>1. /\ w.high \in A
        /\ \A a \in A : a <= w.high
        /\ \A o \in Offset :
             o <= w.high /\ o > w.high - Entries => (Index(o) \in w.bits <=> o \in A)
    BY <1>4 DEF ExactFor, Seen
  <2>2. v.high = w.high /\ v.bits = w.bits \cup {Index(off)}
    BY <1>4 DEF Admit
  <2>3. w.high - off < Entries /\ Index(off) \notin w.bits
    BY <1>4 DEF Admits, Seen
  <2>4. off \notin A
    BY <1>1, <1>4, <2>1, <2>3
  <2>5. ASSUME NEW o \in Offset, o <= w.high, o > w.high - Entries
        PROVE  Index(o) \in v.bits <=> o \in A \cup {off}
    <3>1. Index(o) = Index(off) <=> o = off
      <4>1. CASE o < off
        BY <1>1, <1>4, <2>5, <4>1, IndexSeparates
      <4>2. CASE off < o
        BY <1>1, <1>4, <2>3, <2>5, <4>2, IndexSeparates
      <4>3. QED
        BY <4>1, <4>2
    <3>2. QED
      BY <2>1, <2>2, <2>5, <3>1
  <2>6. \A a \in A \cup {off} : a <= w.high
    <3>1. off <= w.high
      BY <1>1, <1>4
    <3>2. QED
      BY <2>1, <3>1
  <2>7. QED
    BY <2>1, <2>2, <2>4, <2>5, <2>6 DEF ExactFor, Seen
<1>5. QED
  BY <1>1, <1>2, <1>3, <1>4

\* An offset that check_and_set refuses was accepted before or lies Entries or
\* more below the highest accepted one: nothing fresh is lost inside the window.
LEMMA RefusedWasSeen ==
    ASSUME NEW w \in Windows, NEW A \in SUBSET Offset, ExactFor(w, A),
           NEW off \in Offset, ~Admits(w, off)
    PROVE  off \in A \/ \E a \in A : a - off >= Entries
<1> USE WindowAssumption DEF Offset, NoOffset
<1>1. w.high \in Offset /\ off <= w.high
  BY DEF Windows, Admits
<1>2. CASE w.high - off >= Entries
  BY <1>1, <1>2 DEF ExactFor
<1>3. CASE w.high - off < Entries
  <2>1. Seen(w, off)
    BY <1>1, <1>3 DEF Admits
  <2>2. QED
    BY <1>1, <1>3, <2>1 DEF ExactFor
<1>4. QED
  BY <1>1, <1>2, <1>3

-----------------------------------------------------------------------------
\* AtMostOnce is not inductive: that an accepted offset was new follows only
\* from the exactness of the bitmap.
IInv == TypeOK /\ WindowExact /\ AtMostOnce

LEMMA InitIInv == Init => IInv
<1> SUFFICES ASSUME Init PROVE IInv
  OBVIOUS
<1>1. TypeOK
  BY NewWindowExact DEF Init, TypeOK, NoAnswer, Answers
<1>2. accepted = {}
  BY DEF Init, accepted
<1>3. QED
  BY <1>1, <1>2, NewWindowExact DEF Init, IInv, WindowExact, AtMostOnce

LEMMA AcceptIInv ==
    ASSUME IInv, NEW off \in Offset, Accept(off)
    PROVE  /\ IInv'
           /\ accepted' = accepted \cup {off}
           /\ off \notin accepted
<1>1. /\ window \in Windows
      /\ admissions \in [Offset -> Nat]
      /\ ExactFor(window, accepted)
      /\ accepted \in SUBSET Offset
      /\ \A o \in Offset : admissions[o] <= 1
  BY DEF IInv, TypeOK, WindowExact, AtMostOnce, accepted
<1>2. off \notin accepted /\ ExactFor(Admit(window, off), accepted \cup {off})
  BY <1>1, AdmitKeepsExact DEF Accept
<1>3. admissions[off] = 0
  BY <1>1, <1>2 DEF accepted
<1>4. accepted' = accepted \cup {off}
  BY <1>1, <1>3 DEF Accept, accepted
<1>5. TypeOK'
  <2>1. window' \in Windows
    BY <1>1, AdmitInWindows DEF Accept
  <2>2. admissions' \in [Offset -> Nat]
    BY <1>1 DEF Accept
  <2>3. answer' \in Answers
    BY DEF Accept, Answers
  <2>4. QED
    BY <2>1, <2>2, <2>3 DEF TypeOK
<1>6. WindowExact'
  BY <1>2, <1>4 DEF Accept, WindowExact
<1>7. AtMostOnce'
  BY <1>1, <1>3 DEF Accept, AtMostOnce
<1>8. QED
  BY <1>2, <1>4, <1>5, <1>6, <1>7 DEF IInv

LEMMA RejectIInv ==
    ASSUME IInv, NEW off \in Offset, Reject(off)
    PROVE  IInv' /\ accepted' = accepted
<1>1. window' = window /\ admissions' = admissions /\ accepted' = accepted
  BY DEF Reject, accepted
<1>2. answer' \in Answers
  BY DEF Reject, Answers
<1>3. QED
  BY <1>1, <1>2 DEF IInv, TypeOK, WindowExact, AtMostOnce

LEMMA NextIInv == IInv /\ [Next]_vars => IInv'
<1> SUFFICES ASSUME IInv, [Next]_vars PROVE IInv'
  OBVIOUS
<1>1. ASSUME NEW off \in Offset, Accept(off) PROVE IInv'
  BY <1>1, AcceptIInv
<1>2. ASSUME NEW off \in Offset, Reject(off) PROVE IInv'
  BY <1>2, RejectIInv
<1>3. CASE UNCHANGED vars
  BY <1>3 DEF vars, IInv, TypeOK, WindowExact, AtMostOnce, accepted
<1>4. QED
  BY <1>1, <1>2, <1>3 DEF Next

\* The inductive invariant of one window under any sequence of check_and_set
\* calls.
THEOREM Inductive == Spec => []IInv
BY InitIInv, NextIInv, PTL DEF Spec

\* The window and its history have their types: the high-water mark is always
\* an offset and no bit outside the bitmap is ever set.
THEOREM TypeCorrect == Spec => []TypeOK
BY Inductive, PTL DEF IInv

\* The bitmap of check_and_set never confuses two offsets, at any window size.
THEOREM Exactness == Spec => []WindowExact
BY Inductive, PTL DEF IInv

\* No offset is accepted twice by check_and_set, in any order of arrival.
THEOREM NoReplay == Spec => []AtMostOnce
BY Inductive, PTL DEF IInv

-----------------------------------------------------------------------------
\* One call of check_and_set is one step of the filter.
LEMMA StepRefines == IInv /\ [Next]_vars => [Filter!Next]_<<accepted, answer>>
<1> SUFFICES ASSUME IInv, [Next]_vars
             PROVE  [Filter!Next]_<<accepted, answer>>
  OBVIOUS
<1> USE WindowAssumption
<1>1. /\ window \in Windows
      /\ ExactFor(window, accepted)
      /\ accepted \in SUBSET Offset
  BY DEF IInv, TypeOK, WindowExact, accepted
<1>2. ASSUME NEW off \in Offset, Accept(off) PROVE Filter!Accept(off)
  <2>1. off \notin accepted /\ accepted' = accepted \cup {off}
    BY <1>2, AcceptIInv
  <2>2. ~Filter!TooOld(off)
    <3>1. SUFFICES ASSUME NEW o \in accepted PROVE ~(o - off >= Entries)
      BY DEF Filter!TooOld
    <3>2. window.high # NoOffset /\ o <= window.high
      BY <1>1, <3>1 DEF ExactFor
    <3>3. o - off < Entries
      <4>1. window.high \in Offset /\ o \in Offset
        BY <1>1, <3>2 DEF Windows
      <4>2. off > window.high \/ window.high - off < Entries
        BY <1>2, <3>2 DEF Accept, Admits
      <4>3. QED
        BY <3>2, <4>1, <4>2 DEF Offset
    <3>4. QED
      BY <1>1, <3>3 DEF Offset
  <2>3. QED
    BY <1>2, <2>1, <2>2 DEF Accept, Filter!Accept
<1>3. ASSUME NEW off \in Offset, Reject(off) PROVE Filter!Refuse(off)
  <2>1. off \in accepted \/ \E a \in accepted : a - off >= Entries
    BY <1>1, <1>3, RefusedWasSeen DEF Reject
  <2>2. accepted' = accepted
    BY <1>3, RejectIInv
  <2>3. QED
    BY <1>3, <2>1, <2>2 DEF Reject, Filter!Refuse, Filter!TooOld
<1>4. CASE UNCHANGED vars
  BY <1>4 DEF vars, accepted
<1>5. QED
  BY <1>2, <1>3, <1>4 DEF Next, Filter!Next, Filter!Offset, Offset

\* The windowed bitmap implements the filter that remembers every offset: it
\* refuses exactly the offsets already accepted and those too far behind.
THEOREM Refinement == Spec => ImplementsFilter
<1>1. Init => Filter!Init
  BY DEF Init, Filter!Init, accepted, NoAnswer, NoOffset
<1>2. QED
  BY <1>1, Inductive, StepRefines, PTL DEF Spec, ImplementsFilter, Filter!Spec
=============================================================================
