---------------------------- MODULE ReplayBitmap ----------------------------
(***************************************************************************)
(* The bitmap of one replay window (ReplayWindow of lib.rs) as a value and *)
(* the functions over it. ReplayWindow runs one such window alone,         *)
(* PeerState keeps up to two.                                              *)
(*                                                                         *)
(* A window is a record: high is the highest offset accepted (the None of  *)
(* the code is NoOffset) and bits the set of the bit positions that are 1. *)
(* The split of the bitmap into 64-bit words is left out: position idx of  *)
(* the model is bit idx % 64 of word idx / 64.                             *)
(*                                                                         *)
(* Operators marked "Mutation" are never used by the specification: each   *)
(* is a wrong version of the definition after it, kept to show that a      *)
(* property notices the mistake.                                           *)
(***************************************************************************)
EXTENDS Integers

CONSTANTS
    Entries,    \* ReplayWindow::ENTRIES, 4096 by default
    MaxOffset   \* the highest offset, 2^19 - 1 in the protocol

ASSUME WindowAssumption == Entries \in Nat \ {0} /\ MaxOffset \in Nat

Offset == 0 .. MaxOffset

NoOffset == -1

Positions == 0 .. Entries - 1

Windows == [high : Offset \cup {NoOffset}, bits : SUBSET Positions]

NewWindow == [high |-> NoOffset, bits |-> {}]

\* Mutation (off-by-one of the modulus).
IndexOffByOne(off) == off % (Entries + 1)

Index(off) == off % Entries

\* seen
Seen(w, off) == Index(off) \in w.bits

Lesser(a, b) == IF a < b THEN a ELSE b

\* Mutation (the loop skips the first position above the old high).
ClearedFromSecond(w, off) ==
    {Index(w.high + i) : i \in 2 .. Lesser(off - w.high, Entries)}

\* The positions cleared when the window slides up to off: those of the span
\* it slid past, or all of them when the span is longer than the bitmap.
Cleared(w, off) ==
    {Index(w.high + i) : i \in 1 .. Lesser(off - w.high, Entries)}

\* Mutation (no lower edge: an offset below the window is looked up too).
AdmitsBelow(w, off) == w.high = NoOffset \/ off > w.high \/ ~Seen(w, off)

\* Mutation (the lower edge one entry too high).
AdmitsNarrow(w, off) ==
    \/ w.high = NoOffset
    \/ off > w.high
    \/ w.high - off < Entries - 1 /\ ~Seen(w, off)

\* check_and_set answers Ok, not Err(Replay).
Admits(w, off) ==
    \/ w.high = NoOffset
    \/ off > w.high
    \/ w.high - off < Entries /\ ~Seen(w, off)

\* Mutation (high assigned on the in-window path as well).
AdmitMovesHigh(w, off) ==
    [high |-> off,
     bits |-> IF w.high # NoOffset /\ off > w.high
              THEN (w.bits \ Cleared(w, off)) \cup {Index(off)}
              ELSE w.bits \cup {Index(off)}]

\* check_and_set on an offset it answers Ok for; mark is the last union.
Admit(w, off) ==
    IF w.high = NoOffset
    THEN [high |-> off, bits |-> w.bits \cup {Index(off)}]
    ELSE IF off > w.high
         THEN [high |-> off, bits |-> (w.bits \ Cleared(w, off)) \cup {Index(off)}]
         ELSE [high |-> w.high, bits |-> w.bits \cup {Index(off)}]

\* The window w describes the set A of offsets exactly: its high-water mark is
\* the maximum of A, and inside the window, which is to say less than Entries
\* below that mark, a bit is set for the members of A alone.
ExactFor(w, A) ==
    IF w.high = NoOffset
    THEN A = {} /\ w.bits = {}
    ELSE /\ w.high \in A
         /\ \A a \in A : a <= w.high
         /\ \A o \in Offset :
              o <= w.high /\ o > w.high - Entries => (Seen(w, o) <=> o \in A)
=============================================================================
