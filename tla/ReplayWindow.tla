---------------------------- MODULE ReplayWindow ----------------------------
(***************************************************************************)
(* One replay window over the ticks of one epoch: the offset of every      *)
(* datagram whose MAC verified is put to check_and_set, in whatever order  *)
(* and as many times as the network delivers it.                           *)
(***************************************************************************)
EXTENDS ReplayBitmap

VARIABLES
    window,     \* the ReplayWindow
    admissions, \* history: how many times each offset was answered Ok
    answer      \* the last call and what it answered

vars == <<window, admissions, answer>>

\* Every offset check_and_set ever answered Ok for.
accepted == {o \in Offset : admissions[o] > 0}

NoAnswer == [off |-> NoOffset, ok |-> FALSE]

Answers == [off : Offset \cup {NoOffset}, ok : BOOLEAN]

Init ==
    /\ window = NewWindow
    /\ admissions = [o \in Offset |-> 0]
    /\ answer = NoAnswer

\* A call of check_and_set with an offset it accepts.
Accept(off) ==
    /\ Admits(window, off)
    /\ window' = Admit(window, off)
    /\ admissions' = [admissions EXCEPT ![off] = @ + 1]
    /\ answer' = [off |-> off, ok |-> TRUE]

\* A call below the window, or inside it on a bit already set: Err(Replay), and
\* nothing changes.
Reject(off) ==
    /\ ~Admits(window, off)
    /\ answer' = [off |-> off, ok |-> FALSE]
    /\ UNCHANGED <<window, admissions>>

Next == \E off \in Offset : Accept(off) \/ Reject(off)

Spec == Init /\ [][Next]_vars

-----------------------------------------------------------------------------
\* Type correctness of the window and its history.
TypeOK ==
    /\ window \in Windows
    /\ admissions \in [Offset -> Nat]
    /\ answer \in Answers

\* The bitmap is exact, and the high-water mark the maximum: inside the window a
\* bit is set if and only if that very offset was accepted. A bit left over from
\* an offset one or more turns of the ring older (the clearing loop of
\* check_and_set) would refuse a fresh datagram; a bit cleared in excess would
\* let a replay through.
WindowExact == ExactFor(window, accepted)

\* No offset is ever accepted twice, however late, reordered or often its
\* datagram arrives: the bitmap forgets, the high-water mark does not.
AtMostOnce == \A o \in Offset : admissions[o] <= 1

\* What the window promises, with no bitmap: see ReplayFilter.
Filter == INSTANCE ReplayFilter WITH tolerance <- Entries

ImplementsFilter == Filter!Spec
=============================================================================
