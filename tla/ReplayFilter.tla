---------------------------- MODULE ReplayFilter ----------------------------
(***************************************************************************)
(* What a replay window promises its caller (PROTOCOL.md 10.2), stated     *)
(* over the set of all offsets ever accepted and without a bitmap: an      *)
(* offset is accepted unless it was accepted before or lies tolerance or   *)
(* more ticks below the highest one accepted. A refused offset changes     *)
(* nothing. ReplayWindow implements this specification in Entries bits.    *)
(***************************************************************************)
EXTENDS Integers

CONSTANTS MaxOffset, tolerance

VARIABLES accepted, answer

Offset == 0 .. MaxOffset

TooOld(off) == \E o \in accepted : o - off >= tolerance

Init == accepted = {} /\ answer = [off |-> -1, ok |-> FALSE]

Accept(off) ==
    /\ off \notin accepted
    /\ ~TooOld(off)
    /\ accepted' = accepted \cup {off}
    /\ answer' = [off |-> off, ok |-> TRUE]

Refuse(off) ==
    /\ off \in accepted \/ TooOld(off)
    /\ answer' = [off |-> off, ok |-> FALSE]
    /\ UNCHANGED accepted

Next == \E off \in Offset : Accept(off) \/ Refuse(off)

Spec == Init /\ [][Next]_<<accepted, answer>>
=============================================================================
