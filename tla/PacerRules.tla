----------------------------- MODULE PacerRules -----------------------------
(***************************************************************************)
(* The Pacer of lib.rs as a value: the epoch and the offset of the last    *)
(* claim, and when another claim is allowed. Instants count units of       *)
(* 1/NanosPerSec seconds, so that their seconds and nanoseconds are the    *)
(* quotient and the remainder by NanosPerSec.                              *)
(***************************************************************************)
EXTENDS EpochMath

NoClaim == -1

NewPacer == [epoch |-> NoEpoch, last_offset |-> NoClaim]

Tuples == [epoch : Epochs, offset : Offsets]

\* The position of an instant: its epoch and its tick within that epoch.
TupleAt(t) == [epoch  |-> EpochIdAt(t \div NanosPerSec),
               offset |-> EpochOffsetAt(t \div NanosPerSec, t % NanosPerSec)]

Precedes(a, b) ==
    a.epoch < b.epoch \/ (a.epoch = b.epoch /\ a.offset < b.offset)

\* Mutation (a repeated tick passes).
MayClaimEqual(p, tuple) ==
    \/ p.epoch # tuple.epoch
    \/ p.last_offset = NoClaim
    \/ tuple.offset >= p.last_offset

\* Mutation (only the tick of the last claim itself is refused).
MayClaimOther(p, tuple) ==
    \/ p.epoch # tuple.epoch
    \/ p.last_offset = NoClaim
    \/ tuple.offset # p.last_offset

\* Mutation (the last offset is not forgotten when the epoch changes).
MayClaimAcross(p, tuple) ==
    p.last_offset = NoClaim \/ tuple.offset > p.last_offset

\* claim succeeds: another epoch resets last_offset, and within an epoch the
\* offset must have moved past it.
MayClaim(p, tuple) ==
    \/ p.epoch # tuple.epoch
    \/ p.last_offset = NoClaim
    \/ tuple.offset > p.last_offset

\* The Pacer after a claim that succeeds.
Claimed(tuple) == [epoch |-> tuple.epoch, last_offset |-> tuple.offset]
=============================================================================
