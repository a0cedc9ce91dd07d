------------------------------ MODULE EpochMath ------------------------------
(***************************************************************************)
(* The arithmetic that turns a clock reading into a position of the        *)
(* protocol, and the 4 transmitted bits of an epoch back into an epoch:    *)
(* epoch_id_at, epoch_offset_at and reconstruct_epoch of lib.rs.           *)
(*                                                                         *)
(* Every width is a constant, so that TLC can run with small ones. The     *)
(* values of the code are EpochSecs = 128, TicksPerSec = 4096,             *)
(* NanosPerSec = 10^9, EpochSpace = 2^32 and LowSpace = 16.                *)
(***************************************************************************)
EXTENDS Integers

CONSTANTS
    EpochSecs,    \* EPOCH_SECS: seconds of one epoch
    TicksPerSec,  \* TICKS_PER_SEC: ticks of one second
    NanosPerSec,  \* resolution of the platform clock below one second
    EpochSpace,   \* epochs a u32 can name
    LowSpace      \* values of the epoch_low header field

ASSUME EpochAssumption ==
    /\ EpochSecs \in Nat \ {0}
    /\ TicksPerSec \in Nat \ {0}
    /\ NanosPerSec \in Nat \ {0}
    /\ EpochSpace \in Nat \ {0}
    /\ LowSpace \in Nat /\ LowSpace > 1

\* The answer None of an Option<u32>.
NoEpoch == -1

Epochs == 0 .. EpochSpace - 1

TicksPerEpoch == EpochSecs * TicksPerSec

Offsets == 0 .. TicksPerEpoch - 1

\* epoch_id_at: the quotient is cast to u32, which drops its high bits.
EpochIdAt(secs) == (secs \div EpochSecs) % EpochSpace

\* Mutation (the ticks of the whole time, not of the time into the epoch).
EpochOffsetWhole(secs, nanos) ==
    secs * TicksPerSec + (nanos * TicksPerSec) \div NanosPerSec

\* epoch_offset_at
EpochOffsetAt(secs, nanos) ==
    ((secs % EpochSecs) * TicksPerSec + (nanos * TicksPerSec) \div NanosPerSec)
        % TicksPerEpoch

\* The epoch_low field a sender writes for an epoch.
LowBits(epoch) == epoch % LowSpace

\* reconstruct_epoch: the candidate of {local, local - 1} with these low bits.
ReconstructEpoch(local, low) ==
    CASE LowBits(local) = low -> local
      [] LowBits(local) # low /\ local > 0 /\ LowBits(local - 1) = low -> local - 1
      [] OTHER -> NoEpoch
=============================================================================
