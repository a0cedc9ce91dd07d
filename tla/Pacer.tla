-------------------------------- MODULE Pacer --------------------------------
(***************************************************************************)
(* A sender allocating datagram offsets from its clock (Pacer of lib.rs,   *)
(* driven by the loop of sender.rs), over a clock that advances, may be    *)
(* stepped back by a time source, and survives restarts of the process     *)
(* while the Pacer, held in volatile memory, does not.                     *)
(***************************************************************************)
EXTENDS PacerRules, Sequences

CONSTANTS
    MaxNow,           \* bound: the last clock reading modelled
    MaxBacksteps,     \* bound: backward steps of the clock
    MaxRestarts,      \* bound: restarts of the sender
    StepsMayRewind,   \* a backward step may take the clock to an epoch before
                      \* that of the last claim
    RestartsMayRewind \* a restarted sender may read a clock that is not past
                      \* what it claimed before

ASSUME PacerAssumption ==
    /\ MaxNow \in Nat /\ MaxNow < EpochSpace * (EpochSecs * NanosPerSec)
    /\ MaxBacksteps \in Nat
    /\ MaxRestarts \in Nat
    /\ StepsMayRewind \in BOOLEAN
    /\ RestartsMayRewind \in BOOLEAN

VARIABLES
    now,        \* the platform clock, in units of 1/NanosPerSec seconds
    pacer,      \* the Pacer: epoch and last_offset, both None at first
    refused,    \* the last claim failed with OffsetReuse
    claims,     \* history: the (epoch, offset) pairs handed out, in order
    backsteps,
    restarts

vars == <<now, pacer, refused, claims, backsteps, restarts>>

\* Every offset handed out so far lies before the instant t.
PastAllClaims(t) == \A i \in 1 .. Len(claims) : Precedes(claims[i], TupleAt(t))

-----------------------------------------------------------------------------
Init ==
    /\ now \in 0 .. MaxNow
    /\ pacer = NewPacer
    /\ refused = FALSE
    /\ claims = <<>>
    /\ backsteps = 0
    /\ restarts = 0

\* The platform clock advances.
Tick ==
    /\ now < MaxNow
    /\ now' = now + 1
    /\ UNCHANGED <<pacer, refused, claims, backsteps, restarts>>

\* A time source corrects the clock backwards to t. Unless StepsMayRewind, not
\* to an epoch before that of an earlier claim; nor, while the Pacer is fresh, to
\* an instant that is not past every earlier claim.
StepBack(t) ==
    /\ t < now
    /\ backsteps < MaxBacksteps
    /\ \/ StepsMayRewind
       \/ IF pacer.epoch = NoEpoch
          THEN PastAllClaims(t)
          ELSE \A i \in 1 .. Len(claims) : claims[i].epoch <= TupleAt(t).epoch
    /\ now' = t
    /\ backsteps' = backsteps + 1
    /\ UNCHANGED <<pacer, refused, claims, restarts>>

\* Pacer::claim at this instant, which returns the offset to send with.
Claim ==
    LET tuple == TupleAt(now) IN
    /\ MayClaim(pacer, tuple)
    /\ pacer' = Claimed(tuple)
    /\ claims' = Append(claims, tuple)
    /\ refused' = FALSE
    /\ UNCHANGED <<now, backsteps, restarts>>

\* Pacer::claim returns OffsetReuse: the datagram is shed, and the sender sleeps
\* and tries again.
Shed ==
    /\ ~MayClaim(pacer, TupleAt(now))
    /\ refused' = TRUE
    /\ UNCHANGED <<now, pacer, claims, backsteps, restarts>>

\* The sender process restarts with a fresh Pacer. Unless RestartsMayRewind, the
\* clock has by then passed every earlier claim.
Restart ==
    /\ restarts < MaxRestarts
    /\ RestartsMayRewind \/ PastAllClaims(now)
    /\ pacer' = NewPacer
    /\ refused' = FALSE
    /\ restarts' = restarts + 1
    /\ UNCHANGED <<now, claims, backsteps>>

Next ==
    \/ Tick
    \/ \E t \in 0 .. MaxNow : StepBack(t)
    \/ Claim
    \/ Shed
    \/ Restart

\* The clock runs and the sender keeps looping.
Fairness == WF_vars(Tick) /\ WF_vars(Claim \/ Shed)

Spec == Init /\ [][Next]_vars

FairSpec == Spec /\ Fairness

-----------------------------------------------------------------------------
\* Type correctness: every offset handed out fits the 19-bit field, and the epoch
\* the u32.
TypeOK ==
    /\ now \in 0 .. MaxNow
    /\ pacer \in {NewPacer} \cup [epoch : Epochs, last_offset : Offsets]
    /\ refused \in BOOLEAN
    /\ claims \in Seq(Tuples)
    /\ backsteps \in 0 .. MaxBacksteps
    /\ restarts \in 0 .. MaxRestarts

\* No (epoch, offset) is ever handed out twice, across ticks, epochs, backward
\* steps of the clock and restarts. This is the no-reuse rule of PROTOCOL.md 10.1,
\* on which the replay window and the nonce of cipher 0x03 rest. It holds while
\* the clock behaves as the two Rewind constants say.
NoTupleReuse ==
    \A i, j \in 1 .. Len(claims) : i < j => claims[i] # claims[j]

\* Under the same proviso every claim lies after all earlier ones: a backward step
\* or a restart never makes claim emit an older instant (PROTOCOL.md 10.3).
ClaimsIncrease ==
    \A i, j \in 1 .. Len(claims) : i < j => Precedes(claims[i], claims[j])

\* A datagram is shed only for a true conflict: an offset at or past this instant
\* was handed out in this very epoch. In particular the first claim of an epoch
\* and the first after a restart never shed (last_offset is reset).
ShedsOnlyOnConflict ==
    ~MayClaim(pacer, TupleAt(now)) =>
        \E i \in 1 .. Len(claims) :
            /\ claims[i].epoch = TupleAt(now).epoch
            /\ claims[i].offset >= TupleAt(now).offset

\* A sender that was refused gets an offset once the clock is past every claim,
\* unless the clock is stepped back again: a backward step delays the sender and
\* never wedges it.
ShedRecovers ==
    refused /\ PastAllClaims(now) ~> ~refused \/ ~PastAllClaims(now)
=============================================================================
