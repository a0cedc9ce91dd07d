------------------------------ MODULE ColdStart ------------------------------
(***************************************************************************)
(* A node without a clock of its own: each boot starts a NodeClock from    *)
(* the persisted last_epoch and a fresh Pacer, asks for the time, takes it *)
(* from an authenticated TIME_ANNOUNCE and then claims offsets from the    *)
(* corrected clock.                                                        *)
(*                                                                         *)
(* The network keeps every TIME_ANNOUNCE and may deliver it at any time    *)
(* and again, also to a later boot: nothing in the message ties it to the  *)
(* boot that asked. Messages that do not authenticate are left out,        *)
(* decode_time_announce returns before NodeClock sees them. The collector  *)
(* that asserts the time and the node's main loop, which persists          *)
(* last_epoch on acceptance, are not in the repository's programs.         *)
(***************************************************************************)
EXTENDS NodeClock, PacerRules, Sequences

CONSTANTS
    StartTime,  \* the true time of the first boot
    MaxTime,    \* bound: the last true time modelled
    MaxBoots    \* bound: boots after the first

ASSUME ColdStartAssumption ==
    /\ MaxTime \in Nat /\ MaxTime < EpochSpace * EpochSecs
    /\ StartTime \in 0 .. MaxTime
    /\ MaxBoots \in Nat

VARIABLES
    time,       \* the true time, which the collector's clock reads
    raw,        \* the node's platform clock, which counts from its boot
    clock,      \* its NodeClock
    stored,     \* the persisted last_epoch
    pacer,      \* its Pacer
    announced,  \* the asserted times of every TIME_ANNOUNCE ever sent
    booted_at,  \* history: the true time of this boot
    pinned,     \* history: this boot or an earlier one took the time of an
                \* announcement sent before that boot
    started,    \* history: the epoch in which each boot got its time
    asks,       \* history: the instants of this boot's TIME_REQUESTs
    claims,     \* history: the (epoch, offset) pairs claimed, over all boots
    boots

vars == <<time, raw, clock, stored, pacer, announced, booted_at, pinned, started, asks,
          claims, boots>>

nodeTime == Corrected(clock, raw)

Init ==
    /\ time = StartTime
    /\ raw = 0
    /\ stored \in 0 .. EpochIdAt(StartTime)
    /\ clock = Clockless(stored)
    /\ pacer = NewPacer
    /\ announced = {}
    /\ booted_at = StartTime
    /\ pinned = FALSE
    /\ started = <<>>
    /\ asks = <<>>
    /\ claims = <<>>
    /\ boots = 0

\* A second goes by.
Elapse ==
    /\ time < MaxTime
    /\ time' = time + 1
    /\ raw' = raw + 1
    /\ UNCHANGED <<clock, stored, pacer, announced, booted_at, pinned, started, asks, claims,
                   boots>>

\* The node sends a TIME_REQUEST, which may or may not be answered.
Request ==
    /\ MayRequest(clock, raw)
    /\ clock' = Requested(clock, raw)
    /\ asks' = Append(asks, raw)
    /\ UNCHANGED <<time, raw, stored, pacer, announced, booted_at, pinned, started, claims,
                   boots>>

\* The collector asserts its time, in answer to a request or unasked.
Announce ==
    /\ announced' = announced \cup {time}
    /\ UNCHANGED <<time, raw, clock, stored, pacer, booted_at, pinned, started, asks, claims,
                   boots>>

\* A TIME_ANNOUNCE is delivered and accepted, and the new last_epoch persisted.
AcceptAnnounce(asserted) ==
    /\ asserted \in announced
    /\ Accepts(clock, asserted)
    /\ clock' = SetTo(clock, asserted, raw)
    /\ stored' = clock'.last_epoch
    /\ pinned' = (pinned \/ asserted < booted_at)
    /\ started' = Append(started, EpochIdAt(asserted))
    /\ UNCHANGED <<time, raw, pacer, announced, booted_at, asks, claims, boots>>

\* A TIME_ANNOUNCE is delivered and refused: ClockAlreadyValid or TimeRollback.
RefuseAnnounce(asserted) ==
    /\ asserted \in announced
    /\ ~Accepts(clock, asserted)
    /\ UNCHANGED vars

\* The node transmits with the offset its Pacer claims. Without a clock, now
\* answers NoClock and there is nothing to claim with.
Claim ==
    LET tuple == TupleAt(nodeTime * NanosPerSec) IN
    /\ clock.valid
    /\ MayClaim(pacer, tuple)
    /\ pacer' = Claimed(tuple)
    /\ claims' = Append(claims, tuple)
    /\ UNCHANGED <<time, raw, clock, stored, announced, booted_at, pinned, started, asks, boots>>

\* The node loses power and boots: at least a tick goes by, and the platform
\* clock, the NodeClock and the Pacer are lost.
Reboot ==
    /\ boots < MaxBoots /\ time < MaxTime
    /\ boots' = boots + 1
    /\ time' = time + 1
    /\ booted_at' = time'
    /\ raw' = 0
    /\ clock' = Clockless(stored)
    /\ pacer' = NewPacer
    /\ asks' = <<>>
    /\ UNCHANGED <<stored, announced, pinned, started, claims>>

Next ==
    \/ Elapse
    \/ Request
    \/ Announce
    \/ \E asserted \in announced : AcceptAnnounce(asserted) \/ RefuseAnnounce(asserted)
    \/ Claim
    \/ Reboot

Spec == Init /\ [][Next]_vars

\* The collector keeps announcing and the network delivers at last: the proactive
\* retransmission of PROTOCOL.md 11.6.
Fairness ==
    /\ WF_vars(Elapse)
    /\ WF_vars(Announce)
    /\ WF_vars(\E asserted \in announced : AcceptAnnounce(asserted))

FairSpec == Spec /\ Fairness

-----------------------------------------------------------------------------
\* Type correctness.
TypeOK ==
    /\ time \in 0 .. MaxTime
    /\ raw \in 0 .. MaxTime
    /\ clock \in [valid : BOOLEAN, last_epoch : Epochs, correction : Int,
                  next_request_at : Int, request_backoff : RequestBase .. RequestMax]
    /\ stored \in Epochs
    /\ pacer \in {NewPacer} \cup [epoch : Epochs, last_offset : Offsets]
    /\ announced \subseteq 0 .. MaxTime
    /\ booted_at \in 0 .. MaxTime
    /\ pinned \in BOOLEAN
    /\ started \in Seq(Epochs)
    /\ asks \in Seq(0 .. MaxTime)
    /\ claims \in Seq(Tuples)
    /\ boots \in 0 .. MaxBoots

NoTupleReuse ==
    \A i, j \in 1 .. Len(claims) : i < j => claims[i] # claims[j]

\* Over every reboot no (epoch, offset) is claimed twice, provided that each boot
\* took its time from an announcement sent since it booted: the clock replaces
\* persisted counters (PROTOCOL.md 10.4).
UniqueUnlessPinned == ~pinned => NoTupleReuse

\* An announcement of an earlier boot pins the node to a stale time, but to a real
\* one: its clock never runs ahead of the true time, so that no offset of the
\* future is spent and no later genuine announcement refused (PROTOCOL.md 11.7).
NeverAhead ==
    /\ clock.valid => nodeTime <= time
    /\ stored * EpochSecs <= time

\* No boot gets its time in an epoch before the one in which an earlier boot got
\* its own, nor claims an offset before it, whatever was replayed to it: what the
\* persisted floor of rule 3 does give (PROTOCOL.md 11.5).
BootsNeverGoBack ==
    /\ \A i, j \in 1 .. Len(started) : i < j => started[i] <= started[j]
    /\ clock.valid => TupleAt(nodeTime * NanosPerSec).epoch >= started[Len(started)]

\* A boot gets a time later than every instant an earlier boot operated in: "the
\* node will not accept a time at or before one it has already operated in"
\* (PROTOCOL.md 11.5).
NeverWalksBack ==
    [][clock'.valid /\ ~clock.valid =>
          \A i \in 1 .. Len(claims) :
              Precedes(claims[i], TupleAt(nodeTime' * NanosPerSec))]_vars

\* The intervals that n TIME_REQUESTs have to leave after them: each twice the one
\* before, up to the ceiling.
Backoffs(n) ==
    {d \in [1 .. n -> RequestBase .. RequestMax] :
        \A i \in 1 .. n :
            d[i] = IF i = 1 THEN RequestBase
                   ELSE IF 2 * d[i - 1] < RequestMax THEN 2 * d[i - 1] ELSE RequestMax}

\* The requests of a boot are spaced by at least the doubling intervals, up to the
\* ceiling, and a node without a clock is never further than the last of them from
\* its next one: backoff neither floods the collector nor falls silent.
RequestsSpaced ==
    \E d \in Backoffs(Len(asks)) :
        /\ \A i \in 1 .. Len(asks) - 1 : asks[i + 1] - asks[i] >= d[i]
        /\ ~clock.valid =>
              clock.next_request_at <= raw + (IF asks = <<>> THEN 0 ELSE d[Len(asks)])

\* A node without a clock gets one in the end, whatever was persisted and replayed.
ClockRecovers == ~clock.valid ~> clock.valid
=============================================================================
