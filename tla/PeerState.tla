------------------------------ MODULE PeerState ------------------------------
(***************************************************************************)
(* The receiver's state for one sender (PeerState of peer.rs) and its      *)
(* accept: epoch reconstruction, the two per-epoch replay windows, decode  *)
(* of wire.rs in the order the code runs its checks, the inbound rate      *)
(* limit and the discard counters.                                         *)
(*                                                                         *)
(* The network delivers any datagram at any time, so that duplicates, late *)
(* and reordered datagrams are all here. A datagram is abstracted to the   *)
(* epoch and offset its sender authenticated and to the set of its flaws:  *)
(* the checks of the pipeline it fails on its own account. Only epoch_low  *)
(* travels: whether the MAC verifies also depends on the epoch the         *)
(* receiver reconstructs.                                                  *)
(*                                                                         *)
(* local_epoch and now_ms are read from one wall clock, as collector.rs    *)
(* does; now counts its milliseconds and an epoch lasts EpochMs of them.   *)
(***************************************************************************)
EXTENDS ReplayBitmap, TokenBucket, Sequences

CONSTANTS
    EpochMs,      \* milliseconds of an epoch
    MaxNow,       \* bound: the last clock reading modelled
    LowSpace,     \* values of epoch_low: 16
    FlawSets,     \* the sets of flaws a datagram may have
    Limited,      \* whether an inbound rate limit is configured
    AnnounceTargets,  \* the targets of EPOCH_ANNOUNCE
    MaxCalls,     \* bound: calls of accept
    MaxBacksteps, \* bound: backward steps of the receiver's clock
    StepsMayRewind    \* a backward step may take the clock to an earlier epoch

Epoch == INSTANCE EpochMath
    WITH EpochSecs <- EpochMs, TicksPerSec <- 1, NanosPerSec <- 1,
         EpochSpace <- MaxNow + 1

NoEpoch == -1

Epochs == 0 .. MaxNow \div EpochMs

\* The checks before the replay check, in the order accept_inner and decode
\* make them: "epoch" runs before decode is called, "oversize" is the staging
\* buffer of cipher 0x03, which refuses to compute the MAC.
Checks == <<"header", "epoch", "version", "msg_type", "sender", "cipher",
            "tag_length", "oversize", "mac">>

\* "layout" is no failure: the datagram carries a record the receiver holds no
\* layout for, which is skipped.
Flaws == ({Checks[i] : i \in 1 .. Len(Checks)} \ {"epoch"}) \cup {"framing", "layout"}

ASSUME PeerAssumption ==
    /\ EpochMs \in Nat \ {0}
    /\ MaxNow \in Nat
    /\ LowSpace \in Nat /\ LowSpace > 1
    /\ FlawSets \subseteq SUBSET Flaws
    /\ Limited \in BOOLEAN
    /\ AnnounceTargets \subseteq Epochs
    /\ MaxCalls \in Nat
    /\ MaxBacksteps \in Nat
    /\ StepsMayRewind \in BOOLEAN

Datagrams == [epoch : Epochs, offset : Offset, flaws : FlawSets]

\* The counter record_error increments for each failed check. Error::Oversize
\* falls under its catch-all arm, which counts nothing.
CounterOf ==
    [header     |-> "too_short",
     epoch      |-> "epoch_out_of_window",
     version    |-> "unsupported_version",
     msg_type   |-> "bad_msg_type",
     sender     |-> "unknown_sender",
     cipher     |-> "cipher_mismatch",
     tag_length |-> "too_short",
     mac        |-> "auth_failed"]

Counters ==
    {CounterOf[c] : c \in DOMAIN CounterOf}
        \cup {"accepted", "replay", "framing", "rate_limited", "skipped_records"}

VARIABLES
    now,          \* the receiver's clock
    windows,      \* the two slots, each a window and its epoch
    limiter,      \* the InboundLimiter
    stats,        \* the Stats
    highest_epoch_announced,
    taken,        \* history: how often each offset of each epoch passed the
                  \* replay check
    calls,        \* history: calls of accept
    oversized,    \* history: those of them refused as Error::Oversize
    backsteps

vars == <<now, windows, limiter, stats, highest_epoch_announced, taken, calls,
          oversized, backsteps>>

\* The None of an Option<EpochWindow>.
Free == [epoch |-> NoEpoch, window |-> NewWindow]

Slots == 1 .. 2

local_epoch == now \div EpochMs

-----------------------------------------------------------------------------
\* The epoch the 4 transmitted bits of a datagram stand for.
Reconstructed(dg) ==
    Epoch!ReconstructEpoch(local_epoch, Epoch!LowBits(dg.epoch))

\* Mutation (nothing is pruned).
PruneNothing(ws) == ws

\* Mutation (the window of the previous epoch is dropped as well).
PrunePrevious(ws) ==
    [i \in Slots |-> IF ws[i].epoch = local_epoch THEN ws[i] ELSE Free]

\* prune: the windows of epochs outside {local - 1, local} are dropped.
Prune(ws) ==
    [i \in Slots |->
        IF local_epoch <= ws[i].epoch + 1 /\ ws[i].epoch <= local_epoch
        THEN ws[i] ELSE Free]

\* window_for: the slot of this epoch, else a free one, else (the code says it
\* should never happen) the first one, whose window is lost.
SlotFor(ws, epoch) ==
    LET own  == {i \in Slots : ws[i].epoch = epoch}
        free == {i \in Slots : ws[i].epoch = NoEpoch}
        first(S) == IF 1 \in S THEN 1 ELSE 2
    IN  IF own # {} THEN first(own) ELSE IF free # {} THEN first(free) ELSE 1

\* Mutation (the slot's own window is replaced too).
WindowForAfresh(ws, epoch) ==
    [ws EXCEPT ![SlotFor(ws, epoch)] = [epoch |-> epoch, window |-> NewWindow]]

WindowFor(ws, epoch) ==
    IF ws[SlotFor(ws, epoch)].epoch = epoch
    THEN ws
    ELSE [ws EXCEPT ![SlotFor(ws, epoch)] = [epoch |-> epoch, window |-> NewWindow]]

\* The slots as decode finds them, before any check of its own.
Prepared(dg) == WindowFor(Prune(windows), Reconstructed(dg))

WindowOf(dg) == Prepared(dg)[SlotFor(Prepared(dg), Reconstructed(dg))].window

\* Mutation (the MAC is taken to verify for any datagram the sender made).
FailsIgnoringKey(dg, check) ==
    IF check = "epoch" THEN Reconstructed(dg) = NoEpoch ELSE check \in dg.flaws

\* The MAC is keyed with the reconstructed epoch, so it verifies only when that
\* is the epoch the sender used.
Fails(dg, check) ==
    IF check = "epoch" THEN Reconstructed(dg) = NoEpoch
    ELSE check \in dg.flaws \/ (check = "mac" /\ Reconstructed(dg) # dg.epoch)

FailsAt(dg, i) ==
    /\ Fails(dg, Checks[i])
    /\ \A j \in 1 .. i - 1 : ~Fails(dg, Checks[j])

Authentic(dg) == \A i \in 1 .. Len(Checks) : ~Fails(dg, Checks[i])

\* Mutation (record_error has no arm for a replay).
CountedButReplay(counter) ==
    IF counter = "replay" THEN stats ELSE [stats EXCEPT ![counter] = @ + 1]

Counted(counter) == [stats EXCEPT ![counter] = @ + 1]

Mark(dg) ==
    [Prepared(dg) EXCEPT
        ![SlotFor(Prepared(dg), dg.epoch)].window = Admit(WindowOf(dg), dg.offset)]

Taken(dg) == [taken EXCEPT ![dg.epoch][dg.offset] = @ + 1]

-----------------------------------------------------------------------------
Init ==
    /\ now = 0
    /\ windows = [i \in Slots |-> Free]
    /\ limiter = NewLimiter
    /\ stats = [c \in Counters |-> 0]
    /\ highest_epoch_announced = NoEpoch
    /\ taken = [e \in Epochs |-> [o \in Offset |-> 0]]
    /\ calls = 0
    /\ oversized = 0
    /\ backsteps = 0

Called == calls < MaxCalls /\ calls' = calls + 1

\* Shorter than a header, or no candidate epoch: returned before any slot is
\* touched.
RejectEarly(dg) ==
    /\ Called
    /\ \E i \in 1 .. 2 : FailsAt(dg, i) /\ stats' = Counted(CounterOf[Checks[i]])
    /\ UNCHANGED <<now, windows, limiter, highest_epoch_announced, taken, oversized,
                   backsteps>>

\* A check of decode up to the MAC fails. The slots have been pruned, and one
\* allocated for the reconstructed epoch, all the same.
RejectUnauthentic(dg) ==
    /\ Called
    /\ \E i \in 3 .. Len(Checks) :
        /\ FailsAt(dg, i)
        /\ IF Checks[i] = "oversize"
           THEN stats' = stats /\ oversized' = oversized + 1
           ELSE stats' = Counted(CounterOf[Checks[i]]) /\ oversized' = oversized
    /\ windows' = Prepared(dg)
    /\ UNCHANGED <<now, limiter, highest_epoch_announced, taken, backsteps>>

RejectReplay(dg) ==
    /\ Called
    /\ Authentic(dg)
    /\ ~Admits(WindowOf(dg), dg.offset)
    /\ stats' = Counted("replay")
    /\ windows' = Prepared(dg)
    /\ UNCHANGED <<now, limiter, highest_epoch_announced, taken, oversized, backsteps>>

\* Step 9 fails: the offset has been consumed.
RejectFraming(dg) ==
    /\ Called
    /\ Authentic(dg)
    /\ Admits(WindowOf(dg), dg.offset)
    /\ "framing" \in dg.flaws
    /\ stats' = Counted("framing")
    /\ windows' = Mark(dg)
    /\ taken' = Taken(dg)
    /\ UNCHANGED <<now, limiter, highest_epoch_announced, oversized, backsteps>>

\* The datagram decodes, and the rate limit has the last word.
Decoded(dg) ==
    /\ Called
    /\ Authentic(dg)
    /\ Admits(WindowOf(dg), dg.offset)
    /\ "framing" \notin dg.flaws
    /\ windows' = Mark(dg)
    /\ taken' = Taken(dg)
    /\ limiter' = IF Limited THEN Acquire(limiter, now) ELSE limiter
    /\ UNCHANGED <<now, highest_epoch_announced, oversized, backsteps>>

RejectRate(dg) ==
    /\ Decoded(dg)
    /\ Limited /\ ~Acquires(limiter, now)
    /\ stats' = Counted("rate_limited")

Accept(dg) ==
    /\ Decoded(dg)
    /\ ~Limited \/ Acquires(limiter, now)
    /\ stats' = [stats EXCEPT !["accepted"] = @ + 1,
                              !["skipped_records"] =
                                  IF "layout" \in dg.flaws THEN @ + 1 ELSE @]

Deliver(dg) ==
    \/ RejectEarly(dg)
    \/ RejectUnauthentic(dg)
    \/ RejectReplay(dg)
    \/ RejectFraming(dg)
    \/ RejectRate(dg)
    \/ Accept(dg)

\* accept_epoch_announce, called by the application with an authenticated target.
AnnounceEpoch(target) ==
    /\ target > highest_epoch_announced
    /\ highest_epoch_announced' = target
    /\ UNCHANGED <<now, windows, limiter, stats, taken, calls, oversized, backsteps>>

\* A target at or below the highest one is an error and changes nothing.
RefuseAnnounce(target) == target <= highest_epoch_announced /\ UNCHANGED vars

\* The receiver's clock advances.
Tick ==
    /\ now < MaxNow
    /\ now' = now + 1
    /\ UNCHANGED <<windows, limiter, stats, highest_epoch_announced, taken, calls,
                   oversized, backsteps>>

\* A time source steps the receiver's clock back to t.
StepBack(t) ==
    /\ backsteps < MaxBacksteps
    /\ t < now
    /\ StepsMayRewind \/ t \div EpochMs = local_epoch
    /\ now' = t
    /\ backsteps' = backsteps + 1
    /\ UNCHANGED <<windows, limiter, stats, highest_epoch_announced, taken, calls,
                   oversized>>

Next ==
    \/ \E dg \in Datagrams : Deliver(dg)
    \/ \E target \in AnnounceTargets : AnnounceEpoch(target) \/ RefuseAnnounce(target)
    \/ Tick
    \/ \E t \in 0 .. MaxNow : StepBack(t)

Spec == Init /\ [][Next]_vars

-----------------------------------------------------------------------------
\* Type correctness.
TypeOK ==
    /\ now \in 0 .. MaxNow
    /\ windows \in [Slots -> [epoch : Epochs \cup {NoEpoch}, window : Windows]]
    /\ limiter \in [tokens : 0 .. Capacity, last_ms : 0 .. MaxNow]
    /\ stats \in [Counters -> Nat]
    /\ highest_epoch_announced \in Epochs \cup {NoEpoch}
    /\ taken \in [Epochs -> [Offset -> Nat]]
    /\ calls \in 0 .. MaxCalls
    /\ oversized \in 0 .. calls
    /\ backsteps \in 0 .. MaxBacksteps

TakenIn(epoch) == {o \in Offset : taken[epoch][o] > 0}

\* The window kept for an epoch, NewWindow when there is none.
KeptIn(ws, epoch) ==
    IF \E i \in Slots : ws[i].epoch = epoch
    THEN ws[CHOOSE i \in Slots : ws[i].epoch = epoch].window
    ELSE NewWindow

Kept(epoch) == KeptIn(windows, epoch)

\* As long as the receiver's clock is not stepped back: what is kept for each of
\* the two acceptable epochs describes exactly the offsets of that epoch that
\* passed the replay check, whatever came between, forged, late or of the other
\* epoch. The windows are pruned and allocated before the MAC is checked; that
\* this loses nothing and confuses no two epochs is the point.
WindowsExact ==
    \A e \in {local_epoch - 1, local_epoch} \cap Epochs :
        ExactFor(Kept(e), TakenIn(e))

\* No authentic datagram passes the replay check twice (PROTOCOL.md 10.2), in
\* either epoch, also when its epoch leaves the acceptance window, and its bits
\* alias those of a later one: as long as the clock is not stepped back.
AtMostOnce == \A e \in Epochs, o \in Offset : taken[e][o] <= 1

\* window_for's fallback, which evicts slot 0, never fires: "it should never
\* fire" (peer.rs). No two slots hold the same epoch, and after prune one is
\* free or of the wanted epoch, whatever the clock does.
NeverEvicts ==
    /\ windows[1].epoch = windows[2].epoch => windows[1].epoch = NoEpoch
    /\ \A e \in {local_epoch - 1, local_epoch} :
        Prune(windows)[SlotFor(Prune(windows), e)].epoch \in {NoEpoch, e}

\* An unauthentic datagram or a replay spends no token and leaves every window of
\* the acceptable epochs as it was (PROTOCOL.md 7.4, the comment of
\* InboundLimiter).
JunkIsHarmless ==
    [][(calls' # calls /\ taken' = taken) =>
          /\ limiter' = limiter
          /\ \A e \in {local_epoch - 1, local_epoch} : Kept(e)' = Kept(e)]_vars

\* Every datagram given to accept is counted in exactly one of the discard
\* counters or as accepted ("silent discard on the wire; counted locally"), but for
\* those too long for the staging buffer of cipher 0x03: the catch-all arm of
\* record_error counts nothing, and takes it that accept never returns Oversize.
EveryCallCounted ==
    calls = stats.accepted + stats.too_short + stats.epoch_out_of_window
                + stats.unsupported_version + stats.bad_msg_type + stats.unknown_sender
                + stats.cipher_mismatch + stats.auth_failed + stats.replay
                + stats.framing + stats.rate_limited + oversized
=============================================================================
