----------------------------- MODULE CatpSystem -----------------------------
(***************************************************************************)
(* Senders (sender.rs), a network, and the collector that serves them      *)
(* (collector.rs over Collector of peer.rs).                               *)
(*                                                                         *)
(* The network delivers any datagram any number of times, at any time, in  *)
(* any order, or never, and junk with them. All clocks run with the time   *)
(* now; the collector's is Skew units beside the senders'. What goes on    *)
(* between two statements of a program is a step of its own where time     *)
(* may pass: a claim and the sending, the collector's reading of its epoch *)
(* and that of its milliseconds.                                           *)
(*                                                                         *)
(* The two slots of a PeerState are a function from epochs to windows      *)
(* here; module PeerState has the slots and shows that they are one.       *)
(***************************************************************************)
EXTENDS PacerRules, ReplayBitmap, TokenBucket, FiniteSets

CONSTANTS
    Senders,      \* the provisioned sender_ids
    Silent,       \* those of them whose node is off: only junk bears their name
    Stranger,     \* a sender_id that is not
    SeriesSpan,   \* ticks from the first to the last reading of a SERIES: 400
    Skew,         \* the collector's clock less the senders'
    MaxNow,       \* bound: the last time modelled
    MaxClaims,    \* bound: offsets claimed
    MaxCalls,     \* bound: datagrams the collector receives
    MaxJunk,      \* bound: junk among them
    MaxResets     \* bound: collector restarts and repeated provisionings

ASSUME SystemAssumption ==
    /\ IsFiniteSet(Senders) /\ Silent \subseteq Senders /\ Stranger \notin Senders
    /\ SeriesSpan \in Nat /\ Skew \in Int
    /\ MaxOffset = TicksPerEpoch - 1
    /\ MaxNow \in Nat /\ MaxNow + Skew < EpochSpace * EpochSecs * NanosPerSec
    /\ MaxNow < EpochSpace * EpochSecs * NanosPerSec
    /\ MaxClaims \in Nat /\ MaxCalls \in Nat
    /\ MaxJunk \in Nat /\ MaxResets \in Nat

VARIABLES
    now,
    pacers,     \* each sender's Pacer
    outbox,     \* what each sender has claimed an offset for and not sent yet
    sent,       \* the network: all datagrams sent
    peers,      \* the Collector's PeerState of each sender
    own_stats,  \* the Collector's own counters
    received,   \* the datagram in the collector's buffer, and the epoch it read
    log,        \* history: the collector's calls of accept, by their number, and its
                \* answers, for as long as it remembers their sender
    claims, calls, junk, resets

vars == <<now, pacers, outbox, sent, peers, own_stats, received, log,
          claims, calls, junk, resets>>

senderVars == <<pacers, outbox, sent, claims>>
collectorVars == <<peers, own_stats, received, log, calls, junk, resets>>

Datagram(s, tuple, kind) ==
    [sender |-> s, epoch |-> tuple.epoch, offset |-> tuple.offset, kind |-> kind]

Nothing == Datagram(Stranger, [epoch |-> NoEpoch, offset |-> NoClaim], "none")

NoCall == [datagram |-> Nothing, local_epoch |-> 0]

NoLog == [n \in {} |-> NoCall]

\* Forgeries, one in the name of a sender nobody knows, and a short datagram.
Junk ==
    {Datagram(s, [epoch |-> 0, offset |-> 0], "forged") : s \in Senders \cup {Stranger}}
    \cup {Datagram(Stranger, [epoch |-> 0, offset |-> 0], "short")}

-----------------------------------------------------------------------------
\* The collector's clock.
Clock == IF now + Skew > 0 THEN now + Skew ELSE 0

OwnCounters == {"too_short", "unknown_sender"}

PeerCounters ==
    {"epoch_out_of_window", "auth_failed", "replay", "rate_limited", "accepted"}

\* PeerState::new
NewPeer ==
    [windows |-> [e \in {} |-> NewWindow],
     limiter |-> NewLimiter,
     stats   |-> [c \in PeerCounters |-> 0]]

\* Mutation (only the window of the local epoch is kept).
PreparedNarrow(windows, local_epoch, epoch) ==
    [e \in {epoch} \cup (DOMAIN windows \cap {local_epoch}) |->
        IF e \in DOMAIN windows THEN windows[e] ELSE NewWindow]

\* Mutation (a slot is taken over with the window it had).
PreparedStale(windows, local_epoch, epoch) ==
    [e \in {epoch} \cup (DOMAIN windows \cap {local_epoch - 1, local_epoch}) |->
        IF e \in DOMAIN windows THEN windows[e]
        ELSE IF DOMAIN windows # {} THEN windows[CHOOSE old \in DOMAIN windows : TRUE]
        ELSE NewWindow]

\* Mutation (nothing is pruned).
PreparedUnpruned(windows, local_epoch, epoch) ==
    [e \in {epoch} \cup DOMAIN windows |->
        IF e \in DOMAIN windows THEN windows[e] ELSE NewWindow]

\* prune and window_for
Prepared(windows, local_epoch, epoch) ==
    [e \in {epoch} \cup (DOMAIN windows \cap {local_epoch - 1, local_epoch}) |->
        IF e \in DOMAIN windows THEN windows[e] ELSE NewWindow]

\* What PeerState::accept answers to a datagram, named by the counter it raises.
Answer(peer, dg, local_epoch, now_ms) ==
    LET epoch == ReconstructEpoch(local_epoch, LowBits(dg.epoch))
    IN  IF epoch = NoEpoch THEN "epoch_out_of_window"
        ELSE IF dg.kind = "forged" \/ epoch # dg.epoch THEN "auth_failed"
        ELSE IF ~Admits(Prepared(peer.windows, local_epoch, epoch)[epoch], dg.offset)
             THEN "replay"
        ELSE IF ~Acquires(peer.limiter, now_ms) THEN "rate_limited"
        ELSE "accepted"

Passed == {"rate_limited", "accepted"}

\* The PeerState it leaves.
After(peer, dg, local_epoch, now_ms) ==
    LET epoch  == ReconstructEpoch(local_epoch, LowBits(dg.epoch))
        ready  == Prepared(peer.windows, local_epoch, epoch)
        answer == Answer(peer, dg, local_epoch, now_ms)
    IN  [windows |->
            IF answer = "epoch_out_of_window" THEN peer.windows
            ELSE IF answer \in Passed
                 THEN [ready EXCEPT ![epoch] = Admit(@, dg.offset)]
            ELSE ready,
         limiter |-> IF answer \in Passed THEN Acquire(peer.limiter, now_ms)
                                          ELSE peer.limiter,
         stats   |-> [peer.stats EXCEPT ![answer] = @ + 1]]

\* Mutation (what never reached a peer is forgotten).
StatsOfPeers(c) ==
    LET total[S \in SUBSET Senders] ==
            IF S = {} THEN 0
            ELSE LET s == CHOOSE s \in S : TRUE IN peers[s].stats[c] + total[S \ {s}]
    IN  IF c \in OwnCounters THEN 0 ELSE total[Senders]

\* Collector::stats, the counters of all peers merged into its own.
Stats(c) ==
    LET total[S \in SUBSET Senders] ==
            IF S = {} THEN 0
            ELSE LET s == CHOOSE s \in S : TRUE IN peers[s].stats[c] + total[S \ {s}]
    IN  IF c \in OwnCounters THEN own_stats[c] ELSE total[Senders]

-----------------------------------------------------------------------------
Init ==
    /\ now = 0
    /\ pacers = [s \in Senders |-> NewPacer]
    /\ outbox = [s \in Senders |-> Nothing]
    /\ sent = {}
    /\ peers = [s \in Senders |-> NewPeer]
    /\ own_stats = [c \in OwnCounters |-> 0]
    /\ received = NoCall
    /\ log = NoLog
    /\ claims = 0
    /\ calls = 0
    /\ junk = 0
    /\ resets = 0

Tick ==
    /\ now < MaxNow
    /\ now' = now + 1
    /\ UNCHANGED <<senderVars, collectorVars>>

\* The sender claims the offset of its clock for a datagram of the next kind.
Claim(s, kind) ==
    /\ claims < MaxClaims
    /\ outbox[s] = Nothing
    /\ MayClaim(pacers[s], TupleAt(now))
    /\ pacers' = [pacers EXCEPT ![s] = Claimed(TupleAt(now))]
    /\ outbox' = [outbox EXCEPT ![s] = Datagram(s, TupleAt(now), kind)]
    /\ claims' = claims + 1
    /\ UNCHANGED <<now, sent, collectorVars>>

\* Mutation (readings past the end of the epoch are let out).
BuildsAlways(dg) == TRUE

\* make_datagram answers Ok: Datagram::series refuses a reading past the epoch.
Builds(dg) == dg.kind = "series" => dg.offset + SeriesSpan < TicksPerEpoch

\* The datagram is built, encoded and sent; or it cannot be built, and the loop
\* goes on with the offset burnt.
Send(s) ==
    /\ outbox[s] # Nothing
    /\ sent' = IF Builds(outbox[s]) THEN sent \cup {outbox[s]} ELSE sent
    /\ outbox' = [outbox EXCEPT ![s] = Nothing]
    /\ UNCHANGED <<now, pacers, claims, collectorVars>>

\* send_to fails, or the sender is stopped, and it is started again no sooner than
\* in another tick.
RestartSender(s) ==
    /\ pacers[s] # NewPacer
    /\ pacers[s] # Claimed(TupleAt(now))
    /\ pacers' = [pacers EXCEPT ![s] = NewPacer]
    /\ outbox' = [outbox EXCEPT ![s] = Nothing]
    /\ UNCHANGED <<now, sent, claims, collectorVars>>

\* recv_from returns a datagram, and the collector reads its epoch.
Receive(dg) ==
    /\ calls < MaxCalls
    /\ dg \in Junk => junk < MaxJunk
    /\ received = NoCall
    /\ received' = [datagram |-> dg, local_epoch |-> EpochIdAt(Clock \div NanosPerSec)]
    /\ calls' = calls + 1
    /\ junk' = IF dg \in Junk THEN junk + 1 ELSE junk
    /\ UNCHANGED <<now, senderVars, peers, own_stats, log, resets>>

Processed(answer, epoch) ==
    /\ log' = [n \in DOMAIN log \cup {calls} |->
                  IF n = calls
                  THEN [datagram |-> received.datagram, answer |-> answer,
                        local_epoch |-> received.local_epoch, epoch_id |-> epoch]
                  ELSE log[n]]
    /\ received' = NoCall
    /\ UNCHANGED <<now, senderVars, calls, junk, resets>>

\* Collector::accept finds no peer to give the datagram to.
Unrouted ==
    /\ received # NoCall /\ received.datagram.sender \notin Senders
    /\ LET c == IF received.datagram.kind = "short" THEN "too_short" ELSE "unknown_sender"
       IN  /\ own_stats' = [own_stats EXCEPT ![c] = @ + 1]
           /\ Processed(c, NoEpoch)
    /\ UNCHANGED peers

\* Collector::accept with the milliseconds of now. What it accepts is handed to the
\* application under the epoch it reconstructed.
Routed ==
    /\ received # NoCall /\ received.datagram.sender \in Senders
    /\ LET dg    == received.datagram
           local == received.local_epoch
       IN  /\ peers' = [peers EXCEPT ![dg.sender] = After(@, dg, local, Clock)]
           /\ Processed(Answer(peers[dg.sender], dg, local, Clock),
                        ReconstructEpoch(local, LowBits(dg.epoch)))
    /\ UNCHANGED own_stats

\* Collector::provision of a sender that is provisioned already: everything known
\* of it is dropped, its counters included.
Provision(s) ==
    /\ resets < MaxResets
    /\ resets' = resets + 1
    /\ peers' = [peers EXCEPT ![s] = NewPeer]
    /\ log' = [n \in {n \in DOMAIN log : log[n].datagram.sender # s} |-> log[n]]
    /\ UNCHANGED <<now, senderVars, own_stats, received, calls, junk>>

\* The collector is stopped and started again.
RestartCollector ==
    /\ resets < MaxResets
    /\ resets' = resets + 1
    /\ peers' = [s \in Senders |-> NewPeer]
    /\ own_stats' = [c \in OwnCounters |-> 0]
    /\ received' = NoCall
    /\ log' = NoLog
    /\ UNCHANGED <<now, senderVars, calls, junk>>

Next ==
    \/ Tick
    \/ \E s \in Senders \ Silent, kind \in {"message", "series"} : Claim(s, kind)
    \/ \E s \in Senders : Send(s)
    \/ \E s \in Senders : RestartSender(s)
    \/ \E dg \in sent \cup Junk : Receive(dg)
    \/ Unrouted
    \/ Routed
    \/ \E s \in Senders : Provision(s)
    \/ RestartCollector

Spec == Init /\ [][Next]_vars

-----------------------------------------------------------------------------
Datagrams ==
    [sender : Senders, epoch : Epochs, offset : Offsets, kind : {"message", "series"}]

\* The tables of windows a peer may have: of no more than two epochs, one after the
\* other, however many epochs it was sent datagrams for.
Tables ==
    UNION {[S -> Windows] : S \in {S \in SUBSET Epochs : \E e \in Epochs : S \subseteq {e - 1, e}}}

\* Type correctness, with the bound on what a peer takes in memory.
TypeOK ==
    /\ now \in 0 .. MaxNow
    /\ pacers \in [Senders -> {NewPacer} \cup [epoch : Epochs, last_offset : Offsets]]
    /\ outbox \in [Senders -> Datagrams \cup {Nothing}]
    /\ sent \subseteq Datagrams
    /\ peers \in [Senders -> [windows : Tables,
                              limiter : [tokens : 0 .. Capacity, last_ms : Nat],
                              stats   : [PeerCounters -> Nat]]]
    /\ own_stats \in [OwnCounters -> Nat]
    /\ received \in [datagram : Datagrams \cup Junk, local_epoch : Epochs] \cup {NoCall}
    /\ log \in [DOMAIN log -> [datagram : Datagrams \cup Junk,
                               answer : OwnCounters \cup PeerCounters,
                               local_epoch : Epochs, epoch_id : Epochs \cup {NoEpoch}]]
    /\ DOMAIN log \subseteq 1 .. calls
    /\ claims \in Nat /\ calls \in Nat /\ junk \in Nat /\ resets \in Nat

\* The calls that handed a datagram to the application.
Accepts == {n \in DOMAIN log : log[n].answer = "accepted"}

Promise == INSTANCE Delivery
    WITH delivered <- [n \in Accepts |->
                          [log[n].datagram EXCEPT !.epoch = log[n].epoch_id]]

\* Senders, network and collector together keep what Delivery promises: no position
\* is sent twice, across burnt offsets and restarts of a sender; what is handed over
\* was sent so, in that epoch, whatever else the network delivers; and at most once,
\* until the collector or the peer is set up again. The epoch that the collector read
\* before the call may be out of date by then.
KeepsPromise == Promise!Spec

\* As KeepsPromise, for the positions: a SERIES whose readings pass the end of the
\* epoch is never sent ("a datagram must not span an epoch boundary", sender.rs).
NothingSpansEpochs ==
    \A dg \in sent : dg.kind = "series" =>
        dg.offset + SeriesSpan \in Offsets

\* The offsets of a sender's epoch that passed the replay check before the call n.
PassedBefore(n, s, epoch) ==
    {log[i].datagram.offset : i \in
        {i \in DOMAIN log : /\ i < n /\ log[i].answer \in Passed
                            /\ log[i].datagram.sender = s
                            /\ log[i].datagram.epoch = epoch}}

\* A genuine datagram is refused only for a reason: its epoch is neither that which the
\* collector read nor the one before; its offset passed before, or one that is
\* Entries or more ahead of it, in a call since the peer was set up; or the limit.
RefusalJustified ==
    \A n \in DOMAIN log :
        LET call == log[n]
            dg   == call.datagram
        IN  dg \in sent =>
            /\ call.answer \in {"epoch_out_of_window", "auth_failed"} =>
                    dg.epoch \notin {call.local_epoch - 1, call.local_epoch}
            /\ call.answer = "replay" =>
                    \E offset \in PassedBefore(n, dg.sender, dg.epoch) :
                        offset = dg.offset \/ offset >= dg.offset + Entries

\* The counters the collector prints account for every call since it started, each
\* once and under the answer it got, except the calls of a peer that was provisioned
\* again, whose counts are lost with it.
StatsAddUp ==
    \A c \in OwnCounters \cup PeerCounters :
        Stats(c) = Cardinality({n \in DOMAIN log : log[n].answer = c})
=============================================================================
