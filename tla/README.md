# A TLA+ model of CATP

CATP is a protocol for small sensors that report to a collector over UDP, and
`src/` is its Rust implementation: a library (`src/src/`), a sender and a
collector program, and tools for provisioning and conformance (`src/tools/`). Its
central idea is that replay protection is keyed on the *clock*: every datagram
carries the tick of its epoch (128 seconds of 4096 ticks) at which it was sent,
the sender never uses a tick twice, and the receiver accepts a tick at most once.

This directory models the parts of the program that keep state, the codec they
exchange datagrams by, and the tools around them, composes them into one system,
checks all of it with TLC, and proves the central results with TLAPS for every size
of window, epoch and clock. Paths below are relative to the repository (`lib.rs` is `src/src/lib.rs`).

## 1. The system and its parts

| Part | State it keeps | Operations | Talks to |
|---|---|---|---|
| Epoch arithmetic (`lib.rs`) | none | `epoch_id_at`, `epoch_offset_at`, `reconstruct_epoch` | everything that reads a clock |
| `ReplayWindow` (`lib.rs`) | `high`, a ring of bits | `check_and_set` | called by `decode`, owned by `PeerState` |
| `Pacer` (`lib.rs`) | epoch and offset of the last claim, volatile | `claim` | the sender's loop and its wall clock |
| `InboundLimiter` (`lib.rs`) | tokens, `last_ms` | `try_acquire` | called by `PeerState::accept` after `decode` |
| `PeerState` (`peer.rs`) | two windows with their epochs, limiter, counters, highest announced epoch | `accept`, `accept_epoch_announce` | `decode` of `wire.rs`, one per sender |
| `Stats` (`peer.rs`) | discard counters | `record_result`, `merge` | `PeerState`, `Collector` |
| `Collector` (`peer.rs`) | map of `sender_id` to `PeerState`, two counters | `provision`, `accept`, `stats` | the collector program |
| `NodeClock` (`peer.rs`) | validity, correction, `last_epoch`, request backoff | `may_request_time`, `record_time_request`, `accept_time_announce`, `now` | time messages; `last_epoch` is persisted by the node |
| Codec (`wire.rs`, `lib.rs`, `control.rs`) | none but the window it marks | `decode`, `encode_into`, the constructors, `validate_series`, `validate_number`, the time messages, `Control` | both programs |
| Keys and MACs (`lib.rs`) | a secret | `epoch_key`, `time_key`, `mac`, `ct_eq` | the codec |
| Bundles (`provisioning.rs`, `provision.rs`) | files | `parse`, `to_text`, `load_bundles_dir`, generate, reissue | the collector program at start |
| Sender and collector programs | a `Pacer`; a `Collector` | their main loops | each other, over UDP |
| Conformance runner, vector generator, fuzz targets, benchmarks | none | test harness | the library |

How the parts interact: the sender reads its wall clock, lets the `Pacer` claim
an `(epoch, offset)`, builds a datagram that transmits the offset and four bits of
the epoch, and sends it. The network loses, delays, reorders and duplicates. The
collector looks the sender up, reconstructs the epoch from *its own* clock and the
four bits, prunes and allocates the replay windows, and only then runs `decode`,
whose MAC is keyed by the reconstructed epoch and whose replay check marks the
window before the payload is framed. The rate limit has the last word. A node
that boots without a clock asks with `TIME_REQUEST` and believes an authenticated
`TIME_ANNOUNCE` beyond a persisted floor.

What is hard about it, and hence what the properties are about (the list with the
lines is `hazards` in `PROJECT.json`):

- *Ordering and duplication.* The window is a bounded ring that has to decide as if
  it remembered every offset.
- *Clocks.* Uniqueness, the choice of window and the rate limit all read wall
  clocks which time sources step back, also over the end of an epoch.
- *Unauthenticated input that reaches state.* The windows are pruned and
  allocated before the MAC is checked.
- *Aliasing.* Four bits name an epoch: a datagram sixteen epochs old reconstructs
  to an acceptable one.
- *Restarts.* The `Pacer`, the windows and a clockless node's time are volatile;
  one number is persisted.
- *Partial failure.* The offset is consumed before framing and before the limit;
  every discard must still be counted once.

What makes each part correct: a window accepts an offset at most once and refuses
nothing else inside it; a `Pacer` never hands out a tuple twice, sheds only on a
conflict and recovers; a limiter keeps its rate over every interval and does not
lock out a quiet peer; a `PeerState` keeps each acceptable epoch's history exact
whatever else arrives, and counts every call once; a clockless node gets a real
time in the end, never from before its floor.

## 2. Modules

| Module | Models |
|---|---|
| `EpochMath` | the epoch arithmetic, with every width a constant |
| `ReplayBitmap` | `ReplayWindow` as a value: `Index`, `Seen`, `Cleared`, `Admits`, `Admit` |
| `ReplayFilter` | abstract: a filter that remembers every accepted offset |
| `ReplayWindow` | one window called with any offsets; implements `ReplayFilter` |
| `PacerRules`, `Pacer` | `Pacer` as a value; the sender's loop over a clock that ticks, steps back and outlives the process |
| `TokenBucket`, `InboundLimiter` | `try_acquire` as a function; the limiter under load |
| `PeerState` | one sender's receive pipeline, on `ReplayBitmap`, `EpochMath` and `TokenBucket` |
| `NodeClock`, `ColdStart` | `NodeClock` as a value; a clockless node over its boots, with its `Pacer` |
| `Delivery` | abstract: at most one delivery of what was sent, no position used twice |
| `CatpSystem` | senders, a network, and the collector program over `Collector`, with restarts of both ends; implements `Delivery` |
| `Registries` | the tables of suites, types and formats; results; keys, MACs and staging as symbolic terms |
| `Wire` | records, header, `encode_into`, `decode`, the constructors, the `NUMBER` and `SERIES` grammars, the time messages |
| `ControlCodec` | `Control::encode` and `Control::parse` |
| `Vectors` | the vectors that `vectors.rs` generates |
| `Conformance` | the runner of those vectors, the round trip fuzz target, and a caller of the constructors |
| `Provisioning` | bundle files, `catp-provision` (`generate`, `reissue`), and the collector's start over a directory |
| `ReplayWindowProofs`, `PacerProofs`, `InboundLimiterProofs`, `PeerStateProofs`, `ColdStartProofs`, `CatpSystemProofs`, `ProvisioningProofs`, `ConformanceProofs` | the theorems of those modules; the lemmas on the bitmap are in the first, and the proofs of the peer and the system instantiate it |
| `MC...` | what TLC runs; the bounds are in the `.cfg` files |

The pure modules hold functions of a value and no variables, because more than one
state machine uses them: `ReplayBitmap` is run alone by `ReplayWindow` and twice
by `PeerState`, `PacerRules` by `Pacer` and by `ColdStart`, `TokenBucket` by
`InboundLimiter` and by `PeerState`. `CatpSystem` extends all three, with
`EpochMath` under them. `Registries`, `Wire`, `ControlCodec` and `Vectors` have no variables
either: `Conformance` is the state machine that calls them, and takes `NodeClock` for
the time messages. `Provisioning` takes its suites from `Registries`.

Operators marked *Mutation* are not part of any specification. Each is a wrong
version of the definition after it, the way a slip in the code would make it;
`PROJECT.json` names, for every property, one whose use makes TLC find that
property violated.

How state and actions correspond to the code:

- **`ReplayWindow`.** `window.high` is the `Option<u32>`, `window.bits` the set of
  bits that are 1 (the split into `u64` words is left out). `Accept` and `Reject` are
  `check_and_set` returning `Ok` and `Err(Replay)`. `admissions` and `answer` are history.
- **`Pacer`.** `Claim` and `Shed` are the two arms of the sender's loop around
  `claim`; `Restart` is the process starting with a fresh `Pacer`; `Tick` and `StepBack`
  are the platform's clock, in units of `1/NanosPerSec` seconds, so that a tick may
  last several units and a unit's end is not a tick's.
- **`InboundLimiter`.** Amounts are the micro-tokens of the code. The code reads only
  `now_ms`; `elapsed` is the real time it is judged by. `Grant` and `Refuse` are
  `try_acquire`'s two answers.
- **`PeerState`.** A datagram is the epoch and offset its sender authenticated and
  the set of checks it fails on its own account. `Reconstructed`, `Prune`, `WindowFor`
  are the functions of those names; `Checks` lists the tests of `accept_inner` and
  `decode` in the order the *code* runs them, which is not quite that of PROTOCOL.md
  7.4: the epoch is reconstructed first. There is one action per outcome of
  `accept`, and each makes all its changes: pruning and allocation happen even when
  a later check fails, the mark stays when framing or the limit fails, and the
  counter is the one `record_error` picks. Cryptography is perfect: the MAC verifies
  exactly for a genuine datagram under the epoch it was made for.
- **`ColdStart`.** `Request`, `AcceptAnnounce`, `RefuseAnnounce` are the functions of
  `NodeClock`; `Claim` is `Pacer::claim` at the corrected time; `Reboot` loses everything
  but `stored`, the persisted `last_epoch`. `announced` is the network: it keeps every
  announcement for ever. The collector's side and the node's main loop are not in
  the repository (no program uses `NodeClock`), so that announcing and persisting
  on acceptance are taken from PROTOCOL.md 11 and marked external.
- **`CatpSystem`.** `Claim` and `Send` are the two halves of one turn of the sender's
  loop, so that time, a restart or another sender may come between; `Send` builds
  the datagram, and a `SERIES` that does not fit the epoch burns its offset. `Receive` is
  `recv_from` with the reading of the epoch, `Routed` and `Unrouted` are
  `Collector::accept` with the milliseconds of *that* moment: the two clock readings
  may lie in different epochs. `Provision` and `RestartCollector` forget what the code
  forgets. `sent` is the network: any datagram in it may be received at any time,
  any number of times or never, and so may junk. The two slots of a peer are a
  function from epochs to windows here; `PeerState` has the slots. `log` is history: the calls
  of `accept` that ended, by their number, for as long as the collector remembers their
  sender.
- **The codec.** A buffer is its octets, with the tag kept apart: a key is the tuple of
  what it is derived from, a tag the tuple of suite, key and what it authenticates, so
  that a tag verifies exactly when all of these agree. `Encode` and `Decode` have the
  checks in the order of the code and at the real widths, `Decode` with the window as
  an argument and as part of its answer. A result is `Ok` of a value or `Err` of the name
  of the `Error` variant. `SERIES` and `NUMBER` are folds over the octets.
- **`Conformance`.** `ReadVector` is one line of the implementation under test:
  `AnswerTo` is what the library is asked, `Passes` the verdict. `FuzzDecode` is
  `decode_roundtrip.rs` with a tag that verifies, since nothing else reaches the
  grammar. The `Build...` actions call a constructor, then `encode`, then `decode`.
- **`Provisioning`.** A text is the sequence of its lines. `Open` truncates, `Write` and
  `WriteFails` are the end of `write_all`; `Torn` lists what may be left. `StartCollector`,
  `ReadFile`, `ProvisionNext` and `Serve` are the collector's start, one file and then one
  bundle a step, so that a file may be rewritten between the listing and the reading.
  `collector.pending` is the set of paths still to be read, of which `ReadFile` takes the least,
  and `collector.read` the bundles still to be provisioned. `Targets` is an assumption about the
  operator: a bundle is reissued in place or to a file that has no other node's.

## 3. What TLC checks

| Run | Result | Bounds | Why they are enough |
|---|---|---|---|
| `replay_window` | holds | bitmap of 4, offsets 0..9, any number of calls | slides shorter than, equal to and longer than the bitmap; the ring wraps twice |
| `pacer` | holds | 3 epochs of 4 ticks, 3 clock units a second, 2 backward steps, 1 restart | claims in three epochs, a step back inside an epoch and one while the `Pacer` is fresh, both around a restart; `ClaimsIncrease` needs two claims to fail |
| `limiter` | holds | burst 2, 3 of 4 fractions a millisecond, 6 ms, 2 backward steps | refills leave remainders; the first one saturates (`CountMax` = 15); the burst is drained and refilled |
| `peer_state` | holds | 3 epochs, two sharing their low bits, windows of 2 over 3 offsets, 3 calls, 1 backward step within an epoch | both slots in use, an alias arriving after its epoch has left, a window that slides; three calls are a datagram, one of another epoch, and the replay |
| `cold_start` | holds | epochs of 3 s, true times 4..9, requests every 1, 2, 3, 3 s, 2 boots | an announcement of the first boot delivered to the second, in the same epoch and in a later one; the backoff reaches its ceiling |
| `codec` | holds | real widths; all 127 vectors; every payload of up to 8 octets out of {0, 1, 16} of `MESSAGE`, `EVENT`, `SERIES` and `CAPABILITY_ADVERTISE`, at the offset 16 ticks before the end of the epoch; arguments at both ends of every range the constructors check | 16, 16, 1 is the header of a record of one octet, so that 8 octets hold two records, overruns, zero sizes, and fragments; a `SERIES` of two readings has a delta of 16, which is one tick too far |
| `provisioning` | holds | 2 nodes and the reserved id 0, 3 secrets, 5 paths of which 4 are listed, one layout | a batch of two, each also torn; a reissue in place, before or outside; any start of the collector in between |
| `system` | holds | 2 senders, one of them silent, and a stranger; epochs of 2 ticks, of which two share their low bits, a clock of 0..5, the collector one tick behind; windows of 1, burst 1; 2 claims, 3 calls, 1 junk, 1 restart or repeated provisioning | three epochs, an alias, both orders of two datagrams and a duplicate, a `SERIES` that fits and one that does not, the limit hit, the epoch ending between the two readings |
| `pacer_steps_back` | **violated** | as `pacer`, no restart, steps over epochs allowed | finding 1 |
| `peer_clock_back` | **violated** | as `peer_state`, 4 calls, no limit, forged and sound datagrams only, steps over epochs allowed | finding 2 |
| `cold_start_replay` | **violated** | as `cold_start`, true times up to 10 | finding 3 |
| `vector_faults` | **violated** | the vectors | finding 4 |

Deadlock is checked in all passing runs but two: `codec`, where the runner stops after the
last vector, and `system`, whose bounded clock and calls run out.

What the passing runs show:

- **`replay_window`.** `WindowExact`: inside the window a bit is set exactly for the
  offsets that were accepted, so the clearing loop leaves no bit of an earlier turn of
  the ring and clears none in excess. `AtMostOnce`: no offset passes twice.
  `ImplementsFilter`: every answer is the one `ReplayFilter` gives, which remembers
  all accepted offsets and has no bitmap.
- **`pacer`.** `NoTupleReuse` and the stronger `ClaimsIncrease`, as long as the clock is
  not taken back over the claims already made: not to an earlier epoch than a
  claim's, and, while the `Pacer` is fresh after a restart, not to or before a claim.
  (Backward steps within an epoch are allowed, they are what the `Pacer` is for.)
  `ShedsOnlyOnConflict`, `ShedRecovers`: shedding has a cause and ends.
- **`limiter`.** `RateBound` over every interval of real time, with a clock that steps
  back and any first reading; `QuietPeerAdmitted`, which is what letting `last_ms`
  follow the clock backwards buys.
- **`peer_state`.** `WindowsExact`: what is kept for the two acceptable epochs is exactly
  their history, whatever forged or late datagrams came between. `AtMostOnce`, over
  epochs and aliases. `NeverEvicts`: the fallback of `window_for` is unreachable.
  `JunkIsHarmless`: a datagram that does not pass the replay check leaves the
  acceptable windows and the limiter alone. `EveryCallCounted`: every call ends in one
  counter, except those refused as oversized.
- **`cold_start`.** `NeverAhead`: a replayed announcement pins a node to a real time,
  never ahead of the collector, and so the floor cannot lock it out. `BootsNeverGoBack`:
  no boot starts in an epoch before an earlier one's. `UniqueUnlessPinned`: the clock
  replaces counters over reboots when each boot is given a fresh time.
  `RequestsSpaced`: the requests of a boot keep the doubling intervals up to the ceiling, and the
  next one is never further off than the last interval. `ClockRecovers`.
- **`codec`.** `VectorsPass`: generator, library and checker, three readings of the same
  protocol in one repository, agree. `OtherFaultsIsolated`: each reject vector but two is
  rejected by the check it is named for. `FramingExact`: the record loop accepts a
  payload exactly if *some* set of record starts divides it without a rest.
  `RoundTrip`: what was accepted encodes to the same octets. `BuiltIsAccepted`: what the
  constructors and `encode` let out, `decode` takes, and gives back unchanged.
  `SeriesInstantsAgree`: both sides mean the same instants, up to the last tick of an
  epoch and the largest gap. `CapabilityExact`: a capability list has one encoding.
- **`provisioning`.** `NoPeerMissing`: no interruption and no rewriting under a starting
  collector makes it come up without a node that had been provisioned.
  `OnlyLayoutsLost`: a torn bundle never yields a wrong secret, id or suite.
  `CutoverAgrees`: which of two bundles of a node is served. `GenerateOnlyAdds`.
- **`system`.** `KeepsPromise`: the whole implements `Delivery`, under the mapping that takes
  as delivered what `accept` answered, each under the epoch it was *reconstructed* to. Hence
  a datagram is handed over as it was sent, at most once for as long as the collector
  remembers its sender, and positions are never reused. A restart of the collector or a
  repeated provisioning is `Forget`: what was delivered before may be again, the window
  lives in memory only. `RefusalJustified` is the converse: a genuine datagram is not
  refused without cause, so the first property is not had by refusing. `StatsAddUp`:
  the printed totals are the calls. `NothingSpansEpochs`. `TypeOK` bounds what a peer takes in
  memory: windows of two epochs, one after the other, however many epochs it is sent
  datagrams for.

### Findings

1. `Pacer` forgets its last offset whenever the epoch changes, in either direction. A
   step back over an epoch boundary, and forward again, makes it hand out a tuple twice,
   although `lib.rs` says it covers "a backward clock step" and PROTOCOL.md 10.1
   forbids the reuse. PROTOCOL.md 10.4 describes the rule the code implements and takes it
   to cover every step.
2. `PeerState::accept` prunes the windows before anything is authenticated. When the
   receiver's clock is stepped back over an epoch boundary, any datagram with
   acceptable low bits drops the window of the later epoch, and a datagram of that
   epoch is accepted again once the clock is forward again. PROTOCOL.md 7.4 says no
   persistent state is mutated before step 7. `collector.rs` reads the wall clock.
3. `last_epoch` is raised when a `TIME_ANNOUNCE` is accepted and never while the node
   runs, so a captured announcement takes the next boot back to a time the node already
   operated in. PROTOCOL.md 11.5 says this cannot happen.
4. Two reject vectors, `short_length` and `cipher_mismatch`, pass the checks they are
   named for and are rejected by the MAC. `vectors.rs` says each isolates a single fault.
   The runner takes any rejection for a PASS, so a decoder without a length check or
   without the comparison of the suites would pass.

Smaller disagreements met on the way, for which there is no run:

- the epoch is checked before version, type and sender (PROTOCOL.md 7.4 has it sixth);
- for cipher 0x03 a datagram over 512 bytes is discarded as `Error::Oversize`, which no
  counter records, where the comment in `record_error` says `accept` never returns it
  (`EveryCallCounted` of `peer_state` has them as the only calls not counted);
- the comment of `reconstruct_epoch` says 2 bits where the code compares 4;
- `accept` asks for a monotonic `now_ms` and the collector passes its wall clock;
- the sender does not wait one tick after its start (PROTOCOL.md 10.4);
- `load_bundles_dir` skips directory entries it cannot read, where its comment rules out
  skipping;
- `decode_roundtrip.rs` says that every accepted input encodes again identically, but
  records of layouts the receiver does not hold are skipped and lost;
- `Stats::framing` counts payloads "against a control type's layout", which `decode` never
  looks at: `Control::parse` is the application's to call;
- the constructors and `encode` let out records of `schema_version` 0, and
  `Datagram::control` builds time messages, both of which `decode` refuses;
- provisioning a sender again drops its counters, so `Collector::stats` can go down;
- a bundle torn between its layouts loads without an error and without those layouts;
- after `reissue --out` to a file that sorts before the old one, the collector goes on
  serving the old secret, where the program says that it will stop verifying; and
  `--out` overwrites another node's bundle without asking.

### Fairness

- `Pacer`: weak fairness of `Tick` (a clock runs) and of the loop's step, `Claim` or
  `Shed` (the loop has no exit but a socket error). `ShedRecovers` needs no more.
- `ColdStart`: weak fairness of the clock, of the collector's announcing, which
  PROTOCOL.md 11.6 asks to be repeated, and of the delivery of *some* acceptable
  announcement. This is an assumption about the collector and the network, not about
  the node: without it a node stays silent for ever, as it should.
- Nothing else has liveness properties: a receiver only reacts.

## 4. What is proved

For all values of the constants that satisfy the named assumptions of the modules. These
say no more than the code's own numbers and types: a bitmap of at least one entry, positive
units of time, clocks below 2^32 epochs, an offset space of one epoch's ticks, a burst that does
not saturate the `u64`, a ceiling of the backoff not below its base, and a cold start within the
modelled time. The senders of a system are finitely many, and so are the ids of nodes (a
`u32`); `generate` fills the directory that the collector reads, a path of its own for each
id (`NodePath`), at which an operator puts no other node's bundle. The vectors of the conformance
file are a sequence, and none of them is an input of the fuzzer or of a caller; these fuzz with
octets and types of the protocol, within an epoch, and call with instants that are not negative and
records of the types that `Record` has. The bounds of the runs are constants too and may be any
number.

| Theorem | Says |
|---|---|
| `ReplayWindowProofs!TypeCorrect`, `Exactness`, `NoReplay` | the three invariants of `replay_window` |
| `ReplayWindowProofs!Refinement` | `Spec => Filter!Spec` |
| `PacerProofs!TypeCorrect`, `ShedsJustified` | types and `ShedsOnlyOnConflict`, whatever the clock does |
| `PacerProofs!ClaimsInOrder`, `NoReuse` | `ClaimsIncrease` and `NoTupleReuse`, if neither `StepsMayRewind` nor `RestartsMayRewind` |
| `InboundLimiterProofs!TypeCorrect`, `RateHolds`, `QuietPeerPasses` | types, `RateBound` and `QuietPeerAdmitted`, whatever the clock does |
| `PeerStateProofs!TypeCorrect`, `AllCounted`, `NoEviction`, `JunkHarmless` | types, `EveryCallCounted`, `NeverEvicts` and the action property `JunkIsHarmless`, whatever the clock does |
| `PeerStateProofs!Exactness`, `NoReplay` | `WindowsExact` and `AtMostOnce`, if not `StepsMayRewind` |
| `ColdStartProofs!TypeCorrect`, `NeverRunsAhead`, `NeverGoesBack` | types, `NeverAhead`, `BootsNeverGoBack` |
| `ColdStartProofs!UniqueAcrossBoots` | `UniqueUnlessPinned` |
| `ColdStartProofs!BackoffKept` | `RequestsSpaced` |
| `CatpSystemProofs!Implements` | `Spec => Promise!Spec`: the system implements `Delivery` (`KeepsPromise`) |
| `CatpSystemProofs!TypeCorrect`, `NeverSpans`, `RefusalsJustified` | types with the bound on memory, `NothingSpansEpochs`, `RefusalJustified` |
| `CatpSystemProofs!CountersAddUp` | `StatsAddUp`, for any finite set of senders |
| `ProvisioningProofs!GenerateAdds` | the action property `GenerateOnlyAdds` |
| `ProvisioningProofs!NodesServed`, `ServedAsIssued`, `ServedAsOnDisk` | `NoPeerMissing`, `OnlyLayoutsLost`, `CutoverAgrees` |
| `ConformanceProofs!PayloadsFramedExactly` | `FramingExact`, for payloads of every length and octets |
| `ConformanceProofs!CapabilityHasOneEncoding` | `CapabilityExact`, for payloads of every length and octets |
| `ConformanceProofs!SenderAndReceiverAgree` | `SeriesInstantsAgree`, for a caller with any instants, and payloads of every length and octets |
| `ConformanceProofs!AcceptedEncodesAgain` | `RoundTrip`, for payloads of every type, length and octets |
| `ConformanceProofs!BuiltArrives` | `BuiltIsAccepted`, for a caller with any records and any instants |
| `ConformanceProofs!SeriesDecoded`, `SeriesReencoded` | `validate_series` undoes `series`, and `series` undoes `validate_series`, whatever the batch or the payload |

`Inductive`, `SlotsInductive`, `WindowsInductive`, `TimeInductive`, `ClaimsInductive`,
`BackoffInductive`, `DiskInductive` and `CollectorInductive` are the inductive invariants behind
them, with `CountsExact` for the counters, and `FuzzInv`, `SeriesInv` and `BuiltInv` for the codec. TLC checked
each on the module's run as well, with the unbounded quantifiers drawn from finite sets (the witness
of `BackoffInv`, that of `IsSequence`, the offset of `Buildable`), and for `FuzzInv` with payloads of up to five octets.

**The window.** `AtMostOnce` is not inductive: a bit that is wrong
today lets a replay through tomorrow. The invariant is
`TypeOK /\ WindowExact /\ AtMostOnce`. `WindowExact` says nothing of offsets below
the window, where the high-water mark refuses, and determines every bit inside it.
Three lemmas on the bitmap carry the arithmetic: offsets less than
`Entries` apart occupy different positions (`IndexSeparates`), the positions of the span
slid past are those cleared (`IndexCovers`), and so admitting an offset keeps the
window exact (`AdmitKeepsExact`). `RefusedWasSeen` is the other half of the refinement:
what is refused was accepted before or is too old.

**The Pacer.** `NoTupleReuse` depends on what the `Pacer` remembers and on
where the clock may stand. `NoReuseInv` adds `Remembers` (the last claim is the one
remembered, until a restart) and `CalmClock` (a fresh `Pacer` reads instants past every
claim, another reads no epoch before a claim's). `ClaimAfterAll` then shows that a
claim that is allowed lies after all others, and `TickKeepsCalm` that the clock's advance
keeps `CalmClock`. That rests on `TupleStep`: the position of an instant never runs
backwards as the clock advances, through the floor of the ticks, the turn of a second
and of an epoch. `Restart` and `StepBack` are where the two assumptions enter, and TLC's
`pacer_steps_back` shows that the one on steps cannot be dropped.

**The limiter.** `RateBound` counts grants and says nothing of the bucket. `IInv` adds
`TokensConserved`, the balance from every grant on: the tokens spent since, and those still
in the bucket, are no more than a burst and what the time up to the last call was worth. A call
is credited for what the *clock* advanced, the balance for what *time* went by;
`ClockBetweenCalls` relates the two: since the last call the clock went no further than
time did, unless the bucket is full anyhow. `RefilledBounds` is the arithmetic of the refill with
its saturation, and `RefilledEnough` the other direction, for a quiet peer.

**The peer.** `SlotInv` holds on any clock. It says that the two slots name different
epochs (`SlotsSound`), so that "the window kept for an epoch" means one window. After `Prune` one
of them names the wanted epoch or is free, because only two epochs are acceptable
(`SlotForFinds`): that is `NeverEvicts`. Both `Prune` and `WindowFor` leave alone what is
kept for the acceptable epochs (`PruneSound`, `WindowForSound`), which is `JunkIsHarmless`: it
needs no assumption on the clock, a forged datagram only ever costs the windows of epochs that
are over. `EveryCallCounted` goes by the check that ends a call (`CounterOfCheck`). `ExactInv`
adds the contents: each kept window describes exactly the offsets of its epoch that passed
(`AdmitKeepsExact` again). When an epoch begins, it becomes acceptable without a window,
so that an empty one must describe it: hence `FutureUntouched`, nothing was taken in an epoch
that has not begun. A step back over the end of an epoch breaks just this, and finding 2 is what
comes of it; so `StepsMayRewind` cannot be dropped either.

**Cold start.** `TimeInv` places the node's clock between the floor and the true time:
an announcement, however old, was true when it was sent, and it is accepted only above the floor,
which it then raises (`AcceptAnnounceEffect`). `ClaimInv` adds that all claims lie in the past,
so that a boot that has claimed nothing began after them, and that a `Pacer` that claimed is not
ahead of its clock. A claim by a node that was not pinned is then at or after the start
of its boot, so past every claim of earlier boots, and past those of its own by the `Pacer`
(`ClaimIsNew`). Finding 3 is the case that `UniqueUnlessPinned` leaves out. `BackoffInv` carries
`RequestsSpaced`: the series of intervals, one longer than the requests so far, ends in the one
that `NodeClock` holds, and the next request waits for the one before it (`OnSchedule`). The
series is stated by its steps, not as a power of two, and grows by one with each request
(`BackoffsGrow`).

**The system.** `Implements` is the central result: with any number of senders, any network, and
restarts of both ends. A step maps to the step of `Delivery` it is: `Send` to `Send`, an
accepted `Routed` to `Deliver` on the occasion of that call, `Provision` and `RestartCollector` to
`Forget`, all others to a stutter. Neither half of the promise is inductive. `SenderInv` carries
the first, that no position is sent twice: whatever a sender used, sent or still in hand, lies
behind what its `Pacer` remembers, which lies behind the clock; and behind the clock itself once the
`Pacer` is fresh (`PacersFollow`). A claim then leads past all of it (`UsedPrecedes`), and
what waits in `outbox` is still new when it is sent (`OutboxNew`). The clock does not take a
position back (`TupleMonotone`), since the ticks gone by divide evenly into seconds and epochs
(`TicksSplit`). `CollectorInv` carries the second: what a peer keeps for
an acceptable epoch is the history of the offsets the log has passed, and of an epoch to come
nothing is known (`Remembers`). `Local` is the epoch that the next answer is made for: during a call
the one that was read before it, which may be over (`CallUnderWay`), and between calls that of
the clock. A call keeps `Remembers` at its own epoch (`RemembersAfter`, on
`AdmitKeepsExact`), and so does the passing of time (`RemembersLater`), so that the gap between the
two readings does no harm. An accepted offset was then not in the history, so its datagram not in
the log. `RefusalsJustified` takes the other half from the same history (`RefusedWasSeen`), and that
`reconstruct_epoch` finds both acceptable epochs by their low bits (`AcceptableFound`).

**The counters.** `StatsAddUp` compares sums over the peers with the log. `CountsExact` is the
inductive part: the counters of each peer are the answers of the log to its sender, outcome by
outcome, and the collector's own two are those to nobody's; provisioning a peer again takes its
answers out of the log and its counters with them. That the sums then agree is an induction
over the senders which the provers cannot do as one: it goes by a smallest set of senders for
which the merged counters are wrong (`SmallestSubset`), from which one is taken away
(`MergingUnique`, `MergingCounts`).

**Provisioning.** `DiskInv` relates files to the bundles that were issued: a file is a part of the
text of *one* of them (`Torn`), and it is in a place for it (`Fits`): at the path of its node, or
elsewhere when its node has a file already. No write mixes two bundles, because each truncates first,
and none removes a file, so that a node that was given a bundle keeps a file at its own path.
A running `generate` has only paths to write that were free when it started (`Orderly`), which is
`GenerateOnlyAdds`. What may be read of a cut text is the lemma `ParsedTorn`: id and secret are
whole, the `cipher_id` is whole or the 0 of a lost digit, and layouts are missing at the end.
`LayoutsOf` is a recursive function; instead of an induction, the function that the claim says it is
is shown to solve the same equation, and two solutions to agree (`LayoutsPushed`, by the first place
where they would differ). `CollectorInv` follows a start: what was read and what is served are such
parts (`Honest`); a node that is due still has its file to be read, or was read, or is served
(`NoneMissing`); and if no file was touched since the start, the last bundle of a node that was read
is that of its latest file (`Agreeing`, `Says`), in whichever of the three stages it is. A torn
`cipher_id` ends the start, since 0 names no suite (`PeerOfPart`).

**The codec.** `FuzzInv` says that what a fuzzer sent is an authentic datagram of a type, with a
payload, and that the answer is that of `decode`; `BuiltInv` that what a caller sent is a datagram as
a constructor makes it (`Buildable`), that `encode` let it out, and that the answer is that of `decode`.
Both are sealed under the key of the receiver. A sealed datagram gets through steps 1 to 7
(`SealedPasses`), because the header is read back as it was written, field by field and at full
width (`HeaderRead`), so that the MAC is computed over the same octets; then the answer is that of the
framing, and the receiver has the header and what was framed (`Received`). The loops of
the codec are recursive functions of the model. That such a function exists, so that its equation may
be used at all, is shown by excluding a least index at which it fails to (`LeastNumber`): `FramingSolved`
for the record loop, which runs down from the end of the payload, `SumSolved` for the deltas of
a SERIES, `JoiningSolved` for the octets that `FlattenSeq` joins, `PartingSolved` and
`MeasuringSolved` for the loops of `Partition` and `RecordsLen`.

`FramingExact` then has two halves (`FramedByStarts`): if the loop ends well, the octets from which it
ends well are starts that divide the payload, as each header leads only to another of them or to the
end (`NextIs`); and if some set of starts divides it, the loop ends well from each of them, the last one
first. An EVENT, which may have one start only, takes a closer look at the first turn (`FramedIs`).
`CapabilityExact` comes from the octets of a payload being those of its entries at fixed places
(`FlattenedEvenly`, `Slice`), and their number being settled by the length that `parse` demands.
`SeriesInstantsAgree` needs both directions. From octets to readings and back, a number of sixteen bits has the octets it was read from, with a
sign or without (`OctetsAgain`), and the difference of two instants is the delta between them. From
readings to octets and back, each delta that `series` lets out fits the `u16`, is read back
(`OctetsRead`), and the running sum of deltas is the next instant. `SeriesInv` says which batch a
caller sent, so that the second applies to it.

`RoundTrip` and `BuiltIsAccepted` are the two directions for records. One record: its header is
twenty-four bits with a body of up to twelve bits of size behind it, and what stands there is what
`RecordBytes` writes (`RecordReencoded`), and what it writes is read again (`RecordRead`). All of them:
from each octet at which the loop ends well, the records it gathers encode to the rest of the payload
(`FramedReencoded`), and a payload joined from records frames into them, from the last one forward
(`RecordsFramedAgain`). The length that `encode` compares with its limit is that of the octets it
writes (`RecordsMeasured`). If nothing was skipped, `Partition` kept all (`NoneSkipped`, `AllKept`), so
that what is encoded again is what was framed (`EncodesTo`). In the other direction, `encode` refuses
the bodies that a header cannot express (`EncodeSeals`) and the constructors what the grammar of a
payload forbids (`DataBuilds`, `NumberBuilds`, `SeriesBuilds`, `ControlBuilds`); the
schema_version 0 is what neither refuses, and the property leaves out.

Only model-checked:

- `ShedRecovers` and `ClockRecovers`: liveness under fairness is out of the prover's reach;
- `VectorsPass` and `OtherFaultsIsolated`, which are about one fixed list of vectors: TLC
  evaluates all of it;
- the four runs with a counterexample, which need no proof.

## 5. Abstractions, and what is not modelled

Abstractions, beyond the small bounds of the runs:

- Cryptography is perfect and symbolic: HKDF, HMAC, SipHash and Poly1305 are external.
  Two tags agree exactly if suite, key and authenticated octets do.
- Times in the codec stay below 2^31 seconds, the integers of TLC; so a `TIME_ANNOUNCE`
  has four zero octets in front.
- Overflow of `u64` counters and of `i64` times is out of any run's reach in practice.
  (The limiter's saturation, which the tests reach, is modelled.)
- In `CatpSystem` a sender is started again no sooner than in the next tick, which
  PROTOCOL.md 10.4 asks for and the program does not wait for; `Pacer` has the restart
  without that assumption. The clocks do not step there; `Pacer` and `PeerState` have that.
- `Provisioning` runs one `catp-provision` at a time. Two `generate`s at once may draw one
  id out of 2^32 and one of them overwrite the other's bundle; this is the one hazard
  without a property.
- `NodeClock::synced`, which never changes, is used by the conformance checks only.

Not modelled: `criterion` benchmarks and `mem_probe`, which have no behaviour of their
own; the fuzz target `decode`, which asks for no panic only; the JSON of the test vectors
and `tinyjson`; the Python driver, which compares lines; rendering, `format_scaled`,
logging, command lines, hex digits, and file modes.

## 6. Plan

Done: every component above; the proofs of the window, the `Pacer`, the limiter, the
peer, the cold start, the system they make, provisioning, and the codec. The order was that of
importance: uniqueness at the sender and at-most-once at the receiver are what the protocol stands
on, then the codec they rest on, the system, and the tools that set it up.

Every invariant and action property that a passing run checks is proved, but for the two of the
codec about the fixed vectors; the two liveness properties are model-checked. What could follow: a run
with two `catp-provision generate` over one directory, which the code does not guard against, and
the cold start inside `CatpSystem`, whose senders trust their clocks.
