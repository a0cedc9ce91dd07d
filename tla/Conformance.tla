---------------------------- MODULE Conformance -----------------------------
(***************************************************************************)
(* The harnesses the codec is tested with. The implementation under test   *)
(* of the conformance runner (conformance_iut.rs) reads the test vectors   *)
(* line by line and answers PASS or FAIL. The round trip fuzz target       *)
(* (fuzz_targets/decode_roundtrip.rs) decodes arbitrary input: here every  *)
(* payload over a few octets, under a tag that verifies, for without one   *)
(* nothing gets past step 7. To these is added a caller that hands the     *)
(* constructors of Datagram every argument of a small set, at the limits.  *)
(***************************************************************************)
EXTENDS Vectors

CONSTANTS
    VectorFile,    \* the vectors of the file, in its order
    FuzzTypes,     \* types of the fuzzed datagrams
    FuzzOctets,    \* octets of their payloads
    MaxPayload,    \* bound: octets of a fuzzed payload
    FuzzOffset,    \* their datagram_offset
    SeriesInstantSet,   \* instants a caller gives to series
    RecordSet      \* records a caller gives to data

ASSUME HarnessAssumption ==
    /\ FuzzTypes \subseteq MsgTypes
    /\ FuzzOctets \subseteq Byte
    /\ MaxPayload \in Nat
    /\ FuzzOffset \in 0 .. TICKS_PER_EPOCH - 1
    /\ SeriesInstantSet \subseteq Nat
    /\ RecordSet \subseteq [format : Formats, schema_version : Byte, body : Seq(Byte)]
    /\ \A k \in 1 .. Len(VectorFile) : VectorFile[k].kind \notin {"fuzz", "built"}
    /\ Len(VectorFile) \in Nat

LOCAL Clock == INSTANCE NodeClock
    WITH EpochSecs <- 128, TicksPerSec <- 4096, NanosPerSec <- 1000000000,
         EpochSpace <- 2147483647, LowSpace <- 16, RequestBase <- 2, RequestMax <- 3600

VARIABLES
    line,        \* vectors read so far
    all_passed,  \* no verdict was FAIL
    input,       \* the last vector, input of the fuzz target or call
    answer       \* what the codec answered to it

vars == <<line, all_passed, input, answer>>

NoInput == [kind |-> "none"]

-----------------------------------------------------------------------------
\* permissive_layouts
PermissiveLayouts == Formats \X Byte

Peer(sender_id, cipher, layouts) ==
    [sender_id |-> sender_id, secret |-> secret, cipher |-> cipher, layouts |-> layouts]

\* The window check_reject_datagram seeds with the offsets seen before.
Seeded(offsets) ==
    FoldLeft(LAMBDA w, o : Replay!Admit(w, o), Replay!NewWindow, offsets)

\* What the codec answers to a vector.
AnswerTo(v) ==
    CASE v.kind = "accept" ->
            Decode(v.wire, Peer(v.sender_id, v.cipher_id, PermissiveLayouts),
                   v.epoch_id, v.direction, Replay!NewWindow).result
      [] v.kind = "reject_datagram" ->
            Decode(v.wire, Peer(v.receiver_sender, v.configured_cipher, PermissiveLayouts),
                   v.receiver_epoch, v.direction, Seeded(v.seen_offsets)).result
      [] v.kind = "accept_time_request" -> DecodeTimeRequest(v.wire, v.sender_id, secret)
      [] v.kind \in {"accept_time_announce", "reject_time_announce"} ->
            DecodeTimeAnnounce(v.wire, v.sender_id, secret)
      [] v.kind = "number_payload" -> ValidateNumber(v.payload)
      [] v.kind = "series_payload" -> ValidateSeries(v.payload, v.anchor_offset)

\* check_accept: decoded to the epoch it was encoded under, and encoded again to
\* the same octets.
CheckAccept(v, acc) ==
    /\ IsOk(acc)
    /\ acc.value.epoch_id = v.encode_epoch
    /\ Encode(acc.value.datagram, secret, v.encode_epoch, v.direction, 65535)
         = Ok(v.wire)

\* check_reject_time_announce: authentic, and refused by the clock.
CheckRejectAnnounce(v, time) ==
    /\ IsOk(time)
    /\ ~Clock!Accepts(IF v.clock_state = "cold" THEN Clock!Clockless(v.last_epoch)
                                                ELSE Clock!Synced(v.last_epoch),
                      v.asserted_time)

\* verdict_of is PASS. Any rejection of a reject_datagram vector will do.
Passes(v, reply) ==
    CASE v.kind = "accept" -> CheckAccept(v, reply)
      [] v.kind = "reject_datagram" -> ~IsOk(reply)
      [] v.kind = "accept_time_request" ->
            IsOk(reply) /\ TimeRequest(v.sender_id, secret) = Ok(v.wire)
      [] v.kind = "accept_time_announce" ->
            /\ reply = Ok(v.asserted_time)
            /\ TimeAnnounce(v.sender_id, v.asserted_time, secret) = Ok(v.wire)
      [] v.kind = "reject_time_announce" -> CheckRejectAnnounce(v, reply)
      [] v.kind \in {"number_payload", "series_payload"} ->
            IsOk(reply) <=> v.outcome = "accept"

-----------------------------------------------------------------------------
Init == line = 0 /\ all_passed = TRUE /\ input = NoInput /\ answer = Err("none")

Idle == line = 0 /\ input = NoInput

\* The implementation under test reads one more vector.
ReadVector ==
    /\ input.kind \notin {"fuzz", "built"}
    /\ line' = line + 1
    /\ \E file \in {VectorFile} :
          /\ line < Len(file)
          /\ input' = file[line + 1]
    /\ answer' = AnswerTo(input')
    /\ all_passed' = (all_passed /\ Passes(input', answer'))

\* The answer of a receiver that holds every layout.
Answer(buf, cipher) ==
    Decode(buf, Peer(id, cipher, PermissiveLayouts), epoch, n2c, Replay!NewWindow).result

\* The fuzz target is given an authentic datagram with this payload.
FuzzDecode(mt, payload) ==
    \E buf \in {Authentic([Base(mt, HmacSha256T64, id, epoch, FuzzOffset)
                              EXCEPT !.reserved = 3], payload)} :
        /\ input' = [kind |-> "fuzz", buf |-> buf]
        /\ answer' = Answer(buf, HmacSha256T64)
        /\ UNCHANGED <<line, all_passed>>

\* A caller builds a datagram, encodes and sends it; one that a constructor or
\* encode refuses goes no further.
Build(built, readings) ==
    \E r \in {built} :
        /\ IsOk(r)
        /\ input' = [kind |-> "built", datagram |-> r.value, readings |-> readings]
        /\ \E wire \in {Encode(r.value, secret, epoch, n2c, 65535)} :
              /\ IsOk(wire)
              /\ answer' = Answer(wire.value, r.value.cipher_id)
        /\ UNCHANGED <<line, all_passed>>

Ciphers == {HmacSha256T64, ChaCha20Poly1305}

EdgeOffsets == {0, TICKS_PER_EPOCH - 1, TICKS_PER_EPOCH}

BuildData(records) ==
    \E mt \in MsgTypes, cipher \in Ciphers, off \in EdgeOffsets :
        Build(Data(mt, cipher, id, epoch, off, records), <<>>)

BuildNumber(scale, mantissa) ==
    \E cipher \in Ciphers, off \in EdgeOffsets :
        Build(Number(cipher, id, epoch, off, scale, mantissa), <<>>)

BuildSeries(scale, readings) ==
    \E cipher \in Ciphers : Build(Series(cipher, id, epoch, scale, readings), readings)

BuildControl(mt, body) ==
    \E cipher \in Ciphers, off \in EdgeOffsets :
        Build(ControlDatagram(mt, cipher, id, epoch, off, body), <<>>)

Payloads == UNION {[1 .. n -> FuzzOctets] : n \in 0 .. MaxPayload}

Scales == 0 .. 8

Mantissas == {-32768, -1, 5}

\* Up to three readings; the mantissa follows from the place.
ReadingSeqs ==
    {[k \in DOMAIN at |-> <<at[k], 7 - 8 * k>>] :
        at \in UNION {[1 .. n -> SeriesInstantSet] : n \in 1 .. 3}}

Next ==
    \/ ReadVector
    \/ Idle /\ \E mt \in FuzzTypes, p \in Payloads : FuzzDecode(mt, p)
    \/ Idle /\ \E rs \in {<<>>} \cup {<<r>> : r \in RecordSet} \cup (RecordSet \X RecordSet) :
          BuildData(rs)
    \/ Idle /\ \E scale \in Scales, mantissa \in Mantissas : BuildNumber(scale, mantissa)
    \/ Idle /\ \E scale \in {1, 7, 8}, rs \in ReadingSeqs : BuildSeries(scale, rs)
    \/ Idle /\ \E mt \in MsgTypes, body \in {<<>>, <<1, 0, 0>>} : BuildControl(mt, body)

Spec == Init /\ [][Next]_vars

-----------------------------------------------------------------------------
Fuzzed(mt) == input.kind = "fuzz" /\ TypeOf(input.buf) = mt

\* Every vector that vectors.rs generates gets the verdict PASS from
\* conformance_iut.rs: generator, codec and checker agree with one another.
VectorsPass == all_passed

\* The check of decode that a fault's name stands for.
ErrorOf ==
    [short_length |-> "TooShort", unsupported_version |-> "UnsupportedVersion",
     msg_type_0x00 |-> "BadMsgType", unimplemented_msg_type |-> "BadMsgType",
     unknown_sender |-> "UnknownSender", cipher_mismatch |-> "CipherMismatch",
     epoch_out_of_window |-> "EpochOutOfWindow", corrupted_tag |-> "AuthFailed",
     replayed_offset |-> "Replay", offset_below_window |-> "Replay",
     framing_short_body |-> "Framing", framing_trailing_fragment |-> "Framing",
     framing_size_overrun |-> "Framing", framing_size_zero |-> "Framing",
     framing_past_boundary |-> "Framing", framing_event_two_records |-> "Framing"]

RejectedForItsFault ==
    input.kind = "reject_datagram" => answer.error = ErrorOf[input.fault]

\* Each reject vector "isolates a single fault" (vectors.rs): the check its fault
\* names is the one that rejects it.
FaultsIsolated == RejectedForItsFault

\* The same of all but two: the vector for a short datagram is long enough for
\* header and tag, and that for a cipher mismatch names the configured suite, so
\* that both get as far as the MAC.
OtherFaultsIsolated ==
    IF input.kind = "reject_datagram" /\ input.fault \in {"short_length", "cipher_mismatch"}
    THEN answer.error = "AuthFailed"
    ELSE RejectedForItsFault

\* An authentic payload that decode accepts encodes again to the same octets, the
\* reserved bits included (the property of decode_roundtrip.rs), as long as no
\* record was skipped. The fuzz target sets no limit of size; here it is the length
\* of the input, the least with which that can hold.
RoundTrip ==
    input.kind = "fuzz" /\ IsOk(answer) /\ answer.value.skipped = <<>> =>
        Encode(answer.value.datagram, secret, epoch, n2c, Length(input.buf)) = Ok(input.buf)

\* The record loop of decode accepts exactly the payloads that a set of record
\* starts divides without a rest: each start has a well-formed header whose size
\* leads to another start or to the end. An EVENT has one start only.
FramingExact ==
    \A mt \in {MESSAGE, EVENT} :
        Fuzzed(mt) =>
            LET p == PayloadOf(input.buf)
                Divides(S) ==
                    /\ 1 \in S
                    /\ \A i \in S :
                        /\ i + 3 <= Len(p)
                        /\ p[i] \div 16 > 0
                        /\ (p[i] % 16) * 16 + (p[i + 1] \div 16) > 0
                        /\ LET size == (p[i + 1] % 16) * 256 + p[i + 2]
                           IN  size > 0 /\ i + 3 + size \in S \cup {Len(p) + 1}
            IN  IsOk(answer) <=>
                    \E S \in SUBSET (1 .. Len(p) - 3) :
                        Divides(S) /\ (mt = EVENT => S = {1})

\* What decode refuses although the constructors and encode let it out: records
\* of the schema_version 0, and time messages, which have their own entry points.
NotForDecode(d) ==
    \/ d.msg_type \in TimeTypes
    \/ \E i \in DOMAIN d.records : d.records[i].schema_version = 0

\* Everything else a caller can build and encode, up to the last tick of the epoch
\* and the largest body, is accepted and arrives as it was built.
BuiltIsAccepted ==
    input.kind = "built" /\ ~NotForDecode(input.datagram) =>
        /\ IsOk(answer)
        /\ answer.value.datagram = input.datagram
        /\ answer.value.skipped = <<>>

\* Sender and receiver agree on the instants of a SERIES, up to the last tick of
\* the epoch: validate_series gives back the readings a batch was built from, and
\* every payload it accepts is the one series builds from the readings it gives.
SeriesInstantsAgree ==
    /\ input.kind = "built" /\ input.readings # <<>> =>
        ValidateSeries(input.datagram.raw, input.datagram.datagram_offset)
            = Ok([scale |-> input.datagram.raw[1], readings |-> input.readings])
    /\ Fuzzed(SERIES) =>
        \A read \in {ValidateSeries(PayloadOf(input.buf), FuzzOffset)} : IsOk(read) =>
            \A again \in {Series(HmacSha256T64, id, epoch, read.value.scale, read.value.readings)} :
                IsOk(again) /\ again.value.raw = PayloadOf(input.buf)

\* A capability list that parses has no other encoding than the one parsed.
CapabilityExact ==
    Fuzzed(CAPABILITY_ADVERTISE) =>
        \A c \in {ParseControl(CAPABILITY_ADVERTISE, PayloadOf(input.buf))} :
            IsOk(c) => EncodeControl(c.value) = Ok(PayloadOf(input.buf))
=============================================================================
