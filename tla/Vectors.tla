------------------------------ MODULE Vectors -------------------------------
(***************************************************************************)
(* The frozen test vectors, as tools/src/bin/vectors.rs generates them: a  *)
(* list of accept vectors (a datagram and the octets it encodes to) and of *)
(* reject vectors (octets, the state of the receiver that is to refuse     *)
(* them, and the name of the fault they carry). The text and JSON they are *)
(* printed in, and the keys they publish besides, are left out.            *)
(*                                                                         *)
(* A vector is a record with a "kind"; wire and payload stand for their    *)
(* hex digits.                                                             *)
(***************************************************************************)
EXTENDS Wire, ControlCodec

secret == "s"
id == <<18, 52, 86, 120>>                \* 0x12345678
stranger == <<222, 173, 190, 239>>       \* 0xdeadbeef
epoch == 13281250
n2c == NodeToCollector

\* unwrap, of what is never an Err here: the <<>> that one holds would be no vector.
Unwrap(r) == r.value

Rec(format, schema_version, body) ==
    [format |-> format, schema_version |-> schema_version, body |-> body]

Repeat(octet, n) == [i \in 1 .. n |-> octet]

-----------------------------------------------------------------------------
\* accept_cross: encoded under enc_epoch, received at rx_epoch.
AcceptCross(enc_epoch, rx_epoch, dir, dg) ==
    [kind |-> "accept", sender_id |-> dg.sender_id, epoch_id |-> rx_epoch,
     encode_epoch |-> enc_epoch, direction |-> dir, cipher_id |-> dg.cipher_id,
     wire |-> Unwrap(Encode(dg, secret, enc_epoch, dir, 65535))]

AcceptVector(at_epoch, dir, r) == AcceptCross(at_epoch, at_epoch, dir, Unwrap(r))

NumberAt(cipher, off, scale, mantissa) ==
    AcceptVector(epoch, n2c, Number(cipher, id, epoch, off, scale, mantissa))

MessageOf(cipher, off, records) ==
    AcceptVector(epoch, n2c, Data(MESSAGE, cipher, id, epoch, off, records))

\* One accepted datagram per msg_type, for one cipher suite.
PerCipher(cipher) ==
    << NumberAt(cipher, 4096, 2, 2350),
       NumberAt(cipher, 4097, 2, -25),
       NumberAt(cipher, 0, 1, 0),
       AcceptVector(epoch, n2c,
           Series(cipher, id, epoch, 2, <<<<4200, 2350>>, <<4450, 2360>>, <<4900, 2355>>>>)),
       MessageOf(cipher, 100, <<Rec(1, 1, <<222, 173>>)>>),
       MessageOf(cipher, 200, <<Rec(1, 1, <<1>>), Rec(2, 2, <<2, 3>>),
                                Rec(3, 255, <<4, 5, 6>>)>>),
       AcceptVector(epoch, n2c,
           Data(EVENT, cipher, id, epoch, 300, <<Rec(1, 7, <<170>>)>>)),
       AcceptVector(epoch, n2c,
           Data(ALARM, cipher, id, epoch, 400, <<Rec(1, 9, <<187, 204>>)>>)),
       AcceptVector(epoch, n2c,
           ControlDatagram(HEARTBEAT, cipher, id, epoch, 500, <<>>)),
       AcceptVector(epoch, CollectorToNode,
           ControlDatagram(EPOCH_ANNOUNCE, cipher, id, epoch, 600,
               Unwrap(EncodeControl(EpochAnnounce(epoch + 1))))),
       AcceptVector(epoch, n2c,
           ControlDatagram(CAPABILITY_ADVERTISE, cipher, id, epoch, 700,
               Unwrap(EncodeControl(CapabilityAdvertise(
                   [max_version |-> 1, ciphers |-> <<1, 4>>,
                    layouts |-> <<<<1, 1>>, <<2, 2>>>>]))))) >>

SeriesT32(readings) ==
    AcceptVector(epoch, n2c, Series(HmacSha256T32, id, epoch, SCALE_MIN, readings))

\* The boundary set of the fields.
Boundaries ==
    << NumberAt(HmacSha256T32, 0, SCALE_MIN, 10),
       NumberAt(HmacSha256T32, TICKS_PER_EPOCH - 1, SCALE_MIN, 10),
       NumberAt(HmacSha256T32, 65536, SCALE_MIN, 10),
       MessageOf(HmacSha256T32, 1, <<Rec(1, 1, <<90>>)>>),
       MessageOf(HmacSha256T32, 2, <<Rec(6, 255, Repeat(119, 400))>>),
       NumberAt(HmacSha256T32, 3, SCALE_MIN, 32767),
       NumberAt(HmacSha256T32, 4, SCALE_MAX, -32768),
       SeriesT32(<<<<5, 0>>, <<6, 1>>>>),
       SeriesT32(<<<<6, 0>>, <<6 + 65535, 1>>>>) >>

\* Every value of the reserved bits but 0.
ReservedBits ==
    [v \in 1 .. 31 |->
        AcceptCross(epoch, epoch, n2c,
            [Unwrap(Number(HmacSha256T32, id, epoch, 8, SCALE_MIN, 10))
                EXCEPT !.reserved = v])]

\* Suite 0x03 under two offsets of one epoch key.
NoncePair ==
    << NumberAt(ChaCha20Poly1305, 10, SCALE_MIN, 10),
       NumberAt(ChaCha20Poly1305, 11, SCALE_MIN, 10) >>

\* The largest size, and the two sides of an epoch boundary.
LateBoundaries ==
    << MessageOf(HmacSha256T32, 2, <<Rec(6, 255, Repeat(119, 4095))>>),
       AcceptVector(epoch + 1, n2c,
           Number(HmacSha256T32, id, epoch + 1, 4096, SCALE_MIN, 10)),
       AcceptCross(epoch - 1, epoch, n2c,
           Unwrap(Number(HmacSha256T32, id, epoch - 1, 4096, SCALE_MIN, 10))) >>

-----------------------------------------------------------------------------
\* Receiver::for_wire
Receiver(d) ==
    [sender_id |-> d.sender_id, epoch |-> epoch, cipher |-> d.cipher_id,
     seen_offsets |-> <<>>]

RejectDatagram(wire, fault, rx) ==
    [kind |-> "reject_datagram", fault |-> fault, receiver_sender |-> rx.sender_id,
     receiver_epoch |-> rx.epoch, configured_cipher |-> rx.cipher,
     direction |-> n2c, seen_offsets |-> rx.seen_offsets, wire |-> wire]

\* authentic_with_payload: a payload the codec would not build, under a good tag.
Authentic(d, payload) ==
    Unwrap(Sealed(d, EpochKey(secret, d.sender_id, epoch, n2c), epoch, payload))

\* with_byte; octets count from 0 in the source and from 1 here.
WithByte(wire, i, octet) == [wire EXCEPT !.octets[i] = octet]

NumberOf(sender_id, off) == Unwrap(Number(HmacSha256T64, sender_id, epoch, off, 2, 2350))

base == NumberOf(id, 4096)
rx == Receiver(base)
WireOf(d) == Unwrap(Encode(d, secret, epoch, n2c, 65535))

\* The last octet cut off: all of it the tag's.
CutShort(wire) == [wire EXCEPT !.tag.len = @ - 1]

\* One rejected datagram per check of decode.
PipelineRejects ==
    LET wire == WireOf(base)
        o    == wire.octets
    IN  << RejectDatagram(CutShort(wire), "short_length", rx),
           RejectDatagram(WithByte(wire, 1, (o[1] % 32) + 64), "unsupported_version", rx),
           RejectDatagram(WithByte(wire, 1, (o[1] \div 32) * 32), "msg_type_0x00", rx),
           RejectDatagram(WithByte(wire, 1, (o[1] \div 32) * 32 + 6),
                          "unimplemented_msg_type", rx),
           RejectDatagram(WireOf(NumberOf(stranger, 4096)), "unknown_sender",
                          [Receiver(NumberOf(stranger, 4096)) EXCEPT !.sender_id = id]),
           RejectDatagram(WithByte(wire, 2, (o[2] % 16) + 2 * 16), "cipher_mismatch",
                          [rx EXCEPT !.cipher = SipHash24]),
           RejectDatagram(WithByte(wire, 2, (o[2] \div 16) * 16 + 5),
                          "epoch_out_of_window", rx),
           RejectDatagram([wire EXCEPT !.tag = ForgedTag(8)], "corrupted_tag", rx),
           RejectDatagram(wire, "replayed_offset", [rx EXCEPT !.seen_offsets = <<4096>>]),
           RejectDatagram(WireOf(NumberOf(id, 50)), "offset_below_window",
                          [rx EXCEPT !.seen_offsets = <<100000>>]) >>

\* Authentic datagrams whose payload does not frame.
FramingRejects ==
    LET msg   == Unwrap(Data(MESSAGE, HmacSha256T64, id, epoch, 4096, <<Rec(1, 1, <<90>>)>>))
        event == Unwrap(Data(EVENT, HmacSha256T64, id, epoch, 4096, <<Rec(1, 7, <<170>>)>>))
        r1 == <<16, 16, 1>>
        r2 == <<16, 32, 1>>
        Fault(d, payload, fault) == RejectDatagram(Authentic(d, payload), fault, rx)
    IN  << Fault(msg, <<1>>, "framing_short_body"),
           Fault(msg, r1 \o <<90, 170, 187>>, "framing_trailing_fragment"),
           Fault(msg, <<16, 31, 255, 90>>, "framing_size_overrun"),
           Fault(msg, <<16, 16, 0, 90>>, "framing_size_zero"),
           Fault(msg, r1 \o <<90, 16, 31, 255>>, "framing_past_boundary"),
           Fault(event, r1 \o <<90>> \o r2 \o <<34>>, "framing_event_two_records") >>

-----------------------------------------------------------------------------
SeriesVector(payload, anchor, outcome) ==
    [kind |-> "series_payload", payload |-> payload, anchor_offset |-> anchor,
     outcome |-> outcome]

\* ser: scale, first mantissa, and the (delta, mantissa) entries.
Ser(scale, first_m, entries) ==
    <<scale>> \o U16Bytes(first_m)
        \o FlattenSeq([k \in DOMAIN entries |->
               U16Bytes(entries[k][1]) \o U16Bytes(entries[k][2])])

SeriesVectors ==
    << SeriesVector(Ser(1, 0, <<<<1, 1>>>>), 5, "accept"),
       SeriesVector(Ser(1, 0, <<<<65535, 1>>>>), 5, "accept"),
       SeriesVector(Ser(1, 0, [i \in 1 .. 124 |-> <<1, i - 1>>]), 5, "accept"),
       SeriesVector(Ser(2, 10, <<>>), 4096, "reject"),
       SeriesVector(Ser(2, 10, <<<<1, 20>>>>) \o <<0>>, 4096, "reject"),
       SeriesVector(Ser(2, 10, <<<<1, 20>>>>) \o <<0, 0>>, 4096, "reject"),
       SeriesVector(Ser(2, 10, <<<<0, 20>>>>), 4096, "reject"),
       SeriesVector(Ser(1, 0, <<<<8, 1>>>>), 524280, "reject") >>

RejectAnnounce(asserted, clock_state, last_epoch) ==
    [kind |-> "reject_time_announce", sender_id |-> id, asserted_time |-> asserted,
     clock_state |-> clock_state, last_epoch |-> last_epoch,
     wire |-> Unwrap(TimeAnnounce(id, asserted, secret))]

ColdStartVectors ==
    << RejectAnnounce(1700000000, "cold", epoch),
       RejectAnnounce(1800000000, "valid", epoch) >>

TimeVectors ==
    << [kind |-> "accept_time_request", sender_id |-> id,
        wire |-> Unwrap(TimeRequest(id, secret))],
       [kind |-> "accept_time_announce", sender_id |-> id, asserted_time |-> 1700000000,
        wire |-> Unwrap(TimeAnnounce(id, 1700000000, secret))] >>

NumberVector(payload, outcome) ==
    [kind |-> "number_payload", payload |-> payload, outcome |-> outcome]

NumberVectors ==
    [i \in 1 .. 6 |->
        NumberVector(<<IF i <= 3 THEN SCALE_MIN ELSE SCALE_MAX>>
                        \o U16Bytes(<<0, -32768, 32767>>[((i - 1) % 3) + 1]), "accept")]
    \o << NumberVector(<<0, 0, 1>>, "reject"),
          NumberVector(<<8, 0, 1>>, "reject"),
          NumberVector(<<2, 0>>, "reject"),
          NumberVector(<<2, 0, 1, 0>>, "reject") >>

Suites == <<HmacSha256T64, HmacSha256T32, SipHash24, ChaCha20Poly1305>>

\* main: every vector, in the order of the files.
TestVectors ==
    FlattenSeq([i \in 1 .. 4 |-> PerCipher(Suites[i])])
        \o Boundaries \o ReservedBits \o NoncePair
        \o PipelineRejects \o FramingRejects \o LateBoundaries
        \o SeriesVectors \o ColdStartVectors \o TimeVectors \o NumberVectors
=============================================================================
