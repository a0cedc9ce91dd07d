-------------------------------- MODULE Wire --------------------------------
(***************************************************************************)
(* The encoding of records and datagrams (wire.rs), with the grammars of   *)
(* the NUMBER and SERIES payloads (lib.rs), at their real widths.          *)
(*                                                                         *)
(* What travels is a buffer: the octets of header and payload, and behind  *)
(* them the tag, kept apart because it is symbolic. A buffer that was cut  *)
(* or extended has a tag of another length; the payload decode then takes  *)
(* from it is never the one a tag was computed over. A sender_id is its    *)
(* four octets.                                                            *)
(***************************************************************************)
EXTENDS Registries, SequencesExt

Epoch == INSTANCE EpochMath
    WITH EpochSecs <- 128, TicksPerSec <- 4096, NanosPerSec <- 1000000000,
         EpochSpace <- 2147483647, LowSpace <- 16

Replay == INSTANCE ReplayBitmap
    WITH Entries <- 4096, MaxOffset <- TICKS_PER_EPOCH - 1

-----------------------------------------------------------------------------
\* Records: [format, schema_version, body].

HeaderWord(r) ==
    (r.format % 16) * 1048576 + (r.schema_version % 256) * 4096 + (Len(r.body) % 4096)

\* Record::write_into, where the body has a size the header can express.
RecordBytes(r) ==
    <<HeaderWord(r) \div 65536>> \o U16Bytes(HeaderWord(r)) \o r.body

WordAt(p, i) == p[i] * 65536 + U16(p, i + 1)

SizeAt(p, i) == WordAt(p, i) % 4096

FormatAt(p, i) == WordAt(p, i) \div 1048576

SchemaAt(p, i) == (WordAt(p, i) \div 4096) % 256

RecordAt(p, i) ==
    [format         |-> FormatAt(p, i),
     schema_version |-> SchemaAt(p, i),
     body           |-> SubSeq(p, i + RECORD_HEADER_LEN,
                                  i + RECORD_HEADER_LEN + SizeAt(p, i) - 1)]

\* Record::decode at octet i of the payload p answers Ok.
RecordIsAt(p, i) ==
    /\ i + RECORD_HEADER_LEN - 1 <= Len(p)
    /\ FormatAt(p, i) # 0
    /\ SchemaAt(p, i) # 0
    /\ SizeAt(p, i) # 0
    /\ i + RECORD_HEADER_LEN + SizeAt(p, i) - 1 <= Len(p)

\* Mutation (fewer octets than a header behind a record are passed over).
RecordsOfLax(p) ==
    LET from[i \in 1 .. Len(p) + 1] ==
            IF i + RECORD_HEADER_LEN - 1 > Len(p) THEN Ok(<<>>)
            ELSE IF ~RecordIsAt(p, i) THEN Err("Framing")
            ELSE LET rest == from[i + RECORD_HEADER_LEN + SizeAt(p, i)]
                 IN  IF IsOk(rest) THEN Ok(<<RecordAt(p, i)>> \o rest.value) ELSE rest
    IN  IF Len(p) < RECORD_HEADER_LEN THEN Err("Framing") ELSE from[1]

\* Step 9 for a record-framed type: records back to back, and nothing else.
RecordsOf(p) ==
    LET from[i \in 1 .. Len(p) + 1] ==
            IF i > Len(p) THEN Ok(<<>>)
            ELSE IF ~RecordIsAt(p, i) THEN Err("Framing")
            ELSE LET rest == from[i + RECORD_HEADER_LEN + SizeAt(p, i)]
                 IN  IF IsOk(rest) THEN Ok(<<RecordAt(p, i)>> \o rest.value) ELSE rest
    IN  IF Len(p) < RECORD_HEADER_LEN THEN Err("Framing") ELSE from[1]

ValidateNumber(p) ==
    IF Len(p) # NUMBER_PAYLOAD_LEN \/ ~ScaleIsValid(p[1])
    THEN Err("BadNumber") ELSE Ok(<<p[1], I16(p, 2)>>)

\* The first octet of the k-th (delta, mantissa) entry of a SERIES payload.
EntryAt(k) == NUMBER_PAYLOAD_LEN + SERIES_ENTRY_LEN * (k - 1) + 1

\* Mutation (deltas are counted from the first reading).
InstantsFromAnchor(p, anchor) ==
    [k \in 0 .. (Len(p) - NUMBER_PAYLOAD_LEN) \div SERIES_ENTRY_LEN |->
        IF k = 0 THEN anchor ELSE anchor + U16(p, EntryAt(k))]

\* The instants of a SERIES, from 0: its anchor and the running sum of deltas.
Instants(p, anchor) ==
    LET at[k \in 0 .. (Len(p) - NUMBER_PAYLOAD_LEN) \div SERIES_ENTRY_LEN] ==
            IF k = 0 THEN anchor ELSE at[k - 1] + U16(p, EntryAt(k))
    IN  at

\* validate_series. The sum is compared with the end of the epoch after every
\* delta; as deltas are positive, its last value says the same.
ValidateSeries(p, anchor) ==
    LET n  == (Len(p) - NUMBER_PAYLOAD_LEN) \div SERIES_ENTRY_LEN
        at == Instants(p, anchor)
    IN  IF \/ Len(p) <= NUMBER_PAYLOAD_LEN
           \/ ~ScaleIsValid(p[1])
           \/ (Len(p) - NUMBER_PAYLOAD_LEN) % SERIES_ENTRY_LEN # 0
           \/ \E k \in 1 .. n : U16(p, EntryAt(k)) = 0
           \/ at[n] >= TICKS_PER_EPOCH
        THEN Err("BadSeries")
        ELSE Ok([scale |-> p[1],
                 readings |-> [k \in 1 .. n + 1 |->
                     <<at[k - 1], I16(p, IF k = 1 THEN 2 ELSE EntryAt(k - 1) + 2)>>]])

-----------------------------------------------------------------------------
\* Datagrams, as a sender builds them.

Base(mt, cipher, sender_id, epoch_id, off) ==
    [version |-> VERSION, msg_type |-> mt, cipher_id |-> cipher,
     epoch_low |-> Epoch!LowBits(epoch_id), reserved |-> 0,
     datagram_offset |-> off, sender_id |-> sender_id,
     records |-> <<>>, raw |-> <<>>]

\* Datagram::data
Data(mt, cipher, sender_id, epoch_id, off, records) ==
    IF \/ ~IsRecordFramed(mt)
       \/ records = <<>>
       \/ SingleRecord(mt) /\ Len(records) > 1
       \/ off >= TICKS_PER_EPOCH
    THEN Err("Framing")
    ELSE Ok([Base(mt, cipher, sender_id, epoch_id, off) EXCEPT !.records = records])

\* Datagram::number
Number(cipher, sender_id, epoch_id, off, scale, mantissa) ==
    IF ~ScaleIsValid(scale) THEN Err("BadNumber")
    ELSE IF off >= TICKS_PER_EPOCH THEN Err("Framing")
    ELSE Ok([Base(NUMBER, cipher, sender_id, epoch_id, off)
                EXCEPT !.raw = <<scale>> \o U16Bytes(mantissa)])

SeriesPayload(scale, readings) ==
    <<scale>> \o U16Bytes(readings[1][2])
        \o FlattenSeq([k \in 1 .. Len(readings) - 1 |->
               U16Bytes(readings[k + 1][1] - readings[k][1])
                   \o U16Bytes(readings[k + 1][2])])

\* Mutation (only the first instant is compared with the end of the epoch).
SeriesUnbounded(cipher, sender_id, epoch_id, scale, readings) ==
    IF ~ScaleIsValid(scale) \/ Len(readings) < 2 THEN Err("BadSeries")
    ELSE IF readings[1][1] >= TICKS_PER_EPOCH THEN Err("Framing")
    ELSE IF \E k \in 2 .. Len(readings) :
                readings[k][1] - readings[k - 1][1] \notin 1 .. U16_MAX
         THEN Err("BadSeries")
    ELSE Ok([Base(SERIES, cipher, sender_id, epoch_id, readings[1][1])
                EXCEPT !.raw = SeriesPayload(scale, readings)])

\* Datagram::series, of a sequence of <<instant, mantissa>>.
Series(cipher, sender_id, epoch_id, scale, readings) ==
    IF ~ScaleIsValid(scale) \/ Len(readings) < 2 THEN Err("BadSeries")
    ELSE IF readings[1][1] >= TICKS_PER_EPOCH THEN Err("Framing")
    ELSE IF \/ \E k \in 2 .. Len(readings) :
                   readings[k][1] - readings[k - 1][1] \notin 1 .. U16_MAX
            \/ Last(readings)[1] >= TICKS_PER_EPOCH
         THEN Err("BadSeries")
    ELSE Ok([Base(SERIES, cipher, sender_id, epoch_id, readings[1][1])
                EXCEPT !.raw = SeriesPayload(scale, readings)])

\* Datagram::control
ControlDatagram(mt, cipher, sender_id, epoch_id, off, body) ==
    IF ~IsControl(mt) \/ off >= TICKS_PER_EPOCH THEN Err("Framing")
    ELSE Ok([Base(mt, cipher, sender_id, epoch_id, off) EXCEPT !.raw = body])

HeaderBytes(d) ==
    LET o == d.datagram_offset % TICKS_PER_EPOCH
    IN  <<(d.version % 8) * 32 + (d.msg_type % 32),
          (d.cipher_id % 16) * 16 + (d.epoch_low % 16),
          (d.reserved % 32) * 8 + (o \div 65536)>>
        \o U16Bytes(o) \o d.sender_id

\* The header image the MAC covers: the transmitted bits of the epoch zeroed,
\* the whole epoch put before the sender_id.
AuthHeader(d, epoch_id) ==
    SubSeq(HeaderBytes([d EXCEPT !.epoch_low = 0]), 1, 5)
        \o U32Bytes(epoch_id) \o d.sender_id

Payload(d) ==
    IF d.records # <<>>
    THEN FlattenSeq([i \in DOMAIN d.records |-> RecordBytes(d.records[i])])
    ELSE d.raw

\* payload_len of the records.
RecordsLen(rs) ==
    LET len[n \in 0 .. Len(rs)] ==
            IF n = 0 THEN 0 ELSE len[n - 1] + (RECORD_HEADER_LEN + Len(rs[n].body))
    IN  len[Len(rs)]

WireLen(d) ==
    HEADER_LEN + TagLen(d.cipher_id) +
        (IF d.records # <<>> THEN RecordsLen(d.records) ELSE Len(d.raw))

\* Header, payload and the tag over both under this key and epoch.
Sealed(d, key, epoch_id, payload) ==
    LET tag == Mac(d.cipher_id, key, AuthHeader(d, epoch_id) \o payload, d.datagram_offset)
    IN  IF IsOk(tag)
        THEN Ok([octets |-> HeaderBytes(d) \o payload, tag |-> tag.value])
        ELSE tag

\* encode_into, given a buffer of room octets.
EncodeInto(d, secret, epoch_id, dir, room) ==
    IF d.cipher_id \notin CipherIds THEN Err("CipherUnimplemented")
    ELSE IF room < WireLen(d) THEN Err("BufferTooSmall")
    ELSE IF \E i \in DOMAIN d.records : Len(d.records[i].body) \notin 1 .. MAX_BODY
         THEN Err("BodyTooLarge")
    ELSE Sealed(d, EpochKey(secret, d.sender_id, epoch_id, dir), epoch_id, Payload(d))

\* encode: the size limit is applied to the finished datagram.
Encode(d, secret, epoch_id, dir, max_datagram_size) ==
    IF d.cipher_id \notin CipherIds THEN Err("CipherUnimplemented")
    ELSE LET out == EncodeInto(d, secret, epoch_id, dir, WireLen(d))
         IN  IF IsOk(out) /\ WireLen(d) > max_datagram_size THEN Err("Oversize") ELSE out

\* What the two time messages have in common: suite 0x01, no epoch, offset 0.
TimeMessage(mt, sender_id, reserved, raw) ==
    [Base(mt, HmacSha256T64, sender_id, 0, 0) EXCEPT !.reserved = reserved, !.raw = raw]

SealedTime(mt, sender_id, secret, dir, raw) ==
    Sealed(TimeMessage(mt, sender_id, 0, raw), TimeKey(secret, sender_id, dir), 0, raw)

\* Datagram::time_request
TimeRequest(sender_id, secret) ==
    SealedTime(TIME_REQUEST, sender_id, secret, NodeToCollector, <<>>)

\* The 8 octets of a time before 2^31 seconds, past which no TLC integer goes.
TimeBytes(asserted) == <<0, 0, 0, 0>> \o U32Bytes(asserted)

\* Datagram::time_announce
TimeAnnounce(sender_id, asserted, secret) ==
    SealedTime(TIME_ANNOUNCE, sender_id, secret, CollectorToNode, TimeBytes(asserted))

-----------------------------------------------------------------------------
\* The header fields a receiver reads.

Length(buf) == Len(buf.octets) + buf.tag.len

VersionOf(buf)  == buf.octets[1] \div 32
TypeOf(buf)     == buf.octets[1] % 32
CipherOf(buf)   == buf.octets[2] \div 16
LowOf(buf)      == buf.octets[2] % 16
ReservedOf(buf) == buf.octets[3] \div 8
OffsetOf(buf)   == (buf.octets[3] % 8) * 65536 + U16(buf.octets, 4)
SenderOf(buf)   == SubSeq(buf.octets, 6, HEADER_LEN)
PayloadOf(buf)  == SubSeq(buf.octets, HEADER_LEN + 1, Len(buf.octets))

\* Mutation (the reserved bits taken for zero).
HeaderOfUnreserved(buf) ==
    [version |-> VersionOf(buf), msg_type |-> TypeOf(buf), cipher_id |-> CipherOf(buf),
     epoch_low |-> LowOf(buf), reserved |-> 0,
     datagram_offset |-> OffsetOf(buf), sender_id |-> SenderOf(buf),
     records |-> <<>>, raw |-> <<>>]

HeaderOf(buf) ==
    [version |-> VersionOf(buf), msg_type |-> TypeOf(buf), cipher_id |-> CipherOf(buf),
     epoch_low |-> LowOf(buf), reserved |-> ReservedOf(buf),
     datagram_offset |-> OffsetOf(buf), sender_id |-> SenderOf(buf),
     records |-> <<>>, raw |-> <<>>]

\* decode_time_request and decode_time_announce (length 0 and 8 of the payload),
\* with the header checks of check_time_header: the first one that fails.
TimeError(buf, mt, payload_len, sender_id, secret, dir) ==
    IF Length(buf) # HEADER_LEN + payload_len + TagLen(HmacSha256T64) THEN "TooShort"
    ELSE IF VersionOf(buf) # VERSION THEN "UnsupportedVersion"
    ELSE IF TypeOf(buf) # mt THEN "BadMsgType"
    ELSE IF CipherOf(buf) # HmacSha256T64 THEN "CipherMismatch"
    ELSE IF LowOf(buf) # 0 \/ OffsetOf(buf) # 0 THEN "Framing"
    ELSE IF SenderOf(buf) # sender_id THEN "UnknownSender"
    ELSE IF Sealed(TimeMessage(mt, sender_id, ReservedOf(buf), PayloadOf(buf)),
                   TimeKey(secret, sender_id, dir), 0, PayloadOf(buf)) # Ok(buf)
         THEN "AuthFailed"
    ELSE ""

DecodeTimeRequest(buf, sender_id, secret) ==
    Err(TimeError(buf, TIME_REQUEST, 0, sender_id, secret, NodeToCollector))

DecodeTimeAnnounce(buf, sender_id, secret) ==
    LET e == TimeError(buf, TIME_ANNOUNCE, 8, sender_id, secret, CollectorToNode)
    IN  IF e = "" THEN Ok(U16(buf.octets, 14) * 65536 + U16(buf.octets, 16)) ELSE Err(e)

\* Mutation (an epoch_low of no acceptable epoch is taken for the local one).
ReconstructedHere(buf, local_epoch) ==
    IF Epoch!ReconstructEpoch(local_epoch, LowOf(buf)) = Epoch!NoEpoch
    THEN local_epoch ELSE Epoch!ReconstructEpoch(local_epoch, LowOf(buf))

Reconstructed(buf, local_epoch) == Epoch!ReconstructEpoch(local_epoch, LowOf(buf))

\* Steps 1 to 7 of decode, for a peer [sender_id, secret, cipher, layouts]: the
\* error of the first check that fails. Nothing is kept of the datagram before
\* all of them have passed.
HeaderError(buf, peer, local_epoch, dir) ==
    IF Length(buf) < HEADER_LEN THEN "TooShort"
    ELSE IF VersionOf(buf) # VERSION THEN "UnsupportedVersion"
    ELSE IF TypeOf(buf) \notin MsgTypes \ TimeTypes THEN "BadMsgType"
    ELSE IF SenderOf(buf) # peer.sender_id THEN "UnknownSender"
    ELSE IF CipherOf(buf) # peer.cipher THEN "CipherMismatch"
    ELSE IF Length(buf) < HEADER_LEN + TagLen(peer.cipher) THEN "TooShort"
    ELSE IF Reconstructed(buf, local_epoch) = Epoch!NoEpoch THEN "EpochOutOfWindow"
    ELSE LET epoch_id == Reconstructed(buf, local_epoch)
             again == Sealed(HeaderOf(buf),
                             EpochKey(peer.secret, peer.sender_id, epoch_id, dir),
                             epoch_id, PayloadOf(buf))
         IN  IF ~IsOk(again) THEN again.error
             ELSE IF again.value.tag # buf.tag THEN "AuthFailed"
             ELSE ""

\* Mutation (two records in an EVENT or ALARM pass).
FramedLoosely(mt, p, off) ==
    IF IsRecordFramed(mt) THEN RecordsOf(p)
    ELSE IF mt = NUMBER THEN ValidateNumber(p)
    ELSE IF mt = SERIES THEN ValidateSeries(p, off)
    ELSE Ok(p)

\* Step 9: what the payload frames into, for its type.
Framed(mt, p, off) ==
    IF IsRecordFramed(mt)
    THEN LET rs == RecordsOf(p)
         IN  IF IsOk(rs) /\ SingleRecord(mt) /\ Len(rs.value) > 1 THEN Err("Framing") ELSE rs
    ELSE IF mt = NUMBER THEN ValidateNumber(p)
    ELSE IF mt = SERIES THEN ValidateSeries(p, off)
    ELSE Ok(p)

Held(peer, r) == <<r.format, r.schema_version>> \in peer.layouts

\* Step 10 partitions the records: the ones of layouts held, and the others.
Partition(peer, rs, held) ==
    LET part[n \in 0 .. Len(rs)] ==
            IF n = 0 THEN <<>>
            ELSE IF Held(peer, rs[n]) <=> held THEN Append(part[n - 1], rs[n])
            ELSE part[n - 1]
    IN  part[Len(rs)]

\* decode: the result, and the replay window it leaves.
Decode(buf, peer, local_epoch, dir, window) ==
    LET early == HeaderError(buf, peer, local_epoch, dir)
    IN  IF early # "" THEN [result |-> Err(early), window |-> window]
        ELSE IF ~Replay!Admits(window, OffsetOf(buf))
             THEN [result |-> Err("Replay"), window |-> window]
        ELSE LET mt     == TypeOf(buf)
                 framed == Framed(mt, PayloadOf(buf), OffsetOf(buf))
                 rs     == IF IsRecordFramed(mt) THEN framed.value ELSE <<>>
             IN  [result |->
                    IF ~IsOk(framed) THEN Err(framed.error)
                    ELSE Ok([datagram |-> [HeaderOf(buf) EXCEPT
                                              !.records = Partition(peer, rs, TRUE),
                                              !.raw = IF IsRecordFramed(mt) THEN <<>>
                                                      ELSE PayloadOf(buf)],
                             epoch_id |-> Reconstructed(buf, local_epoch),
                             skipped  |-> Partition(peer, rs, FALSE)]),
                  window |-> Replay!Admit(window, OffsetOf(buf))]
=============================================================================
