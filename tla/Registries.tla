----------------------------- MODULE Registries -----------------------------
(***************************************************************************)
(* The identifiers, sizes and keys of the protocol (lib.rs): cipher suites,*)
(* message types, record formats, the key schedule and the MAC.            *)
(*                                                                         *)
(* Cryptography is perfect here: a key is the tuple of what it is derived  *)
(* from, and a tag the tuple of what it authenticates, so that two tags    *)
(* are equal exactly when their inputs are. An operation that may fail     *)
(* returns Ok(value) or Err(the name of the Error variant).                *)
(***************************************************************************)
EXTENDS Integers, Sequences

Byte == 0 .. 255

Ok(v) == [error |-> "", value |-> v]

Err(e) == [error |-> e, value |-> <<>>]

IsOk(r) == r.error = ""

\* u16::MAX
U16_MAX == 65535

\* Big-endian integers of the wire; to_be_bytes of a negative number is that of
\* its two's complement.
U16Bytes(n) == <<(n \div 256) % 256, n % 256>>

U32Bytes(n) == U16Bytes(n \div 65536) \o U16Bytes(n)

U16(p, i) == 256 * p[i] + p[i + 1]

I16(p, i) == IF U16(p, i) > 32767 THEN U16(p, i) - 65536 ELSE U16(p, i)

-----------------------------------------------------------------------------
VERSION == 1
TICKS_PER_EPOCH == 524288
MAX_BODY == 4095
HEADER_LEN == 9
RECORD_HEADER_LEN == 3
NUMBER_PAYLOAD_LEN == 3
SERIES_ENTRY_LEN == 4
SCALE_MIN == 1
SCALE_MAX == 7
SCHEMA_UNSTRUCTURED == 255
MAX_DATAGRAM_IPV4 == 512

\* Direction
NodeToCollector == 0
CollectorToNode == 1

\* CipherId
HmacSha256T64 == 1
SipHash24 == 2
ChaCha20Poly1305 == 3
HmacSha256T32 == 4

CipherIds == 1 .. 4

TagLen(cipher) ==
    CASE cipher \in {HmacSha256T64, SipHash24} -> 8
      [] cipher = ChaCha20Poly1305 -> 16
      [] cipher = HmacSha256T32 -> 4

RequiresInboundRateLimit(cipher) == cipher = HmacSha256T32

\* MsgType
MESSAGE == 1
EVENT == 2
ALARM == 3
NUMBER == 4
SERIES == 5
EPOCH_ANNOUNCE == 16
TIME_ANNOUNCE == 17
TIME_REQUEST == 18
HEARTBEAT == 19
CAPABILITY_ADVERTISE == 20

MsgTypes ==
    {MESSAGE, EVENT, ALARM, NUMBER, SERIES, EPOCH_ANNOUNCE, TIME_ANNOUNCE,
     TIME_REQUEST, HEARTBEAT, CAPABILITY_ADVERTISE}

TimeTypes == {TIME_ANNOUNCE, TIME_REQUEST}

IsRecordFramed(mt) == mt \in {MESSAGE, EVENT, ALARM}

SingleRecord(mt) == mt \in {EVENT, ALARM}

\* is_control: bit 4 of the type.
IsControl(mt) == (mt \div 16) % 2 = 1

\* Format
Formats == 1 .. 6

ScaleIsValid(scale) == scale \in SCALE_MIN .. SCALE_MAX

-----------------------------------------------------------------------------
EpochKey(secret, sender_id, epoch_id, dir) ==
    <<"CATP1", secret, sender_id, epoch_id, dir>>

TimeKey(secret, sender_id, dir) == <<"CATP1-time", secret, sender_id, dir>>

\* mac, mac_into, mac_parts: only suite 0x03 draws a nonce from the offset, and
\* only it stages the message into a buffer of a fixed size.
Mac(cipher, key, msg, datagram_offset) ==
    IF cipher = ChaCha20Poly1305 /\ Len(msg) > MAX_DATAGRAM_IPV4
    THEN Err("Oversize")
    ELSE Ok([len |-> TagLen(cipher),
             mac |-> <<cipher, key,
                       IF cipher = ChaCha20Poly1305 THEN datagram_offset ELSE 0,
                       msg>>])

\* A tag that verifies under no key.
ForgedTag(len) == [len |-> len, mac |-> <<>>]
=============================================================================
