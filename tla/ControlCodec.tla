---------------------------- MODULE ControlCodec ----------------------------
(***************************************************************************)
(* The payloads of control messages (control.rs). They have one fixed      *)
(* layout each, except CAPABILITY_ADVERTISE, whose two lists carry their   *)
(* own counts. A time asserted by a TIME_ANNOUNCE stays below 2^31 here.   *)
(***************************************************************************)
EXTENDS Registries, SequencesExt

\* Capability::encode, of [max_version, ciphers, layouts].
EncodeCapability(c) ==
    IF Len(c.ciphers) > 255 \/ Len(c.layouts) > 255 THEN Err("Framing")
    ELSE Ok(<<c.max_version, Len(c.ciphers)>> \o c.ciphers
            \o <<Len(c.layouts)>> \o FlattenSeq(c.layouts))

\* Mutation (octets behind the two lists are ignored).
ParseCapabilityPrefix(p) ==
    IF Len(p) < 3 \/ Len(p) < 3 + p[2] THEN Err("Framing")
    ELSE LET nc == p[2]
             nl == p[3 + nc]
         IN  IF Len(p) < 3 + nc + 2 * nl THEN Err("Framing")
             ELSE Ok([max_version |-> p[1],
                      ciphers     |-> SubSeq(p, 3, 2 + nc),
                      layouts     |-> [i \in 1 .. nl |->
                                          <<p[2 + nc + 2 * i], p[3 + nc + 2 * i]>>]])

\* Capability::parse
ParseCapability(p) ==
    IF Len(p) < 3 \/ Len(p) < 3 + p[2] THEN Err("Framing")
    ELSE LET nc == p[2]
             nl == p[3 + nc]
         IN  IF Len(p) # 3 + nc + 2 * nl THEN Err("Framing")
             ELSE Ok([max_version |-> p[1],
                      ciphers     |-> SubSeq(p, 3, 2 + nc),
                      layouts     |-> [i \in 1 .. nl |->
                                          <<p[2 + nc + 2 * i], p[3 + nc + 2 * i]>>]])

\* Control: its msg_type and what it carries.
EpochAnnounce(target_epoch) == [mt |-> EPOCH_ANNOUNCE, body |-> target_epoch]

Heartbeat == [mt |-> HEARTBEAT, body |-> <<>>]

CapabilityAdvertise(c) == [mt |-> CAPABILITY_ADVERTISE, body |-> c]

\* Control::encode
EncodeControl(ctl) ==
    CASE ctl.mt = EPOCH_ANNOUNCE -> Ok(U32Bytes(ctl.body))
      [] ctl.mt = TIME_ANNOUNCE -> Ok(<<0, 0, 0, 0>> \o U32Bytes(ctl.body))
      [] ctl.mt = HEARTBEAT -> Ok(<<>>)
      [] ctl.mt = CAPABILITY_ADVERTISE -> EncodeCapability(ctl.body)

\* Control::parse, of a payload that was verified.
ParseControl(mt, p) ==
    CASE mt = EPOCH_ANNOUNCE /\ Len(p) = 4 ->
            Ok([mt |-> mt, body |-> U16(p, 1) * 65536 + U16(p, 3)])
      [] mt = TIME_ANNOUNCE /\ Len(p) = 8 ->
            Ok([mt |-> mt, body |-> U16(p, 5) * 65536 + U16(p, 7)])
      [] mt = HEARTBEAT /\ p = <<>> -> Ok([mt |-> mt, body |-> <<>>])
      [] mt = CAPABILITY_ADVERTISE ->
            LET c == ParseCapability(p)
            IN  IF IsOk(c) THEN Ok([mt |-> mt, body |-> c.value]) ELSE c
      [] OTHER -> Err("Framing")
=============================================================================
