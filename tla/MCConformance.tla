---------------------------- MODULE MCConformance ---------------------------
(***************************************************************************)
(* The harnesses for TLC: payloads of up to eight of three octets, which   *)
(* hold two records or a SERIES of two readings, and arguments at the      *)
(* limits the constructors check.                                          *)
(***************************************************************************)
EXTENDS Conformance

\* Types whose payload has a grammar.
GrammarTypes == {MESSAGE, EVENT, SERIES, CAPABILITY_ADVERTISE}

\* 16, 16, 1 is the header of a record of one octet.
HeaderOctets == {0, 1, 16}

\* A delta of 16 ends one tick past the epoch.
LateOffset == TICKS_PER_EPOCH - 16

\* Both ends of an epoch, and gaps of 65535 and 65536 ticks.
EdgeInstants ==
    {0, 1, 65536, TICKS_PER_EPOCH - 65536, TICKS_PER_EPOCH - 2, TICKS_PER_EPOCH - 1,
     TICKS_PER_EPOCH}

\* Bodies at both ends of what a header expresses, one that fills a datagram, and
\* a reserved schema_version.
EdgeRecords ==
    {Rec(1, 1, <<>>), Rec(1, 1, <<90>>), Rec(1, 0, <<90>>), Rec(6, 255, Repeat(7, 480)),
     Rec(6, 255, Repeat(7, MAX_BODY)), Rec(1, 1, Repeat(7, MAX_BODY + 1))}
=============================================================================
