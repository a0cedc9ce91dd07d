--------------------------- MODULE MCInboundLimiter ---------------------------
(***************************************************************************)
(* InboundLimiter for TLC: a token of 4 fractions refilled at 3 a          *)
(* millisecond, so that refills leave remainders, and a CountMax small     *)
(* enough for the first refill to saturate.                                *)
(***************************************************************************)
EXTENDS InboundLimiter
=============================================================================
