----------------------------- MODULE TokenBucket -----------------------------
(***************************************************************************)
(* The token bucket of one inbound rate limit (InboundLimiter of lib.rs)   *)
(* as a value and the functions over it. Amounts are in the fractions of a *)
(* token the code counts in: a token is 1 000 000 of them, and a           *)
(* millisecond refills 1000 * per_sec.                                     *)
(***************************************************************************)
EXTENDS Integers

CONSTANTS
    Token,     \* fractions of one token: 1_000_000
    PerMs,     \* fractions refilled in one millisecond: per_sec * 1000
    Burst,     \* RateLimit::burst
    CountMax   \* the largest u64

ASSUME BucketAssumption ==
    /\ Token \in Nat \ {0}
    /\ PerMs \in Nat
    /\ Burst \in Nat
    /\ CountMax \in Nat
    /\ (IF Burst > 1 THEN Burst ELSE 1) * Token <= CountMax

AtMost(a, b) == IF a < b THEN a ELSE b

\* saturating_sub and the two saturating operations of the refill.
SaturatingSub(a, b) == IF a > b THEN a - b ELSE 0

Saturating(a) == AtMost(a, CountMax)

\* A burst of 0 still lets one datagram through.
Capacity == (IF Burst > 1 THEN Burst ELSE 1) * Token

NewLimiter == [tokens |-> Capacity, last_ms |-> 0]

\* Mutation (no ceiling on what a quiet peer banks).
RefilledUncapped(b, now_ms) ==
    Saturating(b.tokens + Saturating(PerMs * SaturatingSub(now_ms, b.last_ms)))

\* The tokens at now_ms, before one is spent.
Refilled(b, now_ms) ==
    AtMost(Saturating(b.tokens + Saturating(PerMs * SaturatingSub(now_ms, b.last_ms))),
           Capacity)

\* try_acquire answers true.
Acquires(b, now_ms) == Refilled(b, now_ms) >= Token

\* Mutation (last_ms never moved backwards).
AcquireKeepingLast(b, now_ms) ==
    [tokens  |-> IF Acquires(b, now_ms) THEN Refilled(b, now_ms) - Token
                                        ELSE Refilled(b, now_ms),
     last_ms |-> IF now_ms > b.last_ms THEN now_ms ELSE b.last_ms]

\* Mutation (last_ms moved only when a token is spent: the refill of a refused
\* call is kept and credited once more).
AcquireRecredit(b, now_ms) ==
    [tokens  |-> IF Acquires(b, now_ms) THEN Refilled(b, now_ms) - Token
                                        ELSE Refilled(b, now_ms),
     last_ms |-> IF Acquires(b, now_ms) THEN now_ms ELSE b.last_ms]

\* The bucket after try_acquire, whatever it answers: last_ms follows the clock,
\* backwards too.
Acquire(b, now_ms) ==
    [tokens  |-> IF Acquires(b, now_ms) THEN Refilled(b, now_ms) - Token
                                        ELSE Refilled(b, now_ms),
     last_ms |-> now_ms]
=============================================================================
