--------------------------- MODULE InboundLimiter ---------------------------
(***************************************************************************)
(* One inbound rate limit under load: a peer whose datagrams authenticate  *)
(* asks for a token whenever it likes, and the receiver reads now_ms from  *)
(* its wall clock, as collector.rs does, which a time source may step      *)
(* back. elapsed is the time that really went by, which no code reads: the *)
(* limit is judged against it.                                             *)
(***************************************************************************)
EXTENDS TokenBucket, Sequences

CONSTANTS
    StartMs,      \* the first reading of the wall clock
    MaxElapsed,   \* bound: milliseconds modelled
    MaxBacksteps  \* bound: backward steps of the wall clock

ASSUME LimiterAssumption ==
    StartMs \in Nat /\ MaxElapsed \in Nat /\ MaxBacksteps \in Nat

VARIABLES
    limiter,    \* the InboundLimiter
    now_ms,     \* the wall clock
    elapsed,    \* time since the start
    last_try,   \* history: elapsed at the last call of try_acquire
    stepped,    \* history: the wall clock was stepped back since that call
    granted,    \* history: elapsed at every call that answered true
    backsteps

vars == <<limiter, now_ms, elapsed, last_try, stepped, granted, backsteps>>

Init ==
    /\ limiter = NewLimiter
    /\ now_ms = StartMs
    /\ elapsed = 0
    /\ last_try = 0
    /\ stepped = FALSE
    /\ granted = <<>>
    /\ backsteps = 0

\* One millisecond goes by.
Elapse ==
    /\ elapsed < MaxElapsed
    /\ elapsed' = elapsed + 1
    /\ now_ms' = now_ms + 1
    /\ UNCHANGED <<limiter, last_try, stepped, granted, backsteps>>

\* A time source steps the wall clock back to t.
StepBack(t) ==
    /\ backsteps < MaxBacksteps
    /\ t < now_ms
    /\ now_ms' = t
    /\ stepped' = TRUE
    /\ backsteps' = backsteps + 1
    /\ UNCHANGED <<limiter, elapsed, last_try, granted>>

\* try_acquire answers true: the datagram is handed on.
Grant ==
    /\ Acquires(limiter, now_ms)
    /\ limiter' = Acquire(limiter, now_ms)
    /\ granted' = Append(granted, elapsed)
    /\ last_try' = elapsed
    /\ stepped' = FALSE
    /\ UNCHANGED <<now_ms, elapsed, backsteps>>

\* try_acquire answers false: the datagram is counted as rate_limited.
Refuse ==
    /\ ~Acquires(limiter, now_ms)
    /\ limiter' = Acquire(limiter, now_ms)
    /\ last_try' = elapsed
    /\ stepped' = FALSE
    /\ UNCHANGED <<now_ms, elapsed, granted, backsteps>>

Next ==
    \/ Elapse
    \/ \E t \in 0 .. StartMs + MaxElapsed : StepBack(t)
    \/ Grant
    \/ Refuse

Spec == Init /\ [][Next]_vars

-----------------------------------------------------------------------------
\* Type correctness: the bucket never holds more than its capacity.
TypeOK ==
    /\ limiter \in [tokens : 0 .. Capacity, last_ms : 0 .. StartMs + MaxElapsed]
    /\ now_ms \in 0 .. StartMs + MaxElapsed
    /\ elapsed \in 0 .. MaxElapsed
    /\ last_try \in 0 .. elapsed
    /\ stepped \in BOOLEAN
    /\ granted \in Seq(0 .. elapsed)
    /\ backsteps \in 0 .. MaxBacksteps

\* Over every stretch of real time the limiter grants at most the burst and the
\* steady rate, however the calls are spaced, whatever the first reading of the
\* clock, and although the clock may be stepped back: PROTOCOL.md 10.3's inbound
\* limit as try_acquire enforces it.
RateBound ==
    \A i, j \in 1 .. Len(granted) :
        i <= j => (j - i + 1) * Token <= Capacity + PerMs * (granted[j] - granted[i])

\* A peer that left the limiter alone for the time of one token gets one, also
\* after a backward step once one call has seen it: last_ms follows the clock
\* back, so the limiter does not stay shut until the clock has caught up.
QuietPeerAdmitted ==
    ~stepped /\ PerMs * (elapsed - last_try) >= Token => Acquires(limiter, now_ms)
=============================================================================
