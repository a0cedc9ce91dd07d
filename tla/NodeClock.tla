------------------------------ MODULE NodeClock ------------------------------
(***************************************************************************)
(* The clock of a node that boots without a usable one (NodeClock of       *)
(* peer.rs) as a value and the functions over it: the backoff of its       *)
(* TIME_REQUESTs and its acceptance of a TIME_ANNOUNCE above the persisted *)
(* floor.                                                                  *)
(*                                                                         *)
(* Times are seconds. The code's are of type i64 and none of those a node  *)
(* meets comes near its ends, so that its saturating and unchecked         *)
(* operations are the plain ones; i64::MIN, the first next_request_at, is  *)
(* an instant before every other.                                          *)
(***************************************************************************)
EXTENDS EpochMath

CONSTANTS
    RequestBase,  \* TIME_REQUEST_BASE_SECS: 2
    RequestMax    \* TIME_REQUEST_MAX_SECS: 3600

ASSUME BackoffAssumption ==
    /\ RequestBase \in Nat \ {0}
    /\ RequestMax \in Nat /\ RequestMax >= RequestBase

AnyTime == -1

\* clockless
Clockless(last_epoch) ==
    [valid           |-> FALSE,
     last_epoch      |-> last_epoch,
     correction      |-> 0,
     next_request_at |-> AnyTime,
     request_backoff |-> RequestBase]

\* synced
Synced(last_epoch) == [Clockless(last_epoch) EXCEPT !.valid = TRUE]

\* may_request_time
MayRequest(c, monotonic) == ~c.valid /\ monotonic >= c.next_request_at

\* Mutation (the ceiling is not applied).
RequestedUncapped(c, monotonic) ==
    [c EXCEPT !.next_request_at = monotonic + c.request_backoff,
              !.request_backoff = 2 * @]

\* Mutation (the interval is not doubled).
RequestedSteadily(c, monotonic) ==
    [c EXCEPT !.next_request_at = monotonic + c.request_backoff]

\* record_time_request
Requested(c, monotonic) ==
    [c EXCEPT !.next_request_at = monotonic + c.request_backoff,
              !.request_backoff =
                  IF 2 * @ < RequestMax THEN 2 * @ ELSE RequestMax]

Floor(c) == c.last_epoch * EpochSecs

\* Mutation (the comparison swapped).
AcceptsBelow(c, asserted) == ~c.valid /\ asserted < Floor(c)

\* accept_time_announce answers Ok.
Accepts(c, asserted) == ~c.valid /\ asserted > Floor(c)

\* Mutation (the floor is left where it was).
SetToKeepingFloor(c, asserted, raw) ==
    [c EXCEPT !.valid = TRUE,
              !.correction = asserted - raw,
              !.request_backoff = RequestBase]

\* Mutation (the reading at acceptance is not subtracted).
SetToIgnoringRaw(c, asserted, raw) ==
    [c EXCEPT !.valid = TRUE,
              !.correction = asserted,
              !.last_epoch = EpochIdAt(asserted),
              !.request_backoff = RequestBase]

\* The clock after an announcement was accepted at the reading raw.
SetTo(c, asserted, raw) ==
    [c EXCEPT !.valid = TRUE,
              !.correction = asserted - raw,
              !.last_epoch = EpochIdAt(asserted),
              !.request_backoff = RequestBase]

\* now, once the clock is valid.
Corrected(c, raw) == raw + c.correction
=============================================================================
