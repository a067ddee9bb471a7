--------------------------------- MODULE Retry ---------------------------------
(***************************************************************************)
(* What a failure costs a job of a projection queue (workers/retry.py).    *)
(* Waits are left out: a job that failed is not due, and becomes due at    *)
(* any later moment.                                                       *)
(***************************************************************************)
EXTENDS Naturals

CONSTANTS
    MAX_ATTEMPTS,     \* attempts of a row before it is left where it is
    THROTTLE_BUDGET   \* refusals for bandwidth that cost no attempt

ASSUME RetryAssumption == MAX_ATTEMPTS \in Nat \ {0} /\ THROTTLE_BUDGET \in Nat

Kinds == {"permanent", "throttled", "exhausted", "transient"}

\* classify: whether the attempt is counted, for a job refused "throttled" times.
ConsumesAttempt(kind, throttled) ==
    \/ kind \in {"permanent", "transient"}
    \/ kind = "throttled" /\ throttled >= THROTTLE_BUDGET

\* The two counters of a row that waits for its next turn.
Counters == [attempts : 0 .. MAX_ATTEMPTS, throttled : 0 .. THROTTLE_BUDGET + MAX_ATTEMPTS]
NoFailures == [attempts |-> 0, throttled |-> 0]

\* A refusal beyond the budget has cost an attempt, so both stay bounded.
CountersOK(c) ==
    /\ c \in Counters
    /\ c.throttled <= THROTTLE_BUDGET + c.attempts

\* Seeded fault: a failure is not counted.
Uncounted(c, kind) == c

Rescheduled(c, kind) ==
    [attempts  |-> IF ConsumesAttempt(kind, c.throttled) THEN c.attempts + 1 ELSE c.attempts,
     throttled |-> IF kind = "throttled" THEN c.throttled + 1 ELSE c.throttled]

Stuck(c) == c.attempts >= MAX_ATTEMPTS
================================================================================
