--------------------------- MODULE MonitorHealth ---------------------------
(***************************************************************************)
(* What the monitor remembers about one unit (symbol, base timeframe) and  *)
(* how an outcome changes it: app/monitor/health.py and the bookkeeping    *)
(* methods _apply, _process_structure and _process_setup of                *)
(* app/monitor/runtime.py.  Constant-level: the loop is in Monitor.        *)
(*                                                                         *)
(* Instants are natural numbers; None (0) is Python's None: the clock of   *)
(* every model starts after 0.                                             *)
(***************************************************************************)
EXTENDS Integers

CONSTANTS UnitMaxAttempts,      \* attempts per (unit, bar) before giving up
          BackoffBase,          \* unit_backoff_base_s
          BackoffMax            \* unit_backoff_max_s

ASSUME ConfigAssumption ==
    /\ UnitMaxAttempts \in Nat \ {0}
    /\ BackoffBase \in Nat \ {0}
    /\ BackoffMax \in Nat \ {0}
    /\ BackoffBase <= BackoffMax

None == 0

Min2(a, b) == IF a < b THEN a ELSE b

RetryableStatuses ==
    {"api_temporary_error", "persistence_error", "feature_error",
     "regime_error", "internal_error", "invalid_data"}

FailureStatuses == RetryableStatuses \cup {"api_error", "retry_exhausted"}

\* Outcomes that finish the bar without being a failure.
FinalStatuses ==
    {"ok", "stale", "warmup_insufficient", "data_quality_failure"}

UnitStatuses ==
    FailureStatuses \cup FinalStatuses \cup {"pending", "waiting_for_bar"}

\* The outcomes _process can return (retry_exhausted is _apply's own).
Outcomes ==
    RetryableStatuses \cup FinalStatuses \cup {"api_error", "waiting_for_bar"}

StepRetryable == {"error", "persistence_error"}

StepResults == {"ok", "unavailable"} \cup StepRetryable

StepStatuses == StepResults \cup {"none", "retry_exhausted"}

-----------------------------------------------------------------------------
(* base * 2^(n-1) where it fits under the cap, else the cap. *)
Backoff(n) ==
    LET fits == {d \in 0..BackoffMax : d = BackoffBase * 2^(n - 1)}
    IN  IF fits = {} THEN BackoffMax ELSE CHOOSE d \in fits : TRUE

(* Bookkeeping of the structure step and of the setup step: the same shape. *)
StepState ==
    [status : StepStatuses, last_as_of : Nat, attempt_bar : Nat,
     attempts : Nat]

NewStep ==
    [status |-> "none", last_as_of |-> None, attempt_bar |-> None,
     attempts |-> 0]

UnitState ==
    [status : UnitStatuses, last_processed_as_of : Nat, last_ok_as_of : Nat,
     attempt_bar : Nat, attempts_for_bar : Nat, consecutive_failures : Nat,
     next_attempt_at : Nat]

NewUnit ==
    [status |-> "pending", last_processed_as_of |-> None,
     last_ok_as_of |-> None, attempt_bar |-> None, attempts_for_bar |-> 0,
     consecutive_failures |-> 0, next_attempt_at |-> None]

-----------------------------------------------------------------------------
(* A new bar starts with a fresh attempt budget. *)
Budgeted(r, b) ==
    IF r.attempt_bar = b THEN r
    ELSE [r EXCEPT !.attempt_bar = b, !.attempts_for_bar = 0]

\* Mutant: the budget is compared before the attempt is counted.
RetriedOnceMore(r, status, b, now) ==
    LET n == r.attempts_for_bar + 1
        f == r.consecutive_failures + 1
        exhausted == r.attempts_for_bar >= UnitMaxAttempts
    IN  [status |-> IF exhausted THEN "retry_exhausted" ELSE status,
         last_processed_as_of |-> IF exhausted THEN b ELSE r.last_processed_as_of,
         last_ok_as_of |-> r.last_ok_as_of,
         attempt_bar |-> r.attempt_bar,
         attempts_for_bar |-> IF exhausted THEN 0 ELSE n,
         consecutive_failures |-> f,
         next_attempt_at |-> now + Backoff(f)]

Retried(r, status, b, now) ==
    LET n == r.attempts_for_bar + 1
        f == r.consecutive_failures + 1
        exhausted == n >= UnitMaxAttempts
    IN  [status |-> IF exhausted THEN "retry_exhausted" ELSE status,
         last_processed_as_of |-> IF exhausted THEN b ELSE r.last_processed_as_of,
         last_ok_as_of |-> r.last_ok_as_of,
         attempt_bar |-> r.attempt_bar,
         attempts_for_bar |-> IF exhausted THEN 0 ELSE n,
         consecutive_failures |-> f,
         next_attempt_at |-> now + Backoff(f)]

Finished(r, status, b, now) ==
    LET f == IF status \in FailureStatuses THEN r.consecutive_failures + 1
             ELSE 0
    IN  [status |-> status,
         last_processed_as_of |-> b,
         last_ok_as_of |-> IF status = "ok" THEN b ELSE r.last_ok_as_of,
         attempt_bar |-> r.attempt_bar,
         attempts_for_bar |-> 0,
         consecutive_failures |-> f,
         next_attempt_at |-> IF f = 0 THEN None ELSE now + Backoff(f)]

(* _apply: the unit after the outcome `status` for bar b at time now. *)
Applied(r, status, b, now) ==
    LET u == Budgeted(r, b)
    IN  IF status = "waiting_for_bar"
        THEN [u EXCEPT !.status = status, !.next_attempt_at = None]
        ELSE IF status \in RetryableStatuses
        THEN Retried(u, status, b, now)
        ELSE Finished(u, status, b, now)

(* A structure or setup step that ended with `result` for bar b. *)
Stepped(p, b, result) ==
    LET n == IF p.attempt_bar = b THEN p.attempts ELSE 0
        failed == result \in StepRetryable
        exhausted == failed /\ n + 1 >= UnitMaxAttempts
    IN  [status |-> IF exhausted THEN "retry_exhausted" ELSE result,
         last_as_of |-> IF failed /\ ~exhausted THEN p.last_as_of ELSE b,
         attempt_bar |-> b,
         attempts |-> IF failed THEN n + 1 ELSE n]

\* Mutant: a step whose result could not be saved is not owed.
PendingAfterErrorOnly(p, b) ==
    /\ p.attempt_bar = b
    /\ p.last_as_of # b
    /\ p.status = "error"

(* The regime of bar b is done and the step is still owed. *)
StepPending(p, b) ==
    /\ p.attempt_bar = b
    /\ p.last_as_of # b
    /\ p.status \in StepRetryable
=============================================================================
