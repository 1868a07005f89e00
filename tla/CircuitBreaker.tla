---------------------------- MODULE CircuitBreaker ----------------------------
(***************************************************************************)
(* The circuit breaker of core/resilience.py.  One breaker serves every    *)
(* call made under one policy name, on one asyncio event loop: check,      *)
(* record_success and record_failure contain no await, so each of them is  *)
(* one step.                                                               *)
(*                                                                         *)
(* Monotonic time stamps are kept as ages, which saturate at the value     *)
(* beyond which the code no longer distinguishes them: the age of the OPEN *)
(* state at ResetTimeout, the age of a sample just beyond Window.  Time    *)
(* therefore needs no bound.                                               *)
(***************************************************************************)
EXTENDS Integers, FiniteSets

CONSTANTS
  Calls,          \* the invocations that share the breaker
  MaxAttempts,    \* policy.max_attempts
  FailThreshold,  \* consecutive failures that trip the breaker
  ResetTimeout,   \* cooldown, in ticks
  Window,         \* sliding window of the error rate, in ticks
  RateNum,        \* the error-rate threshold is RateNum / RateDen
  RateDen

ASSUME BreakerAssumption ==
  /\ MaxAttempts \in Nat \ {0}
  /\ FailThreshold \in Nat \ {0}
  /\ ResetTimeout \in Nat
  /\ Window \in Nat
  /\ RateNum \in Nat
  /\ RateDen \in Nat \ {0}

VARIABLES
  consecutive_failures,
  samples,          \* recent_attempts; the failed ones are recent_failures
  openAge,          \* Closed, or the time since opened_at
  half_open_probe

breakerVars == <<consecutive_failures, samples, openAge, half_open_probe>>

Closed == -1        \* opened_at = 0.0

RateMinSamples == 4 \* below this many samples the error rate is ignored

\* One entry of recent_attempts.  Each attempt of each call records at most
\* one outcome, so the pair (by, attempt) tells the entries of the list apart.
Sample == [by : Calls, attempt : 1..MaxAttempts, ok : BOOLEAN, age : 0..(Window + 1)]

BreakerTypeOK ==
  /\ consecutive_failures \in Nat
  /\ samples \in SUBSET Sample
  /\ openAge \in {Closed} \cup 0..ResetTimeout
  /\ half_open_probe \in BOOLEAN

BreakerInit ==
  /\ consecutive_failures = 0
  /\ samples = {}
  /\ openAge = Closed
  /\ half_open_probe = FALSE

IsOpen == openAge # Closed
Cooled == openAge = ResetTimeout

-------------------------------------------------------------------------------

\* (mutant) check() looks only at the half-open slot.
Refuses_IgnoresCooldown == IsOpen /\ half_open_probe

\* check() raises CircuitOpenError: in the cooldown, or because the single
\* half-open slot is taken.
Refuses == IsOpen /\ (~Cooled \/ half_open_probe)

\* check() returns.  An OPEN breaker that lets a call through makes it the
\* probe and marks the slot taken.
Admits ==
  /\ ~Refuses
  /\ half_open_probe' = (half_open_probe \/ IsOpen)
  /\ UNCHANGED <<consecutive_failures, samples, openAge>>

\* (mutant) closing the breaker leaves the half-open slot taken.
SlotAfterSuccess_Kept == half_open_probe

SlotAfterSuccess == half_open_probe /\ ~IsOpen

\* record_success: the list grows without being pruned, and any success
\* closes an OPEN breaker, whoever reports it.
record_success(c, n) ==
  /\ samples' = samples \cup {[by |-> c, attempt |-> n, ok |-> TRUE, age |-> 0]}
  /\ consecutive_failures' = 0
  /\ openAge' = Closed
  /\ half_open_probe' = SlotAfterSuccess

\* _prune: samples that have left the sliding window are dropped.
Pruned(S) == {s \in S : s.age <= Window}

Failures(S) == {s \in S : ~s.ok}

\* rate >= threshold, over at least RateMinSamples samples.
RateTrips(S) ==
  /\ Cardinality(S) >= RateMinSamples
  /\ Cardinality(Failures(S)) * RateDen >= RateNum * Cardinality(S)

\* (mutant) one failure more than the threshold is needed.
ConsecutiveTrips_OffByOne(failures) == failures > FailThreshold

ConsecutiveTrips(failures) == failures >= FailThreshold

\* The failure count of this failure, or the error rate over S, trips.
Trips(S) == ConsecutiveTrips(consecutive_failures + 1) \/ RateTrips(S)

\* (mutant) a failure reported to an OPEN breaker starts the cooldown again.
OpenAgeAfterFailure_Restarts(S) == IF Trips(S) THEN 0 ELSE openAge

\* A cooldown starts only if the breaker is CLOSED.
OpenAgeAfterFailure(S) == IF Trips(S) /\ ~IsOpen THEN 0 ELSE openAge

\* (mutant) a failed probe keeps the half-open slot.
SlotAfterFailure_Kept == half_open_probe

\* The half-open slot is free again, whoever reports the failure.
SlotAfterFailure == FALSE

record_failure(c, n) ==
  LET failed == [by |-> c, attempt |-> n, ok |-> FALSE, age |-> 0]
      kept   == Pruned(samples \cup {failed})
  IN /\ samples' = kept
     /\ consecutive_failures' = consecutive_failures + 1
     /\ half_open_probe' = SlotAfterFailure
     /\ openAge' = OpenAgeAfterFailure(kept)

\* One tick of time.monotonic() as the breaker sees it.
Older(age, bound) == IF age < bound THEN age + 1 ELSE age

BreakerTick ==
  /\ openAge' = IF IsOpen THEN Older(openAge, ResetTimeout) ELSE Closed
  /\ samples' = {[s EXCEPT !.age = Older(s.age, Window + 1)] : s \in samples}
  /\ UNCHANGED <<consecutive_failures, half_open_probe>>

===============================================================================
