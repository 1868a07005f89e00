----------------------------- MODULE ResilientCall -----------------------------
(***************************************************************************)
(* The wrapper that @resilient_call puts around a coroutine, and the       *)
(* concurrent calls that go through it to one shared circuit breaker.  A   *)
(* call gives up the event loop in exactly three places: while it awaits   *)
(* an attempt, while it sleeps before a retry, and while it awaits the     *)
(* fallback.  Between two of them it runs without interruption, so check() *)
(* and the start of an attempt are one step, and so are the end of an      *)
(* attempt, its record_* and what the loop does next.                      *)
(*                                                                         *)
(* An attempt may be cancelled, and may raise an exception its policy does *)
(* not list: neither reaches record_success or record_failure.             *)
(***************************************************************************)
EXTENDS CircuitBreaker

CONSTANTS
  WithFallback,  \* the calls whose decorator was given a fallback
  BaseDelay,     \* policy.base_delay, in ticks
  MaxDelay,      \* policy.max_delay, in ticks
  Exceptions,    \* the exception types an attempt may raise
  TimeoutError,  \* the one that wait_for raises
  RetryOn,       \* policy.retry_on
  DoNotRetryOn   \* policy.do_not_retry_on

ASSUME PolicyAssumption ==
  /\ WithFallback \subseteq Calls
  /\ BaseDelay \in Nat \ {0}
  /\ MaxDelay \in Nat
  /\ MaxDelay >= BaseDelay
  /\ TimeoutError \in Exceptions
  /\ RetryOn \subseteq Exceptions
  /\ DoNotRetryOn \subseteq Exceptions

VARIABLES
  pc,       \* where each call is
  attempt,  \* the loop counter, 0 before the loop
  delay,    \* the last backoff delay
  wait,     \* what is left of the current sleep
  probe     \* history: the half-open probe of this call is not recorded yet

callVars == <<pc, attempt, delay, wait, probe>>
vars == <<breakerVars, callVars>>

PC == {"idle", "running", "sleeping", "fallback", "done"}

TypeOK ==
  /\ BreakerTypeOK
  /\ pc \in [Calls -> PC]
  /\ attempt \in [Calls -> 0..MaxAttempts]
  /\ delay \in [Calls -> BaseDelay..MaxDelay]
  /\ wait \in [Calls -> 0..MaxDelay]
  /\ probe \in [Calls -> BOOLEAN]

Init ==
  /\ BreakerInit
  /\ pc = [c \in Calls |-> "idle"]
  /\ attempt = [c \in Calls |-> 0]
  /\ delay = [c \in Calls |-> BaseDelay]
  /\ wait = [c \in Calls |-> 0]
  /\ probe = [c \in Calls |-> FALSE]

-------------------------------------------------------------------------------

\* The wrapper returns or raises, and its local variables are gone.  What it
\* returns or raises makes no difference to any other call.
Finish(c) ==
  /\ pc' = [pc EXCEPT ![c] = "done"]
  /\ attempt' = [attempt EXCEPT ![c] = 0]
  /\ delay' = [delay EXCEPT ![c] = BaseDelay]
  /\ wait' = [wait EXCEPT ![c] = 0]

\* return await fallback(...) where there is one, an error otherwise.
FallbackOrFinish(c) ==
  \/ /\ c \in WithFallback
     /\ pc' = [pc EXCEPT ![c] = "fallback"]
     /\ UNCHANGED <<attempt, delay, wait>>
  \/ /\ c \notin WithFallback
     /\ Finish(c)

\* One turn of the loop up to its await: the pre-flight check, then the
\* attempt itself.
TryAttempt(c, n) ==
  \/ /\ Refuses
     /\ FallbackOrFinish(c)
     /\ UNCHANGED <<breakerVars, probe>>
  \/ /\ Admits
     /\ pc' = [pc EXCEPT ![c] = "running"]
     /\ attempt' = [attempt EXCEPT ![c] = n]
     /\ probe' = [probe EXCEPT ![c] = IsOpen]
     /\ UNCHANGED <<delay, wait>>

Invoke(c) ==
  /\ pc[c] = "idle"
  /\ TryAttempt(c, 1)

\* (mutant) the loop counter is not advanced.
Retry_SameAttempt(c) ==
  /\ pc[c] = "sleeping"
  /\ wait[c] = 0
  /\ TryAttempt(c, attempt[c])

\* (mutant) a refused retry waits for the breaker instead of giving up.
Retry_AwaitsBreaker(c) ==
  /\ pc[c] = "sleeping"
  /\ wait[c] = 0
  /\ ~Refuses
  /\ TryAttempt(c, attempt[c] + 1)

\* asyncio.sleep(delay) is over.
Retry(c) ==
  /\ pc[c] = "sleeping"
  /\ wait[c] = 0
  /\ TryAttempt(c, attempt[c] + 1)

\* (mutant) the delay is not capped.
Jitter_NoCap(prev) == BaseDelay..(prev * 3)

\* The range _decorrelated_jitter draws from.
Jitter(prev) == {d \in BaseDelay..MaxDelay : d <= prev * 3}

AttemptSucceeds(c) ==
  /\ pc[c] = "running"
  /\ record_success(c, attempt[c])
  /\ probe' = [probe EXCEPT ![c] = FALSE]
  /\ Finish(c)

\* The except clauses, in their order: TimeoutError is caught before
\* do_not_retry_on is looked at.
Retryable(e) == e = TimeoutError \/ (e \in RetryOn /\ e \notin DoNotRetryOn)
NonRetryable(e) == e # TimeoutError /\ e \in DoNotRetryOn

\* except TimeoutError / except policy.retry_on, then either the backoff
\* sleep or, after the last attempt, the fallback or ExhaustedError.
AttemptFails(c) ==
  /\ pc[c] = "running"
  /\ \E e \in Exceptions : Retryable(e)
  /\ record_failure(c, attempt[c])
  /\ probe' = [probe EXCEPT ![c] = FALSE]
  /\ \/ /\ attempt[c] < MaxAttempts
        /\ \E d \in Jitter(delay[c]) :
             /\ delay' = [delay EXCEPT ![c] = d]
             /\ wait' = [wait EXCEPT ![c] = d]
        /\ pc' = [pc EXCEPT ![c] = "sleeping"]
        /\ UNCHANGED attempt
     \/ /\ attempt[c] >= MaxAttempts
        /\ FallbackOrFinish(c)

\* except policy.do_not_retry_on: recorded, then re-raised past the fallback.
AttemptRejected(c) ==
  /\ pc[c] = "running"
  /\ \E e \in Exceptions : NonRetryable(e)
  /\ record_failure(c, attempt[c])
  /\ probe' = [probe EXCEPT ![c] = FALSE]
  /\ Finish(c)

\* An exception no clause names leaves the wrapper unrecorded.
AttemptEscapes(c) ==
  /\ pc[c] = "running"
  /\ \E e \in Exceptions : ~Retryable(e) /\ ~NonRetryable(e)
  /\ Finish(c)
  /\ UNCHANGED <<breakerVars, probe>>

\* CancelledError at any of the three awaits: it is no Exception, so no
\* except clause sees it.
Cancel(c) ==
  /\ pc[c] \in {"running", "sleeping", "fallback"}
  /\ Finish(c)
  /\ UNCHANGED <<breakerVars, probe>>

FallbackEnds(c) ==
  /\ pc[c] = "fallback"
  /\ Finish(c)
  /\ UNCHANGED <<breakerVars, probe>>

Tick ==
  /\ BreakerTick
  /\ wait' = [c \in Calls |-> IF wait[c] > 0 THEN wait[c] - 1 ELSE 0]
  /\ UNCHANGED <<pc, attempt, delay, probe>>

AttemptEnds(c) ==
  AttemptSucceeds(c) \/ AttemptFails(c) \/ AttemptRejected(c) \/ AttemptEscapes(c)

Next ==
  \/ Tick
  \/ \E c \in Calls :
       Invoke(c) \/ Retry(c) \/ AttemptEnds(c) \/ Cancel(c) \/ FallbackEnds(c)

\* wait_for bounds every attempt and sleep returns, so an attempt ends and a
\* sleeper wakes.  Nothing bounds the fallback, and nobody is obliged to call.
Fairness ==
  /\ WF_vars(Tick)
  /\ \A c \in Calls : WF_vars(Retry(c)) /\ WF_vars(AttemptEnds(c))

Spec == Init /\ [][Next]_vars /\ Fairness

-------------------------------------------------------------------------------

\* The loop counter of a call in the loop; a sleeping call has an attempt left.
LoopCounter ==
  \A c \in Calls :
    /\ pc[c] = "running" => attempt[c] \in 1..MaxAttempts
    /\ pc[c] = "sleeping" => attempt[c] \in 1..(MaxAttempts - 1)

\* A CLOSED breaker has seen fewer consecutive failures than trip it: no
\* interleaving of late outcomes leaves it closed past the threshold
\* (record_failure, record_success).
ClosedBelowThreshold == ~IsOpen => consecutive_failures < FailThreshold

\* A taken half-open slot belongs to a probe: the breaker is OPEN, its
\* cooldown is over, and some call let through as a probe has not recorded an
\* outcome.  That call is still running, or it has left the wrapper without
\* recording one and never will.
ProbeSlotHeld ==
  /\ half_open_probe => IsOpen /\ Cooled /\ \E c \in Calls : probe[c]
  /\ \A c \in Calls : probe[c] => pc[c] \in {"running", "done"}

\* Every attempt records at most one outcome: the attempts a running call has
\* on record are earlier ones, those of a sleeping call do not exceed its
\* loop counter, and a call that has not started has none.
RecordedOnce ==
  \A s \in samples :
    /\ pc[s.by] # "idle"
    /\ pc[s.by] = "running" => s.attempt < attempt[s.by]
    /\ pc[s.by] = "sleeping" => s.attempt <= attempt[s.by]

Running == {c \in Calls : pc[c] = "running"}

\* In the cooldown the set of attempts in flight only shrinks: neither a new
\* call nor a retry that wakes up reaches the protected service.
DrainsWhileOpen ==
  [][IsOpen /\ ~Cooled /\ IsOpen' => Running' \subseteq Running]_vars

\* The half-open probe of some call is recorded by this step.
ProbeReports == \E c \in Calls : probe[c] /\ ~probe'[c]

\* A failure reported late, by an attempt admitted before the breaker opened,
\* never restarts the cooldown of an OPEN breaker, whether it is reported in the
\* cooldown or beside the probe after it.  The failure of the probe itself is no
\* late one, and the doc of the class has it open the breaker anew.
LateFailureKeepsCooldown ==
  [][IsOpen /\ IsOpen' /\ ~(Cooled /\ ProbeReports) => openAge' >= openAge]_vars

\* However attempts fail, a started call leaves its attempt-and-sleep loop;
\* only a fallback can keep it from returning.
CallsTerminate ==
  \A c \in Calls :
    pc[c] \in {"running", "sleeping"} ~> pc[c] \in {"done", "fallback"}

\* An OPEN breaker does not refuse calls for ever, unless a probe left it
\* without recording an outcome.
AdmitsAgain ==
  IsOpen ~> (~Refuses \/ \E c \in Calls : probe[c] /\ pc[c] = "done")

\* The comment on half_open_probe, "Half-open probe in flight?", and the doc
\* of check: callers are rejected until the probe completes.
SlotTakenMeansInFlight ==
  half_open_probe => \E c \in Calls : probe[c] /\ pc[c] = "running"

===============================================================================
