-------------------------- MODULE ResilientCallProofs --------------------------
(***************************************************************************)
(* What holds of the resilient_call wrapper and its circuit breaker for    *)
(* every set of calls and every policy.                                    *)
(***************************************************************************)
EXTENDS ResilientCall, TLAPS

-------------------------------------------------------------------------------
(* The breaker alone: its operations keep it well typed.                   *)

LEMMA AdmitsType ==
  ASSUME BreakerTypeOK, Admits
  PROVE  BreakerTypeOK'
  BY DEF BreakerTypeOK, Admits, Sample

LEMMA SuccessType ==
  ASSUME BreakerTypeOK, NEW c \in Calls, NEW n \in 1..MaxAttempts,
         record_success(c, n)
  PROVE  BreakerTypeOK'
<1> DEFINE sample == [by |-> c, attempt |-> n, ok |-> TRUE, age |-> 0]
<1>1. sample \in Sample
  BY BreakerAssumption DEF Sample
<1>2. samples' \in SUBSET Sample
  BY <1>1 DEF BreakerTypeOK, record_success
<1>3. half_open_probe' \in BOOLEAN
  BY DEF record_success, SlotAfterSuccess, BreakerTypeOK
<1>4. consecutive_failures' \in Nat /\ openAge' = Closed
  BY DEF record_success
<1>5. QED
  BY <1>2, <1>3, <1>4 DEF BreakerTypeOK

LEMMA FailureType ==
  ASSUME BreakerTypeOK, NEW c \in Calls, NEW n \in 1..MaxAttempts,
         record_failure(c, n)
  PROVE  BreakerTypeOK'
<1> DEFINE sample == [by |-> c, attempt |-> n, ok |-> FALSE, age |-> 0]
<1>1. sample \in Sample
  BY BreakerAssumption DEF Sample
<1>2. samples' \in SUBSET Sample
  BY <1>1 DEF BreakerTypeOK, record_failure, Pruned
<1>3. consecutive_failures' \in Nat
  BY DEF record_failure, BreakerTypeOK
<1>4. openAge' = openAge \/ openAge' = 0
  <2>1. openAge' = OpenAgeAfterFailure(Pruned(samples \cup {sample}))
    BY DEF record_failure
  <2>2. QED
    BY <2>1 DEF OpenAgeAfterFailure
<1>5. 0 \in 0..ResetTimeout
  BY BreakerAssumption
<1>6. half_open_probe' = FALSE
  BY DEF record_failure, SlotAfterFailure
<1>7. QED
  BY <1>2, <1>3, <1>4, <1>5, <1>6 DEF BreakerTypeOK

LEMMA TickType ==
  ASSUME BreakerTypeOK, BreakerTick
  PROVE  BreakerTypeOK'
<1> USE BreakerAssumption
<1>1. \A s \in Sample : [s EXCEPT !.age = Older(s.age, Window + 1)] \in Sample
  BY DEF Sample, Older
<1>2. samples' \in SUBSET Sample
  BY <1>1 DEF BreakerTypeOK, BreakerTick
<1>3. openAge' \in {Closed} \cup 0..ResetTimeout
  BY DEF BreakerTypeOK, BreakerTick, Older, IsOpen, Closed
<1>4. QED
  BY <1>2, <1>3 DEF BreakerTypeOK, BreakerTick

-------------------------------------------------------------------------------
(* Type correctness of the wrapper.  The loop counter has to be carried    *)
(* along: a call that retries must have an attempt left.                   *)

CallTypeOK ==
  /\ pc \in [Calls -> PC]
  /\ attempt \in [Calls -> 0..MaxAttempts]
  /\ delay \in [Calls -> BaseDelay..MaxDelay]
  /\ wait \in [Calls -> 0..MaxDelay]
  /\ probe \in [Calls -> BOOLEAN]

TypeInv == BreakerTypeOK /\ CallTypeOK /\ LoopCounter

\* What every way out of the loop does to the variables of the calls.
LEMMA FinishType ==
  ASSUME CallTypeOK, LoopCounter, NEW c \in Calls, Finish(c),
         probe' \in [Calls -> BOOLEAN]
  PROVE  CallTypeOK' /\ LoopCounter'
<1> USE BreakerAssumption, PolicyAssumption
<1>1. "done" \in PC /\ 0 \in 0..MaxAttempts /\ 0 \in 0..MaxDelay
      /\ BaseDelay \in BaseDelay..MaxDelay
  BY DEF PC
<1>2. CallTypeOK'
  BY <1>1 DEF CallTypeOK, Finish
<1>3. LoopCounter'
  BY DEF CallTypeOK, LoopCounter, Finish, PC
<1>4. QED
  BY <1>2, <1>3

LEMMA FallbackOrFinishType ==
  ASSUME CallTypeOK, LoopCounter, NEW c \in Calls, FallbackOrFinish(c),
         probe' \in [Calls -> BOOLEAN]
  PROVE  CallTypeOK' /\ LoopCounter'
<1>1. CASE Finish(c)
  BY <1>1, FinishType
<1>2. CASE pc' = [pc EXCEPT ![c] = "fallback"] /\ UNCHANGED <<attempt, delay, wait>>
  BY <1>2 DEF CallTypeOK, LoopCounter, PC
<1>3. QED
  BY <1>1, <1>2 DEF FallbackOrFinish

\* One turn of the loop, given a loop counter within the policy's attempts.
LEMMA TryAttemptType ==
  ASSUME TypeInv, NEW c \in Calls, NEW n \in 1..MaxAttempts, TryAttempt(c, n)
  PROVE  TypeInv'
<1>1. CASE Refuses /\ FallbackOrFinish(c) /\ UNCHANGED <<breakerVars, probe>>
  <2>1. BreakerTypeOK'
    BY <1>1 DEF TypeInv, BreakerTypeOK, breakerVars
  <2>2. probe' \in [Calls -> BOOLEAN]
    BY <1>1 DEF TypeInv, CallTypeOK
  <2>3. QED
    BY <1>1, <2>1, <2>2, FallbackOrFinishType DEF TypeInv
<1>2. CASE /\ Admits
           /\ pc' = [pc EXCEPT ![c] = "running"]
           /\ attempt' = [attempt EXCEPT ![c] = n]
           /\ probe' = [probe EXCEPT ![c] = IsOpen]
           /\ UNCHANGED <<delay, wait>>
  <2>1. BreakerTypeOK'
    BY <1>2, AdmitsType DEF TypeInv
  <2>2. n \in 0..MaxAttempts /\ "running" \in PC
    BY BreakerAssumption DEF PC
  <2>3. probe' \in [Calls -> BOOLEAN]
    BY <1>2 DEF TypeInv, CallTypeOK, IsOpen
  <2>4. CallTypeOK'
    BY <1>2, <2>2, <2>3 DEF TypeInv, CallTypeOK
  <2>5. LoopCounter'
    BY <1>2 DEF TypeInv, CallTypeOK, LoopCounter
  <2>6. QED
    BY <2>1, <2>4, <2>5 DEF TypeInv
<1>3. QED
  BY <1>1, <1>2 DEF TryAttempt

LEMMA AttemptFailsType ==
  ASSUME TypeInv, NEW c \in Calls, AttemptFails(c)
  PROVE  TypeInv'
<1> USE BreakerAssumption, PolicyAssumption
<1>1. attempt[c] \in 1..MaxAttempts
  BY DEF TypeInv, LoopCounter, AttemptFails
<1>2. BreakerTypeOK'
  BY <1>1, FailureType DEF TypeInv, AttemptFails
<1>3. probe' \in [Calls -> BOOLEAN]
  BY DEF TypeInv, CallTypeOK, AttemptFails
<1>4. CASE FallbackOrFinish(c)
  BY <1>2, <1>3, <1>4, FallbackOrFinishType DEF TypeInv
<1>5. CASE /\ attempt[c] < MaxAttempts
           /\ \E d \in Jitter(delay[c]) :
                /\ delay' = [delay EXCEPT ![c] = d]
                /\ wait' = [wait EXCEPT ![c] = d]
           /\ pc' = [pc EXCEPT ![c] = "sleeping"]
           /\ UNCHANGED attempt
  <2>1. PICK d \in BaseDelay..MaxDelay :
          delay' = [delay EXCEPT ![c] = d] /\ wait' = [wait EXCEPT ![c] = d]
    BY <1>5 DEF Jitter
  <2>2. d \in 0..MaxDelay /\ "sleeping" \in PC
    BY DEF PC
  <2>3. CallTypeOK'
    BY <1>3, <1>5, <2>1, <2>2 DEF TypeInv, CallTypeOK
  <2>4. LoopCounter'
    BY <1>1, <1>5 DEF TypeInv, CallTypeOK, LoopCounter
  <2>5. QED
    BY <1>2, <2>3, <2>4 DEF TypeInv
<1>6. QED
  BY <1>4, <1>5 DEF AttemptFails

LEMMA InitTypeInv == Init => TypeInv
<1> SUFFICES ASSUME Init
             PROVE  TypeInv
  OBVIOUS
<1> USE BreakerAssumption, PolicyAssumption DEF Init
<1>1. BreakerTypeOK
  BY DEF BreakerInit, BreakerTypeOK
<1>2. CallTypeOK
  BY DEF CallTypeOK, PC
<1>3. LoopCounter
  BY DEF LoopCounter
<1>4. QED
  BY <1>1, <1>2, <1>3 DEF TypeInv

LEMMA NextTypeInv == TypeInv /\ [Next]_vars => TypeInv'
<1> SUFFICES ASSUME TypeInv, [Next]_vars
             PROVE  TypeInv'
  OBVIOUS
<1> USE BreakerAssumption, PolicyAssumption
<1>1. ASSUME NEW c \in Calls, Invoke(c)
      PROVE  TypeInv'
  <2>1. 1 \in 1..MaxAttempts
    OBVIOUS
  <2>2. QED
    BY <1>1, <2>1, TryAttemptType DEF Invoke
<1>2. ASSUME NEW c \in Calls, Retry(c)
      PROVE  TypeInv'
  <2>1. attempt[c] + 1 \in 1..MaxAttempts
    BY <1>2 DEF TypeInv, LoopCounter, Retry
  <2>2. QED
    BY <1>2, <2>1, TryAttemptType DEF Retry
<1>3. ASSUME NEW c \in Calls, AttemptSucceeds(c)
      PROVE  TypeInv'
  <2>1. attempt[c] \in 1..MaxAttempts
    BY <1>3 DEF TypeInv, LoopCounter, AttemptSucceeds
  <2>2. BreakerTypeOK'
    BY <1>3, <2>1, SuccessType DEF TypeInv, AttemptSucceeds
  <2>3. probe' \in [Calls -> BOOLEAN]
    BY <1>3 DEF TypeInv, CallTypeOK, AttemptSucceeds
  <2>4. QED
    BY <1>3, <2>2, <2>3, FinishType DEF TypeInv, AttemptSucceeds
<1>4. ASSUME NEW c \in Calls, AttemptFails(c)
      PROVE  TypeInv'
  BY <1>4, AttemptFailsType
<1>5. ASSUME NEW c \in Calls, AttemptRejected(c)
      PROVE  TypeInv'
  <2>1. attempt[c] \in 1..MaxAttempts
    BY <1>5 DEF TypeInv, LoopCounter, AttemptRejected
  <2>2. BreakerTypeOK'
    BY <1>5, <2>1, FailureType DEF TypeInv, AttemptRejected
  <2>3. probe' \in [Calls -> BOOLEAN]
    BY <1>5 DEF TypeInv, CallTypeOK, AttemptRejected
  <2>4. QED
    BY <1>5, <2>2, <2>3, FinishType DEF TypeInv, AttemptRejected
<1>6. ASSUME NEW c \in Calls, AttemptEscapes(c) \/ Cancel(c) \/ FallbackEnds(c)
      PROVE  TypeInv'
  <2>1. Finish(c) /\ UNCHANGED <<breakerVars, probe>>
    BY <1>6 DEF AttemptEscapes, Cancel, FallbackEnds
  <2>2. BreakerTypeOK'
    BY <2>1 DEF TypeInv, BreakerTypeOK, breakerVars
  <2>3. probe' \in [Calls -> BOOLEAN]
    BY <2>1 DEF TypeInv, CallTypeOK
  <2>4. QED
    BY <2>1, <2>2, <2>3, FinishType DEF TypeInv
<1>7. ASSUME Tick
      PROVE  TypeInv'
  <2>1. BreakerTypeOK'
    BY <1>7, TickType DEF TypeInv, Tick
  <2>2. CallTypeOK'
    BY <1>7 DEF TypeInv, CallTypeOK, Tick
  <2>3. LoopCounter'
    BY <1>7 DEF TypeInv, LoopCounter, Tick
  <2>4. QED
    BY <2>1, <2>2, <2>3 DEF TypeInv
<1>8. CASE UNCHANGED vars
  BY <1>8 DEF TypeInv, BreakerTypeOK, CallTypeOK, LoopCounter, vars, breakerVars, callVars
<1>9. QED
  BY <1>1, <1>2, <1>3, <1>4, <1>5, <1>6, <1>7, <1>8 DEF Next, AttemptEnds

\* Every reachable state of the breaker and of the calls is well typed: the
\* loop counter stays within max_attempts and every delay within the policy's
\* bounds.
THEOREM TypeCorrect == Spec => []TypeOK
<1>1. TypeInv => TypeOK
  BY DEF TypeInv, CallTypeOK, TypeOK
<1>2. QED
  BY <1>1, InitTypeInv, NextTypeInv, PTL DEF Spec

\* A call in the loop is within its attempts, and one that sleeps has an
\* attempt left.
THEOREM LoopCounterCorrect == Spec => []LoopCounter
<1>1. TypeInv => LoopCounter
  BY DEF TypeInv
<1>2. QED
  BY <1>1, InitTypeInv, NextTypeInv, PTL DEF Spec

-------------------------------------------------------------------------------
(* The safety invariants.  Every step of the system is one operation of    *)
(* the breaker, or leaves it alone.                                        *)

BreakerNext ==
  \/ UNCHANGED breakerVars
  \/ Admits
  \/ BreakerTick
  \/ \E c \in Calls, n \in 1..MaxAttempts : record_success(c, n)
  \/ \E c \in Calls, n \in 1..MaxAttempts : record_failure(c, n)

LEMMA StepsOfTheBreaker ==
  ASSUME TypeInv, [Next]_vars
  PROVE  BreakerNext
<1>1. ASSUME NEW c \in Calls, pc[c] = "running",
             record_success(c, attempt[c]) \/ record_failure(c, attempt[c])
      PROVE  BreakerNext
  <2>1. attempt[c] \in 1..MaxAttempts
    BY <1>1 DEF TypeInv, LoopCounter
  <2>2. QED
    BY <1>1, <2>1 DEF BreakerNext
<1>2. ASSUME NEW c \in Calls, Invoke(c) \/ Retry(c)
      PROVE  BreakerNext
  BY <1>2 DEF Invoke, Retry, TryAttempt, BreakerNext
<1>3. ASSUME NEW c \in Calls, AttemptEnds(c)
      PROVE  BreakerNext
  BY <1>1, <1>3 DEF AttemptEnds, AttemptSucceeds, AttemptFails, AttemptRejected,
                    AttemptEscapes, BreakerNext
<1>4. ASSUME NEW c \in Calls, Cancel(c) \/ FallbackEnds(c)
      PROVE  BreakerNext
  BY <1>4 DEF Cancel, FallbackEnds, BreakerNext
<1>5. CASE Tick
  BY <1>5 DEF Tick, BreakerNext
<1>6. CASE UNCHANGED vars
  BY <1>6 DEF vars, BreakerNext
<1>7. QED
  BY <1>2, <1>3, <1>4, <1>5, <1>6 DEF Next

\* What record_failure does to the OPEN state: nothing if the breaker is OPEN,
\* and a CLOSED breaker stays so only below the threshold.
LEMMA FailureOpens ==
  ASSUME NEW c \in Calls, NEW n \in 1..MaxAttempts, record_failure(c, n)
  PROVE  /\ half_open_probe' = FALSE
         /\ consecutive_failures' = consecutive_failures + 1
         /\ IsOpen => openAge' = openAge
         /\ ~IsOpen => \/ openAge' = 0
                       \/ /\ openAge' = Closed
                          /\ ~(consecutive_failures + 1 >= FailThreshold)
<1> DEFINE kept ==
      Pruned(samples \cup {[by |-> c, attempt |-> n, ok |-> FALSE, age |-> 0]})
<1>1. openAge' = OpenAgeAfterFailure(kept)
  BY DEF record_failure
<1>2. half_open_probe' = FALSE
  BY DEF record_failure, SlotAfterFailure
<1>3. consecutive_failures' = consecutive_failures + 1
  BY DEF record_failure
<1>4. IsOpen => openAge' = openAge
  BY <1>1 DEF OpenAgeAfterFailure
<1>5. CASE Trips(kept)
  BY <1>1, <1>2, <1>3, <1>4, <1>5 DEF OpenAgeAfterFailure
<1>6. CASE ~Trips(kept)
  <2>1. ~(consecutive_failures + 1 >= FailThreshold)
    BY <1>6 DEF Trips, ConsecutiveTrips
  <2>2. ~IsOpen => openAge' = Closed
    BY <1>1, <1>6 DEF OpenAgeAfterFailure, IsOpen
  <2>3. QED
    BY <1>2, <1>3, <1>4, <2>1, <2>2
<1>7. QED
  BY <1>5, <1>6

LEMMA InitClosedBelowThreshold == Init => ClosedBelowThreshold
  BY BreakerAssumption DEF Init, BreakerInit, ClosedBelowThreshold

LEMMA NextClosedBelowThreshold ==
  TypeInv /\ ClosedBelowThreshold /\ [Next]_vars => ClosedBelowThreshold'
<1> SUFFICES ASSUME TypeInv, ClosedBelowThreshold, [Next]_vars
             PROVE  ClosedBelowThreshold'
  OBVIOUS
<1> USE BreakerAssumption DEF ClosedBelowThreshold
<1>1. BreakerNext
  BY StepsOfTheBreaker
<1>2. CASE UNCHANGED breakerVars \/ Admits \/ BreakerTick
  <2>1. CASE UNCHANGED breakerVars \/ Admits
    BY <2>1 DEF breakerVars, Admits, IsOpen
  <2>2. CASE BreakerTick
    <3>1. IsOpen => IsOpen'
      BY <2>2 DEF TypeInv, BreakerTypeOK, BreakerTick, Older, IsOpen, Closed
    <3>2. consecutive_failures' = consecutive_failures
      BY <2>2 DEF BreakerTick
    <3>3. QED
      BY <3>1, <3>2
  <2>3. QED
    BY <1>2, <2>1, <2>2
<1>3. ASSUME NEW c \in Calls, NEW n \in 1..MaxAttempts, record_success(c, n)
      PROVE  ClosedBelowThreshold'
  BY <1>3 DEF record_success
<1>4. ASSUME NEW c \in Calls, NEW n \in 1..MaxAttempts, record_failure(c, n)
      PROVE  ClosedBelowThreshold'
  <2>1. consecutive_failures \in Nat /\ FailThreshold \in Nat
    BY DEF TypeInv, BreakerTypeOK
  <2>2. CASE IsOpen
    <3>1. openAge' = openAge
      BY <1>4, <2>2, FailureOpens
    <3>2. QED
      BY <2>2, <3>1 DEF IsOpen
  <2>3. CASE ~IsOpen
    <3>1. \/ openAge' = 0
          \/ ~(consecutive_failures + 1 >= FailThreshold)
      BY <1>4, <2>3, FailureOpens
    <3>2. consecutive_failures' = consecutive_failures + 1
      BY <1>4, FailureOpens
    <3>3. QED
      BY <2>1, <3>1, <3>2 DEF IsOpen, Closed
  <2>4. QED
    BY <2>2, <2>3
<1>5. QED
  BY <1>1, <1>2, <1>3, <1>4 DEF BreakerNext

\* However the outcomes of concurrent calls interleave, a breaker that is
\* CLOSED has not seen as many consecutive failures as trip it.
THEOREM ClosedBelowThresholdCorrect == Spec => []ClosedBelowThreshold
  BY InitTypeInv, NextTypeInv, InitClosedBelowThreshold, NextClosedBelowThreshold,
     PTL DEF Spec

LEMMA InitProbeSlotHeld == Init => ProbeSlotHeld
  BY DEF Init, BreakerInit, ProbeSlotHeld

\* A turn of the loop: a call let through while OPEN takes the slot itself, and
\* a refused one was no probe.
LEMMA TryAttemptSlot ==
  ASSUME TypeInv, ProbeSlotHeld, NEW c \in Calls, NEW n \in 1..MaxAttempts,
         pc[c] \in {"idle", "sleeping"}, TryAttempt(c, n)
  PROVE  ProbeSlotHeld'
<1>1. ~probe[c]
  BY DEF ProbeSlotHeld
<1>2. CASE Refuses /\ FallbackOrFinish(c) /\ UNCHANGED <<breakerVars, probe>>
  <2>1. \A b \in Calls \ {c} : pc'[b] = pc[b]
    BY <1>2 DEF TypeInv, CallTypeOK, FallbackOrFinish, Finish
  <2>2. QED
    BY <1>1, <1>2, <2>1 DEF ProbeSlotHeld, breakerVars, IsOpen, Cooled
<1>3. CASE /\ Admits
           /\ pc' = [pc EXCEPT ![c] = "running"]
           /\ probe' = [probe EXCEPT ![c] = IsOpen]
  <2>1. \A b \in Calls : probe'[b] => pc'[b] \in {"running", "done"}
    BY <1>3 DEF TypeInv, CallTypeOK, ProbeSlotHeld
  <2>2. CASE ~IsOpen
    <3>1. ~half_open_probe'
      BY <1>3, <2>2 DEF Admits, ProbeSlotHeld
    <3>2. QED
      BY <2>1, <3>1 DEF ProbeSlotHeld
  <2>3. CASE IsOpen
    <3>1. Cooled /\ openAge' = openAge
      BY <1>3, <2>3 DEF Admits, Refuses
    <3>2. probe'[c]
      BY <1>3, <2>3 DEF TypeInv, CallTypeOK
    <3>3. QED
      BY <2>1, <2>3, <3>1, <3>2 DEF ProbeSlotHeld, IsOpen, Cooled
  <2>4. QED
    BY <2>2, <2>3
<1>4. QED
  BY <1>2, <1>3 DEF TryAttempt

LEMMA NextProbeSlotHeld ==
  TypeInv /\ ProbeSlotHeld /\ [Next]_vars => ProbeSlotHeld'
<1> SUFFICES ASSUME TypeInv, ProbeSlotHeld, [Next]_vars
             PROVE  ProbeSlotHeld'
  OBVIOUS
<1> USE BreakerAssumption
<1>1. ASSUME NEW c \in Calls, Invoke(c) \/ Retry(c)
      PROVE  ProbeSlotHeld'
  <2>1. PICK n \in 1..MaxAttempts : TryAttempt(c, n)
    BY <1>1 DEF Invoke, Retry, TypeInv, LoopCounter
  <2>2. QED
    BY <1>1, <2>1, TryAttemptSlot DEF Invoke, Retry
<1>2. ASSUME NEW c \in Calls, pc[c] = "running",
             record_success(c, attempt[c]) \/ record_failure(c, attempt[c]),
             probe' = [probe EXCEPT ![c] = FALSE],
             \A b \in Calls \ {c} : pc'[b] = pc[b]
      PROVE  ProbeSlotHeld'
  <2>1. attempt[c] \in 1..MaxAttempts
    BY <1>2 DEF TypeInv, LoopCounter
  <2>2. ~half_open_probe'
    <3>1. CASE record_success(c, attempt[c])
      BY <3>1 DEF record_success, SlotAfterSuccess, ProbeSlotHeld
    <3>2. CASE record_failure(c, attempt[c])
      BY <2>1, <3>2, FailureOpens
    <3>3. QED
      BY <1>2, <3>1, <3>2
  <2>3. QED
    BY <1>2, <2>2 DEF TypeInv, CallTypeOK, ProbeSlotHeld
<1>3. ASSUME NEW c \in Calls, AttemptSucceeds(c) \/ AttemptFails(c) \/ AttemptRejected(c)
      PROVE  ProbeSlotHeld'
  <2>1. \A b \in Calls \ {c} : pc'[b] = pc[b]
    BY <1>3 DEF TypeInv, CallTypeOK, AttemptSucceeds, AttemptFails, AttemptRejected,
                FallbackOrFinish, Finish
  <2>2. QED
    BY <1>2, <1>3, <2>1 DEF AttemptSucceeds, AttemptFails, AttemptRejected
<1>4. ASSUME NEW c \in Calls, AttemptEscapes(c) \/ Cancel(c) \/ FallbackEnds(c)
      PROVE  ProbeSlotHeld'
  <2>1. pc' = [pc EXCEPT ![c] = "done"] /\ UNCHANGED <<breakerVars, probe>>
    BY <1>4 DEF AttemptEscapes, Cancel, FallbackEnds, Finish
  <2>2. QED
    BY <2>1 DEF TypeInv, CallTypeOK, ProbeSlotHeld, breakerVars, IsOpen, Cooled
<1>5. CASE Tick
  <2>1. UNCHANGED <<pc, probe, half_open_probe>>
    BY <1>5 DEF Tick, BreakerTick
  <2>2. IsOpen /\ Cooled => IsOpen' /\ Cooled'
    BY <1>5 DEF Tick, BreakerTick, Older, IsOpen, Cooled
  <2>3. QED
    BY <2>1, <2>2 DEF ProbeSlotHeld
<1>6. CASE UNCHANGED vars
  BY <1>6 DEF ProbeSlotHeld, vars, breakerVars, callVars, IsOpen, Cooled
<1>7. QED
  BY <1>1, <1>3, <1>4, <1>5, <1>6 DEF Next, AttemptEnds

\* The half-open slot is never taken by nobody: while it is taken the breaker
\* is OPEN, its cooldown is over, and a call let through as a probe has not
\* recorded an outcome.
THEOREM ProbeSlotHeldCorrect == Spec => []ProbeSlotHeld
  BY InitTypeInv, NextTypeInv, InitProbeSlotHeld, NextProbeSlotHeld, PTL DEF Spec

-------------------------------------------------------------------------------
(* The action properties of the OPEN state.                                *)

LEMMA StepNeverExtendsCooldown ==
  ASSUME TypeInv, [Next]_vars, IsOpen, IsOpen'
  PROVE  openAge' >= openAge
<1> USE BreakerAssumption
<1>1. BreakerNext
  BY StepsOfTheBreaker
<1>2. openAge \in Int
  BY DEF TypeInv, BreakerTypeOK, Closed
<1>3. CASE UNCHANGED breakerVars \/ Admits
  BY <1>2, <1>3 DEF breakerVars, Admits
<1>4. CASE BreakerTick
  BY <1>2, <1>4 DEF BreakerTick, Older
<1>5. ASSUME NEW c \in Calls, NEW n \in 1..MaxAttempts, record_success(c, n)
      PROVE  openAge' >= openAge
  BY <1>5 DEF record_success, IsOpen
<1>6. ASSUME NEW c \in Calls, NEW n \in 1..MaxAttempts, record_failure(c, n)
      PROVE  openAge' >= openAge
  <2>1. openAge' = openAge
    BY <1>6, FailureOpens
  <2>2. QED
    BY <1>2, <2>1
<1>7. QED
  BY <1>1, <1>3, <1>4, <1>5, <1>6 DEF BreakerNext

\* Failures reported late, by calls admitted before the breaker opened, do
\* not push the end of the cooldown away.
THEOREM LateFailureKeepsCooldownCorrect == Spec => LateFailureKeepsCooldown
<1>1. TypeInv /\ [Next]_vars =>
        [IsOpen /\ IsOpen' /\ ~(Cooled /\ ProbeReports) => openAge' >= openAge]_vars
  BY StepNeverExtendsCooldown
<1>2. QED
  BY <1>1, InitTypeInv, NextTypeInv, PTL DEF Spec, LateFailureKeepsCooldown

LEMMA StepDrains ==
  ASSUME TypeInv, [Next]_vars, IsOpen, ~Cooled
  PROVE  Running' \subseteq Running
<1> USE DEF Running
<1>1. Refuses
  BY DEF Refuses
<1>2. ASSUME NEW c \in Calls, NEW n \in Nat, TryAttempt(c, n)
      PROVE  Running' \subseteq Running
  BY <1>1, <1>2 DEF TypeInv, CallTypeOK, PC, TryAttempt, Admits, FallbackOrFinish, Finish
<1>3. ASSUME NEW c \in Calls, Invoke(c) \/ Retry(c)
      PROVE  Running' \subseteq Running
  <2>1. PICK n \in 1..MaxAttempts : TryAttempt(c, n)
    BY <1>3, BreakerAssumption DEF Invoke, Retry, TypeInv, LoopCounter
  <2>2. QED
    BY <1>2, <2>1
<1>4. ASSUME NEW c \in Calls, AttemptEnds(c) \/ Cancel(c) \/ FallbackEnds(c)
      PROVE  Running' \subseteq Running
  BY <1>4 DEF TypeInv, CallTypeOK, PC, AttemptEnds, AttemptSucceeds, AttemptFails,
              AttemptRejected, AttemptEscapes, Cancel, FallbackEnds,
              FallbackOrFinish, Finish
<1>5. CASE Tick \/ UNCHANGED vars
  BY <1>5 DEF Tick, vars, callVars
<1>6. QED
  BY <1>3, <1>4, <1>5 DEF Next

\* In the cooldown no attempt starts, whether of a new call or of one that
\* wakes up to retry: the attempts in flight can only end.
THEOREM DrainsWhileOpenCorrect == Spec => DrainsWhileOpen
<1>1. TypeInv /\ [Next]_vars =>
        [IsOpen /\ ~Cooled /\ IsOpen' => Running' \subseteq Running]_vars
  BY StepDrains
<1>2. QED
  BY <1>1, InitTypeInv, NextTypeInv, PTL DEF Spec, DrainsWhileOpen

-------------------------------------------------------------------------------
(* No attempt is counted twice in the sliding window.                      *)

LEMMA InitRecordedOnce == Init => RecordedOnce
  BY DEF Init, BreakerInit, RecordedOnce

\* The samples after a step of the breaker: what was there, aged or dropped,
\* and the outcome that was recorded.
LEMMA SamplesAfterRecord ==
  ASSUME NEW c \in Calls, NEW n \in 1..MaxAttempts,
         record_success(c, n) \/ record_failure(c, n)
  PROVE  \A s \in samples' : s \in samples \/ (s.by = c /\ s.attempt = n)
<1>1. CASE record_success(c, n)
  BY <1>1 DEF record_success
<1>2. CASE record_failure(c, n)
  BY <1>2 DEF record_failure, Pruned
<1>3. QED
  BY <1>1, <1>2

LEMMA TryAttemptRecordedOnce ==
  ASSUME TypeInv, RecordedOnce, NEW c \in Calls, NEW n \in 1..MaxAttempts,
         TryAttempt(c, n),
         \A s \in samples : s.by = c => s.attempt < n
  PROVE  RecordedOnce'
<1>1. samples' = samples
  BY DEF TryAttempt, Admits, breakerVars
<1>2. \A b \in Calls \ {c} : pc'[b] = pc[b] /\ attempt'[b] = attempt[b]
  BY DEF TypeInv, CallTypeOK, TryAttempt, FallbackOrFinish, Finish
<1>3. \/ pc'[c] \in {"done", "fallback"}
      \/ pc'[c] = "running" /\ attempt'[c] = n
  BY DEF TypeInv, CallTypeOK, TryAttempt, FallbackOrFinish, Finish
<1>4. \A s \in samples : s.by \in Calls
  BY DEF TypeInv, BreakerTypeOK, Sample
<1>5. QED
  BY <1>1, <1>2, <1>3, <1>4 DEF RecordedOnce

LEMMA NextRecordedOnce ==
  TypeInv /\ RecordedOnce /\ [Next]_vars => RecordedOnce'
<1> SUFFICES ASSUME TypeInv, RecordedOnce, [Next]_vars
             PROVE  RecordedOnce'
  OBVIOUS
<1> USE BreakerAssumption
<1>1. \A s \in samples : s.by \in Calls /\ s.attempt \in 1..MaxAttempts
  BY DEF TypeInv, BreakerTypeOK, Sample
<1>2. ASSUME NEW c \in Calls, Invoke(c)
      PROVE  RecordedOnce'
  <2>1. \A s \in samples : s.by # c
    BY <1>2 DEF Invoke, RecordedOnce
  <2>2. QED
    BY <1>2, <2>1, TryAttemptRecordedOnce DEF Invoke
<1>3. ASSUME NEW c \in Calls, Retry(c)
      PROVE  RecordedOnce'
  <2>1. attempt[c] + 1 \in 1..MaxAttempts
    BY <1>3 DEF Retry, TypeInv, LoopCounter
  <2>2. \A s \in samples : s.by = c => s.attempt < attempt[c] + 1
    BY <1>1, <1>3, <2>1 DEF Retry, RecordedOnce, TypeInv, CallTypeOK
  <2>3. QED
    BY <1>3, <2>1, <2>2, TryAttemptRecordedOnce DEF Retry
<1>4. ASSUME NEW c \in Calls, pc[c] = "running",
             record_success(c, attempt[c]) \/ record_failure(c, attempt[c]),
             \A b \in Calls \ {c} : pc'[b] = pc[b] /\ attempt'[b] = attempt[b],
             \/ pc'[c] \in {"done", "fallback"}
             \/ pc'[c] = "sleeping" /\ attempt'[c] = attempt[c]
      PROVE  RecordedOnce'
  <2>1. attempt[c] \in 1..MaxAttempts
    BY <1>4 DEF TypeInv, LoopCounter
  <2>2. \A s \in samples' : s \in samples \/ (s.by = c /\ s.attempt = attempt[c])
    BY <1>4, <2>1, SamplesAfterRecord
  <2>3. SUFFICES ASSUME NEW s \in samples'
                 PROVE  /\ pc'[s.by] # "idle"
                        /\ pc'[s.by] = "running" => s.attempt < attempt'[s.by]
                        /\ pc'[s.by] = "sleeping" => s.attempt <= attempt'[s.by]
    BY DEF RecordedOnce
  <2>4. CASE s.by = c
    <3>1. s.attempt <= attempt[c]
      BY <1>1, <1>4, <2>1, <2>2, <2>4 DEF RecordedOnce
    <3>2. QED
      BY <1>4, <2>4, <3>1
  <2>5. CASE s.by # c
    BY <1>1, <1>4, <2>2, <2>5 DEF RecordedOnce
  <2>6. QED
    BY <2>4, <2>5
<1>5. ASSUME NEW c \in Calls, AttemptSucceeds(c) \/ AttemptFails(c) \/ AttemptRejected(c)
      PROVE  RecordedOnce'
  <2>1. \A b \in Calls \ {c} : pc'[b] = pc[b] /\ attempt'[b] = attempt[b]
    BY <1>5 DEF TypeInv, CallTypeOK, AttemptSucceeds, AttemptFails, AttemptRejected,
                FallbackOrFinish, Finish
  <2>2. \/ pc'[c] \in {"done", "fallback"}
        \/ pc'[c] = "sleeping" /\ attempt'[c] = attempt[c]
    BY <1>5 DEF TypeInv, CallTypeOK, AttemptSucceeds, AttemptFails, AttemptRejected,
                FallbackOrFinish, Finish
  <2>3. QED
    BY <1>4, <1>5, <2>1, <2>2 DEF AttemptSucceeds, AttemptFails, AttemptRejected
<1>6. ASSUME NEW c \in Calls, AttemptEscapes(c) \/ Cancel(c) \/ FallbackEnds(c)
      PROVE  RecordedOnce'
  <2>1. /\ samples' = samples
        /\ pc' = [pc EXCEPT ![c] = "done"]
        /\ attempt' = [attempt EXCEPT ![c] = 0]
    BY <1>6 DEF AttemptEscapes, Cancel, FallbackEnds, Finish, breakerVars
  <2>2. QED
    BY <1>1, <2>1 DEF TypeInv, CallTypeOK, RecordedOnce
<1>7. CASE Tick
  <2>1. UNCHANGED <<pc, attempt>>
    BY <1>7 DEF Tick
  <2>2. \A s \in samples' : \E r \in samples : s.by = r.by /\ s.attempt = r.attempt
    BY <1>7 DEF Tick, BreakerTick, TypeInv, BreakerTypeOK, Sample
  <2>3. QED
    BY <2>1, <2>2 DEF RecordedOnce
<1>8. CASE UNCHANGED vars
  BY <1>8 DEF RecordedOnce, vars, breakerVars, callVars
<1>9. QED
  BY <1>2, <1>3, <1>5, <1>6, <1>7, <1>8 DEF Next, AttemptEnds

\* However calls interleave, every attempt enters the sliding window at most
\* once: an attempt in flight has recorded nothing yet.
THEOREM RecordedOnceCorrect == Spec => []RecordedOnce
  BY InitTypeInv, NextTypeInv, InitRecordedOnce, NextRecordedOnce, PTL DEF Spec

-------------------------------------------------------------------------------
(* The loop of the wrapper runs down: what CallsTerminate rests on, fairness *)
(* apart.                                                                   *)

InLoop(c) == pc[c] \in {"running", "sleeping"}

\* What is left of one turn of the loop: an attempt and the longest sleep.
Turn == MaxDelay + 2

\* A bound on the steps that are left to a call in the loop, the ticks of its
\* sleeps counted as steps.
LoopLeft(c) ==
  (MaxAttempts - attempt[c]) * Turn + (IF pc[c] = "running" THEN MaxDelay + 1 ELSE wait[c])

\* A call in the loop has at most MaxAttempts turns to make.  A step either
\* takes it out of the loop, or leaves it fewer, or is not its step at all; and
\* nothing gives it one more, neither a late failure nor the other calls.
LoopRunsDown ==
  [][\A c \in Calls : InLoop(c) =>
       /\ LoopLeft(c) \in 0..(MaxAttempts * Turn - 1)
       /\ \/ pc'[c] \in {"done", "fallback"}
          \/ InLoop(c)' /\ LoopLeft(c)' < LoopLeft(c)
          \/ UNCHANGED <<pc[c], attempt[c], LoopLeft(c)>>]_vars

\* One attempt more is one turn less.
LEMMA TurnsLeft ==
  ASSUME NEW n \in 1..MaxAttempts
  PROVE  /\ (MaxAttempts - n) * Turn \in 0..(MaxAttempts * Turn - Turn)
         /\ (MaxAttempts - (n + 1)) * Turn = (MaxAttempts - n) * Turn - Turn
         /\ Turn \in Nat /\ MaxDelay \in Nat /\ Turn = MaxDelay + 2
<1>1. Turn \in Nat /\ MaxDelay \in Nat /\ Turn = MaxDelay + 2
  BY PolicyAssumption DEF Turn
<1> DEFINE m == MaxAttempts - n
<1>2. m \in Nat /\ n \in Nat /\ n - 1 \in Nat /\ MaxAttempts = m + n
  BY BreakerAssumption
<1> HIDE DEF m
<1>3. m * Turn \in Nat /\ (n - 1) * Turn \in Nat
  BY <1>1, <1>2
<1>4. MaxAttempts * Turn = m * Turn + (n - 1) * Turn + Turn
  BY <1>1, <1>2
<1>5. (m - 1) * Turn = m * Turn - Turn
  BY <1>1, <1>2
<1>6. MaxAttempts * Turn \in Int /\ MaxAttempts - (n + 1) = m - 1 /\ MaxAttempts - n = m
  BY <1>1, <1>2, BreakerAssumption
<1>7. QED
  BY <1>1, <1>3, <1>4, <1>5, <1>6

LEMMA LoopLeftType ==
  ASSUME TypeInv, NEW c \in Calls, InLoop(c)
  PROVE  /\ LoopLeft(c) \in 0..(MaxAttempts * Turn - 1)
         /\ attempt[c] \in 1..MaxAttempts /\ wait[c] \in 0..MaxDelay
<1>1. attempt[c] \in 1..MaxAttempts /\ wait[c] \in 0..MaxDelay
  BY BreakerAssumption DEF TypeInv, CallTypeOK, LoopCounter, InLoop
<1>2. /\ (MaxAttempts - attempt[c]) * Turn \in 0..(MaxAttempts * Turn - Turn)
      /\ Turn \in Nat /\ MaxDelay \in Nat /\ Turn = MaxDelay + 2
  BY <1>1, TurnsLeft
<1>3. MaxAttempts * Turn \in Nat
  BY <1>2, BreakerAssumption
<1> DEFINE rest == IF pc[c] = "running" THEN MaxDelay + 1 ELSE wait[c]
<1>4. rest \in 0..(MaxDelay + 1)
  BY <1>1, <1>2
<1>5. (MaxAttempts - attempt[c]) * Turn + rest \in 0..(MaxAttempts * Turn - 1)
  BY <1>2, <1>3, <1>4
<1>6. QED
  BY <1>1, <1>5 DEF LoopLeft

\* A turn of the loop that is not the call's own changes nothing of it.
LEMMA OthersLoop ==
  ASSUME TypeInv, NEW c \in Calls, NEW d \in Calls \ {c},
         Invoke(d) \/ Retry(d) \/ AttemptEnds(d) \/ Cancel(d) \/ FallbackEnds(d)
  PROVE  UNCHANGED <<pc[c], attempt[c], LoopLeft(c)>>
<1> USE DEF TypeInv, CallTypeOK, LoopLeft, Turn
<1>1. CASE Invoke(d) \/ Retry(d)
  BY <1>1 DEF Invoke, Retry, TryAttempt, FallbackOrFinish, Finish
<1>2. CASE AttemptFails(d)
  BY <1>2 DEF AttemptFails, FallbackOrFinish, Finish
<1>3. CASE \/ AttemptSucceeds(d) \/ AttemptRejected(d) \/ AttemptEscapes(d)
           \/ Cancel(d) \/ FallbackEnds(d)
  BY <1>3 DEF AttemptSucceeds, AttemptRejected, AttemptEscapes, Cancel, FallbackEnds, Finish
<1>4. QED
  BY <1>1, <1>2, <1>3 DEF AttemptEnds

LEMMA RetryRunsDown ==
  ASSUME TypeInv, NEW c \in Calls, Retry(c)
  PROVE  pc'[c] \in {"done", "fallback"} \/ (InLoop(c)' /\ LoopLeft(c)' < LoopLeft(c))
<1>1. pc \in [Calls -> PC] /\ attempt \in [Calls -> 0..MaxAttempts]
  BY DEF TypeInv, CallTypeOK
<1>2. CASE FallbackOrFinish(c)
  BY <1>1, <1>2 DEF FallbackOrFinish, Finish
<1>3. CASE pc' = [pc EXCEPT ![c] = "running"] /\ attempt' = [attempt EXCEPT ![c] = attempt[c] + 1]
  <2> DEFINE n == attempt[c]
             rest == (MaxAttempts - n) * Turn
  <2>1. pc[c] = "sleeping" /\ wait[c] = 0 /\ InLoop(c)
    BY DEF Retry, InLoop
  <2>2. n \in 1..MaxAttempts
    BY <2>1, LoopLeftType
  <2>3. pc'[c] = "running" /\ attempt'[c] = n + 1
    BY <1>1, <1>3
  <2>4. /\ rest \in Int /\ (MaxAttempts - (n + 1)) * Turn = rest - Turn
        /\ Turn = MaxDelay + 2 /\ MaxDelay \in Nat
    BY <2>2, TurnsLeft
  <2>5. LoopLeft(c) = rest + 0 /\ LoopLeft(c)' = (MaxAttempts - (n + 1)) * Turn + (MaxDelay + 1)
    BY <2>1, <2>3 DEF LoopLeft, Turn
  <2>6. QED
    BY <2>3, <2>4, <2>5 DEF InLoop
<1>4. QED
  BY <1>2, <1>3 DEF Retry, TryAttempt

LEMMA AttemptEndsRunsDown ==
  ASSUME TypeInv, NEW c \in Calls, AttemptEnds(c) \/ Cancel(c)
  PROVE  pc'[c] \in {"done", "fallback"} \/ (InLoop(c)' /\ LoopLeft(c)' < LoopLeft(c))
<1>1. /\ pc \in [Calls -> PC] /\ attempt \in [Calls -> 0..MaxAttempts]
      /\ wait \in [Calls -> 0..MaxDelay]
  BY DEF TypeInv, CallTypeOK
<1>2. CASE FallbackOrFinish(c) \/ Finish(c)
  BY <1>1, <1>2 DEF FallbackOrFinish, Finish
<1>3. ASSUME NEW d \in Jitter(delay[c]), wait' = [wait EXCEPT ![c] = d], attempt' = attempt,
             pc' = [pc EXCEPT ![c] = "sleeping"], pc[c] = "running"
      PROVE  InLoop(c)' /\ LoopLeft(c)' < LoopLeft(c)
  <2> DEFINE rest == (MaxAttempts - attempt[c]) * Turn
  <2>1. d \in 0..MaxDelay /\ MaxDelay \in Nat
    BY PolicyAssumption DEF Jitter
  <2>2. pc'[c] = "sleeping" /\ wait'[c] = d /\ attempt'[c] = attempt[c]
    BY <1>1, <1>3
  <2>3. InLoop(c)
    BY <1>3 DEF InLoop
  <2>4. rest \in Int
    BY <2>3, LoopLeftType, TurnsLeft
  <2>5. LoopLeft(c) = rest + (MaxDelay + 1) /\ LoopLeft(c)' = rest + d
    BY <1>3, <2>2 DEF LoopLeft, Turn
  <2>6. QED
    BY <2>1, <2>2, <2>4, <2>5 DEF InLoop
<1>4. CASE AttemptFails(c)
  <2>1. CASE FallbackOrFinish(c)
    BY <1>2, <2>1
  <2>2. CASE /\ \E d \in Jitter(delay[c]) : wait' = [wait EXCEPT ![c] = d]
             /\ pc' = [pc EXCEPT ![c] = "sleeping"] /\ attempt' = attempt
    BY <1>3, <1>4, <2>2 DEF AttemptFails
  <2>3. QED
    BY <1>4, <2>1, <2>2 DEF AttemptFails
<1>5. CASE AttemptSucceeds(c) \/ AttemptRejected(c) \/ AttemptEscapes(c) \/ Cancel(c)
  BY <1>2, <1>5 DEF AttemptSucceeds, AttemptRejected, AttemptEscapes, Cancel
<1>6. QED
  BY <1>4, <1>5 DEF AttemptEnds

LEMMA TickRunsDown ==
  ASSUME TypeInv, NEW c \in Calls, InLoop(c), Tick
  PROVE  \/ InLoop(c)' /\ LoopLeft(c)' < LoopLeft(c)
         \/ UNCHANGED <<pc[c], attempt[c], LoopLeft(c)>>
<1>1. /\ pc' = pc /\ attempt' = attempt
      /\ wait'[c] = IF wait[c] > 0 THEN wait[c] - 1 ELSE 0
      /\ wait[c] \in 0..MaxDelay
  BY DEF Tick, TypeInv, CallTypeOK
<1> DEFINE rest == (MaxAttempts - attempt[c]) * Turn
<1>2. CASE wait[c] = 0
  BY <1>1, <1>2 DEF LoopLeft, Turn
<1>3. CASE pc[c] = "running"
  BY <1>1, <1>3 DEF LoopLeft, Turn
<1>4. CASE pc[c] = "sleeping" /\ wait[c] # 0
  <2>1. wait[c] \in Nat /\ wait'[c] = wait[c] - 1
    BY <1>1, <1>4, PolicyAssumption
  <2>2. LoopLeft(c) = rest + wait[c] /\ LoopLeft(c)' = rest + wait'[c]
    BY <1>1, <1>4 DEF LoopLeft, Turn
  <2>3. rest \in Int
    BY LoopLeftType, TurnsLeft
  <2>4. QED
    BY <1>1, <2>1, <2>2, <2>3 DEF InLoop
<1>5. QED
  BY <1>2, <1>3, <1>4 DEF InLoop

\* Whatever fails, and whenever the breaker trips, a call goes through its loop
\* at most MaxAttempts times.
THEOREM LoopRunsDownCorrect == Spec => LoopRunsDown
<1> DEFINE Down(c) == \/ pc'[c] \in {"done", "fallback"}
                      \/ InLoop(c)' /\ LoopLeft(c)' < LoopLeft(c)
                      \/ UNCHANGED <<pc[c], attempt[c], LoopLeft(c)>>
           RunsDown == \A c \in Calls : InLoop(c) =>
                         /\ LoopLeft(c) \in 0..(MaxAttempts * Turn - 1)
                         /\ Down(c)
<1>1. TypeInv /\ [Next]_vars => [RunsDown]_vars
  <2> SUFFICES ASSUME TypeInv, Next, NEW c \in Calls, InLoop(c) PROVE Down(c)
    BY LoopLeftType
  <2>1. CASE Tick
    BY <2>1, TickRunsDown
  <2>2. ASSUME NEW d \in Calls \ {c},
               Invoke(d) \/ Retry(d) \/ AttemptEnds(d) \/ Cancel(d) \/ FallbackEnds(d)
        PROVE  Down(c)
    BY <2>2, OthersLoop
  <2>3. CASE Retry(c)
    BY <2>3, RetryRunsDown
  <2>4. CASE AttemptEnds(c) \/ Cancel(c)
    BY <2>4, AttemptEndsRunsDown
  <2>5. ~Invoke(c) /\ ~FallbackEnds(c)
    BY DEF Invoke, FallbackEnds, InLoop
  <2>6. QED
    BY <2>1, <2>2, <2>3, <2>4, <2>5 DEF Next
<1>2. QED
  BY <1>1, InitTypeInv, NextTypeInv, PTL DEF Spec, LoopRunsDown

===============================================================================
