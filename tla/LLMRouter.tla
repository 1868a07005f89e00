------------------------------- MODULE LLMRouter -------------------------------
(***************************************************************************)
(* The router of agents/llm/router.py: complete() tries the providers in   *)
(* their order, skipping those that are dead or whose breaker is open,     *)
(* until one answers; it returns None when the list is exhausted.  Agents  *)
(* that run concurrently share the router.                                 *)
(*                                                                         *)
(* A completion gives up the event loop only while it awaits a provider.   *)
(* The lock around a breaker is held without an await, hence always free:  *)
(* the end of an attempt, its record and the search for the next provider  *)
(* are one step.  An attempt may be cancelled with the run of its agent,   *)
(* and then records nothing.                                               *)
(*                                                                         *)
(* As in CircuitBreaker, the time stamp of an open breaker is kept as an   *)
(* age that saturates at the cooldown.                                     *)
(***************************************************************************)
EXTENDS Integers, FiniteSets

CONSTANTS
  Callers,       \* at most one completion of each is in progress
  NumProviders,
  FailThreshold, \* config.failure_threshold
  Cooldown       \* config.cooldown_s, in ticks

ASSUME RouterAssumption ==
  /\ IsFiniteSet(Callers)
  /\ NumProviders \in Nat
  /\ FailThreshold \in Nat \ {0}
  /\ Cooldown \in Nat \ {0}

VARIABLES
  consecutive_failures,
  openAge,  \* Closed, or the time since opened_at
  dead,     \* the providers with a configuration error
  at        \* the provider each caller's completion awaits, or Idle

breakerVars == <<consecutive_failures, openAge, dead>>
vars == <<breakerVars, at>>

Providers == 1..NumProviders
Closed == -1
Idle == 0

\* More failures than trip a breaker come only from attempts that were under
\* way when it tripped.
TypeOK ==
  /\ consecutive_failures \in [Providers -> 0..(FailThreshold - 1 + Cardinality(Callers))]
  /\ openAge \in [Providers -> {Closed} \cup 0..Cooldown]
  /\ dead \subseteq Providers
  /\ at \in [Callers -> Providers \cup {Idle}]

Init ==
  /\ consecutive_failures = [p \in Providers |-> 0]
  /\ openAge = [p \in Providers |-> Closed]
  /\ dead = {}
  /\ at = [c \in Callers |-> Idle]

-------------------------------------------------------------------------------
(* The breakers.  What a step does to them is a record of their new values, *)
(* for an attempt that ends is followed by the choice of the next one.      *)

Breakers == [failures |-> consecutive_failures, age |-> openAge, dead |-> dead]

\* (mutant) a configuration error is forgotten.
Available_Dead(b, p) == b.age[p] \in {Closed, Cooldown}

\* _is_available, the answer.
Available(b, p) == p \notin b.dead /\ b.age[p] \in {Closed, Cooldown}

\* (mutant) the failures before the cooldown still count.
HalfOpened_KeepsFailures(b, p) == [b EXCEPT !.age[p] = Closed]

\* _is_available, its effect: a breaker that has cooled down is reset.
HalfOpened(b, p) ==
  IF b.age[p] = Closed THEN b
  ELSE [b EXCEPT !.age[p] = Closed, !.failures[p] = 0]

\* (mutant) one failure more than the threshold is needed.
Opens_OffByOne(failures) == failures > FailThreshold

Opens(failures) == failures >= FailThreshold

\* _record_failure: past the threshold every failure starts the cooldown anew.
Failed(p) ==
  LET n == consecutive_failures[p] + 1
  IN [failures |-> [consecutive_failures EXCEPT ![p] = n],
      age |-> [openAge EXCEPT ![p] = IF Opens(n) THEN 0 ELSE @],
      dead |-> dead]

\* _record_success; a dead provider stays dead.
Succeeded(p) ==
  [failures |-> [consecutive_failures EXCEPT ![p] = 0],
   age |-> [openAge EXCEPT ![p] = Closed],
   dead |-> dead]

MarkedDead(p) == [Breakers EXCEPT !.dead = @ \cup {p}]

Record(b) ==
  /\ consecutive_failures' = b.failures
  /\ openAge' = b.age
  /\ dead' = b.dead

-------------------------------------------------------------------------------
(* complete.                                                               *)

\* (mutant) a provider that is skipped starts its cooldown anew.
TryFrom_Refreshes(c, p, b) ==
  LET usable  == {q \in Providers : q >= p /\ Available(b, q)}
      skipped == {q \in Providers : q >= p /\ b.age[q] # Closed /\ b.age[q] # Cooldown}
      b2 == [b EXCEPT !.age = [q \in Providers |-> IF q \in skipped THEN 0 ELSE b.age[q]]]
  IN \/ /\ usable = {}
        /\ Record(b2)
        /\ at' = [at EXCEPT ![c] = Idle]
     \/ \E q \in usable :
          /\ \A r \in usable : q <= r
          /\ Record(HalfOpened(b2, q))
          /\ at' = [at EXCEPT ![c] = q]

\* The loop from provider p on, the breakers being b: the first available one
\* is called, or the completion returns None.
TryFrom(c, p, b) ==
  LET usable == {q \in Providers : q >= p /\ Available(b, q)}
  IN \/ /\ usable = {}
        /\ Record(b)
        /\ at' = [at EXCEPT ![c] = Idle]
     \/ \E q \in usable :
          /\ \A r \in usable : q <= r
          /\ Record(HalfOpened(b, q))
          /\ at' = [at EXCEPT ![c] = q]

Complete(c) ==
  /\ at[c] = Idle
  /\ TryFrom(c, 1, Breakers)

\* (mutant) the loop stays at a provider that has failed.
Fail_Again(c) ==
  /\ at[c] # Idle
  /\ TryFrom(c, at[c], Failed(at[c]))

\* TimeoutError, LLMProviderError or an unexpected exception.
Fail(c) ==
  /\ at[c] # Idle
  /\ TryFrom(c, at[c] + 1, Failed(at[c]))

ConfigError(c) ==
  /\ at[c] # Idle
  /\ TryFrom(c, at[c] + 1, MarkedDead(at[c]))

Answer(c) ==
  /\ at[c] # Idle
  /\ Record(Succeeded(at[c]))
  /\ at' = [at EXCEPT ![c] = Idle]

\* CancelledError passes every except clause.
Cancel(c) ==
  /\ at[c] # Idle
  /\ at' = [at EXCEPT ![c] = Idle]
  /\ UNCHANGED breakerVars

Tick ==
  /\ openAge' = [p \in Providers |->
                   IF openAge[p] \in 0..(Cooldown - 1) THEN openAge[p] + 1 ELSE openAge[p]]
  /\ UNCHANGED <<consecutive_failures, dead, at>>

AttemptEnds(c) == Answer(c) \/ Fail(c) \/ ConfigError(c)

Next ==
  \/ Tick
  \/ \E c \in Callers : Complete(c) \/ AttemptEnds(c) \/ Cancel(c)

\* wait_for bounds every attempt; nobody is obliged to ask for a completion.
Fairness == WF_vars(Tick) /\ \A c \in Callers : WF_vars(AttemptEnds(c))

Spec == Init /\ [][Next]_vars /\ Fairness

-------------------------------------------------------------------------------

At(p) == {c \in Callers : at[c] = p}
Cooling(p) == openAge[p] \notin {Closed, Cooldown}

\* The two fields of a breaker agree, whatever order late outcomes come in: it
\* is open exactly when its failure count has reached the threshold.
OpenAtThreshold ==
  \A p \in Providers : openAge[p] # Closed <=> consecutive_failures[p] >= FailThreshold

\* A provider that is dead, or whose breaker is cooling down, gets no new
\* attempt from any caller; and the dead stay dead.
LeftAlone ==
  [][/\ dead \subseteq dead'
     /\ \A p \in Providers : p \in dead \/ Cooling(p) => At(p)' \subseteq At(p)]_vars

\* A completion returns: the list of providers is gone through once, whatever
\* other callers do to the breakers meanwhile.
CompletionEnds == \A c \in Callers : at[c] # Idle ~> at[c] = Idle

\* A provider that is not dead is available again in the end, however many
\* late failures start its cooldown anew and however often it is skipped.
Recovers ==
  \A p \in Providers : openAge[p] # Closed ~> ~Cooling(p) \/ p \in dead

===============================================================================
