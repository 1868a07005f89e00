---------------------------- MODULE LLMRouterProofs ----------------------------
(***************************************************************************)
(* What holds of the router for any number of callers and providers and    *)
(* every configuration of its breakers.                                    *)
(***************************************************************************)
EXTENDS LLMRouter, FiniteSetTheorems, TLAPS

-------------------------------------------------------------------------------
(* The inductive invariant.  The failure count is bounded because an       *)
(* attempt under way can add one failure to it, and none starts at a       *)
(* provider whose count has reached the threshold.                         *)

BreakersType ==
  [failures : [Providers -> Nat],
   age : [Providers -> {Closed} \cup 0..Cooldown],
   dead : SUBSET Providers]

Agree(b) == \A p \in Providers : b.age[p] # Closed <=> b.failures[p] >= FailThreshold

MaxFailures == FailThreshold - 1 + Cardinality(Callers)

LateBound ==
  \A p \in Providers : consecutive_failures[p] + Cardinality(At(p)) <= MaxFailures

IInv ==
  /\ Breakers \in BreakersType
  /\ Agree(Breakers)
  /\ at \in [Callers -> Providers \cup {Idle}]
  /\ LateBound

\* The number of attempts under way at a provider.
LEMMA Attempts ==
  ASSUME NEW S, S \subseteq Callers
  PROVE  /\ IsFiniteSet(S) /\ Cardinality(S) \in Nat
         /\ Cardinality(S) <= Cardinality(Callers)
         /\ Cardinality(Callers) \in Nat
  BY RouterAssumption, FS_Subset, FS_CardinalityType

\* A breaker's record keeps its type, and its fields agree, in all that an
\* attempt or the search for a provider does to it.
LEMMA HalfOpenedKeeps ==
  ASSUME NEW b \in BreakersType, Agree(b), NEW q \in Providers
  PROVE  /\ HalfOpened(b, q) \in BreakersType
         /\ Agree(HalfOpened(b, q))
         /\ HalfOpened(b, q).dead = b.dead
         /\ \A r \in Providers \ {q} : HalfOpened(b, q).failures[r] = b.failures[r]
         /\ HalfOpened(b, q).failures[q] < FailThreshold
<1> USE RouterAssumption
<1>1. CASE b.age[q] = Closed
  BY <1>1 DEF HalfOpened, Agree, BreakersType
<1>2. CASE b.age[q] # Closed
  <2> DEFINE h == HalfOpened(b, q)
  <2>1. h = [failures |-> [b.failures EXCEPT ![q] = 0], age |-> [b.age EXCEPT ![q] = Closed],
             dead |-> b.dead]
    BY <1>2 DEF HalfOpened, BreakersType
  <2>2. /\ h.failures = [b.failures EXCEPT ![q] = 0]
        /\ h.age = [b.age EXCEPT ![q] = Closed]
        /\ h.dead = b.dead
    BY <2>1
  <2>3. h \in BreakersType
    BY <2>1 DEF BreakersType
  <2>4. Agree(h)
    BY <2>2 DEF Agree, BreakersType, Closed
  <2>5. QED
    BY <2>2, <2>3, <2>4 DEF BreakersType
<1>3. QED
  BY <1>1, <1>2

LEMMA FailedKeeps ==
  ASSUME Breakers \in BreakersType, Agree(Breakers), NEW p \in Providers
  PROVE  /\ Failed(p) \in BreakersType
         /\ Agree(Failed(p))
         /\ Failed(p).dead = dead
         /\ \A r \in Providers : /\ r # p => Failed(p).failures[r] = consecutive_failures[r]
                                 /\ r # p => Failed(p).age[r] = openAge[r]
         /\ Failed(p).failures[p] = consecutive_failures[p] + 1
<1> USE RouterAssumption
<1> DEFINE n == consecutive_failures[p] + 1
           f == Failed(p)
<1>1. /\ consecutive_failures \in [Providers -> Nat] /\ dead \subseteq Providers
      /\ openAge \in [Providers -> {Closed} \cup 0..Cooldown]
  BY DEF Breakers, BreakersType
<1>2. f = [failures |-> [consecutive_failures EXCEPT ![p] = n],
           age |-> [openAge EXCEPT ![p] = IF Opens(n) THEN 0 ELSE @], dead |-> dead]
  BY DEF Failed
<1>3. /\ f.failures = [consecutive_failures EXCEPT ![p] = n]
      /\ f.age = [openAge EXCEPT ![p] = IF Opens(n) THEN 0 ELSE @]
      /\ f.dead = dead
  BY <1>2
<1>4. n \in Nat /\ 0 \in 0..Cooldown
  BY <1>1
<1>5. f \in BreakersType
  BY <1>1, <1>2, <1>4 DEF BreakersType
<1>6. \A r \in Providers : openAge[r] # Closed <=> consecutive_failures[r] >= FailThreshold
  BY DEF Agree, Breakers
<1>7. Agree(f)
  BY <1>1, <1>3, <1>4, <1>6 DEF Agree, Opens, Closed
<1>8. QED
  BY <1>1, <1>3, <1>5, <1>7

LEMMA MarkedDeadKeeps ==
  ASSUME Breakers \in BreakersType, Agree(Breakers), NEW p \in Providers
  PROVE  /\ MarkedDead(p) \in BreakersType
         /\ Agree(MarkedDead(p))
         /\ MarkedDead(p).dead = dead \cup {p}
         /\ MarkedDead(p).failures = consecutive_failures
         /\ MarkedDead(p).age = openAge
  BY DEF MarkedDead, Breakers, BreakersType, Agree

LEMMA SucceededKeeps ==
  ASSUME Breakers \in BreakersType, Agree(Breakers), NEW p \in Providers
  PROVE  /\ Succeeded(p) \in BreakersType
         /\ Agree(Succeeded(p))
         /\ Succeeded(p).dead = dead
         /\ \A r \in Providers \ {p} : Succeeded(p).failures[r] = consecutive_failures[r]
         /\ Succeeded(p).failures[p] < FailThreshold
<1> USE RouterAssumption
<1> DEFINE b == Succeeded(p)
<1>1. /\ consecutive_failures \in [Providers -> Nat] /\ dead \subseteq Providers
      /\ openAge \in [Providers -> {Closed} \cup 0..Cooldown]
  BY DEF Breakers, BreakersType
<1>2. b = [failures |-> [consecutive_failures EXCEPT ![p] = 0],
           age |-> [openAge EXCEPT ![p] = Closed], dead |-> dead]
  BY DEF Succeeded
<1>3. /\ b.failures = [consecutive_failures EXCEPT ![p] = 0]
      /\ b.age = [openAge EXCEPT ![p] = Closed]
      /\ b.dead = dead
  BY <1>2
<1>4. b \in BreakersType
  BY <1>1, <1>2 DEF BreakersType
<1>5. \A r \in Providers : openAge[r] # Closed <=> consecutive_failures[r] >= FailThreshold
  BY DEF Agree, Breakers
<1>6. Agree(b)
  BY <1>1, <1>3, <1>5 DEF Agree, Closed
<1>7. QED
  BY <1>1, <1>3, <1>4, <1>6

\* What the loop of complete() does from provider n on: at most one provider
\* gets the caller, an available one, and its count is then below the threshold.
LEMMA TryFromStep ==
  ASSUME NEW b \in BreakersType, Agree(b), NEW c \in Callers, NEW n,
         at \in [Callers -> Providers \cup {Idle}],
         TryFrom(c, n, b)
  PROVE  /\ Breakers' \in BreakersType
         /\ Agree(Breakers)'
         /\ at' \in [Callers -> Providers \cup {Idle}]
         /\ dead' = b.dead
         /\ \A r \in Providers :
              \/ At(r)' = At(r) \ {c} /\ consecutive_failures'[r] = b.failures[r]
              \/ At(r)' \subseteq At(r) \cup {c} /\ Available(b, r)
                   /\ consecutive_failures'[r] < FailThreshold
<1> USE DEF Idle
<1>1. \A r \in Providers : r # 0
  BY DEF Providers
<1> DEFINE usable == {q \in Providers : q >= n /\ Available(b, q)}
<1>2. CASE Record(b) /\ at' = [at EXCEPT ![c] = 0]
  <2>1. Breakers' = b
    BY <1>2 DEF Record, Breakers, BreakersType
  <2>2. \A r \in Providers : At(r)' = At(r) \ {c} /\ consecutive_failures'[r] = b.failures[r]
    BY <1>1, <1>2 DEF At, Record
  <2>3. Agree(Breakers)'
    BY <2>1 DEF Agree
  <2>4. dead' = b.dead /\ at' \in [Callers -> Providers \cup {0}]
    BY <1>2 DEF Record
  <2>5. QED
    BY <2>1, <2>2, <2>3, <2>4
<1>3. ASSUME NEW q \in usable, Record(HalfOpened(b, q)), at' = [at EXCEPT ![c] = q]
      PROVE  /\ Breakers' \in BreakersType
             /\ Agree(Breakers)'
             /\ at' \in [Callers -> Providers \cup {0}]
             /\ dead' = b.dead
             /\ \A r \in Providers :
                  \/ At(r)' = At(r) \ {c} /\ consecutive_failures'[r] = b.failures[r]
                  \/ At(r)' \subseteq At(r) \cup {c} /\ Available(b, r)
                       /\ consecutive_failures'[r] < FailThreshold
  <2>1. q \in Providers /\ Available(b, q)
    OBVIOUS
  <2>2. HalfOpened(b, q) \in BreakersType
    BY <2>1, HalfOpenedKeeps
  <2>3. Breakers' = HalfOpened(b, q)
    BY <1>3, <2>2 DEF Record, Breakers, BreakersType
  <2>4. Agree(Breakers)'
    BY <2>1, <2>3, HalfOpenedKeeps DEF Agree
  <2>5. dead' = b.dead
    BY <1>3, <2>1, HalfOpenedKeeps DEF Record
  <2>6. \A r \in Providers \ {q} :
          At(r)' = At(r) \ {c} /\ consecutive_failures'[r] = b.failures[r]
    BY <1>3, <2>1, HalfOpenedKeeps DEF Record, At
  <2>7. At(q)' \subseteq At(q) \cup {c} /\ consecutive_failures'[q] < FailThreshold
    BY <1>3, <2>1, HalfOpenedKeeps DEF Record, At
  <2>8. QED
    BY <1>3, <2>1, <2>2, <2>3, <2>4, <2>5, <2>6, <2>7
<1>4. QED
  BY <1>2, <1>3 DEF TryFrom

-------------------------------------------------------------------------------

LEMMA InitIInv == Init => IInv
<1> SUFFICES ASSUME Init PROVE IInv
  OBVIOUS
<1> USE RouterAssumption
<1>1. /\ Breakers \in BreakersType
      /\ Agree(Breakers)
      /\ at \in [Callers -> Providers \cup {Idle}]
  BY DEF Init, Breakers, BreakersType, Agree
<1>2. ASSUME NEW p \in Providers
      PROVE  consecutive_failures[p] + Cardinality(At(p)) <= MaxFailures
  <2>1. At(p) = {} /\ consecutive_failures[p] = 0
    BY DEF Init, At, Idle, Providers
  <2>2. Cardinality(At(p)) = 0
    BY <2>1, FS_EmptySet
  <2>3. QED
    BY <2>1, <2>2, Attempts DEF MaxFailures
<1>3. QED
  BY <1>1, <1>2 DEF IInv, LateBound

\* The bound on a provider's failures when an attempt at it is removed.
LEMMA OneLess ==
  ASSUME NEW c \in Callers, NEW p \in Providers, at[c] = p
  PROVE  Cardinality(At(p) \ {c}) = Cardinality(At(p)) - 1
<1>1. At(p) \subseteq Callers /\ c \in At(p)
  BY DEF At
<1>2. QED
  BY <1>1, Attempts, FS_RemoveElement

\* A search that starts from records with room for the attempts that remain
\* keeps the invariant.
LEMMA SearchKeeps ==
  ASSUME IInv, NEW b \in BreakersType, Agree(b), NEW c \in Callers, NEW n, TryFrom(c, n, b),
         \A r \in Providers : b.failures[r] + Cardinality(At(r) \ {c}) <= MaxFailures
  PROVE  IInv'
<1> USE RouterAssumption
<1>1. at \in [Callers -> Providers \cup {Idle}]
  BY DEF IInv
<1>2. /\ Breakers' \in BreakersType
      /\ Agree(Breakers)'
      /\ at' \in [Callers -> Providers \cup {Idle}]
      /\ \A r \in Providers :
           \/ At(r)' = At(r) \ {c} /\ consecutive_failures'[r] = b.failures[r]
           \/ At(r)' \subseteq At(r) \cup {c} /\ consecutive_failures'[r] < FailThreshold
  BY <1>1, TryFromStep
<1>3. ASSUME NEW r \in Providers
      PROVE  consecutive_failures'[r] + Cardinality(At(r)') <= MaxFailures
  <2>1. CASE At(r)' = At(r) \ {c} /\ consecutive_failures'[r] = b.failures[r]
    BY <2>1
  <2>2. CASE At(r)' \subseteq At(r) \cup {c} /\ consecutive_failures'[r] < FailThreshold
    <3>1. consecutive_failures'[r] \in Nat
      BY <1>2 DEF Breakers, BreakersType
    <3>2. At(r)' \subseteq Callers
      BY <2>2 DEF At
    <3>3. /\ Cardinality(At(r)') \in Nat /\ Cardinality(Callers) \in Nat
          /\ Cardinality(At(r)') <= Cardinality(Callers)
      BY <3>2, Attempts
    <3>4. QED
      BY <2>2, <3>1, <3>3 DEF MaxFailures
  <2>3. QED
    BY <1>2, <2>1, <2>2
<1>4. QED
  BY <1>2, <1>3 DEF IInv, LateBound

\* The facts of the invariant that the step proofs use.
LEMMA Room ==
  ASSUME IInv, NEW c \in Callers, NEW r \in Providers
  PROVE  /\ consecutive_failures[r] \in Nat
         /\ Cardinality(At(r)) \in Nat /\ Cardinality(At(r) \ {c}) \in Nat
         /\ Cardinality(At(r) \ {c}) <= Cardinality(At(r))
         /\ consecutive_failures[r] + Cardinality(At(r)) <= MaxFailures
         /\ MaxFailures \in Nat
<1>1. At(r) \subseteq Callers /\ At(r) \ {c} \subseteq At(r)
  BY DEF At
<1>2. IsFiniteSet(At(r)) /\ Cardinality(At(r)) \in Nat /\ Cardinality(Callers) \in Nat
  BY <1>1, Attempts
<1>3. Cardinality(At(r) \ {c}) \in Nat /\ Cardinality(At(r) \ {c}) <= Cardinality(At(r))
  BY <1>1, <1>2, FS_Subset, FS_CardinalityType
<1>4. consecutive_failures[r] \in Nat
  BY DEF IInv, Breakers, BreakersType
<1>5. QED
  BY <1>2, <1>3, <1>4, RouterAssumption DEF IInv, LateBound, MaxFailures

LEMMA CompleteKeeps == ASSUME IInv, NEW c \in Callers, Complete(c) PROVE IInv'
<1>1. Breakers \in BreakersType /\ Agree(Breakers)
  BY DEF IInv
<1>2. \A r \in Providers : Breakers.failures[r] + Cardinality(At(r) \ {c}) <= MaxFailures
  BY Room DEF Breakers
<1>3. QED
  BY <1>1, <1>2, SearchKeeps DEF Complete

LEMMA FailKeeps == ASSUME IInv, NEW c \in Callers, Fail(c) PROVE IInv'
<1> DEFINE p == at[c]
<1>1. p \in Providers
  BY DEF Fail, IInv
<1>2. Breakers \in BreakersType /\ Agree(Breakers)
  BY DEF IInv
<1>3. Failed(p) \in BreakersType /\ Agree(Failed(p))
  BY <1>1, <1>2, FailedKeeps
<1>4. ASSUME NEW r \in Providers
      PROVE  Failed(p).failures[r] + Cardinality(At(r) \ {c}) <= MaxFailures
  <2>1. CASE r = p
    <3>1. Failed(p).failures[p] = consecutive_failures[p] + 1
      BY <1>1, <1>2, FailedKeeps
    <3>2. Cardinality(At(p) \ {c}) = Cardinality(At(p)) - 1
      BY <1>1, OneLess
    <3>3. QED
      BY <1>1, <2>1, <3>1, <3>2, Room
  <2>2. CASE r # p
    <3>1. Failed(p).failures[r] = consecutive_failures[r]
      BY <1>1, <1>2, <2>2, FailedKeeps
    <3>2. QED
      BY <3>1, Room
  <2>3. QED
    BY <2>1, <2>2
<1>5. QED
  BY <1>3, <1>4, SearchKeeps DEF Fail

LEMMA ConfigErrorKeeps == ASSUME IInv, NEW c \in Callers, ConfigError(c) PROVE IInv'
<1> DEFINE p == at[c]
<1>1. p \in Providers
  BY DEF ConfigError, IInv
<1>2. Breakers \in BreakersType /\ Agree(Breakers)
  BY DEF IInv
<1>3. /\ MarkedDead(p) \in BreakersType /\ Agree(MarkedDead(p))
      /\ MarkedDead(p).failures = consecutive_failures
  BY <1>1, <1>2, MarkedDeadKeeps
<1>4. \A r \in Providers :
        MarkedDead(p).failures[r] + Cardinality(At(r) \ {c}) <= MaxFailures
  BY <1>3, Room
<1>5. QED
  BY <1>3, <1>4, SearchKeeps DEF ConfigError

LEMMA AnswerKeeps == ASSUME IInv, NEW c \in Callers, Answer(c) PROVE IInv'
<1> DEFINE p == at[c]
           b == Succeeded(p)
<1> USE DEF Idle
<1>1. p \in Providers
  BY DEF Answer, IInv
<1>2. Breakers \in BreakersType /\ Agree(Breakers)
  BY DEF IInv
<1>3. /\ b \in BreakersType /\ Agree(b)
      /\ \A r \in Providers \ {p} : b.failures[r] = consecutive_failures[r]
      /\ b.failures[p] < FailThreshold
  BY <1>1, <1>2, SucceededKeeps
<1>4. Breakers' = b
  BY <1>3 DEF Answer, Record, Breakers, BreakersType
<1>5. \A r \in Providers : r # 0
  BY DEF Providers
<1>6. at' \in [Callers -> Providers \cup {Idle}]
  BY DEF Answer, IInv
<1>7. ASSUME NEW r \in Providers
      PROVE  consecutive_failures'[r] + Cardinality(At(r)') <= MaxFailures
  <2>1. At(r)' = At(r) \ {c}
    BY <1>5 DEF Answer, At, IInv
  <2>2. consecutive_failures'[r] = b.failures[r]
    BY <1>4 DEF Breakers
  <2>3. CASE r # p
    BY <1>3, <2>1, <2>2, <2>3, Room
  <2>4. CASE r = p
    <3>1. b.failures[p] \in Nat
      BY <1>1, <1>3 DEF BreakersType
    <3>2. At(r) \ {c} \subseteq Callers
      BY DEF At
    <3>3. /\ Cardinality(At(r) \ {c}) \in Nat /\ Cardinality(Callers) \in Nat
          /\ Cardinality(At(r) \ {c}) <= Cardinality(Callers)
      BY <3>2, Attempts
    <3>4. QED
      BY <1>3, <2>1, <2>2, <2>4, <3>1, <3>3, RouterAssumption DEF MaxFailures
  <2>5. QED
    BY <2>3, <2>4
<1>8. QED
  BY <1>3, <1>4, <1>6, <1>7 DEF IInv, LateBound, Agree

LEMMA CancelKeeps == ASSUME IInv, NEW c \in Callers, Cancel(c) PROVE IInv'
<1> USE DEF Idle
<1>1. \A r \in Providers : r # 0
  BY DEF Providers
<1>2. Breakers' = Breakers /\ consecutive_failures' = consecutive_failures
  BY DEF Cancel, breakerVars, Breakers
<1>3. at' \in [Callers -> Providers \cup {Idle}]
  BY DEF Cancel, IInv
<1>4. ASSUME NEW r \in Providers
      PROVE  consecutive_failures'[r] + Cardinality(At(r)') <= MaxFailures
  <2>1. At(r)' = At(r) \ {c}
    BY <1>1 DEF Cancel, At, IInv
  <2>2. QED
    BY <1>2, <2>1, Room
<1>5. QED
  BY <1>2, <1>3, <1>4 DEF IInv, LateBound, Agree

LEMMA TickKeeps == ASSUME IInv, Tick PROVE IInv'
<1> USE RouterAssumption
<1>1. /\ openAge \in [Providers -> {Closed} \cup 0..Cooldown]
      /\ consecutive_failures \in [Providers -> Nat] /\ dead \in SUBSET Providers
  BY DEF IInv, Breakers, BreakersType
<1>2. /\ consecutive_failures' = consecutive_failures /\ dead' = dead /\ at' = at
      /\ openAge' \in [Providers -> {Closed} \cup 0..Cooldown]
      /\ \A p \in Providers : openAge'[p] # Closed <=> openAge[p] # Closed
  BY <1>1 DEF Tick, Closed
<1>3. Breakers' \in BreakersType
  BY <1>1, <1>2 DEF Breakers, BreakersType
<1>4. Agree(Breakers)'
  BY <1>2 DEF IInv, Agree, Breakers
<1>5. QED
  BY <1>2, <1>3, <1>4 DEF IInv, LateBound, At

LEMMA NextIInv == IInv /\ [Next]_vars => IInv'
<1> SUFFICES ASSUME IInv, [Next]_vars PROVE IInv'
  OBVIOUS
<1>1. CASE Tick
  BY <1>1, TickKeeps
<1>2. ASSUME NEW c \in Callers, Complete(c) \/ AttemptEnds(c) \/ Cancel(c)
      PROVE  IInv'
  BY <1>2, CompleteKeeps, FailKeeps, ConfigErrorKeeps, AnswerKeeps, CancelKeeps DEF AttemptEnds
<1>3. CASE UNCHANGED vars
  BY <1>3 DEF vars, breakerVars, IInv, Breakers, Agree, LateBound, At
<1>4. QED
  BY <1>1, <1>2, <1>3 DEF Next

LEMMA Inductive == Spec => []IInv
<1>1. QED
  BY InitIInv, NextIInv, PTL DEF Spec

-------------------------------------------------------------------------------

\* No history of completions takes a failure count past the threshold by more
\* than the attempts that can be under way.
THEOREM TypeCorrect == Spec => []TypeOK
<1>1. IInv => TypeOK
  <2> SUFFICES ASSUME IInv PROVE TypeOK
    OBVIOUS
  <2>1. /\ consecutive_failures \in [Providers -> Nat] /\ dead \subseteq Providers
        /\ openAge \in [Providers -> {Closed} \cup 0..Cooldown]
    BY DEF IInv, Breakers, BreakersType
  <2>2. ASSUME NEW p \in Providers PROVE consecutive_failures[p] \in 0..MaxFailures
    <3>1. At(p) \subseteq Callers
      BY DEF At
    <3>2. Cardinality(At(p)) \in Nat /\ Cardinality(Callers) \in Nat
      BY <3>1, Attempts
    <3>3. QED
      BY <2>1, <3>2, RouterAssumption DEF IInv, LateBound, MaxFailures
  <2>3. QED
    BY <2>1, <2>2 DEF IInv, TypeOK, MaxFailures
<1>2. QED
  BY <1>1, Inductive, PTL

\* The breaker of a provider is open exactly when its failure count has reached
\* the threshold, in whatever order concurrent completions record outcomes.
THEOREM BreakerAgrees == Spec => []OpenAtThreshold
<1>1. IInv => OpenAtThreshold
  BY DEF IInv, Agree, Breakers, OpenAtThreshold
<1>2. QED
  BY <1>1, Inductive, PTL

\* A search leaves the providers before its start alone.
LEMMA SearchBeyond ==
  ASSUME at \in [Callers -> Providers \cup {Idle}], NEW b, NEW c \in Callers,
         NEW q \in Providers, TryFrom(c, q + 1, b)
  PROVE  At(q)' \subseteq At(q)
<1>1. q \in Int /\ q # 0 /\ \A r \in Providers : r >= q + 1 => r # q
  BY RouterAssumption DEF Providers
<1>2. \E r \in {0} \cup {r \in Providers : r >= q + 1} : at' = [at EXCEPT ![c] = r]
  BY DEF TryFrom, Idle
<1>3. QED
  BY <1>1, <1>2 DEF At, Idle

\* A search leaves a provider alone that is not available in its records.
LEMMA SearchLeavesAlone ==
  ASSUME IInv, NEW b \in BreakersType, Agree(b), NEW c \in Callers, NEW n, TryFrom(c, n, b),
         NEW p \in Providers, ~Available(b, p)
  PROVE  At(p)' \subseteq At(p) /\ dead' = b.dead
<1>1. at \in [Callers -> Providers \cup {Idle}]
  BY DEF IInv
<1>2. QED
  BY <1>1, TryFromStep

\* Neither a dead provider nor one whose breaker is cooling down gets a new
\* attempt, and the dead stay dead.
THEOREM LeftAloneCorrect == Spec => LeftAlone
<1> DEFINE Alone == /\ dead \subseteq dead'
                    /\ \A p \in Providers : p \in dead \/ Cooling(p) => At(p)' \subseteq At(p)
<1>1. IInv /\ [Next]_vars => [Alone]_vars
  <2> SUFFICES ASSUME IInv, Next PROVE Alone
    OBVIOUS
  <2>0. Breakers \in BreakersType /\ Agree(Breakers)
    BY DEF IInv
  <2>1. CASE Tick
    BY <2>1 DEF Tick, At
  <2>2. ASSUME NEW c \in Callers, Complete(c) PROVE Alone
    <3>1. TryFrom(c, 1, Breakers)
      BY <2>2 DEF Complete
    <3>2. dead' = dead
      BY <2>0, <3>1, TryFromStep DEF IInv, Breakers
    <3>3. ASSUME NEW p \in Providers, p \in dead \/ Cooling(p) PROVE At(p)' \subseteq At(p)
      <4>1. ~Available(Breakers, p)
        BY <3>3 DEF Available, Breakers, Cooling
      <4>2. QED
        BY <2>0, <3>1, <4>1, SearchLeavesAlone
    <3>4. QED
      BY <3>2, <3>3
  <2>3. ASSUME NEW c \in Callers, Fail(c) PROVE Alone
    <3> DEFINE q == at[c]
               b == Failed(q)
    <3>1. q \in Providers /\ TryFrom(c, q + 1, b)
      BY <2>3 DEF Fail, IInv
    <3>2. /\ b \in BreakersType /\ Agree(b) /\ b.dead = dead
          /\ \A r \in Providers : r # q => b.age[r] = openAge[r]
      BY <2>0, <3>1, FailedKeeps
    <3>3. dead' = dead
      BY <3>1, <3>2, TryFromStep DEF IInv
    <3>4. ASSUME NEW p \in Providers, p \in dead \/ Cooling(p) PROVE At(p)' \subseteq At(p)
      <4>1. CASE p = q
        BY <3>1, <4>1, SearchBeyond DEF IInv
      <4>2. CASE p # q
        <5>1. ~Available(b, p)
          BY <3>2, <3>4, <4>2 DEF Available, Cooling
        <5>2. QED
          BY <3>1, <3>2, <5>1, SearchLeavesAlone
      <4>3. QED
        BY <4>1, <4>2
    <3>5. QED
      BY <3>3, <3>4
  <2>4. ASSUME NEW c \in Callers, ConfigError(c) PROVE Alone
    <3> DEFINE q == at[c]
               b == MarkedDead(q)
    <3>1. q \in Providers /\ TryFrom(c, q + 1, b)
      BY <2>4 DEF ConfigError, IInv
    <3>2. /\ b \in BreakersType /\ Agree(b) /\ b.dead = dead \cup {q}
          /\ b.age = openAge
      BY <2>0, <3>1, MarkedDeadKeeps
    <3>3. dead' = dead \cup {q}
      BY <3>1, <3>2, TryFromStep DEF IInv
    <3>4. ASSUME NEW p \in Providers, p \in dead \/ Cooling(p) PROVE At(p)' \subseteq At(p)
      <4>1. ~Available(b, p)
        BY <3>2, <3>4 DEF Available, Cooling
      <4>2. QED
        BY <3>1, <3>2, <4>1, SearchLeavesAlone
    <3>5. QED
      BY <3>3, <3>4
  <2>5. ASSUME NEW c \in Callers, Answer(c) \/ Cancel(c) PROVE Alone
    <3>1. dead' = dead /\ at' = [at EXCEPT ![c] = 0]
      BY <2>5 DEF Answer, Cancel, Record, Succeeded, breakerVars, Idle
    <3>2. \A p \in Providers : p # 0
      BY DEF Providers
    <3>3. QED
      BY <3>1, <3>2 DEF At, IInv
  <2>6. QED
    BY <2>1, <2>2, <2>3, <2>4, <2>5 DEF Next, AttemptEnds
<1>2. QED
  BY <1>1, Inductive, PTL DEF Spec, LeftAlone

-------------------------------------------------------------------------------
(* What the liveness of the router rests on, fairness apart: a completion   *)
(* goes through the list once, and a breaker that is open has only so many *)
(* late failures to come.                                                  *)

\* A completion that starts, or passes on, goes to a later provider than the one
\* it had, over none that it could have used: the fallback order of the code.
InOrder ==
  [][\A c \in Callers : at'[c] \notin {at[c], Idle} =>
       /\ at'[c] > at[c]
       /\ \A q \in Providers :
            at[c] < q /\ q < at'[c] => q \in dead \/ Cooling(q)]_vars

\* While a breaker cools down, a step either ends one of the attempts under way
\* at its provider or starts none and takes nothing back of its age, and the
\* clock adds to it: <<attempts under way, cooldown left>> descends.
CoolsDown ==
  [][\A p \in Providers : Cooling(p) =>
       \/ \E c \in At(p) : At(p)' = At(p) \ {c}
       \/ /\ At(p)' = At(p)
          /\ openAge'[p] >= openAge[p]
          /\ Tick => openAge'[p] > openAge[p]]_vars

\* Where a search from provider n on ends: nowhere, or at the first provider
\* that is available.
LEMMA SearchEnds ==
  ASSUME at \in [Callers -> Providers \cup {Idle}], NEW b \in BreakersType, NEW c \in Callers,
         NEW n \in Nat, TryFrom(c, n, b)
  PROVE  \/ /\ at' = [at EXCEPT ![c] = Idle]
            /\ openAge' = b.age
         \/ \E q \in Providers :
              /\ q >= n /\ Available(b, q)
              /\ \A r \in Providers : n <= r /\ r < q => ~Available(b, r)
              /\ at' = [at EXCEPT ![c] = q]
              /\ \A r \in Providers \ {q} : openAge'[r] = b.age[r]
<1> DEFINE usable == {q \in Providers : q >= n /\ Available(b, q)}
<1>1. CASE usable = {} /\ Record(b) /\ at' = [at EXCEPT ![c] = Idle]
  BY <1>1 DEF Record
<1>2. ASSUME NEW q \in usable, \A r \in usable : q <= r,
             Record(HalfOpened(b, q)), at' = [at EXCEPT ![c] = q]
      PROVE  /\ \A r \in Providers : n <= r /\ r < q => ~Available(b, r)
             /\ \A r \in Providers \ {q} : openAge'[r] = b.age[r]
  <2>1. \A r \in Providers : n <= r /\ r < q => ~Available(b, r)
    <3>1. q \in Int /\ \A r \in Providers : r \in Int
      BY RouterAssumption DEF Providers
    <3>2. \A r \in Providers : r >= n /\ Available(b, r) => q <= r
      BY <1>2
    <3>3. QED
      BY <3>1, <3>2
  <2>2. openAge' = HalfOpened(b, q).age
    BY <1>2 DEF Record
  <2>3. \A r \in Providers \ {q} : HalfOpened(b, q).age[r] = b.age[r]
    BY DEF HalfOpened, BreakersType
  <2>4. QED
    BY <2>1, <2>2, <2>3
<1>3. QED
  BY <1>1, <1>2 DEF TryFrom

\* What a failure or a configuration error leaves to the search.
LEMMA AfterAttempt ==
  ASSUME IInv, NEW c \in Callers, Fail(c) \/ ConfigError(c)
  PROVE  /\ at[c] \in Providers
         /\ \E b \in BreakersType :
              /\ Agree(b)
              /\ TryFrom(c, at[c] + 1, b)
              /\ \A r \in Providers \ {at[c]} : b.age[r] = openAge[r]
              /\ \A r \in Providers \ {at[c]} : Available(b, r) <=> Available(Breakers, r)
<1> DEFINE q == at[c]
<1>1. Breakers \in BreakersType /\ Agree(Breakers) /\ q \in Providers
  BY DEF Fail, ConfigError, IInv
<1>2. CASE Fail(c)
  <2>1. TryFrom(c, q + 1, Failed(q))
    BY <1>2 DEF Fail
  <2>2. \A r \in Providers \ {q} : Failed(q).age[r] = openAge[r]
    BY <1>1, FailedKeeps
  <2>3. \A r \in Providers \ {q} : Available(Failed(q), r) <=> Available(Breakers, r)
    BY <1>1, <2>2, FailedKeeps DEF Available, Breakers
  <2>4. QED
    BY <1>1, <2>1, <2>2, <2>3, FailedKeeps
<1>3. CASE ConfigError(c)
  <2>1. TryFrom(c, q + 1, MarkedDead(q))
    BY <1>3 DEF ConfigError
  <2>2. MarkedDead(q).age = openAge /\ MarkedDead(q).dead = dead \cup {q}
    BY <1>1, MarkedDeadKeeps
  <2>3. \A r \in Providers \ {q} : Available(MarkedDead(q), r) <=> Available(Breakers, r)
    BY <2>2 DEF Available, Breakers
  <2>4. QED
    BY <1>1, <2>1, <2>2, <2>3, MarkedDeadKeeps
<1>4. QED
  BY <1>2, <1>3

\* The providers are tried in their order, each at most once by a completion,
\* and none that is available is passed over.
THEOREM InOrderCorrect == Spec => InOrder
<1> DEFINE On(c) == at'[c] \notin {at[c], Idle} =>
                      /\ at'[c] > at[c]
                      /\ \A q \in Providers :
                           at[c] < q /\ q < at'[c] => q \in dead \/ Cooling(q)
<1>0. \A q \in Providers : q \in Nat /\ q > 0
  BY RouterAssumption DEF Providers
<1>a. \A q \in Providers : ~Available(Breakers, q) => q \in dead \/ Cooling(q)
  BY DEF Available, Breakers, Cooling
<1>1. IInv /\ [Next]_vars => [\A c \in Callers : On(c)]_vars
  <2> SUFFICES ASSUME IInv, Next, NEW c \in Callers PROVE On(c)
    OBVIOUS
  <2>1. at \in [Callers -> Providers \cup {Idle}] /\ Breakers \in BreakersType
    BY DEF IInv
  <2>3. CASE Tick
    BY <2>3 DEF Tick
  <2>4. ASSUME NEW d \in Callers, d # c,
               Complete(d) \/ AttemptEnds(d) \/ Cancel(d)
        PROVE  at'[c] = at[c]
    <3>1. \E v : at' = [at EXCEPT ![d] = v]
      BY <2>4 DEF Complete, AttemptEnds, Cancel, Answer, Fail, ConfigError, TryFrom
    <3>2. QED
      BY <2>1, <2>4, <3>1
  <2>5. CASE Complete(c)
    <3>1. TryFrom(c, 1, Breakers) /\ at[c] = 0 /\ 1 \in Nat
      BY <2>5 DEF Complete, Idle
    <3>2. CASE at' = [at EXCEPT ![c] = Idle]
      BY <2>1, <3>2
    <3>3. ASSUME NEW q \in Providers, at' = [at EXCEPT ![c] = q],
                 \A r \in Providers : 1 <= r /\ r < q => ~Available(Breakers, r)
          PROVE  On(c)
      <4>1. at'[c] = q
        BY <2>1, <3>3
      <4>2. \A r \in Providers : 0 < r /\ r < q => r \in dead \/ Cooling(r)
        BY <1>0, <1>a, <3>3
      <4>3. QED
        BY <1>0, <3>1, <4>1, <4>2
    <3>4. QED
      BY <2>1, <3>1, <3>2, <3>3, SearchEnds
  <2>6. CASE Fail(c) \/ ConfigError(c)
    <3> DEFINE p == at[c]
    <3>1. p \in Providers /\ p + 1 \in Nat
      BY <1>0, <2>6, AfterAttempt
    <3>2. PICK b \in BreakersType :
                /\ TryFrom(c, p + 1, b)
                /\ \A r \in Providers \ {p} : Available(b, r) <=> Available(Breakers, r)
      BY <2>6, AfterAttempt
    <3>3. CASE at' = [at EXCEPT ![c] = Idle]
      BY <2>1, <3>3
    <3>4. ASSUME NEW q \in Providers, q >= p + 1, at' = [at EXCEPT ![c] = q],
                 \A r \in Providers : p + 1 <= r /\ r < q => ~Available(b, r)
          PROVE  On(c)
      <4>1. at'[c] = q /\ q > p
        BY <1>0, <2>1, <3>1, <3>4
      <4>2. ASSUME NEW r \in Providers, p < r, r < q PROVE r \in dead \/ Cooling(r)
        <5>1. p + 1 <= r /\ r # p
          BY <1>0, <3>1, <4>2
        <5>2. QED
          BY <1>a, <3>2, <3>4, <4>2, <5>1
      <4>3. QED
        BY <4>1, <4>2
    <3>5. QED
      BY <2>1, <3>1, <3>2, <3>3, <3>4, SearchEnds
  <2>7. CASE Answer(c) \/ Cancel(c)
    BY <2>1, <2>7 DEF Answer, Cancel
  <2>8. QED
    <3>1. \A d \in Callers : Complete(d) \/ AttemptEnds(d) \/ Cancel(d) => On(c)
      BY <2>4, <2>5, <2>6, <2>7 DEF AttemptEnds
    <3>2. CASE Tick
      BY <2>3, <3>2
    <3>3. QED
      BY <3>1, <3>2 DEF Next
<1>2. QED
  BY <1>1, Inductive, PTL DEF Spec, InOrder

\* At a provider that was not available, an attempt that ends leaves one fewer
\* under way there.
THEOREM CoolsDownCorrect == Spec => CoolsDown
<1> DEFINE Down(p) == \/ \E c \in At(p) : At(p)' = At(p) \ {c}
                      \/ /\ At(p)' = At(p)
                         /\ openAge'[p] >= openAge[p]
                         /\ Tick => openAge'[p] > openAge[p]
<1>0. ~(0 \in Providers)
  BY DEF Providers
<1>1. IInv /\ [Next]_vars => [\A p \in Providers : Cooling(p) => Down(p)]_vars
  <2> SUFFICES ASSUME IInv, Next, NEW p \in Providers, Cooling(p) PROVE Down(p)
    OBVIOUS
  <2>1. /\ at \in [Callers -> Providers \cup {Idle}] /\ Breakers \in BreakersType
        /\ openAge \in [Providers -> {Closed} \cup 0..Cooldown]
        /\ openAge[p] \in 0..(Cooldown - 1) /\ openAge[p] \in Int
    BY RouterAssumption DEF IInv, Breakers, BreakersType, Cooling, Closed
  <2>2. CASE Tick
    BY <2>1, <2>2 DEF Tick, At
  <2>4. ASSUME NEW c \in Callers, NEW v, v # p, at' = [at EXCEPT ![c] = v], at[c] = p
        PROVE  Down(p)
    <3>1. c \in At(p) /\ At(p)' = At(p) \ {c}
      BY <2>1, <2>4 DEF At
    <3>2. QED
      BY <3>1
  <2>5. ASSUME NEW c \in Callers, NEW v, v # p, at' = [at EXCEPT ![c] = v], at[c] # p
        PROVE  At(p)' = At(p)
    BY <2>1, <2>5 DEF At
  <2>6. ASSUME ~Tick, At(p)' = At(p), openAge'[p] = openAge[p] PROVE Down(p)
    BY <2>1, <2>6
  <2>7. ASSUME ~Tick, NEW c \in Callers, Complete(c) PROVE Down(p)
    <3>1. TryFrom(c, 1, Breakers) /\ at[c] = Idle /\ 1 \in Nat /\ Idle # p
      BY <1>0, <2>7 DEF Complete, Idle
    <3>2. ~Available(Breakers, p) /\ Breakers.age = openAge
      BY DEF Available, Breakers, Cooling
    <3>3. \E v : v # p /\ at' = [at EXCEPT ![c] = v]
      BY <2>1, <3>1, <3>2, SearchEnds
    <3>4. openAge'[p] = openAge[p]
      BY <2>1, <3>1, <3>2, SearchEnds
    <3>5. QED
      BY <2>5, <2>6, <2>7, <3>1, <3>3, <3>4
  <2>8. ASSUME ~Tick, NEW c \in Callers, Fail(c) \/ ConfigError(c) PROVE Down(p)
    <3> DEFINE q == at[c]
    <3>1. q \in Providers /\ q \in Nat /\ q + 1 \in Nat /\ p \in Int /\ Idle # p
      BY <1>0, <2>8, AfterAttempt, RouterAssumption DEF Providers, Idle
    <3>2. PICK b \in BreakersType :
                /\ TryFrom(c, q + 1, b)
                /\ \A r \in Providers \ {q} : b.age[r] = openAge[r]
                /\ \A r \in Providers \ {q} : Available(b, r) <=> Available(Breakers, r)
      BY <2>8, AfterAttempt
    <3>3. p # q => ~Available(b, p)
      BY <3>2 DEF Available, Breakers, Cooling
    <3>4. \E v : v # p /\ at' = [at EXCEPT ![c] = v]
      BY <2>1, <3>1, <3>2, <3>3, SearchEnds
    <3>5. CASE p = q
      BY <2>4, <3>4, <3>5
    <3>6. CASE p # q
      <4>1. openAge'[p] = openAge[p]
        BY <2>1, <3>1, <3>2, <3>3, <3>6, SearchEnds
      <4>2. QED
        BY <2>5, <2>6, <2>8, <3>4, <3>6, <4>1
    <3>7. QED
      BY <3>5, <3>6
  <2>9. ASSUME ~Tick, NEW c \in Callers, Answer(c) \/ Cancel(c) PROVE Down(p)
    <3>1. /\ at' = [at EXCEPT ![c] = Idle] /\ Idle # p /\ at[c] \in Providers
          /\ at[c] # p => openAge'[p] = openAge[p]
      BY <1>0, <2>1, <2>9
         DEF Answer, Cancel, Record, Succeeded, breakerVars, Idle
    <3>2. CASE at[c] = p
      BY <2>4, <3>1, <3>2
    <3>3. CASE at[c] # p
      BY <2>5, <2>6, <2>9, <3>1, <3>3
    <3>4. QED
      BY <3>2, <3>3
  <2>10. QED
    BY <2>2, <2>7, <2>8, <2>9 DEF Next, AttemptEnds
<1>2. QED
  BY <1>1, Inductive, PTL DEF Spec, CoolsDown

===============================================================================
