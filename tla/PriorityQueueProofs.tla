--------------------------- MODULE PriorityQueueProofs ---------------------------
(***************************************************************************)
(* What holds of the priority queue for any number of members, workers,    *)
(* priorities and scores, and any size of a batch.                         *)
(***************************************************************************)
EXTENDS PriorityQueue, FiniteSetTheorems, SequenceTheorems, TLAPS

-------------------------------------------------------------------------------
(* Types.                                                                   *)

\* The sorted set: a member is queued exactly when it is an entry.
SetType ==
  /\ score \in [Members -> Scores \cup {Absent}]
  /\ entry \in [Members -> Entries \cup {0}]
  /\ entries \in 0..MaxPushes /\ pushes \in 0..MaxPushes /\ entries <= pushes
  /\ \A m \in Members : score[m] = Absent <=> entry[m] = 0

\* The workers: a list is only built by a batch that has iterations left.
WorkersType ==
  /\ pc \in [Workers -> {"idle", "popping", "peeked"}]
  /\ limit \in [Workers -> {NoLimit} \cup 0..(Tiers - 1)]
  /\ left \in [Workers -> 0..MaxItems]
  /\ peeked \in [Workers -> [member : Members, score : Scores] \cup {<<>>}]
  /\ fresh \in [Workers -> SUBSET Members]
  /\ results \in [Workers -> Seq([entry : Entries, score : Scores])]
  /\ delivered \subseteq Entries /\ dropped \subseteq Entries
  /\ \A w \in Workers :
       /\ pc[w] = "idle" => results[w] = <<>>
       /\ pc[w] # "idle" => left[w] # 0
       /\ pc[w] = "peeked" => peeked[w] \in [member : Members, score : Scores]

TypeInv == SetType /\ WorkersType

LEMMA TypeInvImpliesTypeOK == TypeInv => TypeOK
BY DEF TypeInv, SetType, WorkersType, TypeOK

LEMMA ScoresAreNatural == Scores \subseteq Nat /\ Absent \notin Scores
BY QueueAssumption DEF Scores, Absent

\* The best member: nothing that is queued comes before it.
LEMMA BestIsFirst ==
  ASSUME SetType, Queued # {}
  PROVE  /\ Best \in Queued
         /\ \A n \in Queued \ {Best} : Before(Best, score[Best], n, score[n])
<1> USE QueueAssumption
<1> DEFINE Ahead(m) == {n \in Queued : Before(n, score[n], m, score[m])}
           Families == {Ahead(m) : m \in Queued}
<1>1. \A m \in Queued : m \in Nat /\ score[m] \in Nat
  BY ScoresAreNatural DEF SetType, Queued
<1>2. IsFiniteSet(Queued)
  BY FS_Subset DEF Queued
<1>3. Families \subseteq FiniteSubsetsOf(Queued)
  BY <1>2, FS_FiniteSubsetsOfFinite
<1>4. Families # {}
  OBVIOUS
<1>5. IsWellFoundedOn(StrictSubsetOrdering(Queued), FiniteSubsetsOf(Queued))
  BY FS_StrictSubsetOrderingWellFounded
<1> HIDE DEF Families
<1>6. \E U \in Families : \A V \in Families : ~ (<<V, U>> \in StrictSubsetOrdering(Queued))
  BY <1>3, <1>4, <1>5, WFMin
<1> USE DEF Families
<1>7. PICK m \in Queued :
        \A n \in Queued : ~ (<<Ahead(n), Ahead(m)>> \in StrictSubsetOrdering(Queued))
  BY <1>6
<1>8. ASSUME NEW n \in Ahead(m) PROVE FALSE
  <2>1. n \in Queued /\ n \notin Ahead(n)
    BY <1>1, <1>8 DEF Before
  <2>2. \A k \in Ahead(n) : k \in Ahead(m)
    BY <1>1, <1>8 DEF Before
  <2>3. Ahead(n) \subseteq Queued /\ Ahead(m) \subseteq Queued
    OBVIOUS
  <2> HIDE DEF Ahead
  <2>4. <<Ahead(n), Ahead(m)>> \in StrictSubsetOrdering(Queued)
    BY <1>8, <2>1, <2>2, <2>3 DEF StrictSubsetOrdering
  <2>5. QED
    BY <1>7, <2>1, <2>4
<1>9. \A n \in Queued \ {m} : Before(m, score[m], n, score[n])
  BY <1>1, <1>8 DEF Before
<1>10. QED
  BY <1>9 DEF Best

-------------------------------------------------------------------------------
(* What the commands of Redis do to the sorted set.                         *)

LEMMA ZRemType ==
  ASSUME SetType, NEW m \in Members, ZRem(m)
  PROVE  SetType'
BY DEF SetType, ZRem

\* The rank of a new member among the new members.
Rank(added, m) == Cardinality({n \in added : n <= m})

LEMMA RankInjective ==
  ASSUME NEW added \in SUBSET Members
  PROVE  /\ IsFiniteSet(added) /\ Cardinality(added) \in Nat
         /\ \A m \in added : Rank(added, m) \in 1..Cardinality(added)
         /\ \A m, n \in added : Rank(added, m) = Rank(added, n) => m = n
         /\ {Rank(added, m) : m \in added} = 1..Cardinality(added)
<1> USE QueueAssumption
<1> DEFINE UpTo(m) == {n \in added : n <= m}
<1>1. IsFiniteSet(added) /\ Cardinality(added) \in Nat
  BY FS_Subset, FS_CardinalityType
<1>2. ASSUME NEW m \in added
      PROVE  /\ IsFiniteSet(UpTo(m)) /\ Cardinality(UpTo(m)) \in 1..Cardinality(added)
  <2>1. UpTo(m) \in SUBSET added /\ m \in UpTo(m)
    OBVIOUS
  <2> HIDE DEF UpTo
  <2>2. IsFiniteSet(UpTo(m)) /\ Cardinality(UpTo(m)) <= Cardinality(added)
    BY <1>1, <2>1, FS_Subset
  <2>3. Cardinality(UpTo(m)) \in Nat /\ Cardinality(UpTo(m)) # 0
    BY <2>1, <2>2, FS_CardinalityType, FS_EmptySet
  <2>4. QED
    BY <1>1, <2>2, <2>3
<1>3. ASSUME NEW m \in added, NEW n \in added,
             Cardinality(UpTo(m)) = Cardinality(UpTo(n)), m <= n
      PROVE  m = n
  <2>1. UpTo(m) \in SUBSET UpTo(n) /\ n \in UpTo(n)
    <3>1. \A k \in added : k \in Nat
      OBVIOUS
    <3>2. \A k \in added : k <= m => k <= n
      BY <1>3, <3>1
    <3>3. n <= n
      BY <3>1
    <3>4. QED
      BY <3>2, <3>3
  <2>2. UpTo(m) = UpTo(n)
    <3> HIDE DEF UpTo
    <3>1. IsFiniteSet(UpTo(n)) /\ Cardinality(UpTo(n)) = Cardinality(UpTo(m))
      BY <1>2, <1>3
    <3>2. QED
      BY <2>1, <3>1, FS_Subset
  <2>3. n <= m
    BY <2>1, <2>2
  <2>4. QED
    BY <1>3, <2>3
<1>4. \A m, n \in added : Cardinality(UpTo(m)) = Cardinality(UpTo(n)) => m = n
  BY <1>3
<1> DEFINE rank == [m \in added |-> Cardinality(UpTo(m))]
<1> HIDE DEF UpTo
<1>5. rank \in Injection(added, 1..Cardinality(added))
  BY <1>2, <1>4 DEF Injection, IsInjective
<1>6. IsFiniteSet(1..Cardinality(added)) /\ Cardinality(1..Cardinality(added)) = Cardinality(added)
  BY <1>1, FS_Interval
<1> HIDE DEF rank
<1>7. rank \in Surjection(added, 1..Cardinality(added))
  BY <1>5, <1>6, FS_Injection
<1>8. {Cardinality(UpTo(m)) : m \in added} = 1..Cardinality(added)
  BY <1>2, <1>7 DEF Surjection, rank
<1>9. QED
  BY <1>1, <1>2, <1>4, <1>8 DEF Rank, UpTo

LEMMA ZAddType ==
  ASSUME SetType, NEW S \in SUBSET Members, NEW new \in [S -> Scores],
         pushes + Cardinality(S) <= MaxPushes, ZAdd(new)
  PROVE  SetType'
<1> USE QueueAssumption
<1> DEFINE added == DOMAIN new \ Queued
<1>1. added \in SUBSET S /\ added \in SUBSET Members /\ DOMAIN new = S
  OBVIOUS
<1>2. IsFiniteSet(S) /\ Cardinality(S) \in Nat
  BY FS_Subset, FS_CardinalityType
<1>3. Cardinality(added) \in Nat /\ Cardinality(added) <= Cardinality(S)
  BY <1>1, <1>2, FS_Subset, FS_CardinalityType
<1>4. \A m \in added : Rank(added, m) \in 1..Cardinality(added)
  BY <1>1, RankInjective
<1>5. score' = [m \in Members |-> IF m \in S THEN new[m] ELSE score[m]]
  BY <1>1 DEF ZAdd
<1>6. entry' = [m \in Members |-> IF m \in added THEN entries + Rank(added, m) ELSE entry[m]]
  BY DEF ZAdd, Rank
<1>7. entries' = entries + Cardinality(added) /\ pushes' = pushes + Cardinality(S)
  BY <1>1 DEF ZAdd
<1> HIDE DEF added
<1>8. entries' \in 0..MaxPushes /\ pushes' \in 0..MaxPushes /\ entries' <= pushes'
  BY <1>2, <1>3, <1>7 DEF SetType
<1>9. score' \in [Members -> Scores \cup {Absent}]
  BY <1>5 DEF SetType
<1>10. \A m \in added : entries + Rank(added, m) \in Entries
  BY <1>2, <1>3, <1>4, <1>7, <1>8 DEF SetType, Entries
<1>11. entry' \in [Members -> Entries \cup {0}]
  BY <1>6, <1>10 DEF SetType
<1>12. ASSUME NEW m \in Members PROVE score'[m] = Absent <=> entry'[m] = 0
  <2>1. CASE m \in added
    <3>1. score'[m] \in Scores /\ entry'[m] \in Entries
      BY <1>1, <1>5, <1>6, <1>10, <2>1
    <3>2. QED
      BY <3>1, ScoresAreNatural DEF Entries
  <2>2. CASE m \in S \ added
    <3>1. score[m] # Absent /\ score'[m] \in Scores /\ entry'[m] = entry[m]
      BY <1>1, <1>5, <1>6, <2>2 DEF added, Queued
    <3>2. QED
      BY <3>1, ScoresAreNatural DEF SetType
  <2>3. CASE m \notin S
    BY <1>1, <1>5, <1>6, <2>3 DEF SetType
  <2>4. QED
    BY <2>1, <2>2, <2>3
<1>13. QED
  BY <1>8, <1>9, <1>11, <1>12 DEF SetType

-------------------------------------------------------------------------------
(* The workers.                                                             *)

LEMMA DomainOfList ==
  ASSUME NEW T, NEW list \in Seq(T)
  PROVE  DOMAIN list = 1..Len(list) /\ Len(list) \in Nat /\ \A i \in DOMAIN list : list[i] \in T
BY LenProperties, ElementOfSeq

LEMMA HeldType ==
  ASSUME WorkersType, NEW w \in Workers
  PROVE  Held(w) \subseteq Entries
<1>1. results[w] \in Seq([entry : Entries, score : Scores])
  BY DEF WorkersType
<1>2. \A i \in DOMAIN results[w] : results[w][i] \in [entry : Entries, score : Scores]
  BY <1>1, DomainOfList
<1>3. QED
  BY <1>2 DEF Held

LEMMA ReturnsType ==
  ASSUME WorkersType, NEW w \in Workers, NEW last \in SUBSET Entries, Returns(w, last)
  PROVE  WorkersType'
<1> USE QueueAssumption
<1>1. Held(w) \subseteq Entries
  BY HeldType
<1>2. <<>> \in Seq([entry : Entries, score : Scores])
  OBVIOUS
<1>3. /\ results' = [results EXCEPT ![w] = <<>>] /\ left' = [left EXCEPT ![w] = 0]
      /\ limit' = [limit EXCEPT ![w] = NoLimit] /\ pc' = [pc EXCEPT ![w] = "idle"]
      /\ peeked' = [peeked EXCEPT ![w] = <<>>] /\ fresh' = [fresh EXCEPT ![w] = {}]
  BY DEF Returns, Idle
<1>4. results' \in [Workers -> Seq([entry : Entries, score : Scores])]
  BY <1>2, <1>3 DEF WorkersType
<1>5. delivered' \subseteq Entries /\ dropped' \subseteq Entries
  BY <1>1 DEF WorkersType, Returns
<1>6. /\ pc' \in [Workers -> {"idle", "popping", "peeked"}]
      /\ limit' \in [Workers -> {NoLimit} \cup 0..(Tiers - 1)]
      /\ left' \in [Workers -> 0..MaxItems]
      /\ peeked' \in [Workers -> [member : Members, score : Scores] \cup {<<>>}]
      /\ fresh' \in [Workers -> SUBSET Members]
  BY <1>3 DEF WorkersType
<1>7. ASSUME NEW v \in Workers
      PROVE  /\ pc'[v] = "idle" => results'[v] = <<>>
             /\ pc'[v] # "idle" => left'[v] # 0
             /\ pc'[v] = "peeked" => peeked'[v] \in [member : Members, score : Scores]
  BY <1>3 DEF WorkersType
<1>8. QED
  BY <1>4, <1>5, <1>6, <1>7 DEF WorkersType

LEMMA RaisesType ==
  ASSUME WorkersType, NEW w \in Workers, NEW lost \in SUBSET Entries, Raises(w, lost)
  PROVE  WorkersType'
<1> USE QueueAssumption
<1>1. Held(w) \subseteq Entries
  BY HeldType
<1>2. <<>> \in Seq([entry : Entries, score : Scores])
  OBVIOUS
<1>3. /\ results' = [results EXCEPT ![w] = <<>>] /\ left' = [left EXCEPT ![w] = 0]
      /\ limit' = [limit EXCEPT ![w] = NoLimit] /\ pc' = [pc EXCEPT ![w] = "idle"]
      /\ peeked' = [peeked EXCEPT ![w] = <<>>] /\ fresh' = [fresh EXCEPT ![w] = {}]
  BY DEF Raises, Idle
<1>4. results' \in [Workers -> Seq([entry : Entries, score : Scores])]
  BY <1>2, <1>3 DEF WorkersType
<1>5. delivered' \subseteq Entries /\ dropped' \subseteq Entries
  BY <1>1 DEF WorkersType, Raises
<1>6. /\ pc' \in [Workers -> {"idle", "popping", "peeked"}]
      /\ limit' \in [Workers -> {NoLimit} \cup 0..(Tiers - 1)]
      /\ left' \in [Workers -> 0..MaxItems]
      /\ peeked' \in [Workers -> [member : Members, score : Scores] \cup {<<>>}]
      /\ fresh' \in [Workers -> SUBSET Members]
  BY <1>3 DEF WorkersType
<1>7. ASSUME NEW v \in Workers
      PROVE  /\ pc'[v] = "idle" => results'[v] = <<>>
             /\ pc'[v] # "idle" => left'[v] # 0
             /\ pc'[v] = "peeked" => peeked'[v] \in [member : Members, score : Scores]
  BY <1>3 DEF WorkersType
<1>8. QED
  BY <1>4, <1>5, <1>6, <1>7 DEF WorkersType

LEMMA PoppedType ==
  ASSUME WorkersType, NEW w \in Workers, pc[w] # "idle",
         NEW e \in Entries, NEW s \in Scores, Popped(w, e, s)
  PROVE  WorkersType'
<1> USE QueueAssumption
<1>1. CASE left[w] = 1 /\ Returns(w, {e})
  BY <1>1, ReturnsType
<1>2. CASE left[w] > 1 /\ UNCHANGED <<limit, delivered, dropped>>
           /\ results' = [results EXCEPT ![w] = Append(@, [entry |-> e, score |-> s])]
           /\ left' = [left EXCEPT ![w] = @ - 1]
           /\ Idle(w, "popping")
  <2>1. results[w] \in Seq([entry : Entries, score : Scores])
    BY DEF WorkersType
  <2>2. Append(results[w], [entry |-> e, score |-> s]) \in Seq([entry : Entries, score : Scores])
    BY <2>1
  <2>3. left[w] - 1 \in 0..MaxItems /\ left[w] - 1 # 0
    BY <1>2 DEF WorkersType
  <2>4. /\ results' \in [Workers -> Seq([entry : Entries, score : Scores])]
        /\ left' \in [Workers -> 0..MaxItems]
    BY <1>2, <2>2, <2>3 DEF WorkersType
  <2>5. /\ pc' = [pc EXCEPT ![w] = "popping"] /\ peeked' = [peeked EXCEPT ![w] = <<>>]
        /\ fresh' = [fresh EXCEPT ![w] = {}]
    BY <1>2 DEF Idle
  <2>6. ASSUME NEW v \in Workers
        PROVE  /\ pc'[v] = "idle" => results'[v] = <<>>
               /\ pc'[v] # "idle" => left'[v] # 0
               /\ pc'[v] = "peeked" => peeked'[v] \in [member : Members, score : Scores]
    BY <1>2, <2>3, <2>5 DEF WorkersType
  <2>7. QED
    BY <1>2, <2>4, <2>5, <2>6 DEF WorkersType
<1>3. QED
  BY <1>1, <1>2 DEF Popped

LEMMA TypeInit == Init => TypeInv
BY QueueAssumption DEF Init, TypeInv, SetType, WorkersType

\* A queued member is an entry.
LEMMA QueuedType ==
  ASSUME SetType, NEW m \in Queued
  PROVE  m \in Members /\ entry[m] \in Entries /\ score[m] \in Scores
BY DEF SetType, Queued

\* A step that removes a member from the set, and what becomes of its entry.
LEMMA TakenType ==
  ASSUME TypeInv, NEW w \in Workers, pc[w] # "idle", NEW m \in Queued,
         NEW s \in Scores, ZRem(m), Popped(w, entry[m], s) \/ Raises(w, {entry[m]})
  PROVE  TypeInv'
<1>1. m \in Members /\ entry[m] \in Entries
  BY QueuedType DEF TypeInv
<1>2. SetType'
  BY <1>1, ZRemType DEF TypeInv
<1>3. WorkersType'
  BY <1>1, PoppedType, RaisesType DEF TypeInv
<1>4. QED
  BY <1>2, <1>3 DEF TypeInv

LEMMA UnchangedSetType ==
  ASSUME SetType, UNCHANGED queueVars
  PROVE  SetType'
BY DEF SetType, queueVars

LEMMA PopStepType ==
  ASSUME TypeInv, NEW w \in Workers, PopStep(w)
  PROVE  TypeInv'
<1> USE QueueAssumption
<1>1. CASE StartPop(w)
  <2>1. SetType'
    BY <1>1, UnchangedSetType DEF StartPop, TypeInv
  <2>2. /\ pc[w] = "idle" /\ pc' = [pc EXCEPT ![w] = "popping"]
        /\ limit' \in [Workers -> {NoLimit} \cup 0..(Tiers - 1)]
        /\ UNCHANGED <<peeked, fresh, results, delivered, dropped>>
    BY <1>1 DEF StartPop, TypeInv, WorkersType
  <2>3. PICK n \in 1..MaxItems : left' = [left EXCEPT ![w] = n]
    BY <1>1 DEF StartPop
  <2>4. n \in 0..MaxItems /\ n # 0
    BY <2>3
  <2>5. left' \in [Workers -> 0..MaxItems]
    BY <2>3, <2>4 DEF TypeInv, WorkersType
  <2>6. ASSUME NEW v \in Workers
        PROVE  /\ pc'[v] = "idle" => results'[v] = <<>>
               /\ pc'[v] # "idle" => left'[v] # 0
               /\ pc'[v] = "peeked" => peeked'[v] \in [member : Members, score : Scores]
    BY <2>2, <2>3, <2>4 DEF TypeInv, WorkersType
  <2>7. WorkersType'
    BY <2>2, <2>5, <2>6 DEF TypeInv, WorkersType
  <2>8. QED
    BY <2>1, <2>7 DEF TypeInv
<1>2. CASE PopNothing(w)
  BY <1>2, ReturnsType, UnchangedSetType DEF PopNothing, TypeInv
<1>3. CASE PopMin(w)
  <2>1. Queued # {}
    BY <1>3 DEF PopMin, NothingToPop
  <2>2. Best \in Queued
    BY <2>1, BestIsFirst DEF TypeInv
  <2>3. score[Best] \in Scores
    BY <2>2, QueuedType DEF TypeInv
  <2>4. QED
    BY <1>3, <2>2, <2>3, TakenType DEF PopMin
<1>4. CASE Peek(w)
  <2>1. Queued # {}
    BY <1>4 DEF Peek, NothingToPop
  <2>2. Best \in Queued
    BY <2>1, BestIsFirst DEF TypeInv
  <2>3. Best \in Members /\ score[Best] \in Scores
    BY <2>2, QueuedType DEF TypeInv
  <2>4. SetType'
    BY <1>4, UnchangedSetType DEF Peek, TypeInv
  <2>5. /\ pc[w] = "popping" /\ pc' = [pc EXCEPT ![w] = "peeked"]
        /\ peeked' = [peeked EXCEPT ![w] = [member |-> Best, score |-> score[Best]]]
        /\ UNCHANGED <<limit, left, fresh, results, delivered, dropped>>
    BY <1>4 DEF Peek
  <2> DEFINE seen == [member |-> Best, score |-> score[Best]]
  <2>6. seen \in [member : Members, score : Scores]
    BY <2>3
  <2> HIDE DEF seen
  <2>7. WorkersType'
    BY <2>5, <2>6 DEF TypeInv, WorkersType, seen
  <2>8. QED
    BY <2>4, <2>7 DEF TypeInv
<1>5. CASE Remove(w)
  <2> DEFINE m == peeked[w].member
  <2>1. pc[w] = "peeked" /\ peeked[w] \in [member : Members, score : Scores]
    BY <1>5 DEF Remove, TypeInv, WorkersType
  <2>2. peeked[w].score \in Scores
    BY <2>1
  <2>3. CASE m \in Queued
    <3>1. ZRem(m) /\ (Popped(w, entry[m], peeked[w].score) \/ Raises(w, {entry[m]}))
      BY <1>5, <2>3 DEF Remove
    <3>2. QED
      BY <2>1, <2>2, <2>3, <3>1, TakenType
  <2>4. CASE m \notin Queued
    <3>1. Returns(w, {}) /\ UNCHANGED queueVars
      BY <1>5, <2>4 DEF Remove
    <3>2. QED
      BY <3>1, ReturnsType, UnchangedSetType DEF TypeInv
  <2>5. QED
    BY <2>3, <2>4
<1>6. CASE Fail(w)
  BY <1>6, RaisesType, UnchangedSetType DEF Fail, TypeInv
<1>7. QED
  BY <1>1, <1>2, <1>3, <1>4, <1>5, <1>6 DEF PopStep

LEMMA TypeNext == TypeInv /\ [Next]_vars => TypeInv'
<1> USE QueueAssumption
<1> SUFFICES ASSUME TypeInv, [Next]_vars PROVE TypeInv'
  OBVIOUS
<1>1. CASE Push
  <2>1. PICK S \in SUBSET Members \ {{}} : \E new \in [S -> Scores] :
          /\ pushes + Cardinality(S) <= MaxPushes
          /\ ZAdd(new)
          /\ fresh' = [w \in Workers |-> IF pc[w] = "peeked" THEN fresh[w] \cup S ELSE {}]
          /\ UNCHANGED <<pc, limit, left, peeked, results, delivered, dropped>>
    BY <1>1 DEF Push
  <2>2. PICK new \in [S -> Scores] :
          /\ pushes + Cardinality(S) <= MaxPushes
          /\ ZAdd(new)
          /\ fresh' = [w \in Workers |-> IF pc[w] = "peeked" THEN fresh[w] \cup S ELSE {}]
          /\ UNCHANGED <<pc, limit, left, peeked, results, delivered, dropped>>
    BY <2>1
  <2>3. SetType'
    BY <2>2, ZAddType DEF TypeInv
  <2>4. WorkersType'
    BY <2>2 DEF TypeInv, WorkersType
  <2>5. QED
    BY <2>3, <2>4 DEF TypeInv
<1>2. CASE Clear
  <2>1. SetType'
    BY <1>2 DEF Clear, TypeInv, SetType
  <2>2. {entry[m] : m \in Queued} \subseteq Entries
    BY QueuedType DEF TypeInv
  <2>3. WorkersType'
    BY <1>2, <2>2 DEF Clear, TypeInv, WorkersType
  <2>4. QED
    BY <2>1, <2>3 DEF TypeInv
<1>3. ASSUME NEW w \in Workers, PopStep(w) PROVE TypeInv'
  BY <1>3, PopStepType
<1>4. CASE UNCHANGED vars
  BY <1>4 DEF vars, queueVars, TypeInv, SetType, WorkersType
<1>5. QED
  BY <1>1, <1>2, <1>3, <1>4 DEF Next

LEMMA TypeAlways == Spec => []TypeInv
BY TypeInit, TypeNext, PTL DEF Spec

\* The types of the queue: in particular a push of any number of members
\* numbers the new entries within the bound.
THEOREM TypeCorrect == Spec => []TypeOK
BY TypeAlways, TypeInvImpliesTypeOK, PTL

-------------------------------------------------------------------------------
(* The limit of a batch.                                                    *)

\* The end of a batch, with or without an error, leaves nothing to limit.
LEMMA EndKeepsLimit ==
  ASSUME WorkersType, LimitKept, NEW w \in Workers,
         (\E last : Returns(w, last)) \/ (\E lost : Raises(w, lost))
  PROVE  LimitKept'
<1> USE QueueAssumption
<1>1. /\ results' = [results EXCEPT ![w] = <<>>] /\ left' = [left EXCEPT ![w] = 0]
      /\ limit' = [limit EXCEPT ![w] = NoLimit] /\ pc' = [pc EXCEPT ![w] = "idle"]
      /\ peeked' = [peeked EXCEPT ![w] = <<>>]
  BY DEF Returns, Raises, Idle
<1>2. ASSUME NEW v \in Workers \ {w}
      PROVE  /\ results'[v] = results[v] /\ left'[v] = left[v] /\ limit'[v] = limit[v]
             /\ pc'[v] = pc[v] /\ peeked'[v] = peeked[v]
  BY <1>1 DEF WorkersType
<1>3. results'[w] = <<>> /\ left'[w] = 0 /\ limit'[w] = NoLimit
  BY <1>1 DEF WorkersType
<1>4. Len(results'[w]) + left'[w] <= MaxItems
  BY <1>3
<1>5. QED
  BY <1>2, <1>3, <1>4 DEF LimitKept

LEMMA PoppedKeepsLimit ==
  ASSUME WorkersType, LimitKept, NEW w \in Workers, pc[w] # "idle",
         NEW e \in Entries, NEW s \in Scores,
         limit[w] # NoLimit => s < (limit[w] + 1) * Width,
         Popped(w, e, s)
  PROVE  LimitKept'
<1> USE QueueAssumption
<1>1. CASE left[w] = 1 /\ Returns(w, {e})
  BY <1>1, EndKeepsLimit
<1>2. CASE left[w] > 1 /\ UNCHANGED <<limit, delivered, dropped>>
           /\ results' = [results EXCEPT ![w] = Append(@, [entry |-> e, score |-> s])]
           /\ left' = [left EXCEPT ![w] = @ - 1]
           /\ Idle(w, "popping")
  <2> DEFINE next == [entry |-> e, score |-> s]
  <2>1. results[w] \in Seq([entry : Entries, score : Scores])
    BY DEF WorkersType
  <2>2. next \in [entry : Entries, score : Scores] /\ next.score = s
    OBVIOUS
  <2>3. /\ results'[w] = Append(results[w], next) /\ left'[w] = left[w] - 1
        /\ limit' = limit /\ pc'[w] = "popping"
    BY <1>2 DEF Idle, WorkersType
  <2> HIDE DEF next
  <2>4. /\ Len(results'[w]) = Len(results[w]) + 1 /\ DOMAIN results'[w] = 1..(Len(results[w]) + 1)
        /\ \A i \in 1..Len(results[w]) : results'[w][i] = results[w][i]
        /\ results'[w][Len(results[w]) + 1] = next
    BY <2>1, <2>2, <2>3, AppendProperties, LenProperties
  <2>5. DOMAIN results[w] = 1..Len(results[w]) /\ Len(results[w]) \in Nat
    BY <2>1, DomainOfList
  <2>6. Len(results'[w]) + left'[w] <= MaxItems
    BY <2>3, <2>4, <2>5 DEF LimitKept, WorkersType
  <2>7. ASSUME limit'[w] # NoLimit, NEW i \in DOMAIN results'[w]
        PROVE  results'[w][i].score < (limit'[w] + 1) * Width
    <3>1. CASE i = Len(results[w]) + 1
      BY <2>2, <2>3, <2>4, <2>7, <3>1
    <3>2. CASE i \in DOMAIN results[w]
      BY <2>3, <2>4, <2>5, <2>7, <3>2 DEF LimitKept
    <3>3. QED
      BY <2>4, <2>5, <2>7, <3>1, <3>2
  <2>8. ASSUME NEW v \in Workers \ {w}
        PROVE  /\ results'[v] = results[v] /\ left'[v] = left[v] /\ limit'[v] = limit[v]
               /\ pc'[v] = pc[v] /\ peeked'[v] = peeked[v]
    BY <1>2 DEF WorkersType, Idle
  <2>9. QED
    BY <2>3, <2>6, <2>7, <2>8 DEF LimitKept
<1>3. QED
  BY <1>1, <1>2 DEF Popped

LEMMA LimitNext ==
  ASSUME TypeInv, LimitKept, [Next]_vars
  PROVE  LimitKept'
<1> USE QueueAssumption
<1>1. CASE Push \/ Clear \/ UNCHANGED vars
  BY <1>1 DEF Push, Clear, vars, queueVars, LimitKept
<1>2. ASSUME NEW w \in Workers, StartPop(w) PROVE LimitKept'
  <2>1. /\ pc[w] = "idle" /\ pc' = [pc EXCEPT ![w] = "popping"]
        /\ UNCHANGED <<peeked, results>>
    BY <1>2 DEF StartPop
  <2>2. PICK n \in 1..MaxItems : left' = [left EXCEPT ![w] = n]
    BY <1>2 DEF StartPop
  <2>3. \E p : limit' = [limit EXCEPT ![w] = p]
    BY <1>2 DEF StartPop
  <2>4. results'[w] = <<>> /\ Len(results'[w]) = 0 /\ left'[w] = n /\ pc'[w] = "popping"
    BY <2>1, <2>2 DEF TypeInv, WorkersType
  <2>5. ASSUME NEW v \in Workers \ {w}
        PROVE  /\ results'[v] = results[v] /\ left'[v] = left[v] /\ limit'[v] = limit[v]
               /\ pc'[v] = pc[v] /\ peeked'[v] = peeked[v]
    BY <2>1, <2>2, <2>3 DEF TypeInv, WorkersType
  <2>6. DOMAIN results'[w] = {} /\ Len(results'[w]) + left'[w] <= MaxItems
    BY <2>2, <2>4
  <2>7. QED
    BY <2>4, <2>5, <2>6 DEF LimitKept
<1>3. ASSUME NEW w \in Workers, PopNothing(w) \/ Fail(w) PROVE LimitKept'
  BY <1>3, EndKeepsLimit DEF PopNothing, Fail, TypeInv
<1>4. ASSUME NEW w \in Workers, PopMin(w) PROVE LimitKept'
  <2>1. Queued # {}
    BY <1>4 DEF PopMin, NothingToPop
  <2>2. Best \in Queued
    BY <2>1, BestIsFirst DEF TypeInv
  <2>3. score[Best] \in Scores /\ entry[Best] \in Entries
    BY <2>2, QueuedType DEF TypeInv
  <2>4. limit[w] = NoLimit /\ pc[w] # "idle"
    BY <1>4 DEF PopMin
  <2>5. Popped(w, entry[Best], score[Best]) \/ Raises(w, {entry[Best]})
    BY <1>4 DEF PopMin
  <2>6. QED
    BY <2>3, <2>4, <2>5, PoppedKeepsLimit, EndKeepsLimit DEF TypeInv
<1>5. ASSUME NEW w \in Workers, Peek(w) PROVE LimitKept'
  <2>1. PICK m \in Queued : ~ (score[m] >= Hi(limit[w]))
    BY <1>5 DEF Peek, NothingToPop
  <2>2. Best \in Queued /\ \A n \in Queued \ {Best} : Before(Best, score[Best], n, score[n])
    BY <2>1, BestIsFirst DEF TypeInv
  <2>3. score[Best] \in Nat /\ score[m] \in Nat
    <3>1. score[Best] \in Scores /\ score[m] \in Scores
      BY <2>2, QueuedType DEF TypeInv
    <3>2. QED
      BY <3>1, ScoresAreNatural
  <2>4. Hi(limit[w]) \in Int
    <3>1. limit[w] \in Int /\ Width \in Int
      BY DEF TypeInv, WorkersType, NoLimit
    <3>2. (limit[w] + 1) * Width \in Int
      BY <3>1
    <3>3. QED
      BY <3>2 DEF Hi
  <2>5. score[Best] < Hi(limit[w])
    <3>1. score[Best] <= score[m]
      BY <2>2, <2>3 DEF Before
    <3>2. QED
      BY <2>1, <2>3, <2>4, <3>1
  <2>6. /\ pc' = [pc EXCEPT ![w] = "peeked"]
        /\ peeked' = [peeked EXCEPT ![w] = [member |-> Best, score |-> score[Best]]]
        /\ UNCHANGED <<limit, left, results>>
    BY <1>5 DEF Peek
  <2>7. peeked'[w].score = score[Best]
    BY <2>6 DEF TypeInv, WorkersType
  <2>8. ASSUME NEW v \in Workers \ {w} PROVE pc'[v] = pc[v] /\ peeked'[v] = peeked[v]
    BY <2>6 DEF TypeInv, WorkersType
  <2>9. peeked'[w].score < (limit'[w] + 1) * Width
    BY <2>5, <2>6, <2>7 DEF Hi
  <2>10. QED
    BY <2>6, <2>8, <2>9 DEF LimitKept
<1>6. ASSUME NEW w \in Workers, Remove(w) PROVE LimitKept'
  <2> DEFINE m == peeked[w].member
  <2>1. pc[w] = "peeked" /\ peeked[w] \in [member : Members, score : Scores]
    BY <1>6 DEF Remove, TypeInv, WorkersType
  <2>2. peeked[w].score \in Scores
    BY <2>1
  <2>3. limit[w] # NoLimit => peeked[w].score < (limit[w] + 1) * Width
    BY <2>1 DEF LimitKept
  <2>4. CASE m \in Queued
    <3>1. entry[m] \in Entries
      BY <2>4, QueuedType DEF TypeInv
    <3>2. Popped(w, entry[m], peeked[w].score) \/ Raises(w, {entry[m]})
      BY <1>6, <2>4 DEF Remove
    <3>3. QED
      BY <2>1, <2>2, <2>3, <3>1, <3>2, PoppedKeepsLimit, EndKeepsLimit DEF TypeInv
  <2>5. CASE m \notin Queued
    <3>1. Returns(w, {})
      BY <1>6, <2>5 DEF Remove
    <3>2. QED
      BY <3>1, EndKeepsLimit DEF TypeInv
  <2>6. QED
    BY <2>4, <2>5
<1>7. QED
  BY <1>1, <1>2, <1>3, <1>4, <1>5, <1>6 DEF Next, PopStep

\* No batch reports a score beyond its limit, or more entries than it was
\* asked for, whatever is pushed and popped between its looks and its takes.
THEOREM LimitKeptCorrect == Spec => []LimitKept
<1>1. Init => LimitKept
  <2> SUFFICES ASSUME Init PROVE LimitKept
    OBVIOUS
  <2>1. ASSUME NEW w \in Workers
        PROVE  results[w] = <<>> /\ left[w] = 0 /\ limit[w] = NoLimit
    BY DEF Init
  <2>2. QED
    BY <2>1, QueueAssumption DEF LimitKept
<1>2. TypeInv /\ LimitKept /\ [Next]_vars => LimitKept'
  BY LimitNext
<1>3. QED
  BY <1>1, <1>2, TypeAlways, PTL DEF Spec

-------------------------------------------------------------------------------
(* What a worker has looked at.                                             *)

\* Nobody starts looking, and what is queued was queued with the same score.
LEMMA NothingNewAhead ==
  ASSUME NoOvertaking,
         \A n \in Queued' : n \in Queued /\ score'[n] = score[n],
         \A w \in Workers : pc'[w] = "peeked" =>
           /\ pc[w] = "peeked" /\ peeked'[w] = peeked[w] /\ fresh'[w] = fresh[w]
  PROVE  NoOvertaking'
BY DEF NoOvertaking, Before

LEMMA SetShrinks ==
  ASSUME SetType, (\E m : ZRem(m)) \/ UNCHANGED queueVars
  PROVE  \A n \in Queued' : n \in Queued /\ score'[n] = score[n]
BY DEF SetType, ZRem, queueVars, Queued

\* A worker that ends an iteration looks at nothing; the others are as before.
LEMMA IdleLooksAtNothing ==
  ASSUME WorkersType, NEW w \in Workers, Idle(w, "idle") \/ Idle(w, "popping")
  PROVE  \A v \in Workers : pc'[v] = "peeked" =>
           pc[v] = "peeked" /\ peeked'[v] = peeked[v] /\ fresh'[v] = fresh[v]
BY DEF WorkersType, Idle

LEMMA OvertakingNext ==
  ASSUME TypeInv, NoOvertaking, [Next]_vars
  PROVE  NoOvertaking'
<1> USE QueueAssumption
<1>1. CASE Push
  <2>1. PICK S \in SUBSET Members \ {{}} : \E new \in [S -> Scores] :
          /\ ZAdd(new)
          /\ fresh' = [w \in Workers |-> IF pc[w] = "peeked" THEN fresh[w] \cup S ELSE {}]
          /\ UNCHANGED <<pc, peeked>>
    BY <1>1 DEF Push
  <2>2. PICK new \in [S -> Scores] :
          /\ ZAdd(new)
          /\ fresh' = [w \in Workers |-> IF pc[w] = "peeked" THEN fresh[w] \cup S ELSE {}]
          /\ UNCHANGED <<pc, peeked>>
    BY <2>1
  <2>3. score' = [m \in Members |-> IF m \in S THEN new[m] ELSE score[m]]
    BY <2>2 DEF ZAdd
  <2>4. SUFFICES ASSUME NEW w \in Workers, pc'[w] = "peeked", NEW n \in Queued' \ fresh'[w]
                 PROVE  ~Before(n, score'[n], peeked'[w].member, peeked'[w].score)
    BY DEF NoOvertaking, Before
  <2>5. n \in Queued \ fresh[w] /\ score'[n] = score[n]
    BY <2>2, <2>3, <2>4 DEF Queued
  <2>6. QED
    BY <2>2, <2>4, <2>5 DEF NoOvertaking
<1>2. CASE Clear
  BY <1>2 DEF Clear, NoOvertaking, Queued
<1>3. CASE UNCHANGED vars
  BY <1>3 DEF vars, queueVars, NoOvertaking, Queued, Before
<1>4. ASSUME NEW w \in Workers, StartPop(w) PROVE NoOvertaking'
  <2>1. \A v \in Workers : pc'[v] = "peeked" =>
          pc[v] = "peeked" /\ peeked'[v] = peeked[v] /\ fresh'[v] = fresh[v]
    BY <1>4 DEF StartPop, TypeInv, WorkersType
  <2>2. \A n \in Queued' : n \in Queued /\ score'[n] = score[n]
    BY <1>4, SetShrinks DEF StartPop, TypeInv
  <2>3. QED
    BY <2>1, <2>2, NothingNewAhead
<1>5. ASSUME NEW w \in Workers, PopNothing(w) \/ PopMin(w) \/ Remove(w) \/ Fail(w)
      PROVE  NoOvertaking'
  <2>1. (\E m : ZRem(m)) \/ UNCHANGED queueVars
    BY <1>5 DEF PopNothing, PopMin, Remove, Fail
  <2>2. Idle(w, "idle") \/ Idle(w, "popping")
    BY <1>5 DEF PopNothing, PopMin, Remove, Fail, Returns, Raises, Popped
  <2>3. \A n \in Queued' : n \in Queued /\ score'[n] = score[n]
    BY <2>1, SetShrinks DEF TypeInv
  <2>4. \A v \in Workers : pc'[v] = "peeked" =>
          pc[v] = "peeked" /\ peeked'[v] = peeked[v] /\ fresh'[v] = fresh[v]
    BY <2>2, IdleLooksAtNothing DEF TypeInv
  <2>5. QED
    BY <2>3, <2>4, NothingNewAhead
<1>6. ASSUME NEW w \in Workers, Peek(w) PROVE NoOvertaking'
  <2>1. Queued # {}
    BY <1>6 DEF Peek, NothingToPop
  <2>2. Best \in Queued /\ \A n \in Queued \ {Best} : Before(Best, score[Best], n, score[n])
    BY <2>1, BestIsFirst DEF TypeInv
  <2>3. \A n \in Queued : n \in Nat /\ score[n] \in Nat
    BY QueuedType, ScoresAreNatural DEF TypeInv
  <2>4. \A n \in Queued : ~Before(n, score[n], Best, score[Best])
    BY <2>2, <2>3 DEF Before
  <2>5. /\ pc' = [pc EXCEPT ![w] = "peeked"] /\ fresh' = fresh /\ score' = score
        /\ peeked' = [peeked EXCEPT ![w] = [member |-> Best, score |-> score[Best]]]
    BY <1>6 DEF Peek, queueVars
  <2>6. peeked'[w].member = Best /\ peeked'[w].score = score[Best]
    BY <2>5 DEF TypeInv, WorkersType
  <2>7. \A v \in Workers \ {w} : pc'[v] = pc[v] /\ peeked'[v] = peeked[v]
    BY <2>5 DEF TypeInv, WorkersType
  <2>8. SUFFICES ASSUME NEW v \in Workers, pc'[v] = "peeked", NEW n \in Queued' \ fresh'[v]
                 PROVE  ~Before(n, score'[n], peeked'[v].member, peeked'[v].score)
    BY DEF NoOvertaking, Before
  <2>9. n \in Queued \ fresh[v] /\ score'[n] = score[n]
    BY <2>5, <2>8 DEF Queued
  <2>10. CASE v = w
    BY <2>4, <2>6, <2>9, <2>10
  <2>11. CASE v # w
    BY <2>7, <2>8, <2>9, <2>11 DEF NoOvertaking
  <2>12. QED
    BY <2>10, <2>11
<1>7. QED
  BY <1>1, <1>2, <1>3, <1>4, <1>5, <1>6 DEF Next, PopStep

\* What a worker is about to take was the best of all that has been in the
\* queue since it looked, whatever the other workers took meanwhile.
THEOREM NoOvertakingCorrect == Spec => []NoOvertaking
<1>1. Init => NoOvertaking
  BY DEF Init, NoOvertaking
<1>2. TypeInv /\ NoOvertaking /\ [Next]_vars => NoOvertaking'
  BY OvertakingNext
<1>3. QED
  BY <1>1, <1>2, TypeAlways, PTL DEF Spec

-------------------------------------------------------------------------------
(* Where an entry is.                                                       *)

\* A set is divided among the queue, what was delivered, what was dropped and
\* the lists of the workers.
Divided(all, queue, done, gone, lists) ==
  /\ all = queue \cup done \cup gone \cup UNION {lists[w] : w \in Workers}
  /\ done \cap gone = {} /\ queue \cap (done \cup gone) = {}
  /\ \A w \in Workers :
       /\ lists[w] \cap (queue \cup done \cup gone) = {}
       /\ \A v \in Workers \ {w} : lists[w] \cap lists[v] = {}

\* One worker's list ends up in what was delivered or dropped, with what was
\* just taken out of the queue, or grows by that.
LEMMA DividedSteps ==
  ASSUME NEW all, NEW queue, NEW done, NEW gone, NEW lists, DOMAIN lists = Workers,
         lists \in [Workers -> SUBSET all],
         Divided(all, queue, done, gone, lists),
         NEW w \in Workers, NEW taken \in SUBSET queue
  PROVE  /\ Divided(all, queue \ taken, done \cup lists[w] \cup taken, gone,
                    [lists EXCEPT ![w] = {}])
         /\ Divided(all, queue \ taken, done, gone \cup lists[w] \cup taken,
                    [lists EXCEPT ![w] = {}])
         /\ Divided(all, queue \ taken, done, gone, [lists EXCEPT ![w] = @ \cup taken])
<1> DEFINE emptied == [lists EXCEPT ![w] = {}]
           grown == [lists EXCEPT ![w] = @ \cup taken]
<1>1. /\ emptied[w] = {} /\ grown[w] = lists[w] \cup taken
      /\ \A v \in Workers \ {w} : emptied[v] = lists[v] /\ grown[v] = lists[v]
  OBVIOUS
<1> HIDE DEF emptied, grown
<1>2. \A e : e \in all <=>
        e \in queue \/ e \in done \/ e \in gone \/ \E v \in Workers : e \in lists[v]
  BY DEF Divided
<1>3. /\ done \cap gone = {} /\ queue \cap (done \cup gone) = {}
      /\ \A u \in Workers : lists[u] \cap (queue \cup done \cup gone) = {}
      /\ \A u, v \in Workers : u # v => lists[u] \cap lists[v] = {}
  BY DEF Divided
<1>4. ASSUME NEW e
      PROVE  /\ (\E v \in Workers : e \in emptied[v]) <=>
                  (\E v \in Workers : e \in lists[v]) /\ e \notin lists[w]
             /\ (\E v \in Workers : e \in grown[v]) <=>
                  (\E v \in Workers : e \in lists[v]) \/ e \in taken
  <2>1. (\E v \in Workers : e \in emptied[v]) =>
          (\E v \in Workers : e \in lists[v]) /\ e \notin lists[w]
    BY <1>1, <1>3
  <2>2. (\E v \in Workers : e \in lists[v]) /\ e \notin lists[w] =>
          \E v \in Workers : e \in emptied[v]
    BY <1>1
  <2>3. (\E v \in Workers : e \in grown[v]) =>
          (\E v \in Workers : e \in lists[v]) \/ e \in taken
    BY <1>1
  <2>4. (\E v \in Workers : e \in lists[v]) \/ e \in taken =>
          \E v \in Workers : e \in grown[v]
    BY <1>1
  <2>5. QED
    BY <2>1, <2>2, <2>3, <2>4
<1>5. Divided(all, queue \ taken, done \cup lists[w] \cup taken, gone, emptied)
  <2>1. all = (queue \ taken) \cup (done \cup lists[w] \cup taken) \cup gone
                \cup UNION {emptied[v] : v \in Workers}
    BY <1>2, <1>4
  <2>2. \A v \in Workers :
          emptied[v] \cap ((queue \ taken) \cup (done \cup lists[w] \cup taken) \cup gone) = {}
    BY <1>1, <1>3
  <2>3. \A u \in Workers : \A v \in Workers \ {u} : emptied[u] \cap emptied[v] = {}
    BY <1>1, <1>3
  <2>4. QED
    BY <1>3, <2>1, <2>2, <2>3 DEF Divided
<1>6. Divided(all, queue \ taken, done, gone \cup lists[w] \cup taken, emptied)
  <2>1. all = (queue \ taken) \cup done \cup (gone \cup lists[w] \cup taken)
                \cup UNION {emptied[v] : v \in Workers}
    BY <1>2, <1>4
  <2>2. \A v \in Workers :
          emptied[v] \cap ((queue \ taken) \cup done \cup (gone \cup lists[w] \cup taken)) = {}
    BY <1>1, <1>3
  <2>3. \A u \in Workers : \A v \in Workers \ {u} : emptied[u] \cap emptied[v] = {}
    BY <1>1, <1>3
  <2>4. QED
    BY <1>3, <2>1, <2>2, <2>3 DEF Divided
<1>7. Divided(all, queue \ taken, done, gone, grown)
  <2>1. all = (queue \ taken) \cup done \cup gone \cup UNION {grown[v] : v \in Workers}
    BY <1>2, <1>4
  <2>2. \A v \in Workers : grown[v] \cap ((queue \ taken) \cup done \cup gone) = {}
    BY <1>1, <1>3
  <2>3. \A u \in Workers : \A v \in Workers \ {u} : grown[u] \cap grown[v] = {}
    BY <1>1, <1>3
  <2>4. QED
    BY <1>3, <2>1, <2>2, <2>3 DEF Divided
<1>8. QED
  BY <1>5, <1>6, <1>7 DEF emptied, grown

LEMMA DividedGrows ==
  ASSUME NEW all, NEW queue, NEW done, NEW gone, NEW lists, NEW new,
         Divided(all, queue, done, gone, lists), new \cap all = {}
  PROVE  Divided(all \cup new, queue \cup new, done, gone, lists)
BY DEF Divided

LEMMA DividedCleared ==
  ASSUME NEW all, NEW queue, NEW done, NEW gone, NEW lists,
         Divided(all, queue, done, gone, lists)
  PROVE  Divided(all, {}, done, gone \cup queue, lists)
BY DEF Divided

PlaceInv ==
  /\ Divided(1..entries, InQueue, delivered, dropped, Lists)
  /\ \A m, n \in Queued : entry[m] = entry[n] => m = n
  /\ \A w \in Workers : Cardinality(Held(w)) = Len(results[w])

LEMMA PlaceInvImpliesOnePlace == PlaceInv => OnePlace
<1>1. {Lists[w] : w \in Workers} = {Held(w) : w \in Workers}
  BY DEF Lists
<1>2. \A w \in Workers : Lists[w] = Held(w)
  BY DEF Lists
<1>3. QED
  BY <1>1, <1>2 DEF PlaceInv, Divided, OnePlace

LEMMA ListsType ==
  ASSUME PlaceInv
  PROVE  DOMAIN Lists = Workers /\ Lists \in [Workers -> SUBSET (1..entries)]
<1>1. \A w \in Workers : Lists[w] \subseteq 1..entries
  BY DEF PlaceInv, Divided
<1>2. QED
  BY <1>1 DEF Lists

\* The worker that ends its batch has an empty list.
LEMMA ListEmptied ==
  ASSUME WorkersType, PlaceInv, NEW w \in Workers,
         results' = [results EXCEPT ![w] = <<>>]
  PROVE  /\ Lists' = [Lists EXCEPT ![w] = {}]
         /\ \A v \in Workers : Cardinality(Held(v)') = Len(results'[v])
<1>1. results'[w] = <<>> /\ \A v \in Workers \ {w} : results'[v] = results[v]
  BY DEF WorkersType
<1>2. Held(w)' = {} /\ \A v \in Workers \ {w} : Held(v)' = Held(v)
  BY <1>1 DEF Held
<1>3. Lists' = [Lists EXCEPT ![w] = {}]
  BY <1>2 DEF Lists
<1>4. Cardinality(Held(w)') = Len(results'[w])
  BY <1>1, <1>2, FS_EmptySet
<1>5. \A v \in Workers \ {w} : Cardinality(Held(v)') = Len(results'[v])
  BY <1>1, <1>2 DEF PlaceInv
<1>6. QED
  BY <1>3, <1>4, <1>5

LEMMA ListGrown ==
  ASSUME WorkersType, PlaceInv, NEW w \in Workers,
         NEW e \in Entries \ Held(w), NEW s \in Scores,
         results' = [results EXCEPT ![w] = Append(@, [entry |-> e, score |-> s])]
  PROVE  /\ Lists' = [Lists EXCEPT ![w] = @ \cup {e}]
         /\ \A v \in Workers : Cardinality(Held(v)') = Len(results'[v])
<1> DEFINE next == [entry |-> e, score |-> s]
<1>1. results[w] \in Seq([entry : Entries, score : Scores])
  BY DEF WorkersType
<1>2. next \in [entry : Entries, score : Scores] /\ next.entry = e
  OBVIOUS
<1>3. results'[w] = Append(results[w], next) /\ \A v \in Workers \ {w} : results'[v] = results[v]
  BY DEF WorkersType
<1> HIDE DEF next
<1>4. DOMAIN results[w] = 1..Len(results[w]) /\ Len(results[w]) \in Nat
  BY <1>1, DomainOfList
<1>5. /\ Len(results'[w]) = Len(results[w]) + 1 /\ DOMAIN results'[w] = 1..(Len(results[w]) + 1)
      /\ \A i \in 1..Len(results[w]) : results'[w][i] = results[w][i]
      /\ results'[w][Len(results[w]) + 1] = next
  BY <1>1, <1>2, <1>3, AppendProperties, LenProperties
<1>6. Held(w)' = Held(w) \cup {e}
  <2>1. \A x \in Held(w)' : x \in Held(w) \cup {e}
    BY <1>2, <1>4, <1>5 DEF Held
  <2>2. \A x \in Held(w) : x \in Held(w)'
    BY <1>4, <1>5 DEF Held
  <2>3. e \in Held(w)'
    BY <1>2, <1>4, <1>5 DEF Held
  <2>4. QED
    BY <2>1, <2>2, <2>3
<1>7. \A v \in Workers \ {w} : Held(v)' = Held(v)
  BY <1>3 DEF Held
<1>8. Lists' = [Lists EXCEPT ![w] = @ \cup {e}]
  BY <1>6, <1>7 DEF Lists
<1>9. IsFiniteSet(Held(w))
  <2>1. IsFiniteSet(Entries)
    BY QueueAssumption, FS_Interval DEF Entries
  <2>2. QED
    BY <2>1, HeldType, FS_Subset
<1>10. Cardinality(Held(w)') = Len(results'[w])
  BY <1>5, <1>6, <1>9, FS_AddElement DEF PlaceInv
<1>11. \A v \in Workers \ {w} : Cardinality(Held(v)') = Len(results'[v])
  BY <1>3, <1>7 DEF PlaceInv
<1>12. QED
  BY <1>8, <1>10, <1>11

\* A batch ends and nothing is taken out of the queue.
LEMMA EndPlace ==
  ASSUME WorkersType, PlaceInv, NEW w \in Workers, UNCHANGED queueVars,
         Returns(w, {}) \/ Raises(w, {})
  PROVE  PlaceInv'
<1>1. /\ Lists' = [Lists EXCEPT ![w] = {}]
      /\ \A v \in Workers : Cardinality(Held(v)') = Len(results'[v])
  BY ListEmptied DEF Returns, Raises
<1>2. entries' = entries /\ InQueue' = InQueue /\ Queued' = Queued /\ entry' = entry
  BY DEF queueVars, InQueue, Queued
<1>3. Lists[w] = Held(w)
  BY DEF Lists
<1>4. \/ delivered' = delivered \cup Lists[w] /\ dropped' = dropped
      \/ dropped' = dropped \cup Lists[w] /\ delivered' = delivered
  BY <1>3 DEF Returns, Raises
<1>5. /\ Divided(1..entries, InQueue, delivered \cup Lists[w], dropped, [Lists EXCEPT ![w] = {}])
      /\ Divided(1..entries, InQueue, delivered, dropped \cup Lists[w], [Lists EXCEPT ![w] = {}])
  <2>1. Divided(1..entries, InQueue, delivered, dropped, Lists)
    BY DEF PlaceInv
  <2>2. /\ Divided(1..entries, InQueue \ {}, delivered \cup Lists[w] \cup {}, dropped,
                   [Lists EXCEPT ![w] = {}])
        /\ Divided(1..entries, InQueue \ {}, delivered, dropped \cup Lists[w] \cup {},
                   [Lists EXCEPT ![w] = {}])
    BY <2>1, ListsType, DividedSteps
  <2>3. InQueue \ {} = InQueue /\ \A X : X \cup {} = X
    OBVIOUS
  <2>4. QED
    BY <2>2, <2>3
<1>6. Divided(1..entries', InQueue', delivered', dropped', Lists')
  BY <1>1, <1>2, <1>4, <1>5
<1>7. QED
  BY <1>1, <1>2, <1>6 DEF PlaceInv

\* A member is taken out of the queue: its entry is in the list of the
\* worker, returned, or lost.
LEMMA TakenQueue ==
  ASSUME TypeInv, PlaceInv, NEW m \in Queued, ZRem(m)
  PROVE  /\ entry[m] \in Entries /\ entry[m] \in InQueue
         /\ InQueue' = InQueue \ {entry[m]} /\ entries' = entries
         /\ \A k, n \in Queued' : entry'[k] = entry'[n] => k = n
<1>1. m \in Members /\ entry[m] \in Entries /\ entry[m] \in InQueue
  BY QueuedType DEF TypeInv, InQueue
<1>2. Queued' = Queued \ {m} /\ entries' = entries /\ \A n \in Queued \ {m} : entry'[n] = entry[n]
  BY <1>1 DEF ZRem, Queued, TypeInv, SetType
<1>3. InQueue' = InQueue \ {entry[m]}
  <2>1. InQueue' = {entry[n] : n \in Queued \ {m}}
    BY <1>2 DEF InQueue
  <2>2. QED
    BY <2>1 DEF InQueue, PlaceInv
<1>4. \A k, n \in Queued' : entry'[k] = entry'[n] => k = n
  BY <1>2 DEF PlaceInv
<1>5. QED
  BY <1>1, <1>2, <1>3, <1>4

LEMMA TakenLists ==
  ASSUME WorkersType, PlaceInv, NEW w \in Workers, NEW e \in Entries \ Held(w), NEW s \in Scores,
         Popped(w, e, s) \/ Raises(w, {e})
  PROVE  /\ \/ /\ delivered' = delivered \cup Lists[w] \cup {e} /\ dropped' = dropped
               /\ Lists' = [Lists EXCEPT ![w] = {}]
            \/ /\ dropped' = dropped \cup Lists[w] \cup {e} /\ delivered' = delivered
               /\ Lists' = [Lists EXCEPT ![w] = {}]
            \/ /\ UNCHANGED <<delivered, dropped>>
               /\ Lists' = [Lists EXCEPT ![w] = @ \cup {e}]
         /\ \A v \in Workers : Cardinality(Held(v)') = Len(results'[v])
<1>1. Lists[w] = Held(w)
  BY DEF Lists
<1>2. CASE Raises(w, {e})
  <2>1. delivered' = delivered /\ dropped' = dropped \cup Lists[w] \cup {e}
    BY <1>1, <1>2 DEF Raises
  <2>2. QED
    BY <1>2, <2>1, ListEmptied DEF Raises
<1>3. CASE Returns(w, {e})
  <2>1. delivered' = delivered \cup Lists[w] \cup {e} /\ dropped' = dropped
    BY <1>1, <1>3 DEF Returns
  <2>2. QED
    BY <1>3, <2>1, ListEmptied DEF Returns
<1>4. CASE /\ UNCHANGED <<delivered, dropped>>
           /\ results' = [results EXCEPT ![w] = Append(@, [entry |-> e, score |-> s])]
  BY <1>4, ListGrown
<1>5. QED
  BY <1>2, <1>3, <1>4 DEF Popped

LEMMA TakenPlace ==
  ASSUME TypeInv, PlaceInv, NEW w \in Workers, NEW m \in Queued, NEW s \in Scores,
         ZRem(m), Popped(w, entry[m], s) \/ Raises(w, {entry[m]})
  PROVE  PlaceInv'
<1> DEFINE e == entry[m]
<1>1. /\ e \in Entries /\ e \in InQueue /\ InQueue' = InQueue \ {e} /\ entries' = entries
      /\ \A k, n \in Queued' : entry'[k] = entry'[n] => k = n
  BY TakenQueue
<1>2. e \notin Held(w)
  BY <1>1 DEF PlaceInv, Divided, Lists
<1>3. Popped(w, e, s) \/ Raises(w, {e})
  OBVIOUS
<1> HIDE DEF e
<1>4. /\ Divided(1..entries, InQueue \ {e}, delivered \cup Lists[w] \cup {e}, dropped,
                 [Lists EXCEPT ![w] = {}])
      /\ Divided(1..entries, InQueue \ {e}, delivered, dropped \cup Lists[w] \cup {e},
                 [Lists EXCEPT ![w] = {}])
      /\ Divided(1..entries, InQueue \ {e}, delivered, dropped,
                 [Lists EXCEPT ![w] = @ \cup {e}])
  <2>1. Divided(1..entries, InQueue, delivered, dropped, Lists) /\ {e} \in SUBSET InQueue
    BY <1>1 DEF PlaceInv
  <2>2. QED
    BY <2>1, ListsType, DividedSteps
<1>5. /\ \/ /\ delivered' = delivered \cup Lists[w] \cup {e} /\ dropped' = dropped
            /\ Lists' = [Lists EXCEPT ![w] = {}]
         \/ /\ dropped' = dropped \cup Lists[w] \cup {e} /\ delivered' = delivered
            /\ Lists' = [Lists EXCEPT ![w] = {}]
         \/ /\ UNCHANGED <<delivered, dropped>>
            /\ Lists' = [Lists EXCEPT ![w] = @ \cup {e}]
      /\ \A v \in Workers : Cardinality(Held(v)') = Len(results'[v])
  BY <1>1, <1>2, <1>3, TakenLists DEF TypeInv
<1>6. Divided(1..entries', InQueue', delivered', dropped', Lists')
  BY <1>1, <1>4, <1>5
<1>7. QED
  BY <1>1, <1>5, <1>6 DEF PlaceInv

\* A push puts new entries into the queue, numbered from where they ended.
LEMMA PushQueue ==
  ASSUME TypeInv, PlaceInv, NEW S \in SUBSET Members, NEW new \in [S -> Scores],
         pushes + Cardinality(S) <= MaxPushes, ZAdd(new)
  PROVE  /\ InQueue' = InQueue \cup ((entries + 1)..entries')
         /\ entries \in Nat /\ entries' \in Nat /\ entries <= entries'
         /\ \A k, n \in Queued' : entry'[k] = entry'[n] => k = n
<1> USE QueueAssumption
<1> DEFINE added == DOMAIN new \ Queued
           fresher == (entries + 1)..entries'
<1>1. added \in SUBSET Members /\ DOMAIN new = S /\ Queued \subseteq Members
  BY DEF Queued
<1>2. /\ Cardinality(added) \in Nat /\ entries \in Nat
      /\ \A m \in added : Rank(added, m) \in 1..Cardinality(added)
      /\ \A m, n \in added : Rank(added, m) = Rank(added, n) => m = n
      /\ {Rank(added, m) : m \in added} = 1..Cardinality(added)
  <2>1. entries \in Nat
    BY DEF TypeInv, SetType
  <2> HIDE DEF added
  <2>2. QED
    BY <1>1, <2>1, RankInjective
<1>3. /\ score' = [m \in Members |-> IF m \in S THEN new[m] ELSE score[m]]
      /\ entry' = [m \in Members |-> IF m \in added THEN entries + Rank(added, m) ELSE entry[m]]
      /\ entries' = entries + Cardinality(added)
  BY <1>1 DEF ZAdd, Rank
<1>4. Queued' = Queued \cup added
  <2>1. \A m \in S : score'[m] # Absent
    BY <1>1, <1>3, ScoresAreNatural
  <2>2. QED
    BY <1>1, <1>3, <2>1 DEF Queued
<1>5. /\ \A m \in added : entry'[m] = entries + Rank(added, m)
      /\ \A m \in Queued : entry'[m] = entry[m]
  BY <1>1, <1>3
<1> HIDE DEF added
<1>6. {entry'[m] : m \in added} = fresher /\ entries' \in Nat /\ entries <= entries'
  <2>1. \A m \in added : entry'[m] \in fresher
    BY <1>2, <1>3, <1>5
  <2>2. ASSUME NEW k \in fresher PROVE \E m \in added : entry'[m] = k
    <3>1. k - entries \in 1..Cardinality(added)
      BY <1>2, <1>3
    <3>2. PICK m \in added : Rank(added, m) = k - entries
      BY <1>2, <3>1
    <3>3. QED
      BY <1>2, <1>5, <3>2
  <2>3. entries' \in Nat /\ entries <= entries'
    BY <1>2, <1>3
  <2>4. QED
    BY <2>1, <2>2, <2>3
<1>7. InQueue' = InQueue \cup fresher
  BY <1>4, <1>5, <1>6 DEF InQueue
<1>8. fresher \cap (1..entries) = {}
  BY <1>2
<1> HIDE DEF fresher
<1>9. ASSUME NEW m \in Queued', NEW n \in Queued', entry'[m] = entry'[n]
       PROVE  m = n
  <2>1. \A k \in Queued : entry[k] \in 1..entries
    BY DEF PlaceInv, Divided, InQueue
  <2>2. CASE m \in Queued /\ n \in Queued
    BY <1>5, <1>9, <2>2 DEF PlaceInv
  <2>3. CASE m \in added /\ n \in added
    BY <1>2, <1>5, <1>9, <2>3
  <2>4. CASE m \in Queued /\ n \in added
    <3>1. entry'[m] \in 1..entries /\ entry'[n] \in fresher
      BY <1>5, <1>6, <2>1, <2>4
    <3>2. QED
      BY <1>8, <1>9, <3>1
  <2>5. CASE m \in added /\ n \in Queued
    <3>1. entry'[n] \in 1..entries /\ entry'[m] \in fresher
      BY <1>5, <1>6, <2>1, <2>5
    <3>2. QED
      BY <1>8, <1>9, <3>1
  <2>6. QED
    BY <1>4, <1>9, <2>2, <2>3, <2>4, <2>5
<1>10. QED
  BY <1>2, <1>6, <1>7, <1>9 DEF fresher

LEMMA PushPlace ==
  ASSUME TypeInv, PlaceInv, NEW S \in SUBSET Members, NEW new \in [S -> Scores],
         pushes + Cardinality(S) <= MaxPushes, ZAdd(new),
         UNCHANGED <<results, delivered, dropped>>
  PROVE  PlaceInv'
<1> DEFINE fresher == (entries + 1)..entries'
<1>1. /\ InQueue' = InQueue \cup fresher
      /\ entries \in Nat /\ entries' \in Nat /\ entries <= entries'
      /\ \A k, n \in Queued' : entry'[k] = entry'[n] => k = n
  BY PushQueue
<1>2. 1..entries' = (1..entries) \cup fresher /\ fresher \cap (1..entries) = {}
  BY <1>1
<1>3. Lists' = Lists /\ \A w \in Workers : Held(w)' = Held(w)
  BY DEF Lists, Held
<1> HIDE DEF fresher
<1>4. Divided(1..entries', InQueue', delivered', dropped', Lists')
  <2>1. Divided((1..entries) \cup fresher, InQueue \cup fresher, delivered, dropped, Lists)
    BY <1>2, DividedGrows DEF PlaceInv
  <2>2. QED
    BY <1>1, <1>2, <1>3, <2>1
<1>5. \A w \in Workers : Cardinality(Held(w)') = Len(results'[w])
  BY <1>3 DEF PlaceInv
<1>6. QED
  BY <1>1, <1>4, <1>5 DEF PlaceInv

LEMMA PlaceNext ==
  ASSUME TypeInv, PlaceInv, [Next]_vars
  PROVE  PlaceInv'
<1>1. CASE Push
  <2>1. PICK S \in SUBSET Members \ {{}} : \E new \in [S -> Scores] :
          /\ pushes + Cardinality(S) <= MaxPushes
          /\ ZAdd(new)
          /\ UNCHANGED <<results, delivered, dropped>>
    BY <1>1 DEF Push
  <2>2. QED
    BY <2>1, PushPlace
<1>2. CASE Clear
  <2>1. /\ InQueue' = {} /\ Queued' = {} /\ entries' = entries
        /\ dropped' = dropped \cup InQueue /\ delivered' = delivered /\ results' = results
    BY <1>2 DEF Clear, InQueue, Queued
  <2>2. Lists' = Lists /\ \A w \in Workers : Held(w)' = Held(w)
    BY <2>1 DEF Lists, Held
  <2>3. Divided(1..entries', InQueue', delivered', dropped', Lists')
    BY <2>1, <2>2, DividedCleared DEF PlaceInv
  <2>4. QED
    BY <2>1, <2>2, <2>3 DEF PlaceInv
<1>3. ASSUME UNCHANGED <<queueVars, results, delivered, dropped>>
      PROVE  PlaceInv'
  BY <1>3 DEF queueVars, PlaceInv, InQueue, Queued, Lists, Held
<1>4. CASE UNCHANGED vars
  BY <1>3, <1>4 DEF vars
<1>5. ASSUME NEW w \in Workers, StartPop(w) \/ Peek(w) PROVE PlaceInv'
  BY <1>3, <1>5 DEF StartPop, Peek
<1>6. ASSUME NEW w \in Workers, PopNothing(w) \/ Fail(w) PROVE PlaceInv'
  BY <1>6, EndPlace DEF PopNothing, Fail, TypeInv
<1>7. ASSUME NEW w \in Workers, PopMin(w) PROVE PlaceInv'
  <2>1. Queued # {}
    BY <1>7 DEF PopMin, NothingToPop
  <2>2. Best \in Queued
    BY <2>1, BestIsFirst DEF TypeInv
  <2>3. score[Best] \in Scores
    BY <2>2, QueuedType DEF TypeInv
  <2>4. QED
    BY <1>7, <2>2, <2>3, TakenPlace DEF PopMin
<1>8. ASSUME NEW w \in Workers, Remove(w) PROVE PlaceInv'
  <2> DEFINE m == peeked[w].member
  <2>1. peeked[w] \in [member : Members, score : Scores]
    BY <1>8 DEF Remove, TypeInv, WorkersType
  <2>2. peeked[w].score \in Scores
    BY <2>1
  <2>3. CASE m \in Queued
    <3>1. ZRem(m) /\ (Popped(w, entry[m], peeked[w].score) \/ Raises(w, {entry[m]}))
      BY <1>8, <2>3 DEF Remove
    <3>2. QED
      BY <2>2, <2>3, <3>1, TakenPlace
  <2>4. CASE m \notin Queued
    <3>1. Returns(w, {}) /\ UNCHANGED queueVars
      BY <1>8, <2>4 DEF Remove
    <3>2. QED
      BY <3>1, EndPlace DEF TypeInv
  <2>5. QED
    BY <2>3, <2>4
<1>9. QED
  BY <1>1, <1>2, <1>4, <1>5, <1>6, <1>7, <1>8 DEF Next, PopStep

LEMMA PlaceInit == Init => PlaceInv
<1> SUFFICES ASSUME Init PROVE PlaceInv
  OBVIOUS
<1>1. Queued = {} /\ InQueue = {} /\ delivered = {} /\ dropped = {} /\ entries = 0
  BY DEF Init, Queued, InQueue
<1>2. \A w \in Workers : results[w] = <<>> /\ Held(w) = {} /\ Lists[w] = {}
  BY DEF Init, Held, Lists
<1>3. Divided(1..entries, InQueue, delivered, dropped, Lists)
  BY <1>1, <1>2 DEF Divided
<1>4. ASSUME NEW w \in Workers PROVE Cardinality(Held(w)) = Len(results[w])
  <2>1. Len(results[w]) = 0 /\ Cardinality({}) = 0
    BY <1>2, FS_EmptySet
  <2>2. QED
    BY <1>2, <2>1
<1>5. QED
  BY <1>1, <1>3, <1>4 DEF PlaceInv

LEMMA PlaceAlways == Spec => []PlaceInv
<1>1. TypeInv /\ PlaceInv /\ [Next]_vars => PlaceInv'
  BY PlaceNext
<1>2. QED
  BY <1>1, PlaceInit, TypeAlways, PTL DEF Spec

\* No entry is popped twice, and none vanishes but by clear() or with the
\* error of the worker that held it, whatever the workers do in between.
THEOREM OnePlaceCorrect == Spec => []OnePlace
BY PlaceAlways, PlaceInvImpliesOnePlace, PTL

-------------------------------------------------------------------------------
(* The queue implements Ledger: a push issues the new entries, a removal    *)
(* takes one into the worker's batch or ends the batch with it.             *)

LEMMA PushRefines ==
  ASSUME TypeInv, TypeInv', PlaceInv, Push
  PROVE  L!Issue
<1>1. PICK S \in SUBSET Members \ {{}} : \E new \in [S -> Scores] :
        /\ pushes + Cardinality(S) <= MaxPushes
        /\ ZAdd(new)
  BY DEF Push
<1>2. /\ InQueue' = InQueue \cup ((entries + 1)..entries')
      /\ entries \in Nat /\ entries' \in Nat
  BY <1>1, PushQueue
<1>3. UNCHANGED <<results, delivered, dropped>> /\ Lists' = Lists
  BY DEF Push, Lists, Held
<1>4. (entries + 1)..entries' \subseteq Entries
  BY <1>2, QueueAssumption DEF TypeInv, SetType, Entries
<1>5. L!Known = 1..entries
  BY DEF PlaceInv, Divided, L!Known
<1>6. (entries + 1)..entries' \in SUBSET (Entries \ L!Known)
  BY <1>2, <1>4, <1>5
<1>7. QED
  BY <1>2, <1>3, <1>6 DEF L!Issue

LEMMA ClearRefines == Clear => L!WriteOffQueue
<1> SUFFICES ASSUME Clear PROVE L!WriteOffQueue
  OBVIOUS
<1>1. InQueue' = {} /\ dropped' = dropped \cup InQueue /\ UNCHANGED <<results, delivered>>
  BY DEF Clear, InQueue, Queued
<1>2. Lists' = Lists
  BY <1>1 DEF Lists, Held
<1>3. QED
  BY <1>1, <1>2 DEF L!WriteOffQueue

LEMMA EndRefines ==
  ASSUME WorkersType, PlaceInv, NEW w \in Workers, UNCHANGED queueVars,
         Returns(w, {}) \/ Raises(w, {})
  PROVE  L!HandOver(w) \/ L!WriteOff(w)
<1>1. Lists' = [Lists EXCEPT ![w] = {}] /\ Lists[w] = Held(w)
  BY ListEmptied DEF Returns, Raises, Lists
<1>2. InQueue' = InQueue \ {} /\ {} \in L!AtMostOne
  BY DEF queueVars, InQueue, Queued, L!AtMostOne
<1>3. \/ delivered' = delivered \cup Lists[w] \cup {} /\ dropped' = dropped
      \/ dropped' = dropped \cup Lists[w] \cup {} /\ delivered' = delivered
  BY <1>1 DEF Returns, Raises
<1>4. QED
  BY <1>1, <1>2, <1>3 DEF L!HandOver, L!WriteOff

LEMMA TakenRefines ==
  ASSUME TypeInv, PlaceInv, NEW w \in Workers, NEW m \in Queued, NEW s \in Scores,
         ZRem(m), Popped(w, entry[m], s) \/ Raises(w, {entry[m]})
  PROVE  L!Take(w) \/ L!HandOver(w) \/ L!WriteOff(w)
<1> DEFINE e == entry[m]
<1>1. e \in Entries /\ e \in InQueue /\ InQueue' = InQueue \ {e}
  BY TakenQueue
<1>2. e \notin Held(w)
  BY <1>1 DEF PlaceInv, Divided, Lists
<1>3. \/ /\ delivered' = delivered \cup Lists[w] \cup {e} /\ dropped' = dropped
         /\ Lists' = [Lists EXCEPT ![w] = {}]
      \/ /\ dropped' = dropped \cup Lists[w] \cup {e} /\ delivered' = delivered
         /\ Lists' = [Lists EXCEPT ![w] = {}]
      \/ /\ UNCHANGED <<delivered, dropped>>
         /\ Lists' = [Lists EXCEPT ![w] = @ \cup {e}]
  BY <1>1, <1>2, TakenLists DEF TypeInv
<1> HIDE DEF e
<1>4. {e} \in L!AtMostOne
  BY <1>1 DEF L!AtMostOne
<1>5. QED
  BY <1>1, <1>3, <1>4 DEF L!Take, L!HandOver, L!WriteOff

\* A step of a worker that removes nothing and ends nothing.
LEMMA QuietRefines ==
  ASSUME UNCHANGED <<queueVars, results, delivered, dropped>>
  PROVE  UNCHANGED L!ledgerVars
<1>1. InQueue' = InQueue /\ Lists' = Lists
  BY DEF queueVars, InQueue, Queued, Lists, Held
<1>2. QED
  BY <1>1 DEF L!ledgerVars

LEMMA WorkerRefines ==
  ASSUME TypeInv, PlaceInv, NEW w \in Workers, PopStep(w)
  PROVE  \/ L!Take(w) \/ L!HandOver(w) \/ L!WriteOff(w)
         \/ UNCHANGED L!ledgerVars
<1>1. CASE StartPop(w) \/ Peek(w)
  BY <1>1, QuietRefines DEF StartPop, Peek
<1>2. CASE PopNothing(w) \/ Fail(w)
  BY <1>2, EndRefines DEF PopNothing, Fail, TypeInv
<1>3. CASE PopMin(w)
  <2>1. Best \in Queued /\ score[Best] \in Scores
    BY <1>3, BestIsFirst, QueuedType DEF PopMin, NothingToPop, TypeInv
  <2>2. QED
    BY <1>3, <2>1, TakenRefines DEF PopMin
<1>4. CASE Remove(w)
  <2>1. peeked[w].score \in Scores
    BY <1>4 DEF Remove, TypeInv, WorkersType
  <2>2. CASE peeked[w].member \in Queued
    BY <1>4, <2>1, <2>2, TakenRefines DEF Remove
  <2>3. CASE peeked[w].member \notin Queued
    BY <1>4, <2>3, EndRefines DEF Remove, TypeInv
  <2>4. QED
    BY <2>2, <2>3
<1>5. QED
  BY <1>1, <1>2, <1>3, <1>4 DEF PopStep

\* Every run of the queue is a run of Ledger: an entry is taken by one worker,
\* and the batch it is in is returned as a whole or lost as a whole, once and
\* for all (PriorityQueue.push, pop, pop_batch, clear).
THEOREM ImplementsLedger == Spec => GoesOneWay
<1>1. Init => L!Init
  <2>1. Init => InQueue = {} /\ Lists = [w \in Workers |-> {}]
    BY DEF Init, InQueue, Queued, Lists, Held
  <2>2. QED
    BY <2>1 DEF Init, L!Init
<1>2. TypeInv /\ TypeInv' /\ PlaceInv /\ [Next]_vars => [L!Next]_(L!ledgerVars)
  <2> SUFFICES ASSUME TypeInv, TypeInv', PlaceInv, [Next]_vars
               PROVE  [L!Next]_(L!ledgerVars)
    OBVIOUS
  <2>1. CASE UNCHANGED vars
    BY <2>1, QuietRefines DEF vars
  <2>2. CASE Push \/ Clear
    BY <2>2, PushRefines, ClearRefines DEF L!Next
  <2>3. ASSUME NEW w \in Workers, PopStep(w) PROVE [L!Next]_(L!ledgerVars)
    BY <2>3, WorkerRefines DEF L!Next
  <2>4. QED
    BY <2>1, <2>2, <2>3 DEF Next
<1>3. QED
  BY <1>1, <1>2, TypeAlways, PlaceAlways, PTL DEF Spec, GoesOneWay, L!Spec

===============================================================================
