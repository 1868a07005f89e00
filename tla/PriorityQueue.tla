----------------------------- MODULE PriorityQueue -----------------------------
(***************************************************************************)
(* The Redis sorted-set priority queue of cache/redis_cache.py, shared by  *)
(* producers that push and workers that pop.  push and push_many are one   *)
(* ZADD; a pop without a limit is one ZPOPMIN; a pop with a max_priority   *)
(* is two calls, ZRANGE to look at the best member and ZREM to take it,    *)
(* and other clients act between them.  pop_batch repeats pop, and pop is  *)
(* a batch of one.                                                         *)
(*                                                                         *)
(* Redis executes a command atomically; its response may be lost, and the  *)
(* caller then sees a RedisError although the command took effect.         *)
(*                                                                         *)
(* Every enqueueing of a member that was absent is an entry of its own, so *)
(* that a member pushed again after a pop is told from the first.          *)
(***************************************************************************)
EXTENDS Integers, Sequences, FiniteSets

CONSTANTS
  Members,    \* numbers, in the order Redis gives to members of equal score
  Workers,
  Tiers,      \* the number of priorities; 0 is the most urgent
  Width,      \* the width of a band of scores
  MaxItems,   \* bound on max_items
  MaxPushes   \* bound on the scores ever pushed

ASSUME QueueAssumption ==
  /\ Members \subseteq Nat /\ IsFiniteSet(Members)
  /\ Tiers \in Nat \ {0}
  /\ Width \in Nat \ {0}
  /\ MaxItems \in Nat \ {0}
  /\ MaxPushes \in Nat

VARIABLES
  score,      \* the sorted set: the score of each member, or Absent
  entry,      \* history: the entry each queued member is
  entries,    \* history: how many entries there have been
  pushes,
  pc,         \* where pop_batch of each worker is
  limit,      \* its max_priority, or NoLimit
  left,       \* iterations of its loop that are left
  peeked,     \* what ZRANGE returned: a member and its score
  fresh,      \* history: the members pushed since then
  results,    \* what it has popped: entries and the scores reported
  delivered,  \* history: the entries pop_batch has returned
  dropped     \* history: the entries cleared or lost with an error

queueVars == <<score, entry, entries, pushes>>
vars == <<queueVars, pc, limit, left, peeked, fresh, results, delivered, dropped>>

Absent == -1
NoLimit == -1

Scores == 0..(Tiers * Width - 1)
Entries == 1..MaxPushes

\* (mutant) the band below is let in as well.
Hi_Inclusive(p) == (p + 1) * Width + 1

\* band_of: the scores of priority p are p * Width up to Hi(p), exclusive.
Hi(p) == (p + 1) * Width

TypeOK ==
  /\ score \in [Members -> Scores \cup {Absent}]
  /\ entry \in [Members -> Entries \cup {0}]
  /\ entries \in 0..MaxPushes
  /\ pushes \in 0..MaxPushes
  /\ pc \in [Workers -> {"idle", "popping", "peeked"}]
  /\ limit \in [Workers -> {NoLimit} \cup 0..(Tiers - 1)]
  /\ left \in [Workers -> 0..MaxItems]
  /\ peeked \in [Workers -> [member : Members, score : Scores] \cup {<<>>}]
  /\ fresh \in [Workers -> SUBSET Members]
  /\ results \in [Workers -> Seq([entry : Entries, score : Scores])]
  /\ delivered \subseteq Entries
  /\ dropped \subseteq Entries

Init ==
  /\ score = [m \in Members |-> Absent]
  /\ entry = [m \in Members |-> 0]
  /\ entries = 0
  /\ pushes = 0
  /\ pc = [w \in Workers |-> "idle"]
  /\ limit = [w \in Workers |-> NoLimit]
  /\ left = [w \in Workers |-> 0]
  /\ peeked = [w \in Workers |-> <<>>]
  /\ fresh = [w \in Workers |-> {}]
  /\ results = [w \in Workers |-> <<>>]
  /\ delivered = {}
  /\ dropped = {}

-------------------------------------------------------------------------------
(* The sorted set.                                                         *)

Queued == {m \in Members : score[m] # Absent}

\* Lower scores first, then the order of the members.
Before(m, s, n, t) == s < t \/ (s = t /\ m < n)

\* (mutant) the last member of the set.
Best_Last ==
  CHOOSE m \in Queued : \A n \in Queued \ {m} : Before(n, score[n], m, score[m])

\* ZRANGE 0 0, and what ZPOPMIN takes.
Best ==
  CHOOSE m \in Queued : \A n \in Queued \ {m} : Before(m, score[m], n, score[n])

\* ZADD of several members at once: new ones are added, others get the new
\* score.  The new entries are numbered in the order of the members.
ZAdd(new) ==
  LET added == DOMAIN new \ Queued
  IN /\ score' = [m \in Members |-> IF m \in DOMAIN new THEN new[m] ELSE score[m]]
     /\ entry' = [m \in Members |->
                    IF m \in added
                    THEN entries + Cardinality({n \in added : n <= m}) ELSE entry[m]]
     /\ entries' = entries + Cardinality(added)
     /\ pushes' = pushes + Cardinality(DOMAIN new)

\* ZREM: 0 or 1 members removed.
ZRem(m) ==
  /\ score' = [score EXCEPT ![m] = Absent]
  /\ entry' = [entry EXCEPT ![m] = 0]
  /\ UNCHANGED <<entries, pushes>>

-------------------------------------------------------------------------------
(* Producers.                                                              *)

\* push and push_many; a tiebreaker outside the band raises before the ZADD.
Push ==
  \E S \in SUBSET Members \ {{}} : \E new \in [S -> Scores] :
    /\ pushes + Cardinality(S) <= MaxPushes
    /\ ZAdd(new)
    /\ fresh' = [w \in Workers |-> IF pc[w] = "peeked" THEN fresh[w] \cup S ELSE {}]
    /\ UNCHANGED <<pc, limit, left, peeked, results, delivered, dropped>>

\* clear: DEL of the whole set.
Clear ==
  /\ score' = [m \in Members |-> Absent]
  /\ entry' = [m \in Members |-> 0]
  /\ dropped' = dropped \cup {entry[m] : m \in Queued}
  /\ UNCHANGED <<entries, pushes, pc, limit, left, peeked, fresh, results, delivered>>

-------------------------------------------------------------------------------
(* Workers.                                                                *)

\* The iteration is over and nothing is peeked at any more.
Idle(w, phase) ==
  /\ pc' = [pc EXCEPT ![w] = phase]
  /\ peeked' = [peeked EXCEPT ![w] = <<>>]
  /\ fresh' = [fresh EXCEPT ![w] = {}]

Held(w) == {results[w][i].entry : i \in DOMAIN results[w]}

\* pop_batch returns the list, with this last entry or with none.
Returns(w, last) ==
  /\ delivered' = delivered \cup Held(w) \cup last
  /\ results' = [results EXCEPT ![w] = <<>>]
  /\ left' = [left EXCEPT ![w] = 0]
  /\ limit' = [limit EXCEPT ![w] = NoLimit]
  /\ Idle(w, "idle")
  /\ UNCHANGED dropped

\* (mutant) pop_batch returns what it has popped when a later pop fails.
Raises_Returns(w, lost) ==
  /\ delivered' = delivered \cup Held(w)
  /\ results' = [results EXCEPT ![w] = <<>>]
  /\ left' = [left EXCEPT ![w] = 0]
  /\ limit' = [limit EXCEPT ![w] = NoLimit]
  /\ Idle(w, "idle")
  /\ UNCHANGED dropped

\* A RedisError or a cancellation leaves pop_batch: the list is lost, and
\* with it the entry that Redis has removed if its response is.
Raises(w, lost) ==
  /\ dropped' = dropped \cup Held(w) \cup lost
  /\ results' = [results EXCEPT ![w] = <<>>]
  /\ left' = [left EXCEPT ![w] = 0]
  /\ limit' = [limit EXCEPT ![w] = NoLimit]
  /\ Idle(w, "idle")
  /\ UNCHANGED delivered

\* pop has returned an entry: the loop goes on until max_items.
Popped(w, e, s) ==
  \/ /\ left[w] > 1
     /\ results' = [results EXCEPT ![w] = Append(@, [entry |-> e, score |-> s])]
     /\ left' = [left EXCEPT ![w] = @ - 1]
     /\ Idle(w, "popping")
     /\ UNCHANGED <<limit, delivered, dropped>>
  \/ /\ left[w] = 1
     /\ Returns(w, {e})

StartPop(w) ==
  /\ pc[w] = "idle"
  /\ pc' = [pc EXCEPT ![w] = "popping"]
  /\ \E p \in {NoLimit} \cup 0..(Tiers - 1) : limit' = [limit EXCEPT ![w] = p]
  /\ \E n \in 1..MaxItems : left' = [left EXCEPT ![w] = n]
  /\ UNCHANGED <<queueVars, peeked, fresh, results, delivered, dropped>>

\* The queue is empty, or its best member, hence all of it, beyond the limit.
NothingToPop(w) ==
  \A m \in Queued : limit[w] # NoLimit /\ score[m] >= Hi(limit[w])

PopNothing(w) ==
  /\ pc[w] = "popping"
  /\ NothingToPop(w)
  /\ Returns(w, {})
  /\ UNCHANGED queueVars

\* ZPOPMIN, and its response may be lost.
PopMin(w) ==
  /\ pc[w] = "popping"
  /\ ~NothingToPop(w)
  /\ limit[w] = NoLimit
  /\ ZRem(Best)
  /\ Popped(w, entry[Best], score[Best]) \/ Raises(w, {entry[Best]})

Peek(w) ==
  /\ pc[w] = "popping"
  /\ ~NothingToPop(w)
  /\ limit[w] # NoLimit
  /\ pc' = [pc EXCEPT ![w] = "peeked"]
  /\ peeked' = [peeked EXCEPT ![w] = [member |-> Best, score |-> score[Best]]]
  /\ UNCHANGED <<queueVars, limit, left, fresh, results, delivered, dropped>>

\* (mutant) ZREM's count is not looked at.
Remove_Unchecked(w) ==
  LET m == peeked[w].member
  IN /\ pc[w] = "peeked"
     /\ ZRem(m)
     /\ Popped(w, entry[m], peeked[w].score)

\* ZREM of the member seen.  If somebody else has taken it, pop returns None
\* and the batch ends; otherwise the score reported is the one seen.
Remove(w) ==
  LET m == peeked[w].member
  IN /\ pc[w] = "peeked"
     /\ \/ /\ m \in Queued
           /\ ZRem(m)
           /\ Popped(w, entry[m], peeked[w].score) \/ Raises(w, {entry[m]})
        \/ /\ m \notin Queued
           /\ Returns(w, {})
           /\ UNCHANGED queueVars

\* A call that fails without effect, or a cancellation.
Fail(w) ==
  /\ pc[w] # "idle"
  /\ Raises(w, {})
  /\ UNCHANGED queueVars

PopStep(w) ==
  StartPop(w) \/ PopNothing(w) \/ PopMin(w) \/ Peek(w) \/ Remove(w) \/ Fail(w)

Next ==
  \/ Push \/ Clear
  \/ \E w \in Workers : PopStep(w)

Spec == Init /\ [][Next]_vars

-------------------------------------------------------------------------------

InQueue == {entry[m] : m \in Queued}

\* Every entry is in one place only: in the queue, in the list of one worker,
\* returned by one batch, or dropped.  So no two pops return the same entry,
\* and none disappears but by clear() or with the error of its worker.
OnePlace ==
  /\ 1..entries = InQueue \cup delivered \cup dropped \cup UNION {Held(w) : w \in Workers}
  /\ delivered \cap dropped = {}
  /\ InQueue \cap (delivered \cup dropped) = {}
  /\ \A m, n \in Queued : entry[m] = entry[n] => m = n
  /\ \A w \in Workers :
       /\ Held(w) \cap (InQueue \cup delivered \cup dropped) = {}
       /\ \A v \in Workers \ {w} : Held(w) \cap Held(v) = {}
       /\ Cardinality(Held(w)) = Len(results[w])

\* The queue implements Ledger.
Lists == [w \in Workers |-> Held(w)]

L == INSTANCE Ledger WITH waiting <- InQueue, batch <- Lists

\* An entry goes one way, from the queue to the batch of one worker, and the
\* batch is returned or lost as a whole: what one worker has taken no other
\* returns, and nothing that was returned or lost comes back, however peeks,
\* removals, pushes of the same member, clear() and errors are interleaved.
GoesOneWay == L!Spec

\* The member a worker with a limit is about to take was the best when it
\* looked: whatever is now ahead of it has been pushed since. (A pop without a
\* limit looks and takes in one step.)
NoOvertaking ==
  \A w \in Workers :
    pc[w] = "peeked" =>
      \A n \in Queued \ fresh[w] :
        ~Before(n, score[n], peeked[w].member, peeked[w].score)

\* A batch with a limit reports no score beyond it, and never more than
\* max_items entries. The score is the one that was read: a member demoted
\* between the look and the removal is taken although it is beyond the limit by
\* then, against the doc of pop (redis_cache.py:548-549).
LimitKept ==
  \A w \in Workers :
    /\ Len(results[w]) + left[w] <= MaxItems
    /\ limit[w] # NoLimit =>
         /\ pc[w] = "peeked" => peeked[w].score < (limit[w] + 1) * Width
         /\ \A i \in DOMAIN results[w] : results[w][i].score < (limit[w] + 1) * Width

===============================================================================
