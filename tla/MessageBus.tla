------------------------------ MODULE MessageBus ------------------------------
(***************************************************************************)
(* The inter-agent message bus (agents/messaging/streams.py): AgentBus     *)
(* appends entries to Redis streams, the inbox of one agent or the         *)
(* broadcast stream; each BusConsumer reads both streams of its agent      *)
(* through the agent's consumer group and dispatches what it read, entry   *)
(* by entry, to a handler.  Several consumers may serve one agent.         *)
(*                                                                         *)
(* Redis is modelled from how the consumer uses it: a group has a cursor   *)
(* per stream, an entry read through the group is on its pending list      *)
(* until it is acknowledged, and a stream is trimmed from the front.  A    *)
(* response may be lost after the server has acted.                        *)
(*                                                                         *)
(* Every await of the consumer is a step of its own: it may be cancelled   *)
(* there, and the process may die there.  A payload is not modelled: that  *)
(* an entry is malformed, badly signed or expired is a choice of the step  *)
(* that looks at it.                                                       *)
(***************************************************************************)
EXTENDS Integers, Sequences, Functions

CONSTANTS
  Agents,
  Broadcast,    \* the broadcast stream
  Consumers,
  AgentOf,      \* the agent each consumer serves
  Batch,        \* entries of one stream a read returns at most
  MaxLen,       \* length a stream is trimmed to
  MaxEntries,   \* bound on the entries ever published
  MaxRestarts   \* bound on the consumers started again

ASSUME BusAssumption ==
  /\ Broadcast \notin Agents
  /\ AgentOf \in [Consumers -> Agents]
  /\ Batch \in Nat \ {0}
  /\ MaxLen \in Nat \ {0}
  /\ MaxEntries \in Nat
  /\ MaxRestarts \in Nat

VARIABLES
  last,      \* the entries 1..last[s] have been published to stream s
  trimmed,   \* the entries 1..trimmed[s] are gone from stream s
  cursor,    \* of each agent's group on each of its streams, or NoGroup
  pending,   \* the pending list of each agent's group
  pc,        \* where run() of each consumer is
  batch,     \* what it has read and not dispatched; the head is in dispatch
  stopping,  \* the consumers whose stop() has been called
  calls,     \* history: how often an agent's handlers were called for an entry
  settled,   \* history: the entries handled without error, or refused
  restarts

streamVars == <<last, trimmed>>
groupVars == <<cursor, pending>>
historyVars == <<calls, settled>>
vars == <<streamVars, groupVars, pc, batch, stopping, historyVars, restarts>>

Streams == Agents \cup {Broadcast}
StreamsOf(a) == {a, Broadcast}
Groups == {g \in Agents \X Streams : g[2] \in StreamsOf(g[1])}
Entries == Streams \X (1..MaxEntries)

NoGroup == -1

PC == {"inbox", "broadcast", "reading", "dispatching", "handling", "acking", "gone"}

TypeOK ==
  /\ last \in [Streams -> 0..MaxEntries]
  /\ trimmed \in [Streams -> 0..MaxEntries]
  /\ cursor \in [Groups -> {NoGroup} \cup 0..MaxEntries]
  /\ pending \in [Agents -> SUBSET Entries]
  /\ pc \in [Consumers -> PC]
  /\ batch \in [Consumers -> Seq(Entries)]
  /\ stopping \subseteq Consumers
  /\ calls \in [Agents -> [Entries -> Nat]]
  /\ settled \in [Agents -> SUBSET Entries]
  /\ restarts \in 0..MaxRestarts

Init ==
  /\ last = [s \in Streams |-> 0]
  /\ trimmed = [s \in Streams |-> 0]
  /\ cursor = [g \in Groups |-> NoGroup]
  /\ pending = [a \in Agents |-> {}]
  /\ pc = [c \in Consumers |-> "inbox"]
  /\ batch = [c \in Consumers |-> <<>>]
  /\ stopping = {}
  /\ calls = [a \in Agents |-> [e \in Entries |-> 0]]
  /\ settled = [a \in Agents |-> {}]
  /\ restarts = 0

-------------------------------------------------------------------------------
(* AgentBus.                                                               *)

\* XADD with an approximate MAXLEN: Redis may trim down to it, or trim later.
\* The bound is on all streams together, and so on each.
Publish(s) ==
  /\ last[s] < MaxEntries /\ FoldFunction(+, 0, last) < MaxEntries
  /\ last' = [last EXCEPT ![s] = @ + 1]
  /\ \E t \in trimmed[s]..MaxEntries :
       /\ t = trimmed[s] \/ t + MaxLen <= last'[s]
       /\ trimmed' = [trimmed EXCEPT ![s] = t]
  /\ UNCHANGED <<groupVars, pc, batch, stopping, historyVars, restarts>>

-------------------------------------------------------------------------------
(* BusConsumer.                                                            *)

\* The head of the loop in run: stop() is noticed here only.
LoopHead(c) == IF c \in stopping THEN "gone" ELSE "reading"

\* (mutant) a group that exists is moved to the end of the stream.
CursorCreated_Moved(a, s) == last[s]

\* (mutant) every consumer that starts rewinds the group.
CursorCreated_Rewound(a, s) == trimmed[s]

\* XGROUP CREATE with id "$", or BUSYGROUP: the group exists already.
CursorCreated(a, s) == IF cursor[<<a, s>>] = NoGroup THEN last[s] ELSE cursor[<<a, s>>]

\* _ensure_groups, one stream at a time; any other error is only logged.
EnsureGroup(c) ==
  LET a == AgentOf[c]
      s == IF pc[c] = "inbox" THEN a ELSE Broadcast
  IN /\ pc[c] \in {"inbox", "broadcast"}
     /\ pc' = [pc EXCEPT ![c] = IF pc[c] = "inbox" THEN "broadcast" ELSE LoopHead(c)]
     /\ \/ cursor' = [cursor EXCEPT ![<<a, s>>] = CursorCreated(a, s)]
        \/ UNCHANGED cursor
     /\ UNCHANGED <<streamVars, pending, batch, stopping, historyVars, restarts>>

\* XREADGROUP is refused unless both streams have the group.
GroupsExist(a) == \A s \in StreamsOf(a) : cursor[<<a, s>>] # NoGroup

Bigger(i, j) == IF i >= j THEN i ELSE j
Smaller(i, j) == IF i <= j THEN i ELSE j

\* (mutant) one entry more than there is.
Unread_OffByOne(a, s) == (Bigger(cursor[<<a, s>>], trimmed[s]) + 1)..(last[s] + 1)

\* What the id ">" means to the group of a on stream s.
Unread(a, s) == (Bigger(cursor[<<a, s>>], trimmed[s]) + 1)..last[s]

\* The first Batch unread entries of a stream, in order.
FirstUnread(a, s) ==
  LET before == Bigger(cursor[<<a, s>>], trimmed[s])
      upto   == {i \in 1..Batch : before + i \in Unread(a, s)}
  IN [i \in upto |-> <<s, before + i>>]

CursorRead(a, s) ==
  LET read == FirstUnread(a, s)
  IN IF read = <<>> THEN cursor[<<a, s>>] ELSE read[Len(read)][2]

\* XREADGROUP returns entries; or its response is lost, is logged, and the
\* loop asks for new entries again.
Read(c) ==
  LET a   == AgentOf[c]
      got == FirstUnread(a, a) \o FirstUnread(a, Broadcast)
  IN /\ pc[c] = "reading"
     /\ GroupsExist(a)
     /\ got # <<>>
     /\ cursor' = [g \in Groups |-> IF g[1] = a THEN CursorRead(a, g[2]) ELSE cursor[g]]
     /\ pending' = [pending EXCEPT ![a] = @ \cup Range(got)]
     /\ \/ /\ batch' = [batch EXCEPT ![c] = got]
           /\ pc' = [pc EXCEPT ![c] = "dispatching"]
        \/ /\ pc' = [pc EXCEPT ![c] = LoopHead(c)]
           /\ UNCHANGED batch
     /\ UNCHANGED <<streamVars, stopping, historyVars, restarts>>

\* The read times out or fails, and the loop ends if it is to stop.
ReadNothing(c) ==
  /\ pc[c] = "reading"
  /\ c \in stopping
  /\ pc' = [pc EXCEPT ![c] = LoopHead(c)]
  /\ UNCHANGED <<streamVars, groupVars, batch, stopping, historyVars, restarts>>

\* _dispatch is done with the head of the batch: the next entry, or a read.
NextEntry(c) ==
  /\ batch' = [batch EXCEPT ![c] = Tail(@)]
  /\ pc' = [pc EXCEPT ![c] = IF Len(batch[c]) > 1 THEN "dispatching" ELSE LoopHead(c)]

\* XACK; an error is only logged.
Acknowledge(a, e) ==
  \/ pending' = [pending EXCEPT ![a] = @ \ {e}]
  \/ UNCHANGED pending

\* No "msg" field, no valid message, a bad signature, or expired.
RefuseEntry(c) ==
  LET a == AgentOf[c]
      e == Head(batch[c])
  IN /\ pc[c] = "dispatching"
     /\ settled' = [settled EXCEPT ![a] = @ \cup {e}]
     /\ Acknowledge(a, e)
     /\ NextEntry(c)
     /\ UNCHANGED <<streamVars, cursor, stopping, calls, restarts>>

StartHandler(c) ==
  /\ pc[c] = "dispatching"
  /\ pc' = [pc EXCEPT ![c] = "handling"]
  /\ calls' = [calls EXCEPT ![AgentOf[c]][Head(batch[c])] = @ + 1]
  /\ UNCHANGED <<streamVars, groupVars, batch, stopping, settled, restarts>>

HandlerReturns(c) ==
  /\ pc[c] = "handling"
  /\ pc' = [pc EXCEPT ![c] = "acking"]
  /\ settled' = [settled EXCEPT ![AgentOf[c]] = @ \cup {Head(batch[c])}]
  /\ UNCHANGED <<streamVars, groupVars, batch, stopping, calls, restarts>>

\* (mutant) a failed entry is acknowledged like any other.
HandlerRaises_Acks(c) ==
  /\ pc[c] = "handling"
  /\ NextEntry(c)
  /\ Acknowledge(AgentOf[c], Head(batch[c]))
  /\ UNCHANGED <<streamVars, cursor, stopping, historyVars, restarts>>

\* (mutant) a failed entry is tried again at once.
HandlerRaises_Retries(c) ==
  /\ pc[c] = "handling"
  /\ pc' = [pc EXCEPT ![c] = "dispatching"]
  /\ UNCHANGED <<streamVars, groupVars, batch, stopping, historyVars, restarts>>

\* No acknowledgement: the entry stays on the pending list.
HandlerRaises(c) ==
  /\ pc[c] = "handling"
  /\ NextEntry(c)
  /\ UNCHANGED <<streamVars, groupVars, stopping, historyVars, restarts>>

Ack(c) ==
  /\ pc[c] = "acking"
  /\ Acknowledge(AgentOf[c], Head(batch[c]))
  /\ NextEntry(c)
  /\ UNCHANGED <<streamVars, cursor, stopping, historyVars, restarts>>

Stop(c) ==
  /\ pc[c] # "gone"
  /\ stopping' = stopping \cup {c}
  /\ UNCHANGED <<streamVars, groupVars, pc, batch, historyVars, restarts>>

\* run() is cancelled at an await, or its process dies.
Crash(c) ==
  /\ pc[c] # "gone"
  /\ pc' = [pc EXCEPT ![c] = "gone"]
  /\ batch' = [batch EXCEPT ![c] = <<>>]
  /\ UNCHANGED <<streamVars, groupVars, stopping, historyVars, restarts>>

\* Another consumer of the agent starts, under a name of its own.
Restart(c) ==
  /\ pc[c] = "gone"
  /\ restarts < MaxRestarts
  /\ restarts' = restarts + 1
  /\ pc' = [pc EXCEPT ![c] = "inbox"]
  /\ stopping' = stopping \ {c}
  /\ UNCHANGED <<streamVars, groupVars, batch, historyVars>>

ConsumerStep(c) ==
  \/ EnsureGroup(c) \/ Read(c) \/ ReadNothing(c) \/ RefuseEntry(c)
  \/ StartHandler(c) \/ HandlerReturns(c) \/ HandlerRaises(c) \/ Ack(c)

Next ==
  \/ \E s \in Streams : Publish(s)
  \/ \E c \in Consumers : ConsumerStep(c) \/ Stop(c) \/ Crash(c) \/ Restart(c)

\* A consumer that can do its next step does it in the end; its handler may
\* hang.  Nobody is obliged to publish, to stop or to start again.
Fairness ==
  \A c \in Consumers :
    WF_vars(EnsureGroup(c) \/ Read(c) \/ ReadNothing(c) \/ RefuseEntry(c)
              \/ StartHandler(c) \/ Ack(c))

Spec == Init /\ [][Next]_vars /\ Fairness

-------------------------------------------------------------------------------

InHand(c) == Range(batch[c])

\* The consumers of one agent share its group: no entry is in the hands of
\* two of them, or twice in those of one; what a consumer holds is pending;
\* and of what it holds only the head can have been given to a handler, so a
\* restart or a second consumer never repeats one.
HeldOnce ==
  \A c \in Consumers :
    /\ \A d \in Consumers \ {c} :
         AgentOf[d] = AgentOf[c] => InHand(c) \cap InHand(d) = {}
    /\ \A i, j \in DOMAIN batch[c] : batch[c][i] = batch[c][j] => i = j
    /\ InHand(c) \subseteq pending[AgentOf[c]]
    /\ \A i \in DOMAIN batch[c] :
         calls[AgentOf[c]][batch[c][i]] > 0 =>
           i = 1 /\ pc[c] \in {"handling", "acking"}

\* An entry leaves a pending list only when it was handled without error or
\* refused: a failed handler, a crash or a lost response leaves it there.
LeavesPendingSettled ==
  [][\A a \in Agents : pending[a] \ pending'[a] \subseteq settled'[a]]_vars

\* Some consumer of the agent is neither gone nor stuck in a handler.
Serving(a) ==
  /\ GroupsExist(a)
  /\ \E c \in Consumers : AgentOf[c] = a /\ pc[c] \notin {"gone", "handling"}

\* An entry published to a group that exists is read in the end, unless it
\* is trimmed first, by an agent that goes on serving: no stop, crash,
\* restart or lost response makes the group pass over it.
EveryEntryRead ==
  \A g \in Groups, n \in 1..MaxEntries :
    []<>Serving(g[1]) =>
      (cursor[g] # NoGroup /\ cursor[g] < n /\ n <= last[g[2]])
        ~> (<<g[2], n>> \in pending[g[1]] \cup settled[g[1]] \/ n <= trimmed[g[2]])

\* The bus implements Mailbox.
Posted == {e \in Entries : e[2] <= last[e[1]]}

M == INSTANCE Mailbox WITH Receivers <- Agents, posted <- Posted

\* Whatever crashes, restarts or is lost, the handlers of an agent are called
\* at most once for an entry, and not after it was refused. That includes the
\* entries the module doc and _dispatch promise to deliver again: see
\* PendingRedelivered.
AtMostOnce == M!Spec

\* The comment in _dispatch, "Do NOT ack - let it be re-delivered after
\* pending timeout": a pending entry no consumer holds is taken up again.
PendingRedelivered ==
  \A a \in Agents, e \in Entries :
    LET Held == \E c \in Consumers : AgentOf[c] = a /\ e \in InHand(c)
    IN []<>Serving(a) => (e \in pending[a] ~> (e \notin pending[a] \/ Held))

===============================================================================
