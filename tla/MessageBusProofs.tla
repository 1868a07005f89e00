---------------------------- MODULE MessageBusProofs ----------------------------
(***************************************************************************)
(* What holds of the message bus for any number of agents, consumers,      *)
(* entries and restarts, and any size of a batch.                          *)
(***************************************************************************)
EXTENDS MessageBus, SequenceTheorems, TLAPS

-------------------------------------------------------------------------------
(* Types.                                                                   *)

Busy == {"dispatching", "handling", "acking"}

\* A consumer has a batch exactly while it dispatches, and no group is ahead
\* of its stream.
TypeInv ==
  /\ TypeOK
  /\ \A g \in Groups : cursor[g] <= last[g[2]]
  /\ \A c \in Consumers : pc[c] \in Busy <=> batch[c] # <<>>

LEMMA GroupsOfAgent ==
  ASSUME NEW a \in Agents, NEW s \in StreamsOf(a)
  PROVE  s \in Streams /\ <<a, s>> \in Groups
BY DEF StreamsOf, Streams, Groups

LEMMA DomainOfList ==
  ASSUME NEW T, NEW list \in Seq(T)
  PROVE  DOMAIN list = 1..Len(list) /\ Len(list) \in Nat /\ \A i \in DOMAIN list : list[i] \in T
BY LenProperties, ElementOfSeq

LEMMA TypeInit == Init => TypeInv
<1> USE BusAssumption
<1> SUFFICES ASSUME Init PROVE TypeInv
  OBVIOUS
<1>1. \A g \in Groups : g[2] \in Streams
  BY DEF Groups
<1>2. batch \in [Consumers -> Seq(Entries)]
  BY DEF Init
<1>3. TypeOK
  BY <1>2 DEF Init, TypeOK, PC
<1>4. \A g \in Groups : cursor[g] <= last[g[2]]
  BY <1>1 DEF Init, NoGroup
<1>5. \A c \in Consumers : pc[c] \in Busy <=> batch[c] # <<>>
  BY DEF Init, Busy
<1>6. QED
  BY <1>3, <1>4, <1>5 DEF TypeInv

\* What is read of one stream: entries beyond the cursor, each once, and the
\* cursor that is left.
LEMMA FirstUnreadFacts ==
  ASSUME TypeInv, NEW a \in Agents, NEW s \in StreamsOf(a), cursor[<<a, s>>] # NoGroup
  PROVE  /\ FirstUnread(a, s) \in Seq(Entries)
         /\ \A i \in DOMAIN FirstUnread(a, s) :
              /\ FirstUnread(a, s)[i][1] = s
              /\ cursor[<<a, s>>] < FirstUnread(a, s)[i][2]
              /\ FirstUnread(a, s)[i][2] <= CursorRead(a, s)
              /\ \A j \in DOMAIN FirstUnread(a, s) :
                   FirstUnread(a, s)[i] = FirstUnread(a, s)[j] => i = j
         /\ CursorRead(a, s) \in 0..MaxEntries
         /\ cursor[<<a, s>>] <= CursorRead(a, s) /\ CursorRead(a, s) <= last[s]
<1> USE BusAssumption
<1> DEFINE before == Bigger(cursor[<<a, s>>], trimmed[s])
           upto == {i \in 1..Batch : before + i \in Unread(a, s)}
           n == IF last[s] <= before THEN 0 ELSE Smaller(Batch, last[s] - before)
           read == [i \in 1..n |-> <<s, before + i>>]
<1>1. /\ s \in Streams /\ <<a, s>> \in Groups /\ cursor[<<a, s>>] \in 0..MaxEntries
      /\ last[s] \in 0..MaxEntries /\ trimmed[s] \in 0..MaxEntries
      /\ cursor[<<a, s>>] <= last[s]
  BY GroupsOfAgent DEF TypeInv, TypeOK
<1>2. before \in Nat /\ cursor[<<a, s>>] <= before
  BY <1>1 DEF Bigger
<1>3. Unread(a, s) = (before + 1)..last[s]
  BY DEF Unread
<1> HIDE DEF before
<1>4. n \in Nat /\ (n > 0 => before + n <= last[s]) /\ n <= Batch
  BY <1>1, <1>2 DEF Smaller
<1>5. upto = 1..n
  BY <1>1, <1>2, <1>3 DEF Smaller
<1>6. FirstUnread(a, s) = read
  BY <1>5 DEF FirstUnread, before
<1> HIDE DEF n, upto
<1>7. \A i \in 1..n : <<s, before + i>> \in Entries
  BY <1>1, <1>2, <1>4 DEF Entries
<1>8. read \in Seq(Entries) /\ Len(read) = n /\ DOMAIN read = 1..n
  <2>1. read \in [1..n -> Entries]
    BY <1>7
  <2>2. QED
    BY <1>4, <2>1
<1>9. CASE n = 0
  <2>1. read = <<>>
    BY <1>8, <1>9
  <2>2. CursorRead(a, s) = cursor[<<a, s>>]
    BY <1>6, <2>1 DEF CursorRead
  <2>3. DOMAIN FirstUnread(a, s) = {}
    BY <1>6, <1>8, <1>9
  <2>4. QED
    BY <1>1, <1>6, <1>8, <2>2, <2>3
<1>10. CASE n > 0
  <2>a. Len(read) = n /\ n \in 1..n
    BY <1>4, <1>8, <1>10
  <2>b. read[n] = <<s, before + n>>
    BY <2>a
  <2>c. read # <<>>
    BY <1>8, <2>a
  <2>1. read # <<>> /\ read[Len(read)][2] = before + n
    BY <2>a, <2>b, <2>c
  <2>2. CursorRead(a, s) = before + n
    BY <1>6, <2>1 DEF CursorRead
  <2>3. \A i \in 1..n : FirstUnread(a, s)[i] = <<s, before + i>>
    BY <1>6
  <2>4. \A i \in 1..n : cursor[<<a, s>>] < before + i /\ before + i <= before + n
    BY <1>1, <1>2, <1>4
  <2>5. /\ CursorRead(a, s) \in 0..MaxEntries
        /\ cursor[<<a, s>>] <= CursorRead(a, s) /\ CursorRead(a, s) <= last[s]
    BY <1>1, <1>2, <1>4, <1>10, <2>2
  <2>6. DOMAIN FirstUnread(a, s) = 1..n /\ FirstUnread(a, s) \in Seq(Entries)
    BY <1>6, <1>8
  <2>7. \A i, j \in 1..n : <<s, before + i>> = <<s, before + j>> => i = j
    BY <1>2
  <2>8. QED
    BY <2>2, <2>3, <2>4, <2>5, <2>6, <2>7
<1>11. QED
  BY <1>4, <1>9, <1>10

Got(a) == FirstUnread(a, a) \o FirstUnread(a, Broadcast)

\* An entry the group of an agent has read.
ReadBefore(a, e) == e[1] \in StreamsOf(a) /\ e[2] <= cursor[<<a, e[1]>>]

CursorAfter(a) == [g \in Groups |-> IF g[1] = a THEN CursorRead(a, g[2]) ELSE cursor[g]]

\* The answer of XREADGROUP: entries the group has not read before, each once.
LEMMA GotFacts ==
  ASSUME TypeInv, NEW a \in Agents, GroupsExist(a)
  PROVE  /\ Got(a) \in Seq(Entries)
         /\ \A i, j \in DOMAIN Got(a) : Got(a)[i] = Got(a)[j] => i = j
         /\ \A i \in DOMAIN Got(a) :
              /\ ~ReadBefore(a, Got(a)[i])
              /\ Got(a)[i][1] \in StreamsOf(a)
              /\ Got(a)[i][2] <= CursorAfter(a)[<<a, Got(a)[i][1]>>]
         /\ CursorAfter(a) \in [Groups -> {NoGroup} \cup 0..MaxEntries]
         /\ \A g \in Groups : cursor[g] <= CursorAfter(a)[g] /\ CursorAfter(a)[g] <= last[g[2]]
<1> USE BusAssumption
<1> DEFINE r1 == FirstUnread(a, a)
           r2 == FirstUnread(a, Broadcast)
<1>1. /\ a \in StreamsOf(a) /\ Broadcast \in StreamsOf(a) /\ a # Broadcast
      /\ \A s \in StreamsOf(a) : s = a \/ s = Broadcast
      /\ cursor[<<a, a>>] # NoGroup /\ cursor[<<a, Broadcast>>] # NoGroup
  BY DEF StreamsOf, GroupsExist
<1>2. /\ <<a, a>> \in Groups /\ <<a, Broadcast>> \in Groups
      /\ cursor[<<a, a>>] \in Int /\ cursor[<<a, Broadcast>>] \in Int
  BY <1>1, GroupsOfAgent DEF TypeInv, TypeOK, NoGroup
<1>3. /\ r1 \in Seq(Entries)
      /\ \A i \in DOMAIN r1 :
           /\ r1[i][1] = a /\ cursor[<<a, a>>] < r1[i][2] /\ r1[i][2] <= CursorRead(a, a)
           /\ \A j \in DOMAIN r1 : r1[i] = r1[j] => i = j
  BY <1>1, FirstUnreadFacts
<1>4. /\ r2 \in Seq(Entries)
      /\ \A i \in DOMAIN r2 :
           /\ r2[i][1] = Broadcast /\ cursor[<<a, Broadcast>>] < r2[i][2]
           /\ r2[i][2] <= CursorRead(a, Broadcast)
           /\ \A j \in DOMAIN r2 : r2[i] = r2[j] => i = j
  BY <1>1, FirstUnreadFacts
<1>5. \A s \in StreamsOf(a) : /\ CursorRead(a, s) \in 0..MaxEntries
                              /\ cursor[<<a, s>>] <= CursorRead(a, s)
                              /\ CursorRead(a, s) <= last[s]
  BY FirstUnreadFacts DEF GroupsExist
<1>6. ASSUME NEW g \in Groups
      PROVE  /\ CursorAfter(a)[g] \in {NoGroup} \cup 0..MaxEntries
             /\ cursor[g] <= CursorAfter(a)[g] /\ CursorAfter(a)[g] <= last[g[2]]
  <2>1. g = <<g[1], g[2]>> /\ g[2] \in StreamsOf(g[1])
    BY DEF Groups
  <2>2. CASE g[1] = a
    BY <1>5, <2>1, <2>2 DEF CursorAfter
  <2>3. CASE g[1] # a
    <3>1. cursor[g] \in {NoGroup} \cup 0..MaxEntries /\ cursor[g] <= last[g[2]]
      BY DEF TypeInv, TypeOK
    <3>2. QED
      BY <2>3, <3>1 DEF CursorAfter, NoGroup
  <2>4. QED
    BY <2>2, <2>3
<1>7. CursorAfter(a) \in [Groups -> {NoGroup} \cup 0..MaxEntries]
  BY <1>6 DEF CursorAfter
<1>8. \A s \in StreamsOf(a) : CursorAfter(a)[<<a, s>>] = CursorRead(a, s)
  BY GroupsOfAgent DEF CursorAfter
<1> HIDE DEF r1, r2
<1>9. /\ Got(a) \in Seq(Entries) /\ DOMAIN Got(a) = 1..(Len(r1) + Len(r2))
      /\ \A i \in 1..(Len(r1) + Len(r2)) :
           Got(a)[i] = IF i <= Len(r1) THEN r1[i] ELSE r2[i - Len(r1)]
  <2>1. Got(a) = r1 \o r2
    BY DEF Got, r1, r2
  <2>2. QED
    BY <1>3, <1>4, <2>1, ConcatProperties, LenProperties
<1>10. /\ Len(r1) \in Nat /\ DOMAIN r1 = 1..Len(r1)
       /\ Len(r2) \in Nat /\ DOMAIN r2 = 1..Len(r2)
  BY <1>3, <1>4, DomainOfList
<1>11. ASSUME NEW i \in DOMAIN Got(a)
       PROVE  \/ i \in DOMAIN r1 /\ Got(a)[i] = r1[i]
              \/ i - Len(r1) \in DOMAIN r2 /\ Got(a)[i] = r2[i - Len(r1)]
  BY <1>9, <1>10
<1>12. ASSUME NEW i \in DOMAIN Got(a)
       PROVE  /\ ~ReadBefore(a, Got(a)[i])
              /\ Got(a)[i][1] \in StreamsOf(a)
              /\ Got(a)[i][2] <= CursorAfter(a)[<<a, Got(a)[i][1]>>]
  <2>1. Got(a)[i][2] \in Int
    <3>1. Got(a)[i] \in Entries
      BY <1>9, DomainOfList
    <3>2. QED
      BY <3>1 DEF Entries
  <2>2. CASE i \in DOMAIN r1 /\ Got(a)[i] = r1[i]
    <3>1. Got(a)[i][1] = a /\ cursor[<<a, a>>] < Got(a)[i][2] /\ Got(a)[i][2] <= CursorRead(a, a)
      BY <1>3, <2>2
    <3>2. ~ReadBefore(a, Got(a)[i])
      BY <1>2, <2>1, <3>1 DEF ReadBefore
    <3>3. CursorAfter(a)[<<a, Got(a)[i][1]>>] = CursorRead(a, a)
      BY <1>1, <1>8, <3>1
    <3>4. QED
      BY <1>1, <3>1, <3>2, <3>3
  <2>3. CASE i - Len(r1) \in DOMAIN r2 /\ Got(a)[i] = r2[i - Len(r1)]
    <3>1. /\ Got(a)[i][1] = Broadcast /\ cursor[<<a, Broadcast>>] < Got(a)[i][2]
          /\ Got(a)[i][2] <= CursorRead(a, Broadcast)
      BY <1>4, <2>3
    <3>2. ~ReadBefore(a, Got(a)[i])
      BY <1>2, <2>1, <3>1 DEF ReadBefore
    <3>3. CursorAfter(a)[<<a, Got(a)[i][1]>>] = CursorRead(a, Broadcast)
      BY <1>1, <1>8, <3>1
    <3>4. QED
      BY <1>1, <3>1, <3>2, <3>3
  <2>4. QED
    BY <1>11, <2>2, <2>3
<1>13. ASSUME NEW i \in DOMAIN Got(a), NEW j \in DOMAIN Got(a), Got(a)[i] = Got(a)[j]
       PROVE  i = j
  <2>1. i \in Int /\ j \in Int
    BY <1>9
  <2>2. CASE i \in DOMAIN r1 /\ Got(a)[i] = r1[i] /\ j \in DOMAIN r1 /\ Got(a)[j] = r1[j]
    BY <1>3, <1>13, <2>2
  <2>3. CASE /\ i - Len(r1) \in DOMAIN r2 /\ Got(a)[i] = r2[i - Len(r1)]
             /\ j - Len(r1) \in DOMAIN r2 /\ Got(a)[j] = r2[j - Len(r1)]
    <3>1. i - Len(r1) = j - Len(r1)
      BY <1>4, <1>13, <2>3
    <3>2. QED
      BY <1>10, <2>1, <3>1
  <2>4. CASE /\ i \in DOMAIN r1 /\ Got(a)[i] = r1[i]
             /\ j - Len(r1) \in DOMAIN r2 /\ Got(a)[j] = r2[j - Len(r1)]
    <3>1. Got(a)[i][1] = a
      BY <1>3, <2>4
    <3>2. Got(a)[j][1] = Broadcast
      BY <1>4, <2>4
    <3>3. QED
      BY <1>1, <1>13, <3>1, <3>2
  <2>5. CASE /\ i - Len(r1) \in DOMAIN r2 /\ Got(a)[i] = r2[i - Len(r1)]
             /\ j \in DOMAIN r1 /\ Got(a)[j] = r1[j]
    <3>1. Got(a)[j][1] = a
      BY <1>3, <2>5
    <3>2. Got(a)[i][1] = Broadcast
      BY <1>4, <2>5
    <3>3. QED
      BY <1>1, <1>13, <3>1, <3>2
  <2>6. QED
    BY <1>11, <2>2, <2>3, <2>4, <2>5
<1>14. QED
  BY <1>6, <1>7, <1>9, <1>12, <1>13

-------------------------------------------------------------------------------
(* The batch of a consumer.                                                 *)

LEMMA BatchFacts ==
  ASSUME TypeInv, NEW c \in Consumers
  PROVE  /\ batch[c] \in Seq(Entries) /\ Len(batch[c]) \in Nat
         /\ DOMAIN batch[c] = 1..Len(batch[c])
         /\ \A i \in DOMAIN batch[c] : batch[c][i] \in Entries
<1>1. batch[c] \in Seq(Entries)
  BY DEF TypeInv, TypeOK
<1>2. QED
  BY <1>1, DomainOfList

LEMMA HeadFacts ==
  ASSUME TypeInv, NEW c \in Consumers, pc[c] \in Busy
  PROVE  /\ AgentOf[c] \in Agents /\ 1 \in DOMAIN batch[c]
         /\ Head(batch[c]) = batch[c][1] /\ Head(batch[c]) \in Entries
<1>1. batch[c] # <<>>
  BY DEF TypeInv
<1>2. Len(batch[c]) > 0
  BY <1>1, BatchFacts, EmptySeq
<1>3. 1 \in DOMAIN batch[c]
  BY <1>2, BatchFacts
<1>4. Head(batch[c]) = batch[c][1]
  BY BatchFacts
<1>5. QED
  BY <1>3, <1>4, BatchFacts, BusAssumption

\* The head of the batch is dropped, and only of this batch.
LEMMA NextEntryFacts ==
  ASSUME TypeInv, NEW c \in Consumers, pc[c] \in Busy, NextEntry(c)
  PROVE  /\ batch' \in [Consumers -> Seq(Entries)]
         /\ pc' \in [Consumers -> PC]
         /\ \A d \in Consumers : pc'[d] \in Busy <=> batch'[d] # <<>>
         /\ \A d \in Consumers \ {c} : batch'[d] = batch[d] /\ pc'[d] = pc[d]
         /\ pc'[c] \notin {"handling", "acking"}
         /\ \A i \in DOMAIN batch'[c] :
              i \in Nat /\ i + 1 \in DOMAIN batch[c] /\ i + 1 # 1
                /\ batch'[c][i] = batch[c][i + 1]
<1> DEFINE b == batch[c]
<1>1. b \in Seq(Entries) /\ b # <<>> /\ Len(b) \in Nat /\ DOMAIN b = 1..Len(b)
  BY BatchFacts DEF TypeInv
<1>2. batch \in [Consumers -> Seq(Entries)] /\ pc \in [Consumers -> PC]
  BY DEF TypeInv, TypeOK
<1>3. Tail(b) \in Seq(Entries) /\ Len(Tail(b)) = Len(b) - 1
  BY <1>1, HeadTailProperties
<1>4. /\ batch'[c] = Tail(b) /\ batch' \in [Consumers -> Seq(Entries)]
      /\ \A d \in Consumers \ {c} : batch'[d] = batch[d]
  BY <1>2, <1>3 DEF NextEntry
<1>5. /\ pc'[c] = IF Len(b) > 1 THEN "dispatching" ELSE LoopHead(c)
      /\ \A d \in Consumers \ {c} : pc'[d] = pc[d]
  BY <1>2 DEF NextEntry
<1>6. LoopHead(c) \in {"gone", "reading"}
  BY DEF LoopHead
<1>7. pc' \in [Consumers -> PC] /\ pc'[c] \notin {"handling", "acking"}
  <2>1. pc'[c] \in {"dispatching", "gone", "reading"}
    BY <1>5, <1>6
  <2>2. pc'[c] \in PC
    BY <2>1 DEF PC
  <2>3. DOMAIN pc' = Consumers /\ pc' = [d \in Consumers |-> pc'[d]]
    BY <1>2 DEF NextEntry
  <2>4. \A d \in Consumers : pc'[d] \in PC
    BY <1>2, <1>5, <2>2
  <2>5. QED
    BY <2>1, <2>3, <2>4
<1>8. Tail(b) # <<>> <=> Len(b) > 1
  <2>1. Tail(b) = <<>> <=> Len(Tail(b)) = 0
    BY <1>3, EmptySeq
  <2>2. Len(b) \in Nat /\ Len(b) # 0 /\ Len(Tail(b)) = Len(b) - 1
    BY <1>1, <1>3, EmptySeq
  <2> DEFINE before == Len(b)
             after == Len(Tail(b))
  <2> HIDE DEF before, after
  <2>a. before \in Nat /\ before # 0 /\ after = before - 1
    BY <2>2 DEF before, after
  <2>3. after # 0 <=> before > 1
    BY <2>a
  <2>4. QED
    BY <2>1, <2>3 DEF before, after
<1>9. pc'[c] \in Busy <=> batch'[c] # <<>>
  BY <1>4, <1>5, <1>6, <1>8 DEF Busy
<1>10. \A d \in Consumers : pc'[d] \in Busy <=> batch'[d] # <<>>
  BY <1>4, <1>5, <1>9 DEF TypeInv
<1>11. ASSUME NEW i \in DOMAIN batch'[c]
       PROVE  i \in Nat /\ i + 1 \in DOMAIN b /\ i + 1 # 1 /\ batch'[c][i] = b[i + 1]
  <2>1. i \in 1..(Len(b) - 1)
    BY <1>1, <1>3, <1>4, DomainOfList
  <2>2. Tail(b)[i] = b[i + 1]
    BY <1>1, <2>1, HeadTailProperties
  <2>3. QED
    BY <1>1, <1>4, <2>1, <2>2
<1>12. QED
  BY <1>4, <1>5, <1>7, <1>10, <1>11

-------------------------------------------------------------------------------
(* Every step keeps the types.                                              *)

LEMMA PublishKeepsTypes == ASSUME TypeInv, NEW s \in Streams, Publish(s) PROVE TypeInv'
<1>1. PICK t \in trimmed[s]..MaxEntries : trimmed' = [trimmed EXCEPT ![s] = t]
  BY DEF Publish
<1>2. trimmed[s] \in 0..MaxEntries /\ last[s] \in 0..MaxEntries /\ MaxEntries \in Nat
  BY BusAssumption DEF TypeInv, TypeOK
<1>3. trimmed' \in [Streams -> 0..MaxEntries]
  <2>1. t \in 0..MaxEntries
    BY <1>1, <1>2
  <2>2. QED
    BY <1>1, <2>1 DEF TypeInv, TypeOK
<1>4. last' = [last EXCEPT ![s] = @ + 1] /\ last[s] < MaxEntries
  BY DEF Publish
<1>5. last' \in [Streams -> 0..MaxEntries]
  BY <1>2, <1>4 DEF TypeInv, TypeOK
<1>6. TypeOK'
  BY <1>3, <1>5 DEF TypeInv, TypeOK, Publish, groupVars, historyVars
<1>7. ASSUME NEW g \in Groups PROVE cursor'[g] <= last'[g[2]]
  <2>1. g[2] \in Streams
    BY DEF Groups
  <2>2. cursor[g] \in Int /\ last[g[2]] \in Int /\ cursor[g] <= last[g[2]]
    <3>1. cursor[g] \in {NoGroup} \cup 0..MaxEntries /\ last[g[2]] \in 0..MaxEntries
      BY <2>1 DEF TypeInv, TypeOK
    <3>2. QED
      BY <3>1 DEF TypeInv, NoGroup
  <2>3. last[g[2]] <= last'[g[2]]
    BY <1>2, <1>4, <2>1, <2>2 DEF TypeInv, TypeOK
  <2>4. last'[g[2]] \in Int
    BY <1>5, <2>1
  <2>5. cursor' = cursor
    BY DEF Publish, groupVars
  <2>6. cursor[g] <= last'[g[2]]
    BY <2>2, <2>3, <2>4
  <2>7. QED
    BY <2>5, <2>6
<1>8. QED
  BY <1>6, <1>7 DEF TypeInv, Publish, groupVars

\* A group is only ever created at, or moved towards, the end of its stream.
LEMMA CreateFacts ==
  ASSUME TypeInv, NEW c \in Consumers, EnsureGroup(c)
  PROVE  /\ cursor' \in [Groups -> {NoGroup} \cup 0..MaxEntries]
         /\ \A g \in Groups : cursor[g] <= cursor'[g] /\ cursor'[g] <= last[g[2]]
<1> DEFINE a == AgentOf[c]
           s == IF pc[c] = "inbox" THEN a ELSE Broadcast
<1>1. a \in Agents /\ s \in StreamsOf(a)
  BY BusAssumption DEF StreamsOf
<1>2. s \in Streams /\ <<a, s>> \in Groups
  BY <1>1, GroupsOfAgent
<1>3. cursor' = [cursor EXCEPT ![<<a, s>>] = CursorCreated(a, s)] \/ cursor' = cursor
  BY DEF EnsureGroup
<1> HIDE DEF a, s
<1>4. /\ cursor \in [Groups -> {NoGroup} \cup 0..MaxEntries]
      /\ \A g \in Groups : cursor[g] \in Int /\ cursor[g] <= last[g[2]]
  <2>1. cursor \in [Groups -> {NoGroup} \cup 0..MaxEntries]
    BY DEF TypeInv, TypeOK
  <2>2. QED
    BY <2>1, BusAssumption DEF TypeInv, NoGroup
<1>5. last[s] \in 0..MaxEntries /\ MaxEntries \in Nat
  BY <1>2, BusAssumption DEF TypeInv, TypeOK
<1>6. CASE cursor' = cursor
  BY <1>4, <1>6
<1>7. CASE cursor' = [cursor EXCEPT ![<<a, s>>] = CursorCreated(a, s)]
  <2>1. /\ CursorCreated(a, s) \in {NoGroup} \cup 0..MaxEntries
        /\ cursor[<<a, s>>] <= CursorCreated(a, s) /\ CursorCreated(a, s) <= last[s]
    BY <1>2, <1>4, <1>5 DEF CursorCreated, NoGroup
  <2>2. <<a, s>>[2] = s
    OBVIOUS
  <2>3. ASSUME NEW g \in Groups
        PROVE  cursor[g] <= cursor'[g] /\ cursor'[g] <= last[g[2]]
    <3>1. CASE g = <<a, s>>
      BY <1>2, <1>4, <1>7, <2>1, <2>2, <3>1
    <3>2. CASE g # <<a, s>>
      BY <1>4, <1>7, <3>2
    <3>3. QED
      BY <3>1, <3>2
  <2>4. QED
    BY <1>4, <1>7, <2>1, <2>3
<1>8. QED
  BY <1>3, <1>6, <1>7

LEMMA EnsureGroupKeepsTypes == ASSUME TypeInv, NEW c \in Consumers, EnsureGroup(c) PROVE TypeInv'
<1>1. pc[c] \notin Busy /\ batch[c] = <<>>
  BY DEF EnsureGroup, TypeInv, Busy
<1>2. PICK v \in {"broadcast", "gone", "reading"} : pc' = [pc EXCEPT ![c] = v]
  BY DEF EnsureGroup, LoopHead
<1>3. pc' \in [Consumers -> PC]
  BY <1>2 DEF TypeInv, TypeOK, PC
<1>4. \A d \in Consumers : pc'[d] \in Busy <=> batch'[d] # <<>>
  BY <1>1, <1>2 DEF EnsureGroup, TypeInv, TypeOK, Busy
<1>5. TypeOK'
  BY <1>3, CreateFacts DEF EnsureGroup, TypeInv, TypeOK, streamVars, historyVars
<1>6. \A g \in Groups : cursor'[g] <= last'[g[2]]
  BY CreateFacts DEF EnsureGroup, streamVars
<1>7. QED
  BY <1>4, <1>5, <1>6 DEF TypeInv

\* A read either hands over what it got or loses it; the cursor moves anyway.
LEMMA ReadFacts ==
  ASSUME TypeInv, NEW c \in Consumers, Read(c)
  PROVE  /\ AgentOf[c] \in Agents /\ GroupsExist(AgentOf[c])
         /\ Got(AgentOf[c]) # <<>> /\ batch[c] = <<>>
         /\ cursor' = CursorAfter(AgentOf[c])
         /\ pending' = [pending EXCEPT ![AgentOf[c]] = @ \cup Range(Got(AgentOf[c]))]
         /\ \/ /\ batch' = [batch EXCEPT ![c] = Got(AgentOf[c])]
               /\ pc' = [pc EXCEPT ![c] = "dispatching"]
            \/ /\ \E v \in {"gone", "reading"} : pc' = [pc EXCEPT ![c] = v]
               /\ batch' = batch
         /\ UNCHANGED <<streamVars, stopping, historyVars, restarts>>
<1>1. batch[c] = <<>>
  BY DEF Read, TypeInv, Busy
<1>2. LoopHead(c) \in {"gone", "reading"}
  BY DEF LoopHead
<1>3. QED
  BY <1>1, <1>2, BusAssumption DEF Read, Got, CursorAfter

LEMMA ReadKeepsTypes == ASSUME TypeInv, NEW c \in Consumers, Read(c) PROVE TypeInv'
<1> DEFINE got == Got(AgentOf[c])
<1>1. /\ got \in Seq(Entries)
      /\ CursorAfter(AgentOf[c]) \in [Groups -> {NoGroup} \cup 0..MaxEntries]
      /\ \A g \in Groups : CursorAfter(AgentOf[c])[g] <= last[g[2]]
  BY ReadFacts, GotFacts
<1>2. Range(got) \subseteq Entries
  BY <1>1, DomainOfList DEF Range
<1> HIDE DEF got
<1>3. pending' \in [Agents -> SUBSET Entries]
  <2>1. pending' = [pending EXCEPT ![AgentOf[c]] = @ \cup Range(got)]
    BY ReadFacts DEF got
  <2>2. AgentOf[c] \in Agents /\ pending \in [Agents -> SUBSET Entries]
    BY ReadFacts DEF TypeInv, TypeOK
  <2>3. QED
    BY <1>2, <2>1, <2>2
<1>4. cursor' \in [Groups -> {NoGroup} \cup 0..MaxEntries]
      /\ \A g \in Groups : cursor'[g] <= last'[g[2]]
  BY <1>1, ReadFacts DEF streamVars
<1>5. /\ batch' \in [Consumers -> Seq(Entries)] /\ pc' \in [Consumers -> PC]
      /\ \A d \in Consumers : pc'[d] \in Busy <=> batch'[d] # <<>>
  <2>1. /\ batch \in [Consumers -> Seq(Entries)] /\ pc \in [Consumers -> PC]
        /\ \A d \in Consumers : pc[d] \in Busy <=> batch[d] # <<>>
    BY DEF TypeInv, TypeOK
  <2>2. got # <<>> /\ batch[c] = <<>>
    BY ReadFacts DEF got
  <2>3. CASE batch' = [batch EXCEPT ![c] = got] /\ pc' = [pc EXCEPT ![c] = "dispatching"]
    BY <1>1, <2>1, <2>2, <2>3 DEF PC, Busy
  <2>4. ASSUME NEW v \in {"gone", "reading"}, pc' = [pc EXCEPT ![c] = v], batch' = batch
        PROVE  /\ batch' \in [Consumers -> Seq(Entries)] /\ pc' \in [Consumers -> PC]
               /\ \A d \in Consumers : pc'[d] \in Busy <=> batch'[d] # <<>>
    BY <2>1, <2>2, <2>4 DEF PC, Busy
  <2>5. QED
    BY <2>3, <2>4, ReadFacts DEF got
<1>6. TypeOK'
  BY <1>3, <1>4, <1>5, ReadFacts DEF TypeInv, TypeOK, streamVars, historyVars
<1>7. QED
  BY <1>4, <1>5, <1>6 DEF TypeInv

LEMMA AdvanceKeepsTypes ==
  ASSUME TypeInv, NEW c \in Consumers, RefuseEntry(c) \/ HandlerRaises(c) \/ Ack(c)
  PROVE  TypeInv'
<1>1. pc[c] \in Busy /\ NextEntry(c)
  BY DEF RefuseEntry, HandlerRaises, Ack, Busy
<1>2. AgentOf[c] \in Agents /\ Head(batch[c]) \in Entries
  BY <1>1, HeadFacts
<1>3. /\ batch' \in [Consumers -> Seq(Entries)] /\ pc' \in [Consumers -> PC]
      /\ \A d \in Consumers : pc'[d] \in Busy <=> batch'[d] # <<>>
  BY <1>1, NextEntryFacts
<1>4. pending' \in [Agents -> SUBSET Entries]
  BY <1>2 DEF TypeInv, TypeOK, RefuseEntry, HandlerRaises, Ack, Acknowledge, groupVars
<1>5. settled' \in [Agents -> SUBSET Entries]
  <2>1. settled \in [Agents -> SUBSET Entries]
    BY DEF TypeInv, TypeOK
  <2>2. \/ settled' = settled
        \/ settled' = [settled EXCEPT ![AgentOf[c]] = @ \cup {Head(batch[c])}]
    BY DEF RefuseEntry, HandlerRaises, Ack, historyVars
  <2>3. QED
    BY <1>2, <2>1, <2>2
<1>6. UNCHANGED <<last, trimmed, cursor, stopping, calls, restarts>>
  BY DEF RefuseEntry, HandlerRaises, Ack, historyVars, groupVars, streamVars
<1>7. TypeOK'
  BY <1>3, <1>4, <1>5, <1>6 DEF TypeInv, TypeOK
<1>8. QED
  BY <1>3, <1>6, <1>7 DEF TypeInv

LEMMA StartHandlerKeepsTypes ==
  ASSUME TypeInv, NEW c \in Consumers, StartHandler(c) PROVE TypeInv'
<1>1. pc[c] = "dispatching" /\ pc[c] \in Busy
  BY DEF StartHandler, Busy
<1>2. AgentOf[c] \in Agents /\ Head(batch[c]) \in Entries
  BY <1>1, HeadFacts
<1>3. calls' \in [Agents -> [Entries -> Nat]]
  <2>1. calls \in [Agents -> [Entries -> Nat]]
    BY DEF TypeInv, TypeOK
  <2>2. calls[AgentOf[c]][Head(batch[c])] + 1 \in Nat
    BY <1>2, <2>1
  <2>3. calls' = [calls EXCEPT ![AgentOf[c]][Head(batch[c])] = @ + 1]
    BY DEF StartHandler
  <2>4. QED
    BY <1>2, <2>1, <2>2, <2>3
<1>4. pc' \in [Consumers -> PC]
  BY DEF TypeInv, TypeOK, StartHandler, PC
<1>5. \A d \in Consumers : pc'[d] \in Busy <=> pc[d] \in Busy
  BY <1>1 DEF TypeInv, TypeOK, StartHandler, Busy
<1>6. UNCHANGED <<last, trimmed, cursor, pending, batch, stopping, settled, restarts>>
  BY DEF StartHandler, groupVars, streamVars
<1>7. TypeOK'
  BY <1>3, <1>4, <1>6 DEF TypeInv, TypeOK
<1>8. QED
  BY <1>5, <1>6, <1>7 DEF TypeInv

LEMMA HandlerReturnsKeepsTypes ==
  ASSUME TypeInv, NEW c \in Consumers, HandlerReturns(c) PROVE TypeInv'
<1>1. pc[c] = "handling" /\ pc[c] \in Busy
  BY DEF HandlerReturns, Busy
<1>2. AgentOf[c] \in Agents /\ Head(batch[c]) \in Entries
  BY <1>1, HeadFacts
<1>3. settled' \in [Agents -> SUBSET Entries]
  BY <1>2 DEF TypeInv, TypeOK, HandlerReturns
<1>4. pc' \in [Consumers -> PC]
  BY DEF TypeInv, TypeOK, HandlerReturns, PC
<1>5. \A d \in Consumers : pc'[d] \in Busy <=> pc[d] \in Busy
  BY <1>1 DEF TypeInv, TypeOK, HandlerReturns, Busy
<1>6. UNCHANGED <<last, trimmed, cursor, pending, batch, stopping, calls, restarts>>
  BY DEF HandlerReturns, groupVars, streamVars
<1>7. TypeOK'
  BY <1>3, <1>4, <1>6 DEF TypeInv, TypeOK
<1>8. QED
  BY <1>5, <1>6, <1>7 DEF TypeInv

\* The steps of a consumer that is not dispatching, and those that end it.
Leaves(c) == ReadNothing(c) \/ Stop(c) \/ Crash(c) \/ Restart(c)

\* A consumer that leaves, or comes back, has nothing in hand then.
LEMMA LeavesFacts ==
  ASSUME TypeInv, NEW c \in Consumers, Leaves(c)
  PROVE  /\ UNCHANGED <<last, trimmed, cursor, pending, calls, settled>>
         /\ stopping' \subseteq Consumers /\ restarts' \in 0..MaxRestarts
         /\ pc' \in [Consumers -> PC] /\ batch' \in [Consumers -> Seq(Entries)]
         /\ \A d \in Consumers : \/ batch'[d] = <<>> /\ pc'[d] \notin Busy
                                 \/ batch'[d] = batch[d] /\ pc'[d] = pc[d]
<1> USE BusAssumption DEF groupVars, streamVars, historyVars
<1>1. /\ pc \in [Consumers -> PC] /\ batch \in [Consumers -> Seq(Entries)]
      /\ stopping \subseteq Consumers /\ restarts \in 0..MaxRestarts
      /\ pc[c] \notin Busy <=> batch[c] = <<>>
  BY DEF TypeInv, TypeOK
<1>2. CASE ReadNothing(c)
  <2>1. pc' = [pc EXCEPT ![c] = "gone"] /\ batch' = batch /\ batch[c] = <<>>
    BY <1>1, <1>2 DEF ReadNothing, LoopHead, Busy
  <2>2. pc' \in [Consumers -> PC] /\ pc'[c] = "gone"
    BY <1>1, <2>1 DEF PC
  <2>3. \A d \in Consumers \ {c} : pc'[d] = pc[d]
    BY <1>1, <2>1
  <2>4. QED
    BY <1>1, <1>2, <2>1, <2>2, <2>3 DEF ReadNothing, Busy
<1>3. CASE Stop(c)
  BY <1>1, <1>3 DEF Stop
<1>4. CASE Crash(c)
  <2>1. pc' = [pc EXCEPT ![c] = "gone"] /\ batch' = [batch EXCEPT ![c] = <<>>]
    BY <1>4 DEF Crash
  <2>2. /\ pc' \in [Consumers -> PC] /\ pc'[c] = "gone"
        /\ batch' \in [Consumers -> Seq(Entries)] /\ batch'[c] = <<>>
    BY <1>1, <2>1 DEF PC
  <2>3. \A d \in Consumers \ {c} : pc'[d] = pc[d] /\ batch'[d] = batch[d]
    BY <1>1, <2>1
  <2>4. QED
    BY <1>1, <1>4, <2>2, <2>3 DEF Crash, Busy
<1>5. CASE Restart(c)
  <2>1. pc' = [pc EXCEPT ![c] = "inbox"] /\ batch' = batch /\ batch[c] = <<>>
    BY <1>1, <1>5 DEF Restart, Busy
  <2>2. pc' \in [Consumers -> PC] /\ pc'[c] = "inbox"
    BY <1>1, <2>1 DEF PC
  <2>3. \A d \in Consumers \ {c} : pc'[d] = pc[d]
    BY <1>1, <2>1
  <2>4. restarts' \in 0..MaxRestarts
    BY <1>1, <1>5 DEF Restart
  <2>5. QED
    BY <1>1, <1>5, <2>1, <2>2, <2>3, <2>4 DEF Restart, Busy
<1>6. QED
  BY <1>2, <1>3, <1>4, <1>5 DEF Leaves

LEMMA LeavesKeepsTypes == ASSUME TypeInv, NEW c \in Consumers, Leaves(c) PROVE TypeInv'
<1>1. TypeOK'
  BY LeavesFacts DEF TypeInv, TypeOK
<1>2. \A g \in Groups : cursor'[g] <= last'[g[2]]
  BY LeavesFacts DEF TypeInv
<1>3. \A d \in Consumers : pc'[d] \in Busy <=> batch'[d] # <<>>
  BY LeavesFacts DEF TypeInv
<1>4. QED
  BY <1>1, <1>2, <1>3 DEF TypeInv

\* The steps by what they do to what a consumer has in hand.
LEMMA StepCases ==
  ASSUME Next
  PROVE  \/ \E s \in Streams : Publish(s)
         \/ \E c \in Consumers :
              \/ EnsureGroup(c) \/ Read(c) \/ StartHandler(c) \/ HandlerReturns(c)
              \/ RefuseEntry(c) \/ HandlerRaises(c) \/ Ack(c) \/ Leaves(c)
BY DEF Next, ConsumerStep, Leaves

LEMMA TypeStep == TypeInv /\ [Next]_vars => TypeInv'
<1> SUFFICES ASSUME TypeInv, [Next]_vars PROVE TypeInv'
  OBVIOUS
<1>1. CASE UNCHANGED vars
  BY <1>1 DEF vars, streamVars, groupVars, historyVars, TypeInv, TypeOK
<1>2. CASE Next
  BY <1>2, StepCases, PublishKeepsTypes, EnsureGroupKeepsTypes, ReadKeepsTypes,
     StartHandlerKeepsTypes, HandlerReturnsKeepsTypes, AdvanceKeepsTypes, LeavesKeepsTypes
<1>3. QED
  BY <1>1, <1>2

\* Every variable of the bus keeps to its type, whatever crashes or is lost.
THEOREM TypeCorrect == Spec => []TypeOK
<1>1. TypeInv => TypeOK
  BY DEF TypeInv
<1>2. QED
  BY <1>1, TypeInit, TypeStep, PTL DEF Spec

-------------------------------------------------------------------------------
(* What a consumer has in hand.                                             *)

\* What was handled or refused had been read before.
Known ==
  \A a \in Agents, e \in Entries :
    calls[a][e] > 0 \/ e \in settled[a] => ReadBefore(a, e)

\* What a consumer holds was read, is pending, is held in one place of the
\* batch, and only the head of the batch can have been given to a handler.
HeldInv(c) ==
  \A i \in DOMAIN batch[c] :
    /\ ReadBefore(AgentOf[c], batch[c][i])
    /\ batch[c][i] \in pending[AgentOf[c]]
    /\ calls[AgentOf[c]][batch[c][i]] > 0 => i = 1 /\ pc[c] \in {"handling", "acking"}
    /\ batch[c][i] \in settled[AgentOf[c]] => i = 1 /\ pc[c] = "acking"
    /\ \A j \in DOMAIN batch[c] : batch[c][i] = batch[c][j] => i = j

\* Two consumers of an agent hold different entries.
Apart ==
  \A c \in Consumers : \A d \in Consumers \ {c} :
    AgentOf[c] = AgentOf[d] =>
      \A i \in DOMAIN batch[c], j \in DOMAIN batch[d] : batch[c][i] # batch[d][j]

BusInv == TypeInv /\ Known /\ (\A c \in Consumers : HeldInv(c)) /\ Apart

LEMMA BusInit == Init => BusInv
<1> SUFFICES ASSUME Init PROVE BusInv
  OBVIOUS
<1>1. \A c \in Consumers : DOMAIN batch[c] = {}
  BY DEF Init
<1>2. Known
  BY DEF Init, Known
<1>3. (\A c \in Consumers : HeldInv(c)) /\ Apart
  BY <1>1 DEF HeldInv, Apart
<1>4. QED
  BY <1>2, <1>3, TypeInit DEF BusInv

CursorsGrow == \A g \in Groups : cursor[g] <= cursor'[g]

LEMMA StaysRead ==
  ASSUME TypeInv, TypeInv', CursorsGrow, NEW a \in Agents, NEW e \in Entries, ReadBefore(a, e)
  PROVE  e[1] \in StreamsOf(a) /\ e[2] <= cursor'[<<a, e[1]>>]
<1>1. e[1] \in StreamsOf(a) /\ e[2] <= cursor[<<a, e[1]>>] /\ e[2] \in Int
  <2>1. e[2] \in Int
    BY BusAssumption DEF Entries
  <2>2. QED
    BY <2>1 DEF ReadBefore
<1>2. <<a, e[1]>> \in Groups
  BY <1>1, GroupsOfAgent
<1>3. cursor[<<a, e[1]>>] \in Int /\ cursor'[<<a, e[1]>>] \in Int
  <2>1. /\ cursor[<<a, e[1]>>] \in {NoGroup} \cup 0..MaxEntries
        /\ cursor'[<<a, e[1]>>] \in {NoGroup} \cup 0..MaxEntries
    BY <1>2 DEF TypeInv, TypeOK
  <2>2. QED
    BY <2>1, BusAssumption DEF NoGroup
<1>4. cursor[<<a, e[1]>>] <= cursor'[<<a, e[1]>>]
  BY <1>2 DEF CursorsGrow
<1>5. e[2] <= cursor'[<<a, e[1]>>]
  BY <1>1, <1>3, <1>4
<1>6. QED
  BY <1>1, <1>5

LEMMA KnownKept ==
  ASSUME BusInv, TypeInv', CursorsGrow, UNCHANGED historyVars
  PROVE  Known'
<1> SUFFICES ASSUME NEW a \in Agents, NEW e \in Entries, calls[a][e] > 0 \/ e \in settled[a]
             PROVE  e[1] \in StreamsOf(a) /\ e[2] <= cursor'[<<a, e[1]>>]
  BY DEF Known, ReadBefore, historyVars, StreamsOf
<1>1. ReadBefore(a, e)
  BY DEF BusInv, Known
<1>2. QED
  BY <1>1, StaysRead DEF BusInv

LEMMA EmptyKeepsHeld ==
  ASSUME NEW c \in Consumers, batch'[c] = <<>>
  PROVE  HeldInv(c)'
<1>1. DOMAIN batch'[c] = {}
  OBVIOUS
<1>2. QED
  BY <1>1 DEF HeldInv

\* A consumer keeps its hold while nobody touches what it holds.
LEMMA HoldKept ==
  ASSUME BusInv, TypeInv', CursorsGrow, NEW c \in Consumers,
         batch'[c] = batch[c], pc'[c] = pc[c],
         \A i \in DOMAIN batch[c] :
           /\ batch[c][i] \in pending[AgentOf[c]] => batch[c][i] \in pending'[AgentOf[c]]
           /\ calls'[AgentOf[c]][batch[c][i]] = calls[AgentOf[c]][batch[c][i]]
           /\ batch[c][i] \in settled'[AgentOf[c]] => batch[c][i] \in settled[AgentOf[c]]
  PROVE  HeldInv(c)'
<1> DEFINE a == AgentOf[c]
<1>1. a \in Agents /\ HeldInv(c)
  BY BusAssumption DEF BusInv
<1>2. ASSUME NEW i \in DOMAIN batch[c]
      PROVE  batch[c][i][1] \in StreamsOf(a) /\ batch[c][i][2] <= cursor'[<<a, batch[c][i][1]>>]
  <2>1. batch[c][i] \in Entries
    BY BatchFacts DEF BusInv
  <2>2. ReadBefore(a, batch[c][i])
    BY <1>1 DEF HeldInv
  <2>3. QED
    BY <1>1, <2>1, <2>2, StaysRead DEF BusInv
<1>3. ASSUME NEW i \in DOMAIN batch[c]
      PROVE  /\ batch[c][i] \in pending'[a]
             /\ calls'[a][batch[c][i]] > 0 => i = 1 /\ pc'[c] \in {"handling", "acking"}
             /\ batch[c][i] \in settled'[a] => i = 1 /\ pc'[c] = "acking"
             /\ \A j \in DOMAIN batch[c] : batch[c][i] = batch[c][j] => i = j
  <2>1. /\ batch[c][i] \in pending[a]
        /\ calls[a][batch[c][i]] > 0 => i = 1 /\ pc[c] \in {"handling", "acking"}
        /\ batch[c][i] \in settled[a] => i = 1 /\ pc[c] = "acking"
        /\ \A j \in DOMAIN batch[c] : batch[c][i] = batch[c][j] => i = j
    BY <1>1 DEF HeldInv
  <2>2. QED
    BY <2>1
<1>4. QED
  BY <1>2, <1>3 DEF HeldInv, ReadBefore, StreamsOf

\* No step but a read puts anything into a batch.
LEMMA ApartKept ==
  ASSUME BusInv,
         \A c \in Consumers : \A i \in DOMAIN batch'[c] :
           \E k \in DOMAIN batch[c] : batch'[c][i] = batch[c][k]
  PROVE  Apart'
<1> SUFFICES ASSUME NEW c \in Consumers, NEW d \in Consumers \ {c}, AgentOf[c] = AgentOf[d],
                    NEW i \in DOMAIN batch'[c], NEW j \in DOMAIN batch'[d]
             PROVE  batch'[c][i] # batch'[d][j]
  BY DEF Apart
<1>1. PICK k \in DOMAIN batch[c] : batch'[c][i] = batch[c][k]
  OBVIOUS
<1>2. PICK l \in DOMAIN batch[d] : batch'[d][j] = batch[d][l]
  OBVIOUS
<1>3. batch[c][k] # batch[d][l]
  BY DEF BusInv, Apart
<1>4. QED
  BY <1>1, <1>2, <1>3

\* The steps that only move groups and streams, or that leave.
LEMMA QuietKeeps ==
  ASSUME BusInv, TypeInv', CursorsGrow, UNCHANGED <<pending, calls, settled>>,
         \A d \in Consumers : batch'[d] = <<>> \/ (batch'[d] = batch[d] /\ pc'[d] = pc[d])
  PROVE  BusInv'
<1>1. Known'
  BY KnownKept DEF historyVars
<1>2. ASSUME NEW d \in Consumers PROVE HeldInv(d)'
  <2>1. CASE batch'[d] = <<>>
    BY <2>1, EmptyKeepsHeld
  <2>2. CASE batch'[d] = batch[d] /\ pc'[d] = pc[d]
    BY <2>2, HoldKept
  <2>3. QED
    BY <2>1, <2>2
<1>3. Apart'
  <2>1. ASSUME NEW d \in Consumers, NEW i \in DOMAIN batch'[d]
        PROVE  \E k \in DOMAIN batch[d] : batch'[d][i] = batch[d][k]
    <3>1. batch'[d] # <<>>
      OBVIOUS
    <3>2. QED
      BY <3>1
  <2>2. QED
    BY <2>1, ApartKept
<1>4. QED
  BY <1>1, <1>2, <1>3 DEF BusInv

LEMMA CursorsStay ==
  ASSUME TypeInv, UNCHANGED cursor PROVE CursorsGrow
<1>1. \A g \in Groups : cursor[g] \in Int
  <2>1. \A g \in Groups : cursor[g] \in {NoGroup} \cup 0..MaxEntries
    BY DEF TypeInv, TypeOK
  <2>2. QED
    BY <2>1, BusAssumption DEF NoGroup
<1>2. QED
  BY <1>1 DEF CursorsGrow

LEMMA PublishKeeps == ASSUME BusInv, TypeInv', NEW s \in Streams, Publish(s) PROVE BusInv'
<1>1. UNCHANGED <<cursor, pending, calls, settled, pc, batch>>
  BY DEF Publish, groupVars, historyVars
<1>2. CursorsGrow
  BY <1>1, CursorsStay DEF BusInv
<1>3. QED
  BY <1>1, <1>2, QuietKeeps

LEMMA EnsureGroupKeeps ==
  ASSUME BusInv, TypeInv', NEW c \in Consumers, EnsureGroup(c) PROVE BusInv'
<1>1. UNCHANGED <<pending, calls, settled, batch>>
  BY DEF EnsureGroup, historyVars
<1>2. CursorsGrow
  BY CreateFacts DEF CursorsGrow, BusInv
<1>3. batch[c] = <<>> /\ \A d \in Consumers \ {c} : pc'[d] = pc[d]
  BY DEF EnsureGroup, BusInv, TypeInv, TypeOK, Busy
<1>4. \A d \in Consumers : batch'[d] = <<>> \/ (batch'[d] = batch[d] /\ pc'[d] = pc[d])
  BY <1>1, <1>3
<1>5. QED
  BY <1>1, <1>2, <1>4, QuietKeeps

LEMMA LeavesKeeps == ASSUME BusInv, TypeInv', NEW c \in Consumers, Leaves(c) PROVE BusInv'
<1>1. /\ UNCHANGED <<cursor, pending, calls, settled>>
      /\ \A d \in Consumers : batch'[d] = <<>> \/ (batch'[d] = batch[d] /\ pc'[d] = pc[d])
  BY LeavesFacts DEF BusInv
<1>2. CursorsGrow
  BY <1>1, CursorsStay DEF BusInv
<1>3. QED
  BY <1>1, <1>2, QuietKeeps

LEMMA ReadKeeps == ASSUME BusInv, TypeInv', NEW c \in Consumers, Read(c) PROVE BusInv'
<1> DEFINE a == AgentOf[c]
           got == Got(a)
<1>1. /\ a \in Agents /\ GroupsExist(a) /\ batch[c] = <<>>
      /\ cursor' = CursorAfter(a)
      /\ pending' = [pending EXCEPT ![a] = @ \cup Range(got)]
      /\ UNCHANGED <<calls, settled>>
  BY ReadFacts DEF BusInv, historyVars
<1>2. /\ got \in Seq(Entries)
      /\ \A i, j \in DOMAIN got : got[i] = got[j] => i = j
      /\ \A i \in DOMAIN got : /\ ~ReadBefore(a, got[i])
                               /\ got[i][1] \in StreamsOf(a)
                               /\ got[i][2] <= cursor'[<<a, got[i][1]>>]
      /\ CursorsGrow
  BY <1>1, GotFacts DEF BusInv, CursorsGrow
<1>3. /\ \A d \in Consumers \ {c} : batch'[d] = batch[d] /\ pc'[d] = pc[d]
      /\ batch'[c] = <<>> \/ (batch'[c] = got /\ pc'[c] = "dispatching")
  <2>1. batch \in [Consumers -> Seq(Entries)] /\ pc \in [Consumers -> PC] /\ batch[c] = <<>>
    BY <1>1 DEF BusInv, TypeInv, TypeOK
  <2>2. CASE batch' = [batch EXCEPT ![c] = got] /\ pc' = [pc EXCEPT ![c] = "dispatching"]
    BY <2>1, <2>2
  <2>3. ASSUME NEW v \in {"gone", "reading"}, pc' = [pc EXCEPT ![c] = v], batch' = batch
        PROVE  /\ \A d \in Consumers \ {c} : batch'[d] = batch[d] /\ pc'[d] = pc[d]
               /\ batch'[c] = <<>>
    BY <2>1, <2>3
  <2>4. QED
    BY <2>2, <2>3, ReadFacts DEF BusInv
<1>4. \A i \in DOMAIN got : got[i] \in Entries
  BY <1>2, DomainOfList
<1>5. \A i \in DOMAIN got : got[i] \in Range(got)
  BY DEF Range
<1> HIDE DEF got
<1>6. Known'
  BY <1>1, <1>2, KnownKept DEF historyVars
<1>7. ASSUME NEW d \in Consumers \ {c} PROVE HeldInv(d)'
  <2>1. AgentOf[d] \in Agents /\ \A b \in Agents : pending[b] \subseteq pending'[b]
    BY <1>1, BusAssumption DEF BusInv, TypeInv, TypeOK
  <2>2. QED
    BY <1>1, <1>2, <1>3, <2>1, HoldKept
<1>8. HeldInv(c)'
  <2>1. CASE batch'[c] = <<>>
    BY <2>1, EmptyKeepsHeld
  <2>2. CASE batch'[c] = got
    <3>1. ASSUME NEW i \in DOMAIN got
          PROVE  /\ got[i] \in pending'[a]
                 /\ ~(calls'[a][got[i]] > 0) /\ got[i] \notin settled'[a]
      <4>1. got[i] \in pending'[a]
        BY <1>1, <1>5 DEF BusInv, TypeInv, TypeOK
      <4>2. got[i] \in Entries /\ ~ReadBefore(a, got[i])
        BY <1>2, <1>4
      <4>3. ~(calls[a][got[i]] > 0) /\ got[i] \notin settled[a]
        BY <1>1, <4>2 DEF BusInv, Known
      <4>4. QED
        BY <1>1, <4>1, <4>3
    <3>2. QED
      BY <1>2, <2>2, <3>1 DEF HeldInv, ReadBefore, StreamsOf
  <2>3. QED
    BY <1>3, <2>1, <2>2
<1>9. Apart'
  <2>1. ASSUME NEW d \in Consumers \ {c}, AgentOf[d] = a,
               NEW i \in DOMAIN batch'[c], NEW j \in DOMAIN batch[d]
        PROVE  batch'[c][i] # batch[d][j]
    <3>1. batch'[c] = got
      BY <1>3
    <3>2. ~ReadBefore(a, batch'[c][i])
      BY <1>2, <3>1
    <3>3. ReadBefore(a, batch[d][j])
      BY <2>1 DEF BusInv, HeldInv
    <3>4. QED
      BY <3>2, <3>3
  <2>2. SUFFICES ASSUME NEW d \in Consumers, NEW e \in Consumers \ {d}, AgentOf[d] = AgentOf[e],
                        NEW i \in DOMAIN batch'[d], NEW j \in DOMAIN batch'[e]
                 PROVE  batch'[d][i] # batch'[e][j]
    BY DEF Apart
  <2>3. CASE d = c
    <3>1. e \in Consumers \ {c} /\ batch'[e] = batch[e] /\ AgentOf[e] = a
      BY <1>3, <2>2, <2>3
    <3>2. QED
      BY <2>1, <2>3, <3>1
  <2>4. CASE e = c
    <3>1. d \in Consumers \ {c} /\ batch'[d] = batch[d] /\ AgentOf[d] = a
      BY <1>3, <2>2, <2>4
    <3>2. QED
      BY <2>1, <2>4, <3>1
  <2>5. CASE d # c /\ e # c
    BY <1>3, <2>2, <2>5 DEF BusInv, Apart
  <2>6. QED
    BY <2>3, <2>4, <2>5
<1>10. QED
  BY <1>6, <1>7, <1>8, <1>9 DEF BusInv

\* The head of a batch is in no other batch of the agent, nor twice in its own.
LEMMA HeadAlone ==
  ASSUME BusInv, NEW c \in Consumers, pc[c] \in Busy
  PROVE  /\ \A i \in DOMAIN batch[c] : i # 1 => batch[c][i] # Head(batch[c])
         /\ \A d \in Consumers \ {c} : AgentOf[d] = AgentOf[c] =>
              \A i \in DOMAIN batch[d] : batch[d][i] # Head(batch[c])
         /\ ReadBefore(AgentOf[c], Head(batch[c]))
         /\ Head(batch[c]) \in pending[AgentOf[c]]
<1>1. 1 \in DOMAIN batch[c] /\ Head(batch[c]) = batch[c][1]
  BY HeadFacts DEF BusInv
<1>2. HeldInv(c) /\ Apart
  BY DEF BusInv
<1>3. \A i \in DOMAIN batch[c] : i # 1 => batch[c][i] # batch[c][1]
  BY <1>1, <1>2 DEF HeldInv
<1>4. \A d \in Consumers \ {c} : AgentOf[d] = AgentOf[c] =>
        \A i \in DOMAIN batch[d] : batch[d][i] # batch[c][1]
  BY <1>1, <1>2 DEF Apart
<1>5. ReadBefore(AgentOf[c], batch[c][1]) /\ batch[c][1] \in pending[AgentOf[c]]
  BY <1>1, <1>2 DEF HeldInv
<1>6. QED
  BY <1>1, <1>3, <1>4, <1>5

\* A step that settles or acknowledges the head of c's batch, and no more.
OnlyHead(c) ==
  LET a == AgentOf[c]
      e == Head(batch[c])
  IN /\ UNCHANGED cursor
     /\ \A b \in Agents, x \in Entries :
          /\ x \in pending[b] => x \in pending'[b] \/ (b = a /\ x = e)
          /\ calls'[b][x] = calls[b][x] \/ (b = a /\ x = e)
          /\ x \in settled'[b] => x \in settled[b] \/ (b = a /\ x = e)

LEMMA OthersKeep ==
  ASSUME BusInv, TypeInv', NEW c \in Consumers, pc[c] \in Busy, OnlyHead(c),
         NEW d \in Consumers \ {c}, batch'[d] = batch[d], pc'[d] = pc[d]
  PROVE  HeldInv(d)'
<1>1. CursorsGrow
  BY CursorsStay DEF OnlyHead, BusInv
<1>2. AgentOf[d] \in Agents /\ \A i \in DOMAIN batch[d] : batch[d][i] \in Entries
  BY BatchFacts, BusAssumption DEF BusInv
<1>3. ASSUME NEW i \in DOMAIN batch[d]
      PROVE  ~(AgentOf[d] = AgentOf[c] /\ batch[d][i] = Head(batch[c]))
  BY HeadAlone
<1>4. QED
  BY <1>1, <1>2, <1>3, HoldKept DEF OnlyHead

LEMMA OnlyHeadKnown ==
  ASSUME BusInv, NEW c \in Consumers, pc[c] \in Busy, OnlyHead(c)
  PROVE  Known'
<1>1. ASSUME NEW a \in Agents, NEW e \in Entries, calls'[a][e] > 0 \/ e \in settled'[a]
      PROVE  ReadBefore(a, e)
  <2>1. CASE a = AgentOf[c] /\ e = Head(batch[c])
    BY <2>1, HeadAlone
  <2>2. CASE ~(a = AgentOf[c] /\ e = Head(batch[c]))
    BY <1>1, <2>2 DEF OnlyHead, BusInv, Known
  <2>3. QED
    BY <2>1, <2>2
<1>2. cursor' = cursor
  BY DEF OnlyHead
<1>3. QED
  BY <1>1, <1>2 DEF Known, ReadBefore, StreamsOf

LEMMA StartHandlerFacts ==
  ASSUME BusInv, NEW c \in Consumers, StartHandler(c)
  PROVE  /\ pc[c] = "dispatching" /\ pc[c] \in Busy /\ UNCHANGED <<cursor, pending, batch, settled>>
         /\ pc'[c] = "handling" /\ \A d \in Consumers \ {c} : pc'[d] = pc[d]
         /\ calls' = [calls EXCEPT ![AgentOf[c]][Head(batch[c])] = 1]
         /\ calls[AgentOf[c]][Head(batch[c])] = 0
         /\ Head(batch[c]) \notin settled[AgentOf[c]]
         /\ OnlyHead(c)
<1> DEFINE a == AgentOf[c]
           e == Head(batch[c])
<1>1. pc[c] = "dispatching" /\ pc[c] \in Busy /\ UNCHANGED <<cursor, pending, batch, settled>>
  BY DEF StartHandler, Busy, groupVars
<1>2. a \in Agents /\ e \in Entries /\ 1 \in DOMAIN batch[c] /\ e = batch[c][1]
  BY <1>1, HeadFacts DEF BusInv
<1>3. calls \in [Agents -> [Entries -> Nat]] /\ pc \in [Consumers -> PC]
  BY DEF BusInv, TypeInv, TypeOK
<1>4. HeldInv(c)
  BY DEF BusInv
<1>5. ~(calls[a][e] > 0) /\ e \notin settled[a]
  BY <1>1, <1>2, <1>4 DEF HeldInv
<1>6. calls[a][e] \in Nat
  BY <1>2, <1>3
<1>7. calls[a][e] = 0
  BY <1>5, <1>6
<1>8. calls' = [calls EXCEPT ![a][e] = 1]
  <2>1. calls' = [calls EXCEPT ![a][e] = @ + 1]
    BY DEF StartHandler
  <2>2. calls[a][e] + 1 = 1
    BY <1>7
  <2>3. QED
    BY <2>1, <2>2
<1>9. pc'[c] = "handling" /\ \A d \in Consumers \ {c} : pc'[d] = pc[d]
  BY <1>3 DEF StartHandler
<1> HIDE DEF a, e
<1>10. \A b \in Agents, x \in Entries : calls'[b][x] = calls[b][x] \/ (b = a /\ x = e)
  BY <1>2, <1>3, <1>8
<1>11. OnlyHead(c)
  BY <1>1, <1>10 DEF OnlyHead, a, e
<1>12. QED
  BY <1>1, <1>5, <1>7, <1>8, <1>9, <1>11 DEF a, e

\* A step at the head of c's batch that leaves the batch as it is.
LEMMA HeadStepKeeps ==
  ASSUME BusInv, TypeInv', NEW c \in Consumers, pc[c] \in Busy, OnlyHead(c),
         UNCHANGED <<pending, batch>>,
         \A d \in Consumers \ {c} : pc'[d] = pc[d],
         \/ pc[c] = "dispatching" /\ pc'[c] = "handling" /\ UNCHANGED settled
         \/ pc[c] = "handling" /\ pc'[c] = "acking" /\ UNCHANGED calls
  PROVE  BusInv'
<1>1. Known'
  BY OnlyHeadKnown
<1>2. \A d \in Consumers \ {c} : HeldInv(d)'
  BY OthersKeep
<1>3. Apart'
  BY ApartKept
<1>4. HeldInv(c)
  BY DEF BusInv
<1>5. ASSUME NEW i \in DOMAIN batch[c]
      PROVE  /\ calls'[AgentOf[c]][batch[c][i]] > 0 => i = 1 /\ pc'[c] \in {"handling", "acking"}
             /\ batch[c][i] \in settled'[AgentOf[c]] => i = 1 /\ pc'[c] = "acking"
  <2>1. AgentOf[c] \in Agents /\ batch[c][i] \in Entries
    BY BatchFacts, BusAssumption DEF BusInv
  <2>2. i # 1 => batch[c][i] # Head(batch[c])
    BY HeadAlone
  <2>3. i # 1 => /\ calls'[AgentOf[c]][batch[c][i]] = calls[AgentOf[c]][batch[c][i]]
                 /\ batch[c][i] \in settled'[AgentOf[c]] => batch[c][i] \in settled[AgentOf[c]]
    BY <2>1, <2>2 DEF OnlyHead
  <2>4. i # 1 => ~(calls[AgentOf[c]][batch[c][i]] > 0) /\ batch[c][i] \notin settled[AgentOf[c]]
    BY <1>4 DEF HeldInv
  <2>5. pc[c] = "dispatching" => batch[c][i] \notin settled[AgentOf[c]]
    BY <1>4 DEF HeldInv
  <2>6. QED
    BY <2>3, <2>4, <2>5
<1>6. HeldInv(c)'
  <2>1. \A i \in DOMAIN batch[c] :
          /\ ReadBefore(AgentOf[c], batch[c][i])
          /\ batch[c][i] \in pending[AgentOf[c]]
          /\ \A j \in DOMAIN batch[c] : batch[c][i] = batch[c][j] => i = j
    BY <1>4 DEF HeldInv
  <2>2. cursor' = cursor
    BY DEF OnlyHead
  <2>3. QED
    BY <1>5, <2>1, <2>2 DEF HeldInv, ReadBefore, StreamsOf
<1>7. QED
  BY <1>1, <1>2, <1>3, <1>6 DEF BusInv

LEMMA HandlerReturnsFacts ==
  ASSUME BusInv, NEW c \in Consumers, HandlerReturns(c)
  PROVE  /\ pc[c] = "handling" /\ pc[c] \in Busy /\ UNCHANGED <<cursor, pending, batch, calls>>
         /\ pc'[c] = "acking" /\ \A d \in Consumers \ {c} : pc'[d] = pc[d]
         /\ settled' = [settled EXCEPT ![AgentOf[c]] = @ \cup {Head(batch[c])}]
         /\ Head(batch[c]) \notin settled[AgentOf[c]]
         /\ OnlyHead(c)
<1>1. pc[c] = "handling" /\ pc[c] \in Busy /\ UNCHANGED <<cursor, pending, batch, calls>>
  BY DEF HandlerReturns, Busy, groupVars
<1>2. 1 \in DOMAIN batch[c] /\ Head(batch[c]) = batch[c][1] /\ AgentOf[c] \in Agents
  BY <1>1, HeadFacts DEF BusInv
<1>3. settled \in [Agents -> SUBSET Entries] /\ pc \in [Consumers -> PC]
  BY DEF BusInv, TypeInv, TypeOK
<1>4. batch[c][1] \notin settled[AgentOf[c]]
  BY <1>1, <1>2 DEF BusInv, HeldInv
<1>5. settled' = [settled EXCEPT ![AgentOf[c]] = @ \cup {Head(batch[c])}]
  BY DEF HandlerReturns
<1>6. pc'[c] = "acking" /\ \A d \in Consumers \ {c} : pc'[d] = pc[d]
  BY <1>3 DEF HandlerReturns
<1>7. \A b \in Agents, x \in Entries :
        x \in settled'[b] => x \in settled[b] \/ (b = AgentOf[c] /\ x = Head(batch[c]))
  BY <1>3, <1>5
<1>8. OnlyHead(c)
  BY <1>1, <1>7 DEF OnlyHead
<1>9. QED
  BY <1>1, <1>2, <1>4, <1>5, <1>6, <1>8

LEMMA AdvanceFacts ==
  ASSUME BusInv, NEW c \in Consumers, RefuseEntry(c) \/ HandlerRaises(c) \/ Ack(c)
  PROVE  /\ pc[c] \in Busy /\ NextEntry(c) /\ OnlyHead(c)
         /\ AgentOf[c] \in Agents /\ Head(batch[c]) \in Entries
         /\ \A b \in Agents, x \in Entries :
              x \in pending[b] => x \in pending'[b] \/ (b = AgentOf[c] /\ x = Head(batch[c]))
<1>1. pc[c] \in Busy /\ NextEntry(c) /\ UNCHANGED <<cursor, calls>>
  BY DEF RefuseEntry, HandlerRaises, Ack, Busy, groupVars, historyVars
<1>2. AgentOf[c] \in Agents /\ Head(batch[c]) \in Entries
  BY <1>1, HeadFacts DEF BusInv
<1>3. settled \in [Agents -> SUBSET Entries] /\ pending \in [Agents -> SUBSET Entries]
  BY DEF BusInv, TypeInv, TypeOK
<1>4. \/ settled' = settled
      \/ settled' = [settled EXCEPT ![AgentOf[c]] = @ \cup {Head(batch[c])}]
  BY DEF RefuseEntry, HandlerRaises, Ack, historyVars
<1>5. \/ pending' = pending
      \/ pending' = [pending EXCEPT ![AgentOf[c]] = @ \ {Head(batch[c])}]
  BY DEF RefuseEntry, HandlerRaises, Ack, groupVars, Acknowledge
<1>6. \A b \in Agents, x \in Entries :
        x \in settled'[b] => x \in settled[b] \/ (b = AgentOf[c] /\ x = Head(batch[c]))
  BY <1>3, <1>4
<1>7. \A b \in Agents, x \in Entries :
        x \in pending[b] => x \in pending'[b] \/ (b = AgentOf[c] /\ x = Head(batch[c]))
  BY <1>2, <1>3, <1>5
<1>8. OnlyHead(c)
  BY <1>1, <1>6, <1>7 DEF OnlyHead
<1>9. QED
  BY <1>1, <1>2, <1>7, <1>8

\* Dropping the head leaves entries that no handler was called for.
LEMMA AdvanceKeeps ==
  ASSUME BusInv, TypeInv', NEW c \in Consumers, RefuseEntry(c) \/ HandlerRaises(c) \/ Ack(c)
  PROVE  BusInv'
<1> DEFINE a == AgentOf[c]
<1>1. pc[c] \in Busy /\ NextEntry(c) /\ OnlyHead(c) /\ a \in Agents
  BY AdvanceFacts
<1>2. /\ \A d \in Consumers \ {c} : batch'[d] = batch[d] /\ pc'[d] = pc[d]
      /\ \A i \in DOMAIN batch'[c] :
           i \in Nat /\ i + 1 \in DOMAIN batch[c] /\ i + 1 # 1 /\ batch'[c][i] = batch[c][i + 1]
  BY <1>1, NextEntryFacts DEF BusInv
<1>3. Known'
  BY <1>1, OnlyHeadKnown
<1>4. \A d \in Consumers \ {c} : HeldInv(d)'
  BY <1>1, <1>2, OthersKeep
<1>5. Apart'
  <2>1. ASSUME NEW d \in Consumers, NEW i \in DOMAIN batch'[d]
        PROVE  \E k \in DOMAIN batch[d] : batch'[d][i] = batch[d][k]
    BY <1>2
  <2>2. QED
    BY <2>1, ApartKept
<1>6. HeldInv(c)
  BY DEF BusInv
<1>7. ASSUME NEW i \in DOMAIN batch'[c]
      PROVE  /\ ReadBefore(a, batch'[c][i])
             /\ batch'[c][i] \in pending'[a]
             /\ ~(calls'[a][batch'[c][i]] > 0) /\ batch'[c][i] \notin settled'[a]
             /\ \A j \in DOMAIN batch'[c] : batch'[c][i] = batch'[c][j] => i = j
  <2> DEFINE k == i + 1
             e == batch[c][k]
  <2>1. i \in Nat /\ k \in DOMAIN batch[c] /\ k # 1 /\ batch'[c][i] = e
    BY <1>2
  <2> HIDE DEF k
  <2>2. e \in Entries /\ e # Head(batch[c])
    BY <1>1, <2>1, BatchFacts, HeadAlone DEF BusInv
  <2>3. /\ ReadBefore(a, e) /\ e \in pending[a]
        /\ ~(calls[a][e] > 0) /\ e \notin settled[a]
    BY <1>6, <2>1 DEF HeldInv
  <2>4. e \in pending'[a] /\ calls'[a][e] = calls[a][e] /\ e \notin settled'[a]
    BY <1>1, <2>2, <2>3 DEF OnlyHead
  <2>5. ASSUME NEW j \in DOMAIN batch'[c], batch'[c][i] = batch'[c][j] PROVE i = j
    <3>1. j \in Nat /\ j + 1 \in DOMAIN batch[c] /\ batch'[c][j] = batch[c][j + 1]
      BY <1>2
    <3>2. k = j + 1
      BY <1>6, <2>1, <2>5, <3>1 DEF HeldInv
    <3>3. QED
      BY <2>1, <3>1, <3>2 DEF k
  <2>6. QED
    BY <2>1, <2>3, <2>4, <2>5
<1>8. HeldInv(c)'
  <2>1. cursor' = cursor
    BY <1>1 DEF OnlyHead
  <2>2. QED
    BY <1>7, <2>1 DEF HeldInv, ReadBefore, StreamsOf
<1>9. QED
  BY <1>3, <1>4, <1>5, <1>8 DEF BusInv

LEMMA BusStep == BusInv /\ [Next]_vars => BusInv'
<1> SUFFICES ASSUME BusInv, [Next]_vars PROVE BusInv'
  OBVIOUS
<1>1. TypeInv'
  BY TypeStep DEF BusInv
<1>2. CASE UNCHANGED vars
  BY <1>2 DEF vars, streamVars, groupVars, historyVars, BusInv, TypeInv, TypeOK, Known,
              HeldInv, Apart, ReadBefore, StreamsOf
<1>3. ASSUME NEW c \in Consumers, StartHandler(c) PROVE BusInv'
  BY <1>1, <1>3, StartHandlerFacts, HeadStepKeeps
<1>4. ASSUME NEW c \in Consumers, HandlerReturns(c) PROVE BusInv'
  BY <1>1, <1>4, HandlerReturnsFacts, HeadStepKeeps
<1>5. CASE Next
  BY <1>1, <1>3, <1>4, <1>5, StepCases, PublishKeeps, EnsureGroupKeeps, ReadKeeps, AdvanceKeeps,
     LeavesKeeps
<1>6. QED
  BY <1>2, <1>5

LEMMA BusInvariant == Spec => []BusInv
  BY BusInit, BusStep, PTL DEF Spec

LEMMA BusInvHolds == BusInv => HeldOnce
<1> SUFFICES ASSUME BusInv, NEW c \in Consumers
             PROVE  /\ \A d \in Consumers \ {c} :
                         AgentOf[d] = AgentOf[c] => InHand(c) \cap InHand(d) = {}
                    /\ \A i, j \in DOMAIN batch[c] : batch[c][i] = batch[c][j] => i = j
                    /\ InHand(c) \subseteq pending[AgentOf[c]]
                    /\ \A i \in DOMAIN batch[c] :
                         calls[AgentOf[c]][batch[c][i]] > 0 =>
                           i = 1 /\ pc[c] \in {"handling", "acking"}
  BY DEF HeldOnce
<1>1. HeldInv(c)
  BY DEF BusInv
<1>2. ASSUME NEW d \in Consumers \ {c}, AgentOf[d] = AgentOf[c]
      PROVE  InHand(c) \cap InHand(d) = {}
  BY <1>2 DEF BusInv, Apart, InHand, Range
<1>3. QED
  BY <1>1, <1>2 DEF HeldInv, InHand, Range

\* However many consumers serve an agent, and however often they stop, crash
\* and start again, no entry is held twice, or held after it was handled.
THEOREM HeldOnceCorrect == Spec => []HeldOnce
BY BusInvariant, BusInvHolds, PTL

-------------------------------------------------------------------------------
(* What leaves a pending list.                                              *)

\* An entry is acknowledged after a handler only when that handler returned.
AckSettled ==
  \A c \in Consumers : pc[c] = "acking" => Head(batch[c]) \in settled[AgentOf[c]]

SettledGrows == \A a \in Agents : settled[a] \subseteq settled'[a]

\* How a consumer may come to acknowledge: it did already, or its handler
\* returned.
ComesToAck(c) ==
  pc'[c] = "acking" =>
    \/ pc[c] = "acking" /\ batch'[c] = batch[c]
    \/ Head(batch'[c]) \in settled'[AgentOf[c]]

LEMMA EnsureGroupComes ==
  ASSUME BusInv, NEW c \in Consumers, EnsureGroup(c)
  PROVE  SettledGrows /\ \A d \in Consumers : ComesToAck(d)
<1>1. PICK v \in {"broadcast", "gone", "reading"} : pc' = [pc EXCEPT ![c] = v]
  BY DEF EnsureGroup, LoopHead
<1>2. pc \in [Consumers -> PC] /\ UNCHANGED <<batch, settled>>
  BY DEF EnsureGroup, historyVars, BusInv, TypeInv, TypeOK
<1>3. \A d \in Consumers : pc'[d] = pc[d] \/ pc'[d] # "acking"
  BY <1>1, <1>2
<1>4. QED
  BY <1>2, <1>3 DEF SettledGrows, ComesToAck

LEMMA ReadComes ==
  ASSUME BusInv, NEW c \in Consumers, Read(c)
  PROVE  SettledGrows /\ \A d \in Consumers : ComesToAck(d)
<1>1. PICK v \in {"dispatching", "gone", "reading"} : pc' = [pc EXCEPT ![c] = v]
  BY DEF Read, LoopHead
<1>2. /\ pc \in [Consumers -> PC] /\ batch \in [Consumers -> Seq(Entries)]
      /\ UNCHANGED settled
  BY DEF Read, historyVars, BusInv, TypeInv, TypeOK
<1>3. pc'[c] # "acking" /\ \A d \in Consumers \ {c} : pc'[d] = pc[d]
  BY <1>1, <1>2
<1>4. \A d \in Consumers \ {c} : batch'[d] = batch[d]
  BY <1>2 DEF Read
<1>5. QED
  BY <1>2, <1>3, <1>4 DEF SettledGrows, ComesToAck

LEMMA AdvanceComes ==
  ASSUME BusInv, NEW c \in Consumers, RefuseEntry(c) \/ HandlerRaises(c) \/ Ack(c)
  PROVE  SettledGrows /\ \A d \in Consumers : ComesToAck(d)
<1>1. /\ \A d \in Consumers \ {c} : batch'[d] = batch[d] /\ pc'[d] = pc[d]
      /\ pc'[c] # "acking"
  BY AdvanceFacts, NextEntryFacts DEF BusInv
<1>2. \A d \in Consumers : ComesToAck(d)
  BY <1>1 DEF ComesToAck
<1>3. \/ settled' = settled
      \/ settled' = [settled EXCEPT ![AgentOf[c]] = @ \cup {Head(batch[c])}]
  BY DEF RefuseEntry, HandlerRaises, Ack, historyVars
<1>4. SettledGrows
  BY <1>3 DEF SettledGrows, BusInv, TypeInv, TypeOK
<1>5. QED
  BY <1>2, <1>4

LEMMA HandlerReturnsComes ==
  ASSUME BusInv, NEW c \in Consumers, HandlerReturns(c)
  PROVE  SettledGrows /\ \A d \in Consumers : ComesToAck(d)
<1>1. /\ UNCHANGED batch /\ \A d \in Consumers \ {c} : pc'[d] = pc[d]
      /\ settled' = [settled EXCEPT ![AgentOf[c]] = @ \cup {Head(batch[c])}]
  BY HandlerReturnsFacts
<1>2. AgentOf[c] \in Agents /\ settled \in [Agents -> SUBSET Entries]
  BY BusAssumption DEF BusInv, TypeInv, TypeOK
<1>3. Head(batch'[c]) \in settled'[AgentOf[c]]
  BY <1>1, <1>2
<1>4. SettledGrows
  BY <1>1, <1>2 DEF SettledGrows
<1>5. QED
  BY <1>1, <1>3, <1>4 DEF ComesToAck

LEMMA OtherComes ==
  ASSUME BusInv, \/ \E s \in Streams : Publish(s)
                 \/ \E c \in Consumers : StartHandler(c) \/ Leaves(c)
  PROVE  SettledGrows /\ \A d \in Consumers : ComesToAck(d)
<1>1. CASE \E s \in Streams : Publish(s)
  BY <1>1 DEF Publish, historyVars, SettledGrows, ComesToAck
<1>2. ASSUME NEW c \in Consumers, StartHandler(c)
      PROVE  SettledGrows /\ \A d \in Consumers : ComesToAck(d)
  BY <1>2, StartHandlerFacts DEF SettledGrows, ComesToAck
<1>3. ASSUME NEW c \in Consumers, Leaves(c)
      PROVE  SettledGrows /\ \A d \in Consumers : ComesToAck(d)
  BY <1>3, LeavesFacts DEF SettledGrows, ComesToAck, BusInv, Busy
<1>4. QED
  BY <1>1, <1>2, <1>3

LEMMA Comes ==
  ASSUME BusInv, Next
  PROVE  SettledGrows /\ \A d \in Consumers : ComesToAck(d)
BY StepCases, EnsureGroupComes, ReadComes, AdvanceComes, HandlerReturnsComes, OtherComes

LEMMA AckStep == BusInv /\ AckSettled /\ [Next]_vars => AckSettled'
<1> SUFFICES ASSUME BusInv, AckSettled, [Next]_vars PROVE AckSettled'
  OBVIOUS
<1>1. CASE UNCHANGED vars
  BY <1>1 DEF vars, historyVars, AckSettled
<1>2. CASE Next
  <2>1. SettledGrows /\ \A d \in Consumers : ComesToAck(d)
    BY <1>2, Comes
  <2>2. \A d \in Consumers : AgentOf[d] \in Agents
    BY BusAssumption
  <2>3. QED
    BY <2>1, <2>2 DEF SettledGrows, ComesToAck, AckSettled
<1>3. QED
  BY <1>1, <1>2

LEMMA AckInvariant == Spec => []AckSettled
<1>1. Init => AckSettled
  BY DEF Init, AckSettled
<1>2. QED
  BY <1>1, AckStep, BusInvariant, PTL DEF Spec

\* Only the acknowledgement of a settled entry takes it off a pending list.
LEMMA PendingStep ==
  ASSUME BusInv, AckSettled, Next, NEW a \in Agents
  PROVE  pending[a] \ pending'[a] \subseteq settled'[a]
<1>0. pending \in [Agents -> SUBSET Entries] /\ settled \in [Agents -> SUBSET Entries]
  BY DEF BusInv, TypeInv, TypeOK
<1>1. ASSUME NEW c \in Consumers, Read(c) PROVE pending[a] \subseteq pending'[a]
  BY <1>0, <1>1, ReadFacts DEF BusInv
<1>2. ASSUME NEW c \in Consumers, HandlerRaises(c) PROVE pending' = pending
  BY <1>2 DEF HandlerRaises, groupVars
<1>3. ASSUME NEW c \in Consumers, RefuseEntry(c) \/ Ack(c)
      PROVE  pending[a] \ pending'[a] \subseteq settled'[a]
  <2>1. AgentOf[c] \in Agents /\ Head(batch[c]) \in settled'[AgentOf[c]]
    <3>1. AgentOf[c] \in Agents
      BY BusAssumption
    <3>2. CASE RefuseEntry(c)
      BY <1>0, <3>1, <3>2 DEF RefuseEntry
    <3>3. CASE Ack(c)
      BY <3>1, <3>3 DEF Ack, AckSettled, historyVars
    <3>4. QED
      BY <1>3, <3>1, <3>2, <3>3
  <2>2. \A x \in Entries : x \in pending[a] => x \in pending'[a] \/ (a = AgentOf[c] /\ x = Head(batch[c]))
    BY <1>3, AdvanceFacts
  <2>3. QED
    BY <1>0, <2>1, <2>2
<1>4. ASSUME NEW c \in Consumers,
             EnsureGroup(c) \/ StartHandler(c) \/ HandlerReturns(c) \/ Leaves(c)
      PROVE  pending' = pending
  BY <1>4, LeavesFacts DEF EnsureGroup, StartHandler, HandlerReturns, groupVars, BusInv
<1>5. ASSUME NEW s \in Streams, Publish(s) PROVE pending' = pending
  BY <1>5 DEF Publish, groupVars
<1>6. QED
  BY <1>1, <1>2, <1>3, <1>4, <1>5, StepCases

\* A failed handler, a crash, a stop or a lost response never takes an entry
\* off a pending list: only one that was handled without error, or refused,
\* leaves it.
THEOREM LeavesPendingSettledCorrect == Spec => LeavesPendingSettled
<1>1. BusInv /\ AckSettled /\ [Next]_vars
        => [\A a \in Agents : pending[a] \ pending'[a] \subseteq settled'[a]]_vars
  BY PendingStep
<1>2. QED
  BY <1>1, BusInvariant, AckInvariant, PTL DEF Spec, LeavesPendingSettled

-------------------------------------------------------------------------------
(* The bus implements Mailbox.                                              *)

LEMMA InitRefines == ASSUME Init PROVE M!Init
<1>1. \A e \in Entries : e[1] \in Streams /\ e[2] \in 1..MaxEntries
  BY DEF Entries
<1>2. \A e \in Entries : ~(e[2] <= last[e[1]])
  BY <1>1, BusAssumption DEF Init
<1>3. Posted = {}
  BY <1>2 DEF Posted
<1>4. QED
  BY <1>3 DEF Init, M!Init

LEMMA PublishRefines == ASSUME BusInv, NEW s \in Streams, Publish(s) PROVE M!Next
<1> DEFINE e == <<s, last[s] + 1>>
<1>1. /\ last \in [Streams -> 0..MaxEntries] /\ last[s] < MaxEntries
      /\ last' = [last EXCEPT ![s] = @ + 1] /\ MaxEntries \in Nat
      /\ UNCHANGED <<calls, settled>>
  BY BusAssumption DEF BusInv, TypeInv, TypeOK, Publish, historyVars
<1>2. e \in Entries /\ e \notin Posted
  BY <1>1 DEF Entries, Posted
<1>3. ASSUME NEW x \in Entries PROVE x[2] <= last'[x[1]] <=> (x[2] <= last[x[1]] \/ x = e)
  <2>1. PICK t \in Streams, n \in 1..MaxEntries : x = <<t, n>>
    BY DEF Entries
  <2>2. CASE t = s
    <3>1. last'[s] = last[s] + 1 /\ last[s] \in Int /\ n \in Int
      BY <1>1
    <3>2. n <= last[s] + 1 <=> (n <= last[s] \/ n = last[s] + 1)
      BY <3>1
    <3>3. x = e <=> n = last[s] + 1
      BY <2>1, <2>2
    <3>4. x[1] = s /\ x[2] = n
      BY <2>1, <2>2
    <3>5. QED
      BY <3>1, <3>2, <3>3, <3>4
  <2>3. CASE t # s
    BY <1>1, <2>1, <2>3
  <2>4. QED
    BY <2>2, <2>3
<1>4. Posted' = Posted \cup {e}
  BY <1>2, <1>3 DEF Posted, Entries, Streams
<1>5. M!Post(e)
  BY <1>1, <1>2, <1>4 DEF M!Post
<1>6. QED
  BY <1>2, <1>5 DEF M!Next

LEMMA HeadPosted ==
  ASSUME BusInv, NEW c \in Consumers, pc[c] \in Busy
  PROVE  Head(batch[c]) \in Posted
<1> DEFINE e == Head(batch[c])
           a == AgentOf[c]
<1>1. e \in Entries /\ a \in Agents /\ ReadBefore(a, e)
  BY HeadFacts, HeadAlone DEF BusInv
<1> HIDE DEF e, a
<1>2. <<a, e[1]>> \in Groups /\ e[1] \in Streams /\ e[2] \in Int /\ e[2] <= cursor[<<a, e[1]>>]
  <2>1. e[2] \in Int
    BY <1>1, BusAssumption DEF Entries
  <2>2. QED
    BY <1>1, <2>1, GroupsOfAgent DEF ReadBefore
<1>3. cursor[<<a, e[1]>>] <= last[e[1]]
  <2>1. <<a, e[1]>>[2] = e[1]
    OBVIOUS
  <2>2. QED
    BY <1>2, <2>1 DEF BusInv, TypeInv
<1>4. cursor[<<a, e[1]>>] \in Int /\ last[e[1]] \in Int
  <2>1. cursor[<<a, e[1]>>] \in {NoGroup} \cup 0..MaxEntries /\ last[e[1]] \in 0..MaxEntries
    BY <1>2 DEF BusInv, TypeInv, TypeOK
  <2>2. QED
    BY <2>1, BusAssumption DEF NoGroup
<1>5. e[2] <= last[e[1]]
  BY <1>2, <1>3, <1>4
<1>6. QED
  BY <1>1, <1>5 DEF Posted, e

LEMMA StartHandlerRefines == ASSUME BusInv, NEW c \in Consumers, StartHandler(c) PROVE M!Next
<1> DEFINE e == Head(batch[c])
           a == AgentOf[c]
<1>1. /\ pc[c] \in Busy /\ calls[a][e] = 0 /\ e \notin settled[a]
      /\ calls' = [calls EXCEPT ![a][e] = 1] /\ UNCHANGED settled
  BY StartHandlerFacts
<1>2. e \in Entries /\ a \in Agents /\ e \in Posted
  BY <1>1, HeadFacts, HeadPosted DEF BusInv
<1>3. Posted' = Posted
  BY DEF StartHandler, streamVars, Posted, Entries, Streams
<1>4. M!Call(a, e)
  BY <1>1, <1>2, <1>3 DEF M!Call
<1>5. QED
  BY <1>2, <1>4 DEF M!Next

LEMMA SettleRefines ==
  ASSUME BusInv, NEW c \in Consumers, HandlerReturns(c) \/ RefuseEntry(c) PROVE M!Next
<1> DEFINE e == Head(batch[c])
           a == AgentOf[c]
<1>1. pc[c] \in {"handling", "dispatching"} /\ pc[c] \in Busy
  BY DEF HandlerReturns, RefuseEntry, Busy
<1>2. e \in Entries /\ a \in Agents /\ e \in Posted /\ 1 \in DOMAIN batch[c] /\ e = batch[c][1]
  BY <1>1, HeadFacts, HeadPosted DEF BusInv
<1>3. e \notin settled[a]
  <2>1. HeldInv(c)
    BY DEF BusInv
  <2>2. QED
    BY <1>1, <1>2, <2>1 DEF HeldInv
<1>4. settled' = [settled EXCEPT ![a] = @ \cup {e}] /\ UNCHANGED <<last, calls>>
  BY DEF HandlerReturns, RefuseEntry, streamVars
<1>5. Posted' = Posted
  BY <1>4 DEF Posted, Entries, Streams
<1>6. M!Settle(a, e)
  BY <1>2, <1>3, <1>4, <1>5 DEF M!Settle
<1>7. QED
  BY <1>2, <1>6 DEF M!Next

LEMMA QuietRefines ==
  ASSUME BusInv, NEW c \in Consumers,
         EnsureGroup(c) \/ Read(c) \/ HandlerRaises(c) \/ Ack(c) \/ Leaves(c)
  PROVE  UNCHANGED M!mailVars
<1>1. UNCHANGED <<last, calls, settled>>
  BY LeavesFacts DEF EnsureGroup, Read, HandlerRaises, Ack, streamVars, historyVars, BusInv
<1>2. Posted' = Posted
  BY <1>1 DEF Posted, Entries, Streams
<1>3. QED
  BY <1>1, <1>2 DEF M!mailVars

\* Every run of the bus is a run of Mailbox: with any number of consumers
\* that stop, crash, start again or lose a response, the handlers of an agent
\* are called at most once for an entry, and never after it was refused.
THEOREM ImplementsMailbox == Spec => AtMostOnce
<1>1. Init => M!Init
  BY InitRefines
<1>2. BusInv /\ [Next]_vars => [M!Next]_(M!mailVars)
  <2> SUFFICES ASSUME BusInv, [Next]_vars PROVE [M!Next]_(M!mailVars)
    OBVIOUS
  <2>1. CASE UNCHANGED vars
    <3>1. UNCHANGED <<last, calls, settled>>
      BY <2>1 DEF vars, streamVars, historyVars
    <3>2. Posted' = Posted
      BY <3>1 DEF Posted, Entries, Streams
    <3>3. QED
      BY <3>1, <3>2 DEF M!mailVars
  <2>2. CASE Next
    BY <2>2, StepCases, PublishRefines, StartHandlerRefines, SettleRefines, QuietRefines
  <2>3. QED
    BY <2>1, <2>2
<1>3. QED
  BY <1>1, <1>2, BusInvariant, PTL DEF Spec, AtMostOnce, M!Spec

-------------------------------------------------------------------------------
(* No entry is passed over: the half of EveryEntryRead that needs no        *)
(* fairness.                                                                *)

\* The group of an agent exists and has entry n of one of its streams still to
\* read, or has it on its pending list, or settled it, or the stream was
\* trimmed past it.
Accounted(g, n) ==
  /\ cursor[g] # NoGroup
  /\ \/ cursor[g] < n
     \/ <<g[2], n>> \in pending[g[1]] \cup settled[g[1]]
     \/ n <= trimmed[g[2]]

\* An entry that a group has still to read stays accounted for, whatever is
\* stopped, cancelled, restarted, lost or trimmed afterwards.
NonePassedOver ==
  \A g \in Groups, n \in 1..MaxEntries :
    [](cursor[g] # NoGroup /\ cursor[g] < n => []Accounted(g, n))

\* Between the old cursor and the new one a read leaves out only what is gone
\* from the stream.
LEMMA FirstUnreadCovers ==
  ASSUME TypeInv, NEW a \in Agents, NEW s \in StreamsOf(a), cursor[<<a, s>>] # NoGroup,
         NEW n \in Int, cursor[<<a, s>>] < n, n <= CursorRead(a, s)
  PROVE  n <= trimmed[s] \/ <<s, n>> \in Range(FirstUnread(a, s))
<1> USE BusAssumption
<1> DEFINE before == Bigger(cursor[<<a, s>>], trimmed[s])
           upto == {i \in 1..Batch : before + i \in Unread(a, s)}
           read == FirstUnread(a, s)
<1>1. /\ cursor[<<a, s>>] \in 0..MaxEntries
      /\ last[s] \in 0..MaxEntries /\ trimmed[s] \in 0..MaxEntries
  BY GroupsOfAgent DEF TypeInv, TypeOK
<1>2. /\ before \in Nat
      /\ n <= before => n <= trimmed[s]
  BY <1>1 DEF Bigger
<1>3. Unread(a, s) = (before + 1)..last[s]
  BY DEF Unread
<1>4. read = [i \in upto |-> <<s, before + i>>]
  BY DEF FirstUnread
<1>5. read # <<>> /\ CursorRead(a, s) = read[Len(read)][2]
  BY <1>1 DEF CursorRead
<1>6. read \in Seq(Entries) /\ DOMAIN read = upto
  BY <1>4, FirstUnreadFacts
<1> HIDE DEF before, upto, read
<1>7. Len(read) \in upto /\ DOMAIN read = 1..Len(read) /\ Len(read) \in Nat
  <2>1. Len(read) \in Nat /\ DOMAIN read = 1..Len(read)
    BY <1>6, LenProperties
  <2>2. Len(read) # 0
    BY <1>5, <1>6, EmptySeq
  <2>3. QED
    BY <1>6, <2>1, <2>2
<1>8. n <= before + Len(read)
  BY <1>4, <1>5, <1>7
<1>9. CASE n > before
  <2>1. n - before \in 1..Len(read) /\ before + (n - before) = n
    BY <1>2, <1>7, <1>8, <1>9
  <2>2. read[n - before] = <<s, n>>
    BY <1>4, <1>6, <1>7, <2>1
  <2>3. QED
    BY <1>7, <2>1, <2>2 DEF Range, read
<1>10. QED
  BY <1>2, <1>9

\* What a group's cursor passes is on its pending list afterwards, or trimmed.
LEMMA CursorPasses ==
  ASSUME TypeInv, Next, NEW g \in Groups, cursor[g] # NoGroup
  PROVE  /\ cursor'[g] # NoGroup
         /\ \A n \in 1..MaxEntries :
              cursor[g] < n => \/ cursor'[g] < n
                               \/ <<g[2], n>> \in pending'[g[1]]
                               \/ n <= trimmed'[g[2]]
<1> USE BusAssumption
<1>1. g = <<g[1], g[2]>> /\ g[1] \in Agents /\ g[2] \in StreamsOf(g[1])
  BY DEF Groups
<1>2. CASE cursor'[g] = cursor[g]
  BY <1>2
<1>3. ASSUME NEW c \in Consumers, EnsureGroup(c) PROVE cursor'[g] = cursor[g]
  BY <1>3 DEF EnsureGroup, CursorCreated, TypeInv, TypeOK
<1>4. ASSUME NEW c \in Consumers, Read(c), cursor'[g] # cursor[g]
      PROVE  /\ cursor'[g] # NoGroup
             /\ \A n \in 1..MaxEntries :
                  cursor[g] < n => \/ cursor'[g] < n
                                   \/ <<g[2], n>> \in pending'[g[1]]
                                   \/ n <= trimmed'[g[2]]
  <2> DEFINE a == AgentOf[c]
             s == g[2]
  <2>1. /\ a \in Agents /\ cursor' = CursorAfter(a) /\ trimmed' = trimmed
        /\ pending' = [pending EXCEPT ![a] = @ \cup Range(Got(a))]
    BY <1>4, ReadFacts DEF streamVars
  <2>2. g[1] = a /\ cursor'[g] = CursorRead(a, s)
    BY <1>4, <2>1 DEF CursorAfter
  <2>3. g = <<a, s>> /\ s \in StreamsOf(a)
    BY <1>1, <2>2
  <2>4. CursorRead(a, s) \in 0..MaxEntries
    BY <2>1, <2>3, FirstUnreadFacts
  <2>5. ASSUME NEW n \in 1..MaxEntries, cursor[g] < n, ~(cursor'[g] < n), n > trimmed[s]
        PROVE  <<s, n>> \in pending'[a]
    <3>1. n \in Int /\ n <= CursorRead(a, s) /\ trimmed[s] \in Int
      BY <2>2, <2>3, <2>4, <2>5, GroupsOfAgent DEF TypeInv, TypeOK
    <3>2. <<s, n>> \in Range(FirstUnread(a, s))
      <4>1. cursor[<<a, s>>] # NoGroup /\ cursor[<<a, s>>] < n /\ ~(n <= trimmed[s])
        BY <2>3, <2>5, <3>1
      <4>2. QED
        BY <2>1, <2>3, <3>1, <4>1, FirstUnreadCovers
    <3>3. <<s, n>> \in Range(Got(a))
      <4>1. /\ FirstUnread(a, a) \in Seq(Entries) /\ FirstUnread(a, Broadcast) \in Seq(Entries)
            /\ s = a \/ s = Broadcast
        BY <1>4, <2>1, <2>3, ReadFacts, FirstUnreadFacts DEF StreamsOf, GroupsExist
      <4>2. Range(Got(a)) = Range(FirstUnread(a, a)) \cup Range(FirstUnread(a, Broadcast))
        BY <4>1, RangeConcatenation DEF Got
      <4>3. QED
        BY <3>2, <4>1, <4>2
    <3>4. QED
      BY <2>1, <3>3 DEF TypeInv, TypeOK
  <2>6. trimmed[s] \in Int
    BY <2>3, GroupsOfAgent DEF TypeInv, TypeOK
  <2>7. cursor'[g] # NoGroup
    BY <2>2, <2>4 DEF NoGroup
  <2>8. \A n \in 1..MaxEntries : n > trimmed[s] \/ n <= trimmed[s]
    BY <2>6
  <2>9. QED
    BY <2>1, <2>2, <2>5, <2>7, <2>8
<1>5. ASSUME NEW c \in Consumers,
             \/ StartHandler(c) \/ HandlerReturns(c) \/ RefuseEntry(c) \/ HandlerRaises(c)
             \/ Ack(c) \/ Leaves(c)
      PROVE  cursor' = cursor
  BY <1>5, LeavesFacts DEF StartHandler, HandlerReturns, RefuseEntry, HandlerRaises, Ack, groupVars
<1>6. ASSUME NEW s \in Streams, Publish(s) PROVE cursor' = cursor
  BY <1>6 DEF Publish, groupVars
<1>7. QED
  BY <1>2, <1>3, <1>4, <1>5, <1>6, StepCases

\* A stream is only ever trimmed further, and what is settled stays settled.
LEMMA GoneForGood ==
  ASSUME BusInv, Next
  PROVE  SettledGrows /\ \A s \in Streams : trimmed[s] <= trimmed'[s]
<1>0. trimmed \in [Streams -> 0..MaxEntries] /\ MaxEntries \in Nat
  BY BusAssumption DEF BusInv, TypeInv, TypeOK
<1>1. ASSUME NEW s \in Streams, Publish(s)
      PROVE  \A r \in Streams : trimmed[r] <= trimmed'[r]
  <2>1. PICK t \in trimmed[s]..MaxEntries : trimmed' = [trimmed EXCEPT ![s] = t]
    BY <1>1 DEF Publish
  <2>2. trimmed[s] \in Int /\ t \in Int /\ trimmed[s] <= t
    BY <1>0, <2>1
  <2>3. \A r \in Streams : trimmed[r] \in Int
    BY <1>0
  <2>4. QED
    BY <1>0, <2>1, <2>2, <2>3
<1>2. ASSUME NEW c \in Consumers,
             \/ EnsureGroup(c) \/ Read(c) \/ StartHandler(c) \/ HandlerReturns(c)
             \/ RefuseEntry(c) \/ HandlerRaises(c) \/ Ack(c) \/ Leaves(c)
      PROVE  trimmed' = trimmed
  BY <1>2 DEF EnsureGroup, Read, StartHandler, HandlerReturns, RefuseEntry, HandlerRaises, Ack,
              Leaves, ReadNothing, Stop, Crash, Restart, streamVars
<1>3. \A s \in Streams : trimmed[s] <= trimmed[s]
  BY <1>0
<1>4. \A s \in Streams : trimmed[s] <= trimmed'[s]
  BY <1>1, <1>2, <1>3, StepCases
<1>5. QED
  BY <1>4, Comes

LEMMA AccountedStep ==
  ASSUME NEW g \in Groups, NEW n \in 1..MaxEntries
  PROVE  BusInv /\ AckSettled /\ Accounted(g, n) /\ [Next]_vars => Accounted(g, n)'
<1> SUFFICES ASSUME BusInv, AckSettled, Accounted(g, n), [Next]_vars PROVE Accounted(g, n)'
  OBVIOUS
<1>1. CASE UNCHANGED vars
  BY <1>1 DEF vars, streamVars, groupVars, historyVars, Accounted
<1>2. CASE Next
  <2>1. g[1] \in Agents /\ g[2] \in Streams
    BY DEF Groups
  <2>2. TypeInv /\ cursor[g] # NoGroup
    BY DEF BusInv, Accounted
  <2>3. /\ cursor'[g] # NoGroup
        /\ cursor[g] < n => \/ cursor'[g] < n
                            \/ <<g[2], n>> \in pending'[g[1]]
                            \/ n <= trimmed'[g[2]]
    BY <1>2, <2>2, CursorPasses
  <2>4. settled[g[1]] \subseteq settled'[g[1]] /\ pending[g[1]] \ pending'[g[1]] \subseteq settled'[g[1]]
    BY <1>2, <2>1, GoneForGood, PendingStep DEF SettledGrows
  <2>5. n <= trimmed[g[2]] => n <= trimmed'[g[2]]
    <3>1. trimmed[g[2]] \in Int /\ trimmed'[g[2]] \in Int /\ n \in Int
      BY <1>2, <2>1, <2>2, TypeStep, BusAssumption DEF TypeInv, TypeOK
    <3>2. QED
      BY <1>2, <2>1, <3>1, GoneForGood
  <2>6. QED
    BY <2>3, <2>4, <2>5 DEF Accounted
<1>3. QED
  BY <1>1, <1>2

\* No stop, crash, restart, lost response or failed group creation makes a
\* group pass over an entry it has still to read.
THEOREM NonePassedOverCorrect == Spec => NonePassedOver
<1>1. ASSUME NEW g \in Groups, NEW n \in 1..MaxEntries
      PROVE  Spec => [](cursor[g] # NoGroup /\ cursor[g] < n => []Accounted(g, n))
  <2>1. cursor[g] # NoGroup /\ cursor[g] < n => Accounted(g, n)
    BY DEF Accounted
  <2>2. BusInv /\ AckSettled /\ Accounted(g, n) /\ [Next]_vars => Accounted(g, n)'
    BY AccountedStep
  <2>3. QED
    BY <2>1, <2>2, BusInvariant, AckInvariant, PTL DEF Spec
<1>2. QED
  BY <1>1 DEF NonePassedOver

===============================================================================
