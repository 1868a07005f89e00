-------------------------- MODULE ProxiedRequestsProofs --------------------------
(***************************************************************************)
(* What holds of requests through a pool of proxies for any number of      *)
(* tasks, proxies, hosts and sessions, any rate and any quarantine.        *)
(***************************************************************************)
EXTENDS ProxiedRequests, TLAPS

Ticks == [Proxies -> [Hosts -> Nat]]

Stops == {"limit", "checkout", "clearance", "solving", "request"}

PoolType ==
  /\ specs \subseteq Proxies
  /\ banned_until \in Ticks /\ lastBan \in Ticks
  /\ sticky \in [Sessions -> Proxies \cup {NoProxy}]

TaskType ==
  /\ pc \in [Tasks -> Stops]
  /\ held \in [Tasks -> [proxy : Proxies \cup {Direct, NoProxy}, host : Hosts]]

Types == now \in Nat /\ PoolType /\ TaskType

-------------------------------------------------------------------------------
(* The pool.                                                                *)

\* The end of a quarantine is always that of the last ban.
LastBanCounts ==
  \A p \in Proxies, h \in Hosts :
    lastBan[p][h] = 0 \/ banned_until[p][h] = lastBan[p][h] + Quarantine

LEMMA AcquirableUsable ==
  ASSUME PoolType, NEW session, NEW host \in Hosts, NEW p \in Acquirable(session, host)
  PROVE  p \in Proxies /\ p \in specs /\ ~IsBannedFor(p, host)
BY DEF Acquirable, Pinned, Candidates, PoolType

LEMMA BindType ==
  ASSUME PoolType, NEW session, NEW p \in Proxies \cup {NoProxy}, Bind(session, p)
  PROVE  sticky' \in [Sessions -> Proxies \cup {NoProxy}]
BY DEF PoolType, Bind

LEMMA RegisteredType ==
  ASSUME PoolType, LastBanCounts, NEW p \in Proxies,
         banned_until' = Registered(p).banned, lastBan' = Registered(p).last
  PROVE  banned_until' \in Ticks /\ lastBan' \in Ticks /\ LastBanCounts'
<1>1. /\ banned_until' = [banned_until EXCEPT ![p] = [h \in Hosts |-> 0]]
      /\ lastBan' = [lastBan EXCEPT ![p] = [h \in Hosts |-> 0]]
  BY DEF Registered
<1>2. [h \in Hosts |-> 0] \in [Hosts -> Nat]
  OBVIOUS
<1>3. banned_until' \in Ticks /\ lastBan' \in Ticks
  BY <1>1, <1>2 DEF PoolType, Ticks
<1>4. /\ \A h \in Hosts : lastBan'[p][h] = 0
      /\ \A q \in Proxies \ {p} : lastBan'[q] = lastBan[q] /\ banned_until'[q] = banned_until[q]
  BY <1>1 DEF PoolType, Ticks
<1>5. QED
  BY <1>3, <1>4 DEF LastBanCounts

LEMMA PopulationKeeps ==
  ASSUME PoolType, LastBanCounts, NEW p \in Proxies, Add(p) \/ Remove(p)
  PROVE  PoolType' /\ LastBanCounts'
<1>1. banned_until' \in Ticks /\ lastBan' \in Ticks /\ LastBanCounts'
  BY RegisteredType DEF Add, Remove
<1>2. specs' \subseteq Proxies /\ sticky' \in [Sessions -> Proxies \cup {NoProxy}]
  BY DEF Add, Remove, PoolType
<1>3. QED
  BY <1>1, <1>2 DEF PoolType

LEMMA ReportKeeps ==
  ASSUME PoolType, LastBanCounts, now \in Nat, NEW p, NEW host \in Hosts, ReportBanned(p, host)
  PROVE  PoolType' /\ LastBanCounts'
<1> USE ProxyPoolAssumption
<1>1. CASE p \notin specs
  BY <1>1 DEF ReportBanned, pool, PoolType, LastBanCounts
<1>2. CASE p \in specs
  <2>1. /\ p \in Proxies
        /\ banned_until' = [banned_until EXCEPT ![p][host] = now + Quarantine]
        /\ lastBan' = [lastBan EXCEPT ![p][host] = now]
        /\ specs' = specs /\ sticky' = sticky
    BY <1>2 DEF ReportBanned, Ban, PoolType
  <2>2. now + Quarantine \in Nat
    OBVIOUS
  <2>3. banned_until' \in Ticks /\ lastBan' \in Ticks
    BY <2>1, <2>2 DEF PoolType, Ticks
  <2>4. /\ banned_until'[p][host] = now + Quarantine /\ lastBan'[p][host] = now
        /\ \A q \in Proxies, h \in Hosts :
             <<q, h>> # <<p, host>> => /\ banned_until'[q][h] = banned_until[q][h]
                                       /\ lastBan'[q][h] = lastBan[q][h]
    BY <2>1 DEF PoolType, Ticks
  <2>5. LastBanCounts'
    BY <2>4 DEF LastBanCounts
  <2>6. QED
    BY <2>1, <2>3, <2>5 DEF PoolType
<1>3. QED
  BY <1>1, <1>2


-------------------------------------------------------------------------------
(* Types and quarantine are kept by every step.                             *)

PoolInv == Types /\ LastBanCounts

LEMMA PoolInvInit == Init => PoolInv
<1> SUFFICES ASSUME Init PROVE PoolInv
  OBVIOUS
<1> USE ProxyPoolAssumption, RequestsAssumption
<1>1. [h \in Hosts |-> 0] \in [Hosts -> Nat]
  OBVIOUS
<1>2. banned_until \in Ticks /\ lastBan \in Ticks
  BY <1>1 DEF Init, PoolInit, Ticks
<1>3. now \in Nat /\ specs \subseteq Proxies
  BY DEF Init, PoolInit
<1>4. sticky \in [Sessions -> Proxies \cup {NoProxy}]
  BY DEF Init, PoolInit
<1>5. TaskType
  BY DEF Init, TaskType, Stops
<1>6. LastBanCounts
  BY DEF Init, PoolInit, LastBanCounts
<1>7. QED
  BY <1>2, <1>3, <1>4, <1>5, <1>6 DEF PoolInv, Types, PoolType

LEMMA CheckInType ==
  ASSUME TaskType, NEW t \in Tasks, CheckIn(t), pc' = [pc EXCEPT ![t] = "limit"]
  PROVE  TaskType'
BY DEF TaskType, CheckIn, Stops

LEMMA CheckOutKeeps ==
  ASSUME PoolInv, NEW t \in Tasks, NEW host \in Hosts, NEW session \in Sessions \cup {NoSession},
         CheckOut(t, host, session)
  PROVE  PoolInv'
<1>1. /\ now' = now /\ specs' = specs /\ banned_until' = banned_until /\ lastBan' = lastBan
      /\ pc' = [pc EXCEPT ![t] = "clearance"]
  BY DEF CheckOut, Goto
<1>2. PICK p \in Proxies \cup {Direct} :
        /\ held' = [held EXCEPT ![t] = [proxy |-> p, host |-> host]]
        /\ \E bound \in Proxies \cup {NoProxy} : Bind(session, bound)
  BY AcquirableUsable DEF CheckOut, PoolInv, Types
<1>3. sticky' \in [Sessions -> Proxies \cup {NoProxy}]
  BY <1>2, BindType DEF PoolInv, Types
<1>4. TaskType'
  BY <1>1, <1>2 DEF PoolInv, Types, TaskType, Stops
<1>5. QED
  BY <1>1, <1>3, <1>4 DEF PoolInv, Types, PoolType, LastBanCounts

LEMMA PoolInvStep == PoolInv /\ [Next]_vars => PoolInv'
<1> SUFFICES ASSUME PoolInv, [Next]_vars PROVE PoolInv'
  OBVIOUS
<1> USE ProxyPoolAssumption, RequestsAssumption
<1>1. now \in Nat /\ PoolType /\ TaskType /\ LastBanCounts
  BY DEF PoolInv, Types
<1>2. ASSUME now' = now, UNCHANGED pool, TaskType' PROVE PoolInv'
  BY <1>1, <1>2 DEF PoolInv, Types, pool, PoolType, LastBanCounts
<1>3. ASSUME UNCHANGED vars PROVE PoolInv'
  BY <1>1, <1>2, <1>3 DEF vars, TaskType
<1>4. ASSUME NEW t \in Tasks,
             RateLimit(t) \/ EnsureClearance(t) \/ SolveOk(t) \/ SolveFails(t)
      PROVE  PoolInv'
  <2>1. now' = now /\ UNCHANGED pool /\ held' = held
    BY <1>4 DEF RateLimit, EnsureClearance, SolveOk, SolveFails
  <2>2. pc' \in [Tasks -> Stops]
    BY <1>1, <1>4 DEF TaskType, Stops, RateLimit, EnsureClearance, SolveOk, SolveFails, Goto
  <2>3. QED
    BY <1>1, <1>2, <2>1, <2>2 DEF TaskType
<1>5. ASSUME NEW t \in Tasks, SolveRejected(t) PROVE PoolInv'
  BY <1>1, <1>2, <1>5, CheckInType DEF SolveRejected, Goto
<1>6. ASSUME NEW t \in Tasks, NEW host \in Hosts, NEW session \in Sessions \cup {NoSession},
             CheckOut(t, host, session)
      PROVE  PoolInv'
  BY <1>6, CheckOutKeeps
<1>7. ASSUME NEW t \in Tasks, NEW outcome \in {"banned", "other"}, Respond(t, outcome)
      PROVE  PoolInv'
  <2>1. TaskType' /\ now' = now
    BY <1>1, <1>7, CheckInType DEF Respond, Goto
  <2>2. CASE UNCHANGED pool
    BY <1>2, <2>1, <2>2
  <2>3. CASE ReportBanned(held[t].proxy, held[t].host)
    <3>1. held[t].host \in Hosts
      BY <1>1 DEF TaskType
    <3>2. PoolType' /\ LastBanCounts'
      BY <1>1, <2>3, <3>1, ReportKeeps
    <3>3. QED
      BY <1>1, <2>1, <3>2 DEF PoolInv, Types
  <2>4. QED
    BY <1>7, <2>2, <2>3 DEF Respond
<1>8. ASSUME Population PROVE PoolInv'
  <2>1. PICK p \in Proxies : Add(p) \/ Remove(p)
    BY <1>8 DEF Population
  <2>2. PoolType' /\ LastBanCounts'
    BY <1>1, <2>1, PopulationKeeps
  <2>3. QED
    BY <1>1, <1>8, <2>2 DEF Population, PoolInv, Types, TaskType
<1>9. ASSUME Tick PROVE PoolInv'
  BY <1>1, <1>9 DEF Tick, PoolInv, Types, pool, PoolType, TaskType, LastBanCounts
<1>10. QED
  BY <1>3, <1>4, <1>5, <1>6, <1>7, <1>8, <1>9 DEF Next

-------------------------------------------------------------------------------
(* What a checkout may return.                                              *)

\* Only a checkout takes a task from "checkout" to "clearance".
LEMMA ChecksOut ==
  ASSUME Types, [Next]_vars, NEW t \in Tasks, pc[t] = "checkout", pc'[t] = "clearance"
  PROVE  \E host \in Hosts, session \in Sessions \cup {NoSession} : CheckOut(t, host, session)
<1> USE DEF Goto
<1>1. pc' # pc
  OBVIOUS
<1>2. ASSUME NEW u \in Tasks,
             \/ RateLimit(u) \/ EnsureClearance(u) \/ SolveOk(u) \/ SolveFails(u)
             \/ SolveRejected(u)
             \/ \E outcome \in {"banned", "other"} : Respond(u, outcome)
      PROVE  FALSE
  <2>1. pc[u] # "checkout" /\ \A v \in Tasks \ {u} : pc'[v] = pc[v]
    BY <1>2 DEF Types, TaskType, RateLimit, EnsureClearance, SolveOk, SolveFails,
                SolveRejected, Respond
  <2>2. QED
    BY <2>1
<1>3. ASSUME NEW u \in Tasks \ {t}, NEW host, NEW session, CheckOut(u, host, session)
      PROVE  FALSE
  BY <1>3 DEF Types, TaskType, CheckOut
<1>4. ~Population /\ ~Tick /\ ~UNCHANGED vars
  BY <1>1 DEF Population, Tick, vars
<1>5. QED
  BY <1>2, <1>3, <1>4 DEF Next

\* A proxy is not handed out for a host before its quarantine since the last
\* ban reported for the two is over, with any number of tasks that report and
\* check out, sessions and changes of the pool (ProxyPool.acquire and report).
THEOREM QuarantineCorrect == Spec => QuarantineKept
<1> DEFINE A == \A t \in Tasks :
       LET p == held'[t].proxy
           host == held'[t].host
       IN pc[t] = "checkout" /\ pc'[t] = "clearance" /\ p \in Proxies =>
            lastBan[p][host] = 0 \/ now - lastBan[p][host] >= Quarantine
<1>1. PoolInv /\ [Next]_vars => A
  <2> SUFFICES ASSUME PoolInv, [Next]_vars, NEW t \in Tasks,
                      pc[t] = "checkout", pc'[t] = "clearance", held'[t].proxy \in Proxies
               PROVE  \/ lastBan[held'[t].proxy][held'[t].host] = 0
                      \/ now - lastBan[held'[t].proxy][held'[t].host] >= Quarantine
    OBVIOUS
  <2> USE ProxyPoolAssumption, RequestsAssumption
  <2>1. PICK host \in Hosts, session \in Sessions \cup {NoSession} : CheckOut(t, host, session)
    BY ChecksOut DEF PoolInv
  <2>2. PICK p \in Acquirable(session, host) :
          held' = [held EXCEPT ![t] = [proxy |-> p, host |-> host]]
    BY <2>1 DEF CheckOut, PoolInv, Types, TaskType
  <2>3. held'[t].proxy = p /\ held'[t].host = host
    BY <2>2 DEF PoolInv, Types, TaskType
  <2>4. p \in Proxies /\ ~ (now < banned_until[p][host])
    BY <2>2, AcquirableUsable DEF PoolInv, Types, IsBannedFor
  <2>5. now \in Nat /\ banned_until[p][host] \in Nat /\ lastBan[p][host] \in Nat
    BY <2>4 DEF PoolInv, Types, PoolType, Ticks
  <2>6. lastBan[p][host] = 0 \/ banned_until[p][host] = lastBan[p][host] + Quarantine
    BY <2>4 DEF PoolInv, LastBanCounts
  <2>7. QED
    BY <2>3, <2>4, <2>5, <2>6
<1>2. QED
  BY PoolInvInit, PoolInvStep, <1>1, PTL DEF Spec, QuarantineKept

\* A session keeps its proxy until that is removed, or the session checks out
\* for a host the proxy is quarantined for (ProxyPool.acquire and remove).
THEOREM SessionCorrect == Spec => SessionKept
<1> DEFINE A == \A s \in Sessions :
       sticky[s] # NoProxy /\ sticky'[s] # sticky[s] =>
         \/ sticky[s] \notin specs'
         \/ \E t \in Tasks :
              /\ pc[t] = "checkout" /\ pc'[t] = "clearance"
              /\ now < banned_until[sticky[s]][held'[t].host]
<1>1. PoolInv /\ [Next]_vars => A
  <2> SUFFICES ASSUME PoolInv, [Next]_vars, NEW s \in Sessions,
                      sticky[s] # NoProxy, sticky'[s] # sticky[s], sticky[s] \in specs'
               PROVE  \E t \in Tasks :
                        /\ pc[t] = "checkout" /\ pc'[t] = "clearance"
                        /\ now < banned_until[sticky[s]][held'[t].host]
    OBVIOUS
  <2> USE ProxyPoolAssumption, RequestsAssumption
  <2>1. sticky \in [Sessions -> Proxies \cup {NoProxy}] /\ specs \subseteq Proxies
    BY DEF PoolInv, Types, PoolType
  <2>2. ~UNCHANGED vars /\ ~Tick /\ ~UNCHANGED pool
    BY DEF vars, Tick, pool
  <2>3. ~Population
    BY <2>1 DEF Population, Add, Remove
  <2>4. ~ \E t \in Tasks :
          \/ RateLimit(t) \/ EnsureClearance(t) \/ SolveOk(t) \/ SolveFails(t) \/ SolveRejected(t)
          \/ \E outcome \in {"banned", "other"} : Respond(t, outcome)
    BY <2>2 DEF RateLimit, EnsureClearance, SolveOk, SolveFails, SolveRejected, Respond,
                ReportBanned, pool
  <2>5. PICK t \in Tasks, host \in Hosts, session \in Sessions \cup {NoSession} :
          CheckOut(t, host, session)
    BY <2>2, <2>3, <2>4 DEF Next
  <2>6. /\ pc[t] = "checkout" /\ pc'[t] = "clearance" /\ held'[t].host = host
        /\ specs' = specs
    BY <2>5 DEF CheckOut, Goto, PoolInv, Types, TaskType
  <2>7. session = s
    BY <2>1, <2>5 DEF CheckOut, Bind
  <2>8. CASE Pinned(s, host) # {}
    <3>1. Acquirable(s, host) = {sticky[s]}
      BY <2>8 DEF Acquirable, Pinned
    <3>2. Bind(s, sticky[s])
      BY <2>5, <2>7, <3>1 DEF CheckOut
    <3>3. QED
      BY <2>1, <3>2 DEF Bind
  <2>9. CASE Pinned(s, host) = {}
    <3>1. IsBannedFor(sticky[s], host)
      BY <2>6, <2>9 DEF Pinned
    <3>2. QED
      BY <2>6, <3>1 DEF IsBannedFor
  <2>10. QED
    BY <2>8, <2>9
<1>2. QED
  BY PoolInvInit, PoolInvStep, <1>1, PTL DEF Spec, SessionKept

-------------------------------------------------------------------------------
(* The rate.  What has been granted and what the bucket holds were both     *)
(* earned before the last refill.                                           *)

RateInv ==
  /\ now \in Nat /\ granted \in Nat
  /\ bucket \in [tokens : 0..Capacity, last_update : Nat]
  /\ bucket.last_update <= now
  /\ granted * Cost + bucket.tokens <= Capacity + (bucket.last_update - 1)

\* No number of tasks that probe the bucket gets more than the burst and what
\* was earned since the start (_TokenBucket.acquire).
THEOREM RateCorrect == Spec => []RateKept
<1> USE ProxyPoolAssumption, RequestsAssumption
<1>1. Init => RateInv
  <2> SUFFICES ASSUME Init PROVE RateInv
    OBVIOUS
  <2>1. now = 1 /\ granted = 0 /\ bucket = [tokens |-> Capacity, last_update |-> 1]
    BY DEF Init, PoolInit
  <2>2. granted * Cost = 0
    BY <2>1
  <2>3. QED
    BY <2>1, <2>2 DEF RateInv
<1>2. RateInv /\ [Next]_vars => RateInv'
  <2> SUFFICES ASSUME RateInv, [Next]_vars PROVE RateInv'
    OBVIOUS
  <2>1. ASSUME UNCHANGED <<bucket, granted>>, now' = now \/ (now < MaxTime /\ now' = now + 1)
        PROVE  RateInv'
    BY <2>1 DEF RateInv
  <2>2. ASSUME NEW t \in Tasks, RateLimit(t) PROVE RateInv'
    <3> DEFINE r == Refilled
    <3>1. /\ now' = now /\ r \in 0..Capacity
          /\ r <= bucket.tokens + (now - bucket.last_update)
      BY <2>2 DEF RateLimit, RateInv, Refilled, Least
    <3>2. CASE r >= Cost
      <4>1. bucket' = [tokens |-> r - Cost, last_update |-> now] /\ granted' = granted + 1
        BY <2>2, <3>2 DEF RateLimit, Probed
      <4>2. granted' * Cost = granted * Cost + Cost /\ granted * Cost \in Nat
        BY <4>1 DEF RateInv
      <4> HIDE DEF r
      <4>3. QED
        BY <3>1, <3>2, <4>1, <4>2 DEF RateInv
    <3>3. CASE ~ (r >= Cost)
      <4>1. bucket' = [tokens |-> r, last_update |-> now] /\ granted' = granted
        BY <2>2, <3>3 DEF RateLimit, Probed
      <4>2. granted * Cost \in Nat
        BY DEF RateInv
      <4> HIDE DEF r
      <4>3. QED
        BY <3>1, <4>1, <4>2 DEF RateInv
    <3>4. QED
      BY <3>2, <3>3
  <2>3. ASSUME NEW t \in Tasks,
               \/ EnsureClearance(t) \/ SolveOk(t) \/ SolveFails(t) \/ SolveRejected(t)
               \/ \E host \in Hosts, session \in Sessions \cup {NoSession} :
                    CheckOut(t, host, session)
               \/ \E outcome \in {"banned", "other"} : Respond(t, outcome)
        PROVE  RateInv'
    BY <2>1, <2>3 DEF EnsureClearance, SolveOk, SolveFails, SolveRejected, CheckOut, Respond
  <2>4. ASSUME Population \/ Tick \/ UNCHANGED vars PROVE RateInv'
    BY <2>1, <2>4 DEF Population, Tick, vars
  <2>5. QED
    BY <2>2, <2>3, <2>4 DEF Next
<1>3. RateInv => RateKept
  <2> SUFFICES ASSUME RateInv PROVE RateKept
    OBVIOUS
  <2>1. granted * Cost \in Nat
    BY DEF RateInv
  <2>2. QED
    BY <2>1 DEF RateInv, RateKept
<1>4. QED
  BY <1>1, <1>2, <1>3, PTL DEF Spec

===============================================================================
