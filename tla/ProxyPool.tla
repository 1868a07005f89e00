------------------------------- MODULE ProxyPool -------------------------------
(***************************************************************************)
(* The pool of proxies (scrape/proxies.py): which are registered, until    *)
(* when each is quarantined for a host, and which session is bound to      *)
(* which.  Every method runs under one asyncio.Lock without awaiting       *)
(* anything else and is one step.  The averages that rank the candidates   *)
(* (composite_score, the random pick in the best quartile) are a choice    *)
(* among them: any can come first.                                         *)
(***************************************************************************)
EXTENDS Naturals

CONSTANTS
  Proxies,      \* the proxies that pass the filters of the adapter
  Hosts,        \* target hosts
  Sessions,     \* session keys
  Quarantine,   \* PROXY_BAN_QUARANTINE_SECONDS
  MaxTime,      \* bound of the clock
  NoProxy,      \* None
  NoSession

ASSUME ProxyPoolAssumption ==
  /\ Quarantine \in Nat \ {0} /\ MaxTime \in Nat
  /\ NoProxy \notin Proxies /\ NoSession \notin Sessions

VARIABLES
  now,          \* time.monotonic()
  specs,        \* the proxies registered
  banned_until, \* of each proxy and host; 0 when there is no entry
  sticky,       \* session key -> proxy
  lastBan       \* (history) when the last ban of a registered proxy was reported

pool == <<specs, banned_until, sticky, lastBan>>

PoolInit ==
  /\ now = 1
  /\ specs = Proxies
  /\ banned_until = [p \in Proxies |-> [h \in Hosts |-> 0]]
  /\ sticky = [s \in Sessions |-> NoProxy]
  /\ lastBan = [p \in Proxies |-> [h \in Hosts |-> 0]]

\* (mutant) a ban for any host counts.
IsBannedFor_AnyHost(p, host) == \E h \in Hosts : now < banned_until[p][h]

\* An entry that has run out is deleted when it is read: it reads the same.
IsBannedFor(p, host) == now < banned_until[p][host]

\* Of a session, the proxy it is bound to while that can be used for the host.
Pinned(session, host) ==
  IF session # NoSession /\ sticky[session] \in specs
       /\ ~IsBannedFor(sticky[session], host)
  THEN {sticky[session]} ELSE {}

Candidates(host) == {p \in specs : ~IsBannedFor(p, host)}

\* What acquire may return; nothing stands for EmptyPoolError.
Acquirable(session, host) ==
  IF Pinned(session, host) # {} THEN Pinned(session, host) ELSE Candidates(host)

\* The binding after acquire: a stale one is dropped also when the pool is empty.
Bind(session, p) ==
  sticky' = IF session = NoSession THEN sticky ELSE [sticky EXCEPT ![session] = p]

Registered(p) ==
  [banned |-> [banned_until EXCEPT ![p] = [h \in Hosts |-> 0]],
   last |-> [lastBan EXCEPT ![p] = [h \in Hosts |-> 0]]]

Add(p) ==
  /\ p \notin specs
  /\ specs' = specs \cup {p}
  /\ banned_until' = Registered(p).banned /\ lastBan' = Registered(p).last
  /\ UNCHANGED sticky

Remove(p) ==
  /\ p \in specs
  /\ specs' = specs \ {p}
  /\ banned_until' = Registered(p).banned /\ lastBan' = Registered(p).last
  /\ sticky' = [s \in Sessions |-> IF sticky[s] = p THEN NoProxy ELSE sticky[s]]

\* (mutant) a proxy already quarantined keeps the earlier end.
Ban_KeepsFirst(p, host) ==
  banned_until' = [banned_until EXCEPT ![p][host] =
                     IF @ = 0 THEN now + Quarantine ELSE @]

Ban(p, host) ==
  banned_until' = [banned_until EXCEPT ![p][host] = now + Quarantine]

\* The report of a request; that of a proxy removed meanwhile is ignored.
ReportBanned(p, host) ==
  IF p \in specs
  THEN /\ Ban(p, host)
       /\ lastBan' = [lastBan EXCEPT ![p][host] = now]
       /\ UNCHANGED <<specs, sticky>>
  ELSE UNCHANGED pool

===============================================================================
