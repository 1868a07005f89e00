---------------------------- MODULE ProxiedRequests ----------------------------
(***************************************************************************)
(* Requests through the helpers of SourceAdapter (scrape/base.py): the     *)
(* token bucket, a proxy checked out of the pool, Cloudflare clearance     *)
(* (scrape/cloudflare.py), the response, and the report to the pool.       *)
(* Several tasks share one ScrapeContext, as the documentation (base.py:34) *)
(* foresees: ctx.proxy and the cookies are theirs in common.               *)
(***************************************************************************)
EXTENDS ProxyPool

CONSTANTS
  Tasks,
  Direct,       \* DEFAULT_DIRECT_SPEC
  Cost,         \* ticks in which the bucket earns one token
  Capacity,     \* what the bucket holds, in the same unit
  ClearanceTTL  \* _CF_CLEARANCE_TTL_SECONDS

ASSUME RequestsAssumption ==
  /\ Direct \notin Proxies \cup {NoProxy}
  /\ Cost \in Nat \ {0} /\ Capacity \in Nat /\ Capacity >= Cost
  /\ ClearanceTTL \in Nat

VARIABLES
  pc,        \* of each task
  held,      \* the checkout of each task: its proxy and host
  ctx_proxy, \* ctx.proxy
  set_at,    \* cf_set_at and cf_cookies: when those of a proxy were set, or 0
  bucket,    \* tokens and last_update of the token bucket
  granted    \* (history) the tokens taken

vars == <<now, pool, pc, held, ctx_proxy, set_at, bucket, granted>>

Keys == Proxies \cup {Direct}

Least(a, b) == IF a < b THEN a ELSE b

Init ==
  /\ PoolInit
  /\ pc = [t \in Tasks |-> "limit"]
  /\ held \in [Tasks -> [proxy : {NoProxy}, host : Hosts]]
  /\ ctx_proxy = NoProxy
  /\ set_at = [k \in Keys |-> 0]
  /\ bucket = [tokens |-> Capacity, last_update |-> now]
  /\ granted = 0

Goto(t, label) == pc' = [pc EXCEPT ![t] = label]

-------------------------------------------------------------------------------
(* _TokenBucket.acquire: one round of its loop, under the lock.             *)

Refilled == Least(Capacity, bucket.tokens + (now - bucket.last_update))

\* (mutant) the time of the refill is noted only when a token is taken.
Probed_OnlyWhenTaken(tokens) ==
  [tokens |-> tokens,
   last_update |-> IF Refilled < Cost THEN bucket.last_update ELSE now]

Probed(tokens) == [tokens |-> tokens, last_update |-> now]

\* Takes a token, or sleeps without the lock and tries again.
RateLimit(t) ==
  /\ pc[t] = "limit"
  /\ IF Refilled >= Cost
     THEN /\ bucket' = Probed(Refilled - Cost)
          /\ granted' = granted + 1
          /\ Goto(t, "checkout")
     ELSE /\ bucket' = Probed(Refilled)
          /\ UNCHANGED <<granted, pc>>
  /\ UNCHANGED <<now, pool, held, ctx_proxy, set_at>>

-------------------------------------------------------------------------------
(* _checkout_proxy: acquire, or the direct connection when the pool has     *)
(* nothing to offer.                                                        *)

CheckOut(t, host, session) ==
  /\ pc[t] = "checkout"
  /\ \/ \E p \in Acquirable(session, host) :
          /\ Bind(session, p)
          /\ held' = [held EXCEPT ![t] = [proxy |-> p, host |-> host]]
          /\ ctx_proxy' = p
     \/ /\ Acquirable(session, host) = {}
        /\ Bind(session, NoProxy)
        /\ held' = [held EXCEPT ![t] = [proxy |-> Direct, host |-> host]]
        /\ ctx_proxy' = Direct
  /\ Goto(t, "clearance")
  /\ UNCHANGED <<now, specs, banned_until, lastBan, set_at, bucket, granted>>

\* cf_cookies_for
Stale(key) == set_at[key] = 0 \/ now - set_at[key] > ClearanceTTL

Cached(key) == IF key = NoProxy \/ Stale(key) THEN 0 ELSE set_at[key]

\* _ensure_cf_clearance up to the call of FlareSolverr, which is made when
\* there are no cookies and the bypass is enabled. Stale cookies are dropped.
EnsureClearance(t) ==
  /\ pc[t] = "clearance"
  /\ set_at' = IF ctx_proxy = NoProxy THEN set_at
               ELSE [set_at EXCEPT ![ctx_proxy] = Cached(ctx_proxy)]
  /\ IF Cached(ctx_proxy) # 0 THEN Goto(t, "request")
     ELSE Goto(t, "request") \/ Goto(t, "solving")
  /\ UNCHANGED <<now, pool, held, ctx_proxy, bucket, granted>>

\* The answer of FlareSolverr, if it holds any cookies, is filed under the
\* proxy ctx names by now; without cookies it counts as none.
SolveOk(t) ==
  /\ pc[t] = "solving"
  /\ IF ctx_proxy = NoProxy THEN UNCHANGED set_at
     ELSE \E solved \in {0, now} : set_at' = [set_at EXCEPT ![ctx_proxy] = solved]
  /\ Goto(t, "request")
  /\ UNCHANGED <<now, pool, held, ctx_proxy, bucket, granted>>

\* No cookies, the error is logged.
SolveFails(t) ==
  /\ pc[t] = "solving"
  /\ Goto(t, "request")
  /\ UNCHANGED <<now, pool, held, ctx_proxy, set_at, bucket, granted>>

\* The end of the checkout, which of a direct connection leaves ctx.proxy.
CheckIn(t) ==
  /\ ctx_proxy' = IF held[t].proxy = Direct THEN ctx_proxy ELSE NoProxy
  /\ held' = [held EXCEPT ![t].proxy = NoProxy]

\* CircuitOpenError, which nothing here catches: no request and no report.
SolveRejected(t) ==
  /\ pc[t] = "solving"
  /\ CheckIn(t)
  /\ Goto(t, "limit")
  /\ UNCHANGED <<now, pool, set_at, bucket, granted>>

\* The response comes and _report_proxy_outcome tells the pool, unless the
\* connection was direct; then the checkout ends.
Respond(t, outcome) ==
  /\ pc[t] = "request"
  /\ IF outcome = "banned" /\ held[t].proxy # Direct
     THEN ReportBanned(held[t].proxy, held[t].host)
     ELSE UNCHANGED pool
  /\ CheckIn(t)
  /\ Goto(t, "limit")
  /\ UNCHANGED <<now, set_at, bucket, granted>>

\* Whoever manages the pool registers and drops proxies at any time.
Population ==
  /\ \E p \in Proxies : Add(p) \/ Remove(p)
  /\ UNCHANGED <<now, pc, held, ctx_proxy, set_at, bucket, granted>>

Tick ==
  /\ now < MaxTime
  /\ now' = now + 1
  /\ UNCHANGED <<pool, pc, held, ctx_proxy, set_at, bucket, granted>>

Next ==
  \/ \E t \in Tasks :
       \/ RateLimit(t) \/ EnsureClearance(t)
       \/ SolveOk(t) \/ SolveFails(t) \/ SolveRejected(t)
       \/ \E host \in Hosts, session \in Sessions \cup {NoSession} :
            CheckOut(t, host, session)
       \/ \E outcome \in {"banned", "other"} : Respond(t, outcome)
  \/ Population
  \/ Tick

Spec == Init /\ [][Next]_vars

-------------------------------------------------------------------------------
(* Properties.                                                              *)

\* However many tasks probe the bucket and however often, what it has granted
\* stays below its capacity and the tokens earned since the start.
RateKept == granted * Cost <= Capacity + (now - 1)

\* A proxy is not handed out for a host within the quarantine after the last
\* ban reported for the two, also when several requests report one, through a
\* session bound to it or not.
QuarantineKept ==
  [][\A t \in Tasks :
       LET p == held'[t].proxy
           host == held'[t].host
       IN pc[t] = "checkout" /\ pc'[t] = "clearance" /\ p \in Proxies =>
            lastBan[p][host] = 0 \/ now - lastBan[p][host] >= Quarantine]_vars

\* A session keeps its proxy until that is removed, or a checkout of the
\* session is for a host it is quarantined for.
SessionKept ==
  [][\A s \in Sessions :
       sticky[s] # NoProxy /\ sticky'[s] # sticky[s] =>
         \/ sticky[s] \notin specs'
         \/ \E t \in Tasks :
              /\ pc[t] = "checkout" /\ pc'[t] = "clearance"
              /\ now < banned_until[sticky[s]][held'[t].host]]_vars

===============================================================================
