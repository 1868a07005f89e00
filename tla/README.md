# AEGIS Pulse in TLA+

AEGIS Pulse scrapes public sources for product signals, stores them in
PostgreSQL, and lets ten agents decide what to do about a trend. This directory
holds TLA+ models of the parts of it in which things happen concurrently, fail,
time out or race, the TLC configurations that check them on small instances, and
TLAPS proofs of what holds for every instance. Paths below are relative to
the root of the repository; `aegis/` stands for `src/aegis/`.

How to read this: the *Inventory* says what the system consists of, *Modules*
which module stands for which code and how, *Runs* what was checked and within
which bounds, *Proofs* what was proved and from what, *Findings* where the code
and its own documentation part, and *Plan* what comes next.

    tlc -workers 2 -config AgentPipeline.cfg AgentPipeline.tla
    tlapm AgentPipelineProofs.tla


## Inventory

The program is Python on asyncio: one process, one event loop per command. Code
between two `await`s is atomic with respect to the process's other tasks, so the
interesting interleavings are those of awaits, of several processes on one Redis
or one database, and of external services that answer late, twice or not at all.

### Resilient calls (`aegis/core/resilience.py`)
A decorator `@resilient_call` retries a coroutine with a time limit per attempt,
decorrelated backoff and an optional fallback. All calls under one policy name
share a `CircuitBreaker`.
*State:* consecutive failures, two lists of recent time stamps, `opened_at`, the
half-open slot; per call the loop counter and the last delay. *Operations:*
`check`, `record_success`, `record_failure`, the wrapper. *Used by:* the
FlareSolverr client. *Hard:* outcomes that arrive after the breaker has changed
state; many sleepers waking at once; cancellation of a probe; exceptions no
clause names. *Correct when:* a closed breaker is below its threshold, nothing
reaches a service in its cooldown, the half-open slot belongs to a probe (one probe
at a time is what the code promises and does not keep, finding 19), each attempt is
recorded at most once, every call ends.

### Agent pipeline (`aegis/agents/{graph,runner,supervisor,state}.py`, `nodes/`)
`run_trend` runs a LangGraph graph over one candidate: SCOUT, GEO_ARBITRAGE and
NARRATIVE concurrently; then HISTORIAN; then, if SCOUT is interested, SOURCER,
AUDITOR and SENTINEL; then the gates COMPLIANCE, RED_TEAM and HEDGE; then
`finalize`, which folds everything into a verdict, a priority and a halt reason.
*State:* the merged `GraphState` (decisions, `blocked_by`, the `*_passed` fields
and a few scores), and what `run_trend` returns. *Interacts with:* tools and
working memory (read by the agents), the LLM router (wording only), snapshots
(written at the end). *Hard:* joins over concurrent nodes, conditional edges
that skip gates, agents that raise or hang, a time limit that may strike
anywhere, three functions that fold one state separately. *Correct when:* nothing
proceeds that a gate has not cleared or an agent with a veto objects to, P0 was
seen by every gate, the halt reason fits the verdict, a run always has a result.

### Agent tools (`aegis/agents/tools/`)
Velocity, history, Monte Carlo and a pattern-based compliance check. Stateless;
each may fail. Their results are choices of the agents in the pipeline model.

### LLM router and providers (`aegis/agents/llm/`)
Providers tried in order, each with a little breaker (failures, `opened_at`,
`dead`). *Hard:* after the cooldown the breaker is reset rather than half-opened;
outcomes arrive late; a caller is cancelled. *Correct when:* a dead provider is
never called again, a provider in its cooldown is left alone, and `complete`
always returns.

### Message bus (`aegis/agents/messaging/streams.py`, `hmac_sign.py`)
`AgentBus.publish` appends to a Redis stream (an agent's inbox, or broadcast);
`BusConsumer.run` reads both of its agent's streams through the agent's consumer
group, refuses what is malformed, badly signed or expired, hands the rest to a
handler and acknowledges. *State:* streams, group cursors and pending lists in
Redis; batch and stop flag per consumer. *Hard:* two consumers in a group,
crashes between handler and acknowledgement, lost responses, trimming, groups
that could not be created. *Correct when:* no entry is handled twice, only settled
entries are acknowledged, none is passed over while the agent serves. The first is
what the code does and more than it wants: it also rules out the redelivery of
pending entries that `streams.py` promises (lines 7-8 and 233, finding 3). Nothing in
the CLI or the pipeline uses the bus yet.

### Memory and snapshots (`aegis/agents/memory/`)
Working memory: one Redis hash per trend with an expiry, and a sorted set of
active trends without one. Chroma: a store that degrades to a no-op. Snapshots:
best-effort writes to S3, disabled for good when the client cannot be built.
*Hard:* the set of active trends outlives the hashes; HEDGE reads both.

### Priority queue and cache (`aegis/cache/redis_cache.py`)
`PriorityQueue` is a sorted set with bands of scores per priority. A pop without
a limit is atomic; a pop with `max_priority` looks first and removes second.
*Hard:* everything others do in between; responses lost after Redis has removed a
member; batches that fail in the middle. *Correct when:* no entry is popped twice
or vanishes unnoticed, the best entry is taken, no score is read beyond a limit
(one that changes between look and removal escapes it, finding 7). `RedisCache`
itself has the life cycle of a client (connect, close) and a read-through helper.

### Database (`aegis/db/`, `db/migrations/`)
`PgPool` (connect, close with a grace period, checkout with a tenant),
`insert_signals` (row by row, authors first), queries. *Hard:* no transaction
around a batch; the conflict key contains the time of the scrape for posts
without a time; a session variable carries the tenant; connect and close race.

### Scraping (`aegis/scrape/`)
`SourceAdapter.run` drives `fetch_raw` and `parse` of one of eleven sources. The
adapters request through the helpers of the base class: a token bucket, a proxy
checked out of `ProxyPool`, cookies from FlareSolverr, a report to the pool.
*State:* tokens, quarantine per proxy and host, sticky sessions, cookies per
proxy; per source a page number, token, bookmark, cursor or list of targets.
*Hard:* proxies removed or banned while in use, an empty pool, tasks that share a
context, pages that repeat, items that are refused by their own hash, limits that
count what was handed over or what was emitted, cancellation between items.
*Correct when:* a quarantined proxy is not handed out, the rate is kept, a session
keeps its proxy, every command ends. No adapter promises not to hand over an item
twice: none looks for repeats, and listings move between pages.

### CLI (`aegis/cli/main.py`)
`aegis scrape` writes what the adapter emits in batches of 50 into the database;
other commands run the pipeline or inspect. *Hard:* an error or Ctrl-C in the
middle of a batch; leaving the loop at the limit while the generator is suspended;
running the command again over the same posts. *Correct when:* a command that
reports no error has stored all it emitted and closed what it opened, and a post has
one row.

### The rest
`schemas/` (immutable, validated data), `core/logging.py`, `core/metrics.py`,
`config.py`, `constants.py`, `scrape/stealth.py`: no protocol, not modelled.
Bootstrap scripts install a developer's machine.


## Modules

| Module | Models | Kind |
| --- | --- | --- |
| `CircuitBreaker` | the breaker of `core/resilience.py` | component |
| `ResilientCall` | the wrapper, and the calls that share a breaker; EXTENDS `CircuitBreaker` | component, composition |
| `MCResilientCall` | three calls under a policy shaped like FlareSolverr's | TLC instance |
| `ResilientCallProofs` | theorems about `ResilientCall` | proofs |
| `Triage` | what the pipeline promises about a candidate | abstract specification |
| `AgentPipeline` | `run_trend`, the graph, the agents' verdicts, the supervisor | component, refines `Triage` |
| `AgentPipelineProofs` | theorems about `AgentPipeline` | proofs |
| `LLMRouter` | `complete` of `agents/llm/router.py` and the providers' breakers | component |
| `LLMRouterProofs` | theorems about `LLMRouter` | proofs |
| `Mailbox` | what the bus promises about an entry | abstract specification |
| `MessageBus` | publishers, Redis streams, consumers | component, refines `Mailbox` |
| `MCMessageBus` | two consumers of one agent | TLC instance |
| `MessageBusProofs` | theorems about `MessageBus` | proofs |
| `Ledger` | what the priority queue promises about an entry | abstract specification |
| `PriorityQueue` | the sorted-set queue and its workers | component, refines `Ledger` |
| `PriorityQueueProofs` | theorems about `PriorityQueue` | proofs |
| `Signals` | what `parse` of each adapter and the validators of `ProductSignal` make of a raw item | pure operators |
| `Sources` | `fetch_raw` of the eleven adapters; EXTENDS `Signals` | component |
| `Outbox` | what the scrape command promises about the signals it emits | abstract specification |
| `Scrape` | `SourceAdapter.run`, the scrape command, `insert_signals`; EXTENDS `Sources` | composition, refines `Outbox` |
| `ScrapeProofs` | theorems about `Scrape` | proofs |
| `ProxyPool` | `ProxyPool` of `scrape/proxies.py` | component |
| `ProxiedRequests` | token bucket, checkout, clearance, report of `scrape/base.py`; EXTENDS `ProxyPool` | composition |
| `MCProxiedRequests` | two tasks, two proxies, two hosts, one session | TLC instance |
| `ProxiedRequestsProofs` | theorems about `ProxiedRequests` | proofs |
| `PgPool` | `PgPool` of `db/pool.py` over an external asyncpg pool | component |
| `PgPoolProofs` | theorems about `PgPool` | proofs |

Operators whose comment starts with "(mutant)" are not part of a model. Each is a
plausible slip in the definition that follows it, and shows that a property
notices: with the slip in place TLC finds the property violated.

### CircuitBreaker, ResilientCall
`consecutive_failures` and `half_open_probe` are the fields of the code.
`recent_attempts` and `recent_failures` are one set `samples`; two samples differ
by the call and attempt they come from. `opened_at` becomes `openAge`: what the
code compares is the age of a time stamp, never the stamp, and beyond the cooldown
(or the window) greater ages make no difference, so ages saturate there and time
needs no bound. `check`, `record_success` and `record_failure` have no `await`:
each is part of one step. A call is at one of its awaits (`running`, `sleeping`,
`fallback`) between steps. `AttemptFails`, `AttemptRejected` and `AttemptEscapes`
are the except clauses in their order; `Cancel` is a `CancelledError` at any
await. `probe` is a history variable: which call took the half-open slot and has
recorded nothing since.

### AgentPipeline, Triage
`phase` is where `run_trend` is; `running` are the nodes of the graph that have
started and not ended. LangGraph runs nodes of a superstep concurrently and a
list of sources on an edge is a join; `Successors` says so. Each agent is one
action at its end: none of the concurrent ones reads what another writes. An
agent's action contains everything its node does: verdict, decision,
`blocked_by`, the field of its own, and where the routing sends the run next.
Scores are kept as bands between the thresholds the code compares them with.
What an agent finds in the world is a choice; what it computes from the state
(`StateFalsifiers`, `HedgeVerdict`, `CompliancePasses`) is not. An agent that
raises is a HOLD with empty details, which its gate reads as a refusal. The
language model may change wording and confidence only, and is left out.
`Triage` is three variables: gates cleared, objections, outcome. The refinement
takes a PROCEED of SCOUT as its gate, and `blocked_by` with the refused gates as
objections; advisory agents are none of `Triage`'s business.

### LLMRouter
`at` says which provider each caller's completion awaits: that is the one place
where `complete` gives up the event loop (the lock around the breakers is never
held across an `await`, so it is always free). One step therefore records how an
attempt ended and goes on to the next available provider, or returns. `Failed`,
`Succeeded`, `MarkedDead` and `HalfOpened` are the four updates of a breaker, as
records of the new values; `TryFrom` is the loop. `opened_at` is an age, as in
`CircuitBreaker`. A cancelled completion records nothing.

### MessageBus, Mailbox
Entries are numbered per stream, so a group's cursor and the trimmed prefix are
numbers. Redis is modelled as the consumer uses it: XADD with trimming, XGROUP
CREATE with `$`, XREADGROUP with `>`, XACK; every response may be lost after the
server acted. `pc` follows `BusConsumer.run` through its awaits: creating two
groups, reading, dispatching, in the handler, acknowledging. `stop` is noticed at
the head of the loop only; `Crash` is a cancellation or the death of the process
anywhere; `Restart` is another consumer of the same group. `calls` and `settled`
are history. `Mailbox` allows at most one call per receiver and entry, and none
after the entry was settled.

### PriorityQueue, Ledger
Every time a member that was absent is pushed it becomes a new *entry*, so that a
member popped and pushed again is not mistaken for itself. A worker is a
`pop_batch`; `pop` is a batch of one. `PopMin` is ZPOPMIN; `Peek` and `Remove` are
ZRANGE and ZREM with everybody else in between; `Raises` is a `RedisError` or a
cancellation, which loses the list popped so far, and the entry Redis removed if
only the response was lost. `delivered`, `dropped` and `fresh` are history.
`size` and `sizes_by_priority` change nothing and are left out.
`Ledger` keeps the entries only: waiting, in the batch of a worker, delivered,
dropped. In it a batch is handed over or written off as a whole, and nothing comes
back; members, scores, limits and the two steps of a pop are none of its business.
The refinement maps the queue to its entries and each worker to those of its list.

### Signals, Sources, Scrape, Outbox
`Signals` abstracts a text to the class the rules tell apart (absent, empty, with
blanks around it, too long) and a hash to the fields that went into it: what
matters is that an adapter hashes the fields as it read them and `ProductSignal`
hashes them again after it has stripped them. `ParseOf` is, per adapter, the set of
outcomes its `parse` reaches over all raw items; so `Scrape` needs one value per
item instead of the item. "rejected" is an exception `parse` catches itself and
"raised" one it does not.

`Sources` has one request action per adapter. A platform is the sequence of its
items; a request either receives a page (`Receive`), skips a target (`SkipTo`),
ends the loop or raises, as that adapter does about a failure. Bookmarks, cursors
and what a token stands for are whatever the platform answers, and listings move
while they are read, so a page may repeat earlier items or leave some out; so may
best-seller lists and subreddits. What is assumed of a platform: Pinterest's and
Nitter's position names where a page starts, a result of a YouTube search has an id
(one without would be passed over and not counted), and the hashtags and videos of
TikTok are different items. `MalformedItem` is an entry that raises outside of any
try (a count that is no number, an entry that is no object). `YieldItem` hands one
item of a page over: the generator is suspended there and `RunItem` is the body of the loop in
`run`. `Counted` and `Full` say what counts against the limit.

`Scrape` is the command around it: pool, cache and client are opened one by one
(`open`), signals collected (`Collect`), a full batch inserted row by row
(`WriteRow` commits each), the rest flushed, everything closed. `gen` is what has
become of the generator: leaving the loop at the limit leaves it suspended, and the
event loop finishes it beside the command (`FinishGenerator`). `Interrupt` is
Ctrl-C at any `await`, `Again` the same command run once more over the same posts.
A row is the key of the table: the post and `ts`, which is the time of the scrape
exactly for posts without a date.

`Outbox` is a list of rows, a count of those stored, the table and how the command
ended. The refinement maps the list to the rows of the signals emitted and the count
to those emitted that are neither on their way to the batch, nor in it and not yet
written; in a dry run there is nothing to store.

### ProxyPool, ProxiedRequests
The methods of the pool hold one lock and await nothing else: each is one step.
Which candidate `acquire` prefers (averages, LRU, a random pick) is a choice among
all candidates. In `ProxiedRequests` a task goes round: a token (`RateLimit`, one
round of the bucket's loop), a checkout, clearance (`EnsureClearance`, and at
`solving` the answer of FlareSolverr), the response with its report. The tasks
share one `ScrapeContext`, so `ctx_proxy` and the cookies (`set_at`) are common;
the docstring of the module foresees this. The clock is a number because
quarantine, refill and the age of cookies are all differences of it; a float of
the code is a multiple of a tick here. `granted` and `lastBan` are history.

### PgPool
asyncpg is external: a pool is open, closing or closed, hands a connection to one
task at a time, sets up a new one, and resets or terminates one that is returned.
`setting` is `app.current_tenant` of each connection. A task is at one of the
awaits of `connect`, `acquire`, `health` or `aclose`; a statement may fail and a
task may be cancelled at each of them. What `aclose` reads before its wait and
again after it are different reads.


## Runs

| Run | Configuration | Distinct states | Shows |
| --- | --- | --- | --- |
| `resilient_call` | `MCResilientCall.cfg` | 69,622 | bookkeeping, cooldown, termination |
| `resilient_call_slot` | `MCResilientCallSlot.cfg` | until found | a lost probe keeps the slot |
| `agent_pipeline` | `AgentPipeline.cfg` | 343,993 | joins, gates, verdicts, refinement of `Triage` |
| `pipeline_p0_block` | `AgentPipelineP0.cfg` | until found | P0 and BLOCK at once |
| `llm_router` | `LLMRouter.cfg` | 3,423 | breakers agree, none in use that should not be, termination |
| `message_bus` | `MCMessageBus.cfg` | 50,600 | one handler call per entry, none passed over |
| `bus_redelivery` | `MCMessageBusRedelivery.cfg` | until found | pending entries stay pending |
| `priority_queue` | `PriorityQueue.cfg` | 697,753 | every entry in one place, limits kept, refinement of `Ledger` |
| `scrape` | `Scrape.cfg` | 675,478 | what was emitted is stored in order, what was opened is closed, every command ends, refinement of `Outbox` |
| `scrape_dedup` | `ScrapeDedup.cfg` | until found | a post without a date is stored again |
| `proxied_requests` | `MCProxiedRequests.cfg` | 1,103,449 | rate, quarantine and sessions kept |
| `pg_pool` | `PgPool.cfg` | 568,524 | tenants kept apart, no pool lost, closing ends and leaves no pool open |

### Bounds, and why they are enough

*resilient_call.* Three calls: one that trips the breaker, one late outcome, one
sleeper that wakes. Two attempts each, a threshold of two failures, a cooldown of
two ticks (so that there is a time in it that is neither its start nor its end),
sleeps of one or two ticks, a window of one. The policy has all four kinds of
exceptions: a time-out, one to retry, one not to, and one it does not mention.
The rate condition needs four samples (`RateMinSamples`, the code's constant) and
there are up to six. There is no bound on time.

*agent_pipeline.* One candidate, as in the code: runs share no state but the pool
HEDGE reads, which is a choice. `MaxPool = 4` has every outcome of HEDGE's two
thresholds, and the exact hit of one of them (3 of 5 is 60%). The run is finite otherwise.
Deadlock is not checked: a run ends.

*llm_router.* Three callers: one attempt that trips the breaker, one that ends late,
one completion that searches. Two providers, so that a failure has a next one; a
threshold of two failures and a cooldown of two ticks. No bound on time or on the
number of completions.

*message_bus.* One agent with two consumers, which share its group on both
streams; two entries in all, batches of two, streams trimmed to one entry, one
restart. Two entries are a batch with a head and a rest, or one entry in each
stream; two consumers are a holder and a rival. Deadlock is not checked: all
consumers may have stopped for good.

*priority_queue.* Two members, two workers, three scores pushed in total (so a
member can be pushed, popped or demoted, and pushed again), two priorities with
bands of two scores, batches of up to two.

*scrape.* Every adapter, every outcome of `parse` for each item. Two items, so that
one can be stored and the next fail, a page can repeat, and a batch of two
(`BatchSize`) can be full; a limit of three, beyond what the platform has, so that
only repeated pages reach it and a third signal opens a second batch; pages of two,
so that one can be full or not; two runs of the command. `scrape_dedup` has a limit
of two. Deadlock is not checked: the last command has ended.

*proxied_requests.* Two tasks, so that one reports a ban or overwrites `ctx_proxy`
while the other is in a request; two proxies, so that a session can lose one and
get the other, and the pool can be empty; two hosts, so that a quarantine applies
to one and not to the other; one session. Four ticks, a quarantine of two: it
begins, is renewed and ends. A token costs two ticks and the bucket holds two, so
that it can hold a fraction. Proxies and tasks are symmetric, and no property is
about liveness. Deadlock is not checked: time is bounded.

*pg_pool.* Three tasks (one that closes, which may also connect, and two that use or
connect), three tenants including the default, two connections, two pools in
succession, so that a connect after a close opens another. `MaxGauge` bounds the
gauge, which the code lets grow when a checkout fails. Deadlock is not checked:
after the second pool there is none to open. Only one task closes: `aclose` takes
no lock, and with two tasks in it `NoPoolLeaked` does fail (finding 18).

### Fairness, and what justifies it

*ResilientCall*: time passes; a sleep ends; an attempt ends, because `wait_for`
bounds it (the time limit of the policy). Nothing bounds a fallback, so `CallsTerminate` stops
there; nobody is obliged to call.

*AgentPipeline*: `run_trend`, once called, starts the graph, and its `wait_for`
fires if the graph does not return. No agent has fairness: any may hang. Nothing
bounds the snapshot, so `RunEnds` speaks of the result that has been computed and
not of the return of `run_trend`.

*LLMRouter*: time passes, and an attempt ends, because `complete` bounds each with
`wait_for`. Nobody is obliged to ask for a completion.

*MessageBus*: a consumer that can create a group, read, refuse, call its handler
or acknowledge does so in the end (Redis answers or the socket times out). A
handler may hang; nobody is obliged to publish, stop, crash or restart.
`EveryEntryRead` and `PendingRedelivered` assume an agent that keeps serving
(`[]<>Serving`): some consumer is again and again neither gone nor in a handler,
and both groups exist.

*PriorityQueue*, *ProxiedRequests*: none; their properties are about safety.

*Scrape*: the command goes on (`WF_vars(Command)`): each of its awaits is a request,
a statement or a lock with a time limit in the code, and the loops between them do
not block. Nobody is obliged to interrupt, to cancel or to run it again; the
generator that was left need not be finished before the process ends.

*PgPool*: the grace period of `aclose` ends, because it is a `wait_for` with
`shutdown_grace_seconds`; `AcloseEnds` asks for nothing more.


## Proofs

The eight proof modules hold for every value of the constants that satisfies the
assumptions in the modules. Those are the weakest the definitions need: numbers
are natural and, where zero would be meaningless, positive; lists of exceptions
are sets of exceptions; the first backoff is at most the greatest; the members of
the queue are finitely many. The bounds that keep TLC's runs finite (`MaxEntries`,
`MaxTime`, `MaxPools`, ...) are constants too, so the theorems hold for every bound.

**`ResilientCallProofs`**, any number of calls, any policy:
`TypeCorrect` (with `LoopCounter`, without which it is not inductive: a call that
sleeps must have an attempt left, or the counter could pass `max_attempts`),
`ClosedBelowThresholdCorrect`, `ProbeSlotHeldCorrect`, `RecordedOnceCorrect`, and
the action properties `DrainsWhileOpenCorrect` and `LateFailureKeepsCooldownCorrect`.
The latter excepts the failure of the probe itself, of which the class doc says that it
opens the breaker anew (finding 5); its lemma `StepNeverExtendsCooldown` says what the
code does, the probe included. Each is an induction with one step per action; what the breaker does is stated
once in lemmas (`StepsOfTheBreaker`, `FailureOpens`) and the way through `check`
once in the `TryAttempt` lemmas. `LoopRunsDownCorrect` is what `CallsTerminate` needs
besides fairness: `LoopLeft`, the turns a call has left times the length of a turn
and what is left of this one, is a natural number that every step of the call lowers,
and every tick while it sleeps; no other call can give it more.

**`AgentPipelineProofs`**, any size of HEDGE's pool, with and without snapshots:
the invariants `TypeCorrect`, `JoinBeforeHistorianCorrect`, `GatesInOrderCorrect`,
`BreakoutReviewedCorrect`, `HaltAgreesWithVerdictCorrect`, and the refinement
`ImplementsTriage`. None of them is inductive. The inductive invariant `IInv` has
four parts: where the run is (either discovery agents run, or exactly one later
node does), what the gates have written by the time each of them starts, that the
result is the supervisor's fold of a state that does not change any more, and
that `blocked_by` holds every BLOCK of an agent with a veto and no adviser. The second
is the heart of it: P0 is given to candidates whose gates have not refused, and
only because every edge past a gate needs that gate's pass, or records a refusal,
does that mean the gates have passed it. TLC checked `IInv` before it was proved.
`VerdictsStandCorrect`: an agent that ends had no verdict before, and no verdict is
changed or asked for again, so a run has at most ten agent steps. Its invariant
`Behind` orders the nodes by `Stage`: who has a verdict is behind all that run.

**`LLMRouterProofs`**, any number of callers and providers: `TypeCorrect`,
`BreakerAgrees` and the action property `LeftAloneCorrect`. That a breaker is open
exactly at the threshold is inductive; the bound on the failure count is not. What
is: the failures of a provider and the attempts under way there together never
exceed the threshold by more than the callers allow (`LateBound`), because an
attempt begins only while the count is below the threshold and takes itself away
when it adds to the count. `TryFromStep` says once what the search for a provider
may do; each action is then an instance of it. Two action properties carry the
liveness, fairness apart: `InOrderCorrect` (a completion goes down the list, over
none it could have used, so it makes at most one attempt per provider), and
`CoolsDownCorrect` (while a breaker cools down, a step ends an attempt under way
there, or starts none and takes nothing back from the age).

**`MessageBusProofs`**, any agents, consumers, batch size, number of entries and
restarts: `TypeCorrect`, `HeldOnceCorrect`, `LeavesPendingSettledCorrect`, and the
refinement `ImplementsMailbox`. The inductive invariant `BusInv` ties the three
places an entry is known to: what a consumer holds was read by its group
(`ReadBefore`: it is at or behind the cursor) and is pending; what was handled or
refused was read too (`Known`); consumers of one agent hold different entries
(`Apart`); and of a batch only the head can have been given to a handler
(`HeldInv`). A read returns only entries beyond the cursor (`GotFacts`), which is
why nothing it returns is in any hand or was ever handled. Steps that settle or
acknowledge touch the head of one batch (`OnlyHead`), and the head is nowhere else
(`HeadAlone`). That an acknowledged entry is settled needs one more invariant,
`AckSettled`. `NonePassedOverCorrect` is the half of `EveryEntryRead` that needs no
fairness: an entry a group has still to read stays unread, pending, settled or
trimmed for ever (`Accounted`), because a cursor moves only over what the read
returned or what is gone from the stream (`CursorPasses`).

**`PriorityQueueProofs`**, any finite set of members, any workers, bands and batch
size: `TypeCorrect`, `LimitKeptCorrect`, `NoOvertakingCorrect`, `OnePlaceCorrect`.
That a queue that is not empty has a best member (`BestIsFirst`) rests on members
being finitely many and ordered among equal scores. `OnePlace` is proved as a
division of the entries `1..entries` into queue, lists, delivered and dropped
(`Divided`), where every step moves a set of entries from one part to another.
`ImplementsLedger` shows the steps of `Ledger` from the same lemmas: `PushQueue` (a
push adds new numbers only), `TakenQueue` and `TakenLists` (a removal takes one entry
out of the queue and puts it into one list, or ends that list with it).

**`ScrapeProofs`**, any number of items, limit, page and batch size and number of
runs, with every adapter: `TypeCorrect` (which includes that no command emits more
than its limit), `SuccessStoredCorrect`, `ClosesUpCorrect`. The invariant of the
second is that each signal emitted so far is in a row, still in the batch beyond what
has been written, or on its way to the batch (`Kept`); that of the third, that once
the flush begins the client is open only behind a generator that was left
(`ClosingInv`). `ImplementsOutbox` needs more:
the batch is the last part of what was emitted, in order (`BatchIsLast`), and a
command is over exactly when it has reported (`ReportsAtTheEnd`).
`CommandAdvances` and `MeasureWellFounded` are the variant
behind `RunEnds`: every step of the command lowers a lexicographic `Measure` of five
numbers (`Lower`), whatever the platform answers (`AskingInv`: a page is asked for only
when there may be more, by the adapters that ask once only at the start), the steps
beside the command leave it alone, and no sequence of measures descends for ever.

**`ProxiedRequestsProofs`**, any tasks, proxies, hosts and sessions, any quarantine,
cost and capacity: `RateCorrect` (tokens granted and in the bucket never exceed the
capacity and what was earned until `last_update`), `QuarantineCorrect` (the end of
a quarantine is the last ban reported and its length), `SessionCorrect`.

**`PgPoolProofs`**, any tasks, tenants, connections and pools: `TypeCorrect`,
`TenantIsolationCorrect` (no two tasks hold one connection, and a connection nobody
holds carries no tenant of a past user), and, for at most one task that closes
(`OneCloser`), `NoPoolLeakedCorrect` and `ClosesWhatItLeavesCorrect` (when `aclose`
returns its pool is closed, by itself or by force, the reference to it is gone and
no other pool is open). With two closing tasks both are false (finding 18), and
`OneCloser` is what their proofs use it for: the closing task still has the pool it
closes (`ClosingOwn`).

**Model-checked only:** the liveness properties. `WF` and `ENABLED` are out of the
prover's reach, so each stays with TLC. What the argument needs besides fairness is
proved where it is not obvious: `LoopRunsDown` for `CallsTerminate`, `VerdictsStand`
for `RunEnds` of the pipeline, `InOrder` and `CoolsDown` for `CompletionEnds` and
`Recovers`, `NonePassedOver` for `EveryEntryRead`, `Advances` for `RunEnds` of the
scrape. These are action properties of the proof modules; TLC agreed with each on a
small instance before it was proved. Of `AdmitsAgain` only
`LateFailureKeepsCooldown` is proved, and `AcloseEnds` is one fair step. Every other
property of the passing runs, invariant, action property or refinement, is a
theorem. `TypeOK` of `PriorityQueue`, `Scrape` and `PgPool` is not part of a run: it
is proved, and the proofs of the other properties rest on it.


## Findings

Where the code and its own documentation part. `PROJECT.json` quotes the lines.
The first four are runs that TLC finds violated.

1. *A probe that reports nothing blocks the breaker* (`SlotTakenMeansInFlight`). A
   cancelled probe, or one that raises an exception the policy does not list,
   never gives the half-open slot back.
2. *P0 with a BLOCK* (`NeverActOnBlock`). The priority looks at gates and SCOUT,
   the verdict also at `blocked_by`: SOURCER's block of a forbidden category that
   COMPLIANCE's patterns miss ends as "block" and "P0_BREAKOUT".
3. *Pending entries are never redelivered* (`PendingRedelivered`): the bus reads
   new entries only and claims nothing.
4. *A post without a date is stored again by every scrape* (`OneRowPerPost`): its
   key contains the time of the scrape, and nothing looks at the content hash.

Met while modelling, and not the subject of a run:

5. A failed probe does not reopen the breaker: `record_failure` stamps `opened_at`
   only when it is 0, so the next call is let in at once.
6. A HOLD of COMPLIANCE is final, though the note in the routing says that RED_TEAM
   still runs.
7. A pop with `max_priority` may take a member beyond it: ZREM names the member and
   not the score it had when it was looked at.
8. In the LLM router the "one trial call" after a cooldown is any number of calls.
9. There, a late success ends a cooldown that the design notes say must elapse.
10. Ten of the eleven adapters catch their own parse exceptions, so the count of
    failed items that `_parse_one` keeps is of one adapter.
11. Pinterest hashes the description in place of a missing title and then builds the
    signal without it: such a pin is always refused.
12. Hacker News shrinks the page with what is still wanted, and keeps counting pages:
    the last page repeats or skips items.
13. The pool is documented as fail-closed; the adapter falls back to the direct
    connection when every proxy is quarantined.
14. Cookies are filed under the proxy the shared context names after the wait for
    FlareSolverr, not the one they were solved through.
15. An open breaker of FlareSolverr raises out of the clearance helper instead of
    being a request without cookies.
16. The tenant is set for tenants other than the default only, not by every
    checkout.
17. The gauge of connections in use is not lowered when a checkout fails.
18. `aclose` reads the pool again after its wait: with two tasks in it, the second
    may forget a pool a connect opened in between, which stays open.
19. A failure reported late, by an attempt admitted before the trip, clears the
    half-open slot while the probe is still out: the next caller is a second probe.
20. `do_not_retry_on` is documented to take precedence; the clause for `TimeoutError`
    stands before it, so a policy cannot have time-outs not retried.

Also: with exactly one active trend HEDGE refuses every candidate of its category;
exactly 60% and 45% concentration fall short of the thresholds in floating point;
falsifiers F8 and F8b of RED_TEAM cannot occur (`GatesInOrder` shows why); a veto
followed by the time limit is a HOLD; `completed` does not mean that all ten agents
ran, as RUNBOOK.md has it.


## Not modelled, and why

*Redis cache.* Its life cycle resembles that of the database pool, but the one
command that opens a cache does so from one task. *Working memory and Chroma.* Read
by HEDGE and HISTORIAN only, whose verdicts are choices. *Agent tools, providers,
prompts, guardrails.* Computations and requests whose results are choices of the
agents and outcomes of the router. *Message signing.* A pure function over bytes; a
bad signature is a reason to refuse. *Stealth, logging, metrics, configuration.* No
protocol. *Migrations.* What the code relies on (the unique key, row security) is in
`Scrape` and `PgPool`. *Bootstrap.* Scripts for a developer's machine.

Within the modelled parts: the registry of breakers (one policy is one breaker), the
cache of compiled graphs (a memo), the text and scores of decisions, message
payloads, read-only statistics, the ranking of proxies, bodies of HTTP requests,
`setup` and `teardown` of single adapters beyond what `run` sees of them, the upsert
of authors (it changes no row the properties speak of), the commands other than
`scrape` and the run of a trend.


## Plan

1. A second closing task in `PgPool` as a run of its own, with what a fix would need
   to keep `NoPoolLeaked`.
2. What `AdmitsAgain` needs besides fairness: the age of an open breaker that is not
   probed only grows, and nothing but a probe takes the slot.
3. An abstract specification of proxied requests (a token, a proxy, one report per
   request), which `ProxiedRequests` implements.
4. The Redis cache, once more than one task uses it; the working memory, once an
   agent's verdict is computed from it.
