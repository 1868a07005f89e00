-------------------------------- MODULE Scrape --------------------------------
(***************************************************************************)
(* One `aegis scrape` command after another: SourceAdapter.run             *)
(* (scrape/base.py) drives the fetch_raw of a source and the parse of its  *)
(* items, _scrape_async (cli/main.py) collects the signals in batches, and *)
(* insert_signals (db/signals.py) writes them row by row, in autocommit.   *)
(* The table keeps one row per <platform, external_id, ts>.                *)
(***************************************************************************)
EXTENDS Sources

CONSTANTS
  BatchSize,     \* 50 in the code
  MaxAttempts    \* bound: how often the command is run

ASSUME ScrapeAssumption == BatchSize \in Nat \ {0} /\ MaxAttempts \in Nat \ {0}

VARIABLES
  dry_run,
  attempt,    \* the command that runs, or ran last
  status,     \* how it ended: "running", "ok", "failed"
  open,       \* what is started and not closed: "pool", "cache", "client"
  gen,        \* adapter.run(): "running", "over", or "left" suspended
  ctx,        \* the items counted in items_seen and in items_failed
  emitted,    \* the signals run() has yielded in this command
  batch,      \* those of them not inserted yet
  written,    \* how many of the batch the insertion has written
  rows        \* the signals table

scrape == <<dry_run, attempt, status, open, gen, ctx, emitted, batch, written, rows>>

vars == <<source, kind, cancelled, pc, loop, scrape>>

PCs == {"start", "setup", "request", "page", "item", "emit", "insert", "flush",
        "ended", "raised", "closing", "exited"}

\* scraped_at is different for each signal; the date of a post is its own.
Signals == [item : Platform, scraped_at : (1..MaxAttempts) \X Nat]

TypeOK ==
  /\ source \in Sources /\ kind \in [Platform -> Outcomes]
  /\ cancelled \in BOOLEAN /\ dry_run \in BOOLEAN
  /\ pc \in PCs /\ attempt \in 1..MaxAttempts
  /\ loop.yielded \in 0..Limit /\ loop.item \in 0..Items
  /\ status \in {"running", "ok", "failed"}
  /\ open \subseteq {"pool", "cache", "client"}
  /\ gen \in {"running", "over", "left"}
  /\ ctx.seen \subseteq Platform /\ ctx.failed \subseteq ctx.seen
  /\ emitted \in Seq(Signals) /\ Len(emitted) <= Limit
  /\ batch \in Seq(Signals) /\ written \in 0..Len(batch)
  /\ rows \subseteq [item : Platform, ts : {<<>>} \cup ((1..MaxAttempts) \X Nat)]

Init ==
  /\ source \in Sources
  /\ kind \in [Platform -> ParseOf[source]]
  /\ dry_run \in BOOLEAN
  /\ attempt = 1 /\ status = "running" /\ rows = {}
  /\ cancelled = FALSE /\ pc = "start" /\ loop = Fresh
  /\ open = {} /\ gen = "running" /\ ctx = [seen |-> {}, failed |-> {}]
  /\ emitted = <<>> /\ batch = <<>> /\ written = 0

-------------------------------------------------------------------------------
(* The command.                                                             *)

\* An exception or the end of the command: finally closes what was started.
Fails == pc' = "closing" /\ status' = "failed"

\* The pool is started before the cache; either may fail.
Connect ==
  /\ pc = "start"
  /\ \/ /\ pc' = "setup" /\ UNCHANGED status
        /\ open' = IF dry_run THEN open ELSE {"pool", "cache"}
     \/ /\ ~dry_run /\ Fails
        /\ open' \in {{}, {"pool"}}
  /\ UNCHANGED <<source, kind, cancelled, loop, dry_run, attempt, gen, ctx,
                 emitted, batch, written, rows>>

\* run() up to fetch_raw. A failure of setup leaves without teardown.
Setup ==
  /\ pc = "setup"
  /\ \/ pc' = "request" /\ open' = open \cup {"client"} /\ UNCHANGED <<status, gen>>
     \/ Fails /\ gen' = "over" /\ UNCHANGED open
  /\ UNCHANGED <<source, kind, cancelled, loop, dry_run, attempt, ctx, emitted,
                 batch, written, rows>>

FetchRaw ==
  /\ Fetch
  /\ UNCHANGED <<source, kind, cancelled, scrape>>

\* The body of the loop of run(), with _parse_one: the signal is yielded, and
\* an exception that leaves parse is counted.
RunItem ==
  /\ pc = "item"
  /\ IF cancelled
     THEN pc' = "ended" /\ UNCHANGED <<ctx, emitted>>
     ELSE LET item == loop.item
              yields == kind[item] \in {"dated", "undated"}
          IN /\ pc' = IF yields THEN "emit" ELSE "page"
             /\ ctx' = [seen |-> ctx.seen \cup {item},
                        failed |-> ctx.failed \cup
                                   (IF kind[item] = "raised" THEN {item} ELSE {})]
             /\ emitted' = IF yields
                           THEN Append(emitted, [item |-> item,
                                  scraped_at |-> <<attempt, Len(emitted) + 1>>])
                           ELSE emitted
  /\ UNCHANGED <<source, kind, cancelled, loop, dry_run, attempt, status, open,
                 gen, batch, written, rows>>

\* (mutant) teardown is run after an error only.
Teardown_AfterErrors ==
  /\ pc \in {"ended", "raised"}
  /\ open' = (IF pc = "raised" THEN open \ {"client"} ELSE open) /\ gen' = "over"
  /\ IF pc = "ended" THEN pc' = "flush" /\ UNCHANGED status ELSE Fails
  /\ UNCHANGED <<source, kind, cancelled, loop, dry_run, attempt, ctx, emitted,
                 batch, written, rows>>

\* finally: teardown, whose failure is only logged.
Teardown ==
  /\ pc \in {"ended", "raised"}
  /\ open' = open \ {"client"} /\ gen' = "over"
  /\ IF pc = "ended" THEN pc' = "flush" /\ UNCHANGED status ELSE Fails
  /\ UNCHANGED <<source, kind, cancelled, loop, dry_run, attempt, ctx, emitted,
                 batch, written, rows>>

\* Leaving the loop drops the generator where it is suspended.
NextOrBreak ==
  IF Len(emitted) >= Limit THEN pc' = "flush" /\ gen' = "left"
                           ELSE pc' = "page" /\ UNCHANGED gen

\* The body of the loop of _scrape_async.
Collect ==
  /\ pc = "emit"
  /\ batch' = Append(batch, emitted[Len(emitted)])
  /\ IF ~dry_run /\ Len(batch') >= BatchSize
     THEN pc' = "insert" /\ UNCHANGED gen
     ELSE NextOrBreak
  /\ UNCHANGED <<source, kind, cancelled, loop, dry_run, attempt, status, open,
                 ctx, emitted, written, rows>>

-------------------------------------------------------------------------------
(* insert_signals.                                                          *)

\* ts is posted_at, or else scraped_at.
Row(signal) ==
  [item |-> signal.item,
   ts |-> IF kind[signal.item] = "dated" THEN <<>> ELSE signal.scraped_at]

\* One INSERT ... ON CONFLICT DO NOTHING, committed by itself.
WriteRow ==
  /\ pc \in {"insert", "flush"} /\ ~dry_run /\ written < Len(batch)
  /\ rows' = rows \cup {Row(batch[written + 1])}
  /\ written' = written + 1
  /\ UNCHANGED <<source, kind, cancelled, pc, loop, dry_run, attempt, status,
                 open, gen, ctx, emitted, batch>>

\* The checkout or a statement raises. What was written stays, the rest of
\* the batch is gone.
WriteFails ==
  /\ pc \in {"insert", "flush"} /\ ~dry_run /\ written < Len(batch)
  /\ Fails
  /\ gen' = IF gen = "running" THEN "left" ELSE gen
  /\ UNCHANGED <<source, kind, cancelled, loop, dry_run, attempt, open, ctx,
                 emitted, batch, written, rows>>

\* (mutant) the batch is cleared, the count of what is written is not.
BatchWritten_KeepsCount ==
  /\ pc = "insert" /\ written = Len(batch)
  /\ batch' = <<>>
  /\ NextOrBreak
  /\ UNCHANGED <<source, kind, cancelled, loop, dry_run, attempt, status, open,
                 ctx, emitted, written, rows>>

BatchWritten ==
  /\ pc = "insert" /\ written = Len(batch)
  /\ batch' = <<>> /\ written' = 0
  /\ NextOrBreak
  /\ UNCHANGED <<source, kind, cancelled, loop, dry_run, attempt, status, open,
                 ctx, emitted, rows>>

\* (mutant) what is left in the batch is not flushed.
Flushed_Never ==
  /\ pc = "flush"
  /\ pc' = "closing" /\ status' = "ok"
  /\ UNCHANGED <<source, kind, cancelled, loop, dry_run, attempt, open, gen, ctx,
                 emitted, batch, written, rows>>

Flushed ==
  /\ pc = "flush" /\ (dry_run \/ written = Len(batch))
  /\ pc' = "closing" /\ status' = "ok"
  /\ UNCHANGED <<source, kind, cancelled, loop, dry_run, attempt, open, gen, ctx,
                 emitted, batch, written, rows>>

-------------------------------------------------------------------------------
(* The end.                                                                 *)

\* The cache is closed before the pool, which stays open if that raises.
Close ==
  /\ pc = "closing"
  /\ pc' = "exited"
  /\ \/ open' = open \ {"cache", "pool"} /\ UNCHANGED status
     \/ "cache" \in open /\ open' = open \ {"cache"} /\ status' = "failed"
  /\ UNCHANGED <<source, kind, cancelled, loop, dry_run, attempt, gen, ctx,
                 emitted, batch, written, rows>>

\* The event loop closes a generator that was left in a task of its own,
\* beside the command, or not at all when the process is gone first.
FinishGenerator ==
  /\ gen = "left" /\ pc # "exited"
  /\ gen' = "over" /\ open' = open \ {"client"}
  /\ UNCHANGED <<source, kind, cancelled, pc, loop, dry_run, attempt, status, ctx,
                 emitted, batch, written, rows>>

\* parse_is_blocking: parse runs in a thread and is awaited.
Blocking == {"reddit", "google_trends", "instagram"}

\* Ctrl-C: asyncio.run cancels the task at the await where it is.
Interrupt ==
  /\ pc \notin {"emit", "exited"} /\ (pc = "item" => source \in Blocking)
  /\ status' = "failed"
  /\ pc' = IF pc = "closing" THEN "exited" ELSE "closing"
  /\ gen' = IF pc = "insert" /\ gen = "running" THEN "left"
            ELSE IF pc \in {"setup", "request", "page", "item", "ended", "raised"} THEN "over"
            ELSE gen
  /\ open' = IF pc \in {"request", "page", "item"} THEN open \ {"client"} ELSE open
  /\ UNCHANGED <<source, kind, cancelled, loop, dry_run, attempt, ctx, emitted,
                 batch, written, rows>>

\* cancel(), which the library offers and the command does not call.
Cancel ==
  /\ pc \in {"request", "page", "item", "emit", "insert"} /\ ~cancelled
  /\ cancelled' = TRUE
  /\ UNCHANGED <<source, kind, pc, loop, scrape>>

\* The same command again, over the same posts; of a dry run nothing remains.
Again ==
  /\ pc = "exited" /\ attempt < MaxAttempts /\ ~dry_run
  /\ attempt' = attempt + 1 /\ status' = "running"
  /\ cancelled' = FALSE /\ pc' = "start" /\ loop' = Fresh
  /\ open' = {} /\ gen' = "running" /\ ctx' = [seen |-> {}, failed |-> {}]
  /\ emitted' = <<>> /\ batch' = <<>> /\ written' = 0
  /\ UNCHANGED <<source, kind, dry_run, rows>>

Command ==
  \/ Connect \/ Setup \/ FetchRaw \/ RunItem \/ Teardown \/ Collect
  \/ WriteRow \/ WriteFails \/ BatchWritten \/ Flushed \/ Close

Next == Command \/ FinishGenerator \/ Interrupt \/ Cancel \/ Again

\* Every await of the command has a timeout, and nothing else blocks it.
Spec == Init /\ [][Next]_vars /\ WF_vars(Command)

-------------------------------------------------------------------------------
(* Properties.                                                              *)

\* A command that ends without an error has a row for every signal it has
\* emitted, over several batches and the flush of the last one.
SuccessStored ==
  status = "ok" /\ ~dry_run =>
    \A k \in 1..Len(emitted) : Row(emitted[k]) \in rows

\* The command implements Outbox. In a dry run there is nothing to store. A
\* signal is emitted, then in the batch, then written.
Outgoing == IF dry_run THEN <<>> ELSE [k \in 1..Len(emitted) |-> Row(emitted[k])]

NotInBatch == IF pc = "emit" THEN 1 ELSE 0

Sent == IF dry_run THEN 0 ELSE Len(emitted) - NotInBatch - Len(batch) + written

O == INSTANCE Outbox WITH outbox <- Outgoing, sent <- Sent, table <- rows

\* Across batches, failures, Ctrl-C and the next command: a signal is written
\* when all emitted before it are, once in a command, and success is reported
\* when none is left.
StoredInOrder == O!Spec

\* A command that ends without an error has closed the pool and the cache, and
\* the client of its adapter too, unless it broke out of a generator that the
\* event loop had not closed when the process ended: whether the last page, the
\* limit or cancel() ended the scrape, in a batch or in the flush.
ClosesUp ==
  pc = "exited" /\ status = "ok" =>
    open = {} \/ (open = {"client"} /\ gen = "left")

\* Every command ends, also when the pages repeat or hold nothing that can be
\* parsed: what is handed over counts, not what is emitted.
RunEnds == []<>(pc = "exited")

\* (violated) what README.md:118 and RUNBOOK.md:326 say: a post scraped again
\* is not stored again.
OneRowPerPost == \A r, s \in rows : r.item = s.item => r = s

===============================================================================
