------------------------------ MODULE ScrapeProofs ------------------------------
(***************************************************************************)
(* What holds of the scrape command for any number of items, any limit,    *)
(* page and batch size, and any number of runs, with every adapter.        *)
(***************************************************************************)
EXTENDS Scrape, SequenceTheorems, WellFoundedInduction, TLAPS

-------------------------------------------------------------------------------
(* The loops of the adapters.                                               *)

LoopType ==
  loop \in [yielded : 0..Limit, at : Nat, hits : Seq(Platform), more : BOOLEAN,
            item : 0..Items]

\* Whatever is raw, parse ends in one of the outcomes.
LEMMA ParseOutcomes ==
  ASSUME NEW s \in Sources
  PROVE  ParseOf[s] \subseteq Outcomes
<1> USE DEF Signal, Outcomes
<1>1. ASSUME NEW raw \in Raws
      PROVE  /\ HackerNewsParse(raw) \in Outcomes /\ YouTubeParse(raw) \in Outcomes
             /\ PinterestParse(raw) \in Outcomes
  BY DEF HackerNewsParse, YouTubeParse, PinterestParse
<1>2. ASSUME NEW raw \in Raws
      PROVE  NitterParse(raw) \in Outcomes
  BY DEF NitterParse
<1>3. ASSUME NEW raw \in Raws
      PROVE  RedditParse(raw) \in Outcomes /\ RedditRSSParse(raw) \in Outcomes
  BY DEF RedditParse, RedditSubmission, RedditComment, RedditRSSParse
<1>4. ASSUME NEW raw \in Raws
      PROVE  GoogleTrendsParse(raw) \in Outcomes /\ InstagramParse(raw) \in Outcomes
  BY DEF GoogleTrendsParse, InstagramParse
<1>5. ASSUME NEW raw \in Raws
      PROVE  TikTokParse(raw) \in Outcomes
  BY DEF TikTokParse, TikTokHashtag, TikTokVideo
<1>6. ASSUME NEW raw \in Raws
      PROVE  AmazonParse(raw) \in Outcomes /\ GitHubParse(raw) \in Outcomes
  BY DEF AmazonParse, GitHubParse
<1>7. QED
  BY <1>1, <1>2, <1>3, <1>4, <1>5, <1>6 DEF Sources, ParseOf

LEMMA PageType ==
  ASSUME NEW pos \in Nat, NEW size \in Nat
  PROVE  Page(pos, size) \in Seq(Platform)
<1> USE SourcesAssumption
<1> DEFINE n == IF pos < Items THEN Least(size, Items - pos) ELSE 0
<1>1. n \in Nat /\ \A k \in 1..n : pos + k \in Platform
  BY DEF Least, Platform
<1>2. [k \in 1..n |-> pos + k] \in [1..n -> Platform]
  BY <1>1
<1>3. QED
  BY <1>1, <1>2 DEF Page

\* A page of at most size items, asked for at a position, or the next target.
LEMMA ReceiveType ==
  ASSUME LoopType, NEW hits \in Seq(Platform), NEW more \in BOOLEAN, NEW next \in Nat,
         Receive(hits, more, next)
  PROVE  LoopType' /\ pc' = "page"
BY DEF LoopType, Receive

LEMMA SkipToType ==
  ASSUME LoopType, NEW next \in Nat, SkipTo(next)
  PROVE  LoopType' /\ pc' = "request"
BY DEF LoopType, SkipTo

LEMMA StopType ==
  ASSUME LoopType, Ends \/ Raises
  PROVE  LoopType' /\ pc' \in {"ended", "raised"}
BY DEF LoopType, Ends, Raises

\* What a request and an item handed over make of the loop.
LEMMA FetchType ==
  ASSUME LoopType, Fetch
  PROVE  /\ LoopType' /\ pc \in {"request", "page"}
         /\ pc' \in {"request", "page", "item", "ended", "raised"}
         /\ pc' = "item" => loop'.item \in Platform
<1> USE SourcesAssumption
<1> DEFINE Moves == LoopType' /\ pc' \in {"request", "page", "ended", "raised"}
           Asked == Least(PageSize, Remaining)
<1>1. loop.at \in Nat /\ loop.yielded \in 0..Limit /\ loop.hits \in Seq(Platform)
  BY DEF LoopType
<1>2. Asked \in Nat /\ loop.at + 1 \in Nat
  BY <1>1 DEF Least, Remaining
<1>3. ASSUME Ends \/ Raises PROVE Moves
  BY <1>3, StopType
<1>4. ASSUME NEW hits \in Seq(Platform), NEW more \in BOOLEAN, NEW next \in Nat,
             Receive(hits, more, next)
      PROVE  Moves
  BY <1>4, ReceiveType
<1>5. ASSUME NEW next \in Nat, SkipTo(next) PROVE Moves
  BY <1>5, SkipToType
<1>6. ASSUME HackerNewsRequest PROVE Moves
  <2>1. loop.at * Asked \in Nat
    BY <1>1, <1>2
  <2>2. CASE Ends \/ Raises
    BY <1>3, <2>2
  <2>3. CASE \E moved \in 0..(loop.at * Asked) :
               LET hits == Page(loop.at * Asked - moved, Asked)
               IN Receive(hits, Len(hits) = Asked, loop.at + 1)
    <3>1. PICK moved \in 0..(loop.at * Asked) :
            LET hits == Page(loop.at * Asked - moved, Asked)
            IN Receive(hits, Len(hits) = Asked, loop.at + 1)
      BY <2>3
    <3> DEFINE hits == Page(loop.at * Asked - moved, Asked)
    <3>2. loop.at * Asked - moved \in Nat
      BY <2>1
    <3>3. hits \in Seq(Platform)
      BY <1>2, <3>2, PageType
    <3>4. Receive(hits, Len(hits) = Asked, loop.at + 1)
      BY <3>1
    <3> HIDE DEF hits
    <3>5. (Len(hits) = Asked) \in BOOLEAN
      OBVIOUS
    <3>6. QED
      BY <1>2, <1>4, <3>3, <3>4, <3>5
  <2>4. QED
    BY <1>6, <2>2, <2>3 DEF HackerNewsRequest
<1>7. Page(loop.at, Asked) \in Seq(Platform)
  BY <1>1, <1>2, PageType
<1>8. ASSUME YouTubeRequest PROVE Moves
  <2>1. CASE Ends
    BY <1>3, <2>1
  <2>2. CASE \E first \in 0..Items, token \in BOOLEAN :
               Receive(Page(first, Asked), token, loop.at)
    <3>1. PICK first \in 0..Items, token \in BOOLEAN :
            Receive(Page(first, Asked), token, loop.at)
      BY <2>2
    <3>2. Page(first, Asked) \in Seq(Platform)
      BY <1>2, PageType
    <3>3. QED
      BY <1>1, <1>4, <3>1, <3>2
  <2>3. QED
    BY <1>8, <2>1, <2>2 DEF YouTubeRequest
<1>9. ASSUME PinterestRequest PROVE Moves
  <2>1. CASE Ends \/ Raises
    BY <1>3, <2>1
  <2>2. CASE \E bookmark \in 0..Items, some \in BOOLEAN :
               Receive(Page(loop.at, Asked), some /\ bookmark # loop.at, bookmark)
    <3>1. PICK bookmark \in 0..Items, some \in BOOLEAN :
            Receive(Page(loop.at, Asked), some /\ bookmark # loop.at, bookmark)
      BY <2>2
    <3>2. (some /\ bookmark # loop.at) \in BOOLEAN /\ bookmark \in Nat
      BY <3>1
    <3>3. LoopType' /\ pc' = "page"
      BY <1>7, <3>1, <3>2, ReceiveType
    <3>4. QED
      BY <3>3
  <2>3. QED
    BY <1>9, <2>1, <2>2 DEF PinterestRequest
<1>10. ASSUME NitterRequest PROVE Moves
  <2>1. Page(loop.at, PageSize) \in Seq(Platform)
    BY <1>1, PageType
  <2>2. QED
    BY <1>3, <1>4, <1>10, <2>1 DEF NitterRequest
<1>11. ASSUME RedditRequest PROVE Moves
  <2>1. CASE Ends \/ Raises
    BY <1>3, <2>1
  <2>2. CASE ~ (Ends \/ Raises)
    <3>1. /\ loop.yielded < Limit /\ pc' = "page"
          /\ \E first \in 0..Items, comments \in 0..(PageSize - 1) :
               loop' = [loop EXCEPT !.yielded = @ + 1, !.hits = Page(first, 1 + comments)]
      BY <1>11, <2>2 DEF RedditRequest
    <3>2. PICK first \in 0..Items, comments \in 0..(PageSize - 1) :
            loop' = [loop EXCEPT !.yielded = @ + 1, !.hits = Page(first, 1 + comments)]
      BY <3>1
    <3>3. first \in Nat /\ 1 + comments \in Nat
      BY <3>2
    <3>4. Page(first, 1 + comments) \in Seq(Platform)
      BY <3>3, PageType
    <3>5. loop.yielded + 1 \in 0..Limit
      BY <1>1, <3>1
    <3>6. QED
      BY <3>1, <3>2, <3>4, <3>5 DEF LoopType
  <2>3. QED
    BY <2>1, <2>2
<1>12. ASSUME CommentsRaise \/ MalformedItem PROVE Moves
  BY <1>3, <1>12 DEF CommentsRaise, MalformedItem
<1>13. ASSUME TikTokRequest PROVE Moves
  <2> DEFINE half == Items \div 2
             hits == IF loop.at = 0 THEN Page(0, Least(half, Least(PageSize, Limit)))
                     ELSE Page(half, Asked)
  <2>1. half \in Nat
    OBVIOUS
  <2>2. Least(half, Least(PageSize, Limit)) \in Nat
    BY <2>1 DEF Least
  <2>3. hits \in Seq(Platform)
    BY <1>2, <2>1, <2>2, PageType
  <2>4. (loop.at = 0) \in BOOLEAN
    OBVIOUS
  <2>5. Ends \/ Raises \/ SkipTo(1) \/ Receive(hits, loop.at = 0, 1)
    BY <1>13 DEF TikTokRequest
  <2> HIDE DEF hits
  <2>6. QED
    BY <1>3, <1>4, <1>5, <2>3, <2>4, <2>5
<1>14. ASSUME AmazonRequest PROVE Moves
  <2>1. \A first \in 0..Items : Page(first, PageSize) \in Seq(Platform)
    BY PageType
  <2>2. QED
    BY <1>2, <1>3, <1>4, <1>5, <1>14, <2>1 DEF AmazonRequest
<1>15. ASSUME RedditRSSRequest PROVE Moves
  <2>1. \A first \in 0..Items : Page(first, PageSize) \in Seq(Platform)
    BY PageType
  <2>2. QED
    BY <1>2, <1>3, <1>4, <1>5, <1>15, <2>1 DEF RedditRSSRequest
<1>16. ASSUME GoogleTrendsRequest \/ GitHubRequest PROVE Moves
  <2>1. Page(0, Items) \in Seq(Platform)
    BY PageType
  <2>2. QED
    BY <1>3, <1>4, <1>16, <2>1 DEF GoogleTrendsRequest, GitHubRequest
<1>17. ASSUME InstagramRequest PROVE Moves
  <2>1. \A found \in 0..Limit : Page(0, found) \in Seq(Platform)
    BY PageType
  <2>2. QED
    BY <1>4, <1>17, <2>1 DEF InstagramRequest
<1>18. ASSUME YieldItem
       PROVE  LoopType' /\ pc' = "item" /\ loop'.item \in Platform
  <2>1. Head(loop.hits) \in Platform /\ Tail(loop.hits) \in Seq(Platform)
    BY <1>1, <1>18 DEF YieldItem
  <2>2. loop.yielded + Counted \in 0..Limit
    BY <1>1, <1>18 DEF YieldItem, Full, Counted
  <2>3. Platform \subseteq 0..Items
    BY DEF Platform
  <2>4. QED
    BY <1>18, <2>1, <2>2, <2>3 DEF LoopType, YieldItem
<1>19. ASSUME StopInPage \/ PageDone PROVE Moves
  BY <1>1, <1>3, <1>5, <1>19 DEF StopInPage, PageDone
<1>20. pc \in {"request", "page"}
  BY DEF Fetch, Requesting, HackerNewsRequest, YouTubeRequest, PinterestRequest, NitterRequest,
         RedditRequest, CommentsRaise, TikTokRequest, AmazonRequest, RedditRSSRequest,
         GoogleTrendsRequest, GitHubRequest, InstagramRequest, MalformedItem, YieldItem,
         StopInPage, PageDone
<1>21. Moves \/ (LoopType' /\ pc' = "item" /\ loop'.item \in Platform)
  BY <1>6, <1>8, <1>9, <1>10, <1>11, <1>12, <1>13, <1>14, <1>15, <1>16, <1>17, <1>18, <1>19
     DEF Fetch
<1>22. QED
  BY <1>20, <1>21

-------------------------------------------------------------------------------
(* Types.                                                                   *)

Before == {"start", "setup", "request", "page", "item"}

\* Until the limit is reached the command asks for another signal only when
\* fewer than the limit have been emitted.
TypeInv ==
  /\ TypeOK
  /\ LoopType
  /\ pc = "item" => loop.item \in Platform
  /\ pc \in Before => Len(emitted) < Limit
  /\ pc = "emit" => Len(emitted) # 0

LEMMA TypeInit == Init => TypeInv
<1> USE SourcesAssumption, ScrapeAssumption
<1> SUFFICES ASSUME Init PROVE TypeInv
  OBVIOUS
<1>1. kind \in [Platform -> Outcomes]
  BY ParseOutcomes DEF Init
<1>2. LoopType
  BY DEF Init, Fresh, LoopType
<1>3. ctx.seen \subseteq Platform /\ ctx.failed \subseteq ctx.seen
  BY DEF Init
<1>4. /\ emitted \in Seq(Signals) /\ Len(emitted) < Limit /\ Len(emitted) <= Limit
      /\ batch \in Seq(Signals) /\ written \in 0..Len(batch)
  BY DEF Init
<1>5. loop.yielded \in 0..Limit /\ loop.item \in 0..Items
  BY <1>2 DEF LoopType
<1>6. attempt \in 1..MaxAttempts /\ pc \in PCs
  BY DEF Init, PCs
<1>7. /\ source \in Sources /\ dry_run \in BOOLEAN /\ cancelled \in BOOLEAN
      /\ status = "running" /\ open = {} /\ gen = "running" /\ rows = {} /\ pc = "start"
  BY DEF Init
<1>8. TypeOK
  BY <1>1, <1>3, <1>4, <1>5, <1>6, <1>7 DEF TypeOK
<1>9. QED
  BY <1>2, <1>4, <1>7, <1>8 DEF TypeInv

\* The rows of a batch that is typed.
LEMMA RowType ==
  ASSUME NEW signal \in Signals
  PROVE  Row(signal) \in [item : Platform, ts : {<<>>} \cup ((1..MaxAttempts) \X Nat)]
BY DEF Row, Signals

LEMMA CollectType ==
  ASSUME TypeInv, Collect
  PROVE  TypeInv'
<1> USE SourcesAssumption
<1>1. emitted \in Seq(Signals) /\ Len(emitted) \in Nat /\ Len(emitted) # 0
  BY DEF TypeInv, TypeOK, Collect
<1>2. emitted[Len(emitted)] \in Signals
  BY <1>1
<1>3. batch' \in Seq(Signals) /\ Len(batch') = Len(batch) + 1
  BY <1>2 DEF TypeInv, TypeOK, Collect
<1>4. written' \in 0..Len(batch')
  BY <1>3 DEF TypeInv, TypeOK, Collect
<1>5. /\ pc' \in {"insert", "flush", "page"} /\ gen' \in {"running", "over", "left"}
      /\ pc' = "page" => Len(emitted) < Limit
  BY <1>1 DEF TypeInv, TypeOK, Collect, NextOrBreak
<1>6. QED
  BY <1>3, <1>4, <1>5 DEF TypeInv, TypeOK, Collect, LoopType, PCs, Before

LEMMA RunItemType ==
  ASSUME TypeInv, RunItem
  PROVE  TypeInv'
<1> USE SourcesAssumption
<1>1. CASE cancelled
  BY <1>1 DEF TypeInv, TypeOK, RunItem, LoopType, PCs, Before
<1>2. CASE ~cancelled
  <2> DEFINE next == [item |-> loop.item, scraped_at |-> <<attempt, Len(emitted) + 1>>]
  <2>1. loop.item \in Platform /\ emitted \in Seq(Signals) /\ Len(emitted) < Limit
    BY DEF TypeInv, TypeOK, RunItem, Before
  <2>2. Len(emitted) \in Nat /\ attempt \in 1..MaxAttempts
    BY DEF TypeInv, TypeOK
  <2>3. next \in Signals
    BY <2>1, <2>2 DEF Signals
  <2> HIDE DEF next
  <2>4. /\ Append(emitted, next) \in Seq(Signals)
        /\ Len(Append(emitted, next)) = Len(emitted) + 1
    BY <2>1, <2>3
  <2>5. ctx'.seen \subseteq Platform /\ ctx'.failed \subseteq ctx'.seen
    <3>1. ctx.seen \subseteq Platform /\ ctx.failed \subseteq ctx.seen
      BY DEF TypeInv, TypeOK
    <3>2. /\ ctx'.seen = ctx.seen \cup {loop.item}
          /\ ctx'.failed = ctx.failed \cup
               (IF kind[loop.item] = "raised" THEN {loop.item} ELSE {})
      BY <1>2 DEF RunItem
    <3>3. QED
      BY <2>1, <3>1, <3>2
  <2>6. \/ pc' = "emit" /\ emitted' = Append(emitted, next)
        \/ pc' = "page" /\ emitted' = emitted
    BY <1>2 DEF RunItem, next
  <2>7. /\ emitted' \in Seq(Signals) /\ Len(emitted') <= Limit
        /\ pc' = "page" => Len(emitted') < Limit
        /\ pc' = "emit" => Len(emitted') # 0
        /\ pc' \in {"emit", "page"}
    BY <2>1, <2>2, <2>4, <2>6
  <2>8. QED
    BY <2>5, <2>7 DEF TypeInv, TypeOK, RunItem, LoopType, PCs, Before
<1>3. QED
  BY <1>1, <1>2

LEMMA WriteType ==
  ASSUME TypeInv, WriteRow \/ WriteFails \/ BatchWritten \/ Flushed
  PROVE  TypeInv'
<1> USE SourcesAssumption
<1>1. CASE WriteRow
  <2>1. batch[written + 1] \in Signals
    BY <1>1 DEF TypeInv, TypeOK, WriteRow
  <2>2. Row(batch[written + 1]) \in
          [item : Platform, ts : {<<>>} \cup ((1..MaxAttempts) \X Nat)]
    BY <2>1, RowType
  <2>3. written' \in 0..Len(batch')
    BY <1>1 DEF TypeInv, TypeOK, WriteRow
  <2>4. rows' \subseteq [item : Platform, ts : {<<>>} \cup ((1..MaxAttempts) \X Nat)]
    BY <1>1, <2>2 DEF TypeInv, TypeOK, WriteRow
  <2>5. QED
    BY <1>1, <2>3, <2>4 DEF TypeInv, TypeOK, WriteRow, LoopType, PCs, Before
<1>2. CASE WriteFails
  BY <1>2 DEF TypeInv, TypeOK, WriteFails, Fails, LoopType, PCs, Before
<1>3. CASE BatchWritten
  <2>1. Len(emitted) \in Nat
    BY DEF TypeInv, TypeOK
  <2>2. /\ pc' \in {"flush", "page"} /\ gen' \in {"running", "over", "left"}
        /\ pc' = "page" => Len(emitted) < Limit
    BY <1>3, <2>1 DEF TypeInv, TypeOK, BatchWritten, NextOrBreak
  <2>3. batch' \in Seq(Signals) /\ written' \in 0..Len(batch')
    BY <1>3 DEF BatchWritten
  <2>4. QED
    BY <1>3, <2>2, <2>3 DEF TypeInv, TypeOK, BatchWritten, LoopType, PCs, Before
<1>4. CASE Flushed
  BY <1>4 DEF TypeInv, TypeOK, Flushed, LoopType, PCs, Before
<1>5. QED
  BY <1>1, <1>2, <1>3, <1>4

LEMMA TypeNext == TypeInv /\ [Next]_vars => TypeInv'
<1> USE SourcesAssumption, ScrapeAssumption
<1> SUFFICES ASSUME TypeInv, [Next]_vars PROVE TypeInv'
  OBVIOUS
<1>1. CASE Connect
  BY <1>1 DEF TypeInv, TypeOK, Connect, Fails, LoopType, PCs, Before
<1>2. CASE Setup
  BY <1>2 DEF TypeInv, TypeOK, Setup, Fails, LoopType, PCs, Before
<1>3. CASE FetchRaw
  <2>1. /\ LoopType' /\ pc \in {"request", "page"}
        /\ pc' \in {"request", "page", "item", "ended", "raised"}
        /\ pc' = "item" => loop'.item \in Platform
    BY <1>3, FetchType DEF TypeInv, FetchRaw
  <2>2. pc' \in PCs /\ (pc' = "emit" => FALSE) /\ pc \in Before
    BY <2>1 DEF PCs, Before
  <2>3. loop'.yielded \in 0..Limit /\ loop'.item \in 0..Items
    BY <2>1 DEF LoopType
  <2>4. TypeOK'
    BY <1>3, <2>2, <2>3 DEF TypeInv, TypeOK, FetchRaw, scrape
  <2>5. Len(emitted') < Limit
    BY <1>3, <2>2 DEF TypeInv, FetchRaw, scrape
  <2>6. QED
    BY <2>1, <2>2, <2>4, <2>5 DEF TypeInv, Platform
<1>4. CASE RunItem
  BY <1>4, RunItemType
<1>5. CASE Teardown
  BY <1>5 DEF TypeInv, TypeOK, Teardown, Fails, LoopType, PCs, Before
<1>6. CASE Collect
  BY <1>6, CollectType
<1>7. CASE WriteRow \/ WriteFails \/ BatchWritten \/ Flushed
  BY <1>7, WriteType
<1>8. CASE Close
  BY <1>8 DEF TypeInv, TypeOK, Close, LoopType, PCs, Before
<1>9. CASE FinishGenerator
  BY <1>9 DEF TypeInv, TypeOK, FinishGenerator, LoopType, PCs, Before
<1>10. CASE Interrupt
  BY <1>10 DEF TypeInv, TypeOK, Interrupt, LoopType, PCs, Before
<1>11. CASE Cancel
  BY <1>11 DEF TypeInv, TypeOK, Cancel, scrape, LoopType, PCs, Before
<1>12. CASE Again
  <2>1. LoopType'
    BY <1>12 DEF Again, Fresh, LoopType
  <2>2. attempt' \in 1..MaxAttempts
    BY <1>12 DEF TypeInv, TypeOK, Again
  <2>3. ctx'.seen \subseteq Platform /\ ctx'.failed \subseteq ctx'.seen
    BY <1>12 DEF Again
  <2>4. emitted' \in Seq(Signals) /\ Len(emitted') < Limit /\ Len(emitted') <= Limit
    BY <1>12 DEF Again
  <2>5. batch' \in Seq(Signals) /\ written' \in 0..Len(batch')
    BY <1>12 DEF Again
  <2>6. QED
    BY <1>12, <2>1, <2>2, <2>3, <2>4, <2>5 DEF TypeInv, TypeOK, Again, LoopType, PCs, Before
<1>13. CASE UNCHANGED vars
  BY <1>13 DEF TypeInv, TypeOK, vars, scrape, LoopType
<1>14. QED
  BY <1>1, <1>2, <1>3, <1>4, <1>5, <1>6, <1>7, <1>8, <1>9, <1>10, <1>11, <1>12, <1>13
     DEF Next, Command

LEMMA TypeAlways == Spec => []TypeInv
BY TypeInit, TypeNext, PTL DEF Spec

\* Every variable keeps its type: no adapter hands over an item the platform
\* does not have, and no command emits more signals than its limit.
THEOREM TypeCorrect == Spec => []TypeOK
<1>1. TypeInv => TypeOK
  BY DEF TypeInv
<1>2. QED
  BY <1>1, TypeAlways, PTL

-------------------------------------------------------------------------------
(* The table.                                                               *)

\* Where a signal that has been emitted is: in the table, in the part of the
\* batch not written yet, or on its way to the batch.
Kept(k) ==
  \/ Row(emitted[k]) \in rows
  \/ \E j \in (written + 1)..Len(batch) : batch[j] = emitted[k]
  \/ pc = "emit" /\ k = Len(emitted)

\* No signal is forgotten, and a command is over without an error only after
\* the flush.
StoredInv ==
  /\ ~dry_run => \A k \in 1..Len(emitted) : Kept(k)
  /\ status = "ok" => pc \in {"closing", "exited"}
  /\ status = "ok" /\ ~dry_run => written = Len(batch)

LEMMA RunItemStored ==
  ASSUME TypeInv, TypeInv', StoredInv, RunItem
  PROVE  StoredInv'
<1> USE SourcesAssumption
<1>1. status # "ok" /\ status' = status
  BY DEF StoredInv, RunItem
<1>2. SUFFICES ASSUME ~dry_run', NEW k \in 1..Len(emitted') PROVE Kept(k)'
  BY <1>1 DEF StoredInv
<1>3. /\ pc = "item" /\ rows' = rows /\ batch' = batch /\ written' = written
      /\ kind' = kind /\ dry_run' = dry_run
  BY DEF RunItem
<1>4. emitted \in Seq(Signals) /\ emitted' \in Seq(Signals)
  BY DEF TypeInv, TypeOK
<1>5. CASE k \in 1..Len(emitted) /\ emitted'[k] = emitted[k]
  <2>1. Kept(k)
    BY <1>2, <1>3, <1>5 DEF StoredInv
  <2>2. QED
    BY <1>3, <1>5, <2>1 DEF Kept, Row
<1>6. CASE pc' = "emit" /\ k = Len(emitted')
  BY <1>6 DEF Kept
<1>7. \/ emitted' = emitted
      \/ /\ pc' = "emit"
         /\ emitted' = Append(emitted, [item |-> loop.item,
                          scraped_at |-> <<attempt, Len(emitted) + 1>>])
  BY DEF RunItem
<1>8. \/ k \in 1..Len(emitted) /\ emitted'[k] = emitted[k]
      \/ pc' = "emit" /\ k = Len(emitted')
  <2>1. CASE emitted' = emitted
    BY <2>1
  <2>2. CASE emitted' # emitted
    <3> DEFINE next == [item |-> loop.item, scraped_at |-> <<attempt, Len(emitted) + 1>>]
    <3>1. pc' = "emit" /\ emitted' = Append(emitted, next)
      BY <1>7, <2>2
    <3> HIDE DEF next
    <3>2. Len(emitted') = Len(emitted) + 1
      BY <1>4, <3>1
    <3>3. k \in 1..Len(emitted) => emitted'[k] = emitted[k]
      BY <1>4, <3>1
    <3>4. QED
      BY <1>4, <3>1, <3>2, <3>3
  <2>3. QED
    BY <2>1, <2>2
<1>9. QED
  BY <1>5, <1>6, <1>8

LEMMA CollectStored ==
  ASSUME TypeInv, TypeInv', StoredInv, Collect
  PROVE  StoredInv'
<1> USE SourcesAssumption
<1>1. status # "ok" /\ status' = status
  BY DEF StoredInv, Collect
<1>2. SUFFICES ASSUME ~dry_run', NEW k \in 1..Len(emitted') PROVE Kept(k)'
  BY <1>1 DEF StoredInv
<1>3. /\ pc = "emit" /\ rows' = rows /\ written' = written /\ kind' = kind
      /\ dry_run' = dry_run /\ emitted' = emitted
      /\ batch' = Append(batch, emitted[Len(emitted)])
  BY DEF Collect
<1>4. /\ batch \in Seq(Signals) /\ emitted \in Seq(Signals) /\ written \in 0..Len(batch)
      /\ Len(emitted) \in Nat /\ Len(emitted) # 0
  BY DEF TypeInv, TypeOK, Collect
<1>5. emitted[Len(emitted)] \in Signals
  BY <1>4
<1>6. /\ Len(batch') = Len(batch) + 1 /\ batch'[Len(batch) + 1] = emitted[Len(emitted)]
      /\ \A j \in 1..Len(batch) : batch'[j] = batch[j]
  BY <1>3, <1>4, <1>5
<1>7. Kept(k)
  BY <1>2, <1>3 DEF StoredInv
<1>8. CASE Row(emitted[k]) \in rows
  BY <1>3, <1>8 DEF Kept, Row
<1>9. CASE \E j \in (written + 1)..Len(batch) : batch[j] = emitted[k]
  <2>1. PICK j \in (written + 1)..Len(batch) : batch[j] = emitted[k]
    BY <1>9
  <2>2. j \in (written' + 1)..Len(batch') /\ batch'[j] = emitted'[k]
    BY <1>3, <1>4, <1>6, <2>1
  <2>3. QED
    BY <2>2 DEF Kept
<1>10. CASE k = Len(emitted)
  <2>1. Len(batch) + 1 \in (written' + 1)..Len(batch')
    BY <1>3, <1>4, <1>6
  <2>2. batch'[Len(batch) + 1] = emitted'[k]
    BY <1>3, <1>6, <1>10
  <2>3. QED
    BY <2>1, <2>2 DEF Kept
<1>11. QED
  BY <1>7, <1>8, <1>9, <1>10 DEF Kept

LEMMA WriteRowStored ==
  ASSUME TypeInv, TypeInv', StoredInv, WriteRow
  PROVE  StoredInv'
<1>1. status # "ok" /\ status' = status
  BY DEF StoredInv, WriteRow
<1>2. SUFFICES ASSUME ~dry_run', NEW k \in 1..Len(emitted') PROVE Kept(k)'
  BY <1>1 DEF StoredInv
<1>3. /\ pc \in {"insert", "flush"} /\ rows' = rows \cup {Row(batch[written + 1])}
      /\ written' = written + 1 /\ kind' = kind /\ batch' = batch
      /\ dry_run' = dry_run /\ emitted' = emitted
  BY DEF WriteRow
<1>4. written \in 0..Len(batch) /\ Len(batch) \in Nat
  BY DEF TypeInv, TypeOK
<1>5. Kept(k)
  BY <1>2, <1>3 DEF StoredInv
<1>6. CASE Row(emitted[k]) \in rows
  BY <1>3, <1>6 DEF Kept, Row
<1>7. CASE \E j \in (written + 1)..Len(batch) : batch[j] = emitted[k]
  <2>1. PICK j \in (written + 1)..Len(batch) : batch[j] = emitted[k]
    BY <1>7
  <2>2. CASE j = written + 1
    <3>1. Row(emitted[k]) \in rows'
      BY <1>3, <2>1, <2>2 DEF Row
    <3>2. QED
      BY <1>3, <3>1 DEF Kept, Row
  <2>3. CASE j # written + 1
    <3>1. j \in (written' + 1)..Len(batch') /\ batch'[j] = emitted'[k]
      BY <1>3, <1>4, <2>1, <2>3
    <3>2. QED
      BY <3>1 DEF Kept
  <2>4. QED
    BY <2>2, <2>3
<1>8. QED
  BY <1>3, <1>5, <1>6, <1>7 DEF Kept

LEMMA BatchWrittenStored ==
  ASSUME TypeInv, TypeInv', StoredInv, BatchWritten
  PROVE  StoredInv'
<1>1. status # "ok" /\ status' = status
  BY DEF StoredInv, BatchWritten
<1>2. SUFFICES ASSUME ~dry_run', NEW k \in 1..Len(emitted') PROVE Kept(k)'
  BY <1>1 DEF StoredInv
<1>3. /\ pc = "insert" /\ written = Len(batch) /\ rows' = rows /\ kind' = kind
      /\ dry_run' = dry_run /\ emitted' = emitted /\ Len(batch) \in Nat
  BY DEF TypeInv, TypeOK, BatchWritten
<1>4. Kept(k)
  BY <1>2, <1>3 DEF StoredInv
<1>5. Row(emitted[k]) \in rows
  BY <1>3, <1>4 DEF Kept
<1>6. QED
  BY <1>3, <1>5 DEF Kept, Row

\* A step that leaves the signals where they are.
LEMMA KeptStays ==
  ASSUME StoredInv, pc # "emit",
         UNCHANGED <<kind, dry_run, emitted, batch, written, rows>>
  PROVE  ~dry_run' => \A k \in 1..Len(emitted') : Kept(k)'
BY DEF StoredInv, Kept, Row

LEMMA StoredNext ==
  ASSUME TypeInv, TypeInv', StoredInv, [Next]_vars
  PROVE  StoredInv'
<1>1. CASE Connect \/ Setup \/ Teardown
  <2>1. /\ pc \in {"start", "setup", "ended", "raised"} /\ status' \in {status, "failed"}
        /\ UNCHANGED <<kind, dry_run, emitted, batch, written, rows>>
    BY <1>1 DEF Connect, Setup, Teardown, Fails
  <2>2. status' # "ok"
    BY <2>1 DEF StoredInv
  <2>3. QED
    BY <2>1, <2>2, KeptStays DEF StoredInv
<1>2. CASE FetchRaw
  <2>1. /\ pc \in {"request", "page"} /\ status' = status
        /\ UNCHANGED <<kind, dry_run, emitted, batch, written, rows>>
    BY <1>2, FetchType DEF FetchRaw, scrape, TypeInv
  <2>2. status' # "ok"
    BY <2>1 DEF StoredInv
  <2>3. QED
    BY <2>1, <2>2, KeptStays DEF StoredInv
<1>3. CASE RunItem
  BY <1>3, RunItemStored
<1>4. CASE Collect
  BY <1>4, CollectStored
<1>5. CASE WriteRow
  BY <1>5, WriteRowStored
<1>6. CASE WriteFails
  <2>1. /\ pc # "emit" /\ status' = "failed"
        /\ UNCHANGED <<kind, dry_run, emitted, batch, written, rows>>
    BY <1>6 DEF WriteFails, Fails
  <2>2. QED
    BY <2>1, KeptStays DEF StoredInv
<1>7. CASE BatchWritten
  BY <1>7, BatchWrittenStored
<1>8. CASE Flushed
  <2>1. /\ pc # "emit" /\ pc' = "closing"
        /\ dry_run \/ written = Len(batch)
        /\ UNCHANGED <<kind, dry_run, emitted, batch, written, rows>>
    BY <1>8 DEF Flushed
  <2>2. QED
    BY <2>1, KeptStays DEF StoredInv
<1>9. CASE Close \/ Interrupt
  <2>1. /\ pc # "emit" /\ pc' \in {"closing", "exited"}
        /\ status' \in {status, "failed"}
        /\ UNCHANGED <<kind, dry_run, emitted, batch, written, rows>>
    BY <1>9 DEF Close, Interrupt
  <2>2. QED
    BY <2>1, KeptStays DEF StoredInv
<1>10. CASE FinishGenerator \/ Cancel
  <2>1. UNCHANGED <<kind, dry_run, emitted, batch, written, rows, pc, status>>
    BY <1>10 DEF FinishGenerator, Cancel, scrape
  <2>2. QED
    BY <2>1 DEF StoredInv, Kept, Row
<1>11. CASE Again
  <2>1. emitted' = <<>> /\ status' = "running"
    BY <1>11 DEF Again
  <2>2. QED
    BY <2>1 DEF StoredInv
<1>12. CASE UNCHANGED vars
  BY <1>12 DEF StoredInv, Kept, Row, vars, scrape
<1>13. QED
  BY <1>1, <1>2, <1>3, <1>4, <1>5, <1>6, <1>7, <1>8, <1>9, <1>10, <1>11, <1>12
     DEF Next, Command

\* A command that ends without an error has stored all it has emitted,
\* whatever the size of the batches and wherever the limit falls in one.
THEOREM SuccessStoredCorrect == Spec => []SuccessStored
<1>1. Init => StoredInv
  BY DEF Init, StoredInv
<1>2. TypeInv /\ TypeInv' /\ StoredInv /\ [Next]_vars => StoredInv'
  BY StoredNext
<1>3. TypeInv /\ StoredInv => SuccessStored
  <2> SUFFICES ASSUME TypeInv, StoredInv, status = "ok", ~dry_run,
                      NEW k \in 1..Len(emitted)
               PROVE  Row(emitted[k]) \in rows
    BY DEF SuccessStored
  <2>1. Kept(k) /\ pc # "emit" /\ written = Len(batch) /\ Len(batch) \in Nat
    BY DEF StoredInv, TypeInv, TypeOK
  <2>2. QED
    BY <2>1 DEF Kept
<1>4. QED
  BY <1>1, <1>2, <1>3, TypeAlways, PTL DEF Spec

-------------------------------------------------------------------------------
(* What a command leaves open.                                              *)

\* The client is open after the loop only when it was broken out of, and the
\* command closes the pool and the cache or reports a failure.
ClosingInv ==
  /\ status = "ok" => pc \in {"closing", "exited"}
  /\ pc = "flush" \/ status = "ok" => ("client" \in open => gen = "left")
  /\ pc = "exited" /\ status = "ok" => open \subseteq {"client"}

LEMMA ClosingNext ==
  ASSUME TypeInv, ClosingInv, [Next]_vars
  PROVE  ClosingInv'
<1>1. CASE Connect \/ Setup
  <2>1. pc \in {"start", "setup"} /\ pc' \in {"setup", "request", "closing"}
        /\ status' \in {status, "failed"}
    BY <1>1 DEF Connect, Setup, Fails
  <2>2. QED
    BY <2>1 DEF ClosingInv
<1>2. CASE FetchRaw
  <2>1. /\ pc \in {"request", "page"} /\ status' = status
        /\ pc' \in {"request", "page", "item", "ended", "raised"}
    BY <1>2, FetchType DEF FetchRaw, scrape, TypeInv
  <2>2. QED
    BY <2>1 DEF ClosingInv
<1>3. CASE RunItem
  BY <1>3 DEF ClosingInv, RunItem
<1>4. CASE Teardown
  BY <1>4 DEF ClosingInv, Teardown, Fails
<1>5. CASE Collect \/ BatchWritten
  BY <1>5 DEF ClosingInv, Collect, BatchWritten, NextOrBreak
<1>6. CASE WriteRow \/ WriteFails \/ Flushed
  BY <1>6 DEF ClosingInv, WriteRow, WriteFails, Fails, Flushed
<1>7. CASE Close
  <2>1. open \subseteq {"pool", "cache", "client"} /\ pc = "closing" /\ pc' = "exited"
        /\ gen' = gen
    BY <1>7 DEF Close, TypeInv, TypeOK
  <2>2. CASE status' = "failed"
    BY <2>1, <2>2 DEF ClosingInv
  <2>3. CASE open' = open \ {"cache", "pool"} /\ status' = status
    BY <2>1, <2>3 DEF ClosingInv
  <2>4. QED
    BY <1>7, <2>2, <2>3 DEF Close
<1>8. CASE FinishGenerator
  BY <1>8 DEF ClosingInv, FinishGenerator
<1>9. CASE Interrupt \/ Again
  BY <1>9 DEF ClosingInv, Interrupt, Again
<1>10. CASE Cancel \/ UNCHANGED vars
  BY <1>10 DEF ClosingInv, Cancel, vars, scrape
<1>11. QED
  BY <1>1, <1>2, <1>3, <1>4, <1>5, <1>6, <1>7, <1>8, <1>9, <1>10 DEF Next, Command

\* Whatever ended the loop, a command that reports success has closed what it
\* opened, but for the client of a generator it broke out of (SourceAdapter.run,
\* _scrape_async).
THEOREM ClosesUpCorrect == Spec => []ClosesUp
<1>1. Init => ClosingInv
  BY DEF Init, ClosingInv
<1>2. TypeInv /\ ClosingInv /\ [Next]_vars => ClosingInv'
  BY ClosingNext
<1>3. ClosingInv => ClosesUp
  <2> SUFFICES ASSUME ClosingInv, pc = "exited", status = "ok"
               PROVE  open = {} \/ (open = {"client"} /\ gen = "left")
    BY DEF ClosesUp
  <2>1. open \subseteq {"client"} /\ ("client" \in open => gen = "left")
    BY DEF ClosingInv
  <2>2. QED
    BY <2>1
<1>4. QED
  BY <1>1, <1>2, <1>3, TypeAlways, PTL DEF Spec

-------------------------------------------------------------------------------
(* When an adapter asks.                                                    *)

\* A page is asked for only after one that promises more, and the adapters that
\* ask once do.
AskingInv ==
  /\ pc \in {"start", "setup", "request"} => loop.more
  /\ pc \in {"start", "setup"} => loop.at = 0
  /\ source \in {"instagram", "github_trending"} /\ loop.more => loop.at = 0

LEMMA FetchAsking ==
  ASSUME LoopType, AskingInv, Fetch, source' = source
  PROVE  AskingInv'
<1> DEFINE Once == {"instagram", "github_trending"}
<1>1. /\ LoopType' /\ pc' \notin {"start", "setup"}
      /\ pc = "request" => loop.more
      /\ source \in Once /\ loop.more => loop.at = 0
  BY FetchType DEF AskingInv
<1>2. ASSUME pc' = "request" => loop'.more, source \notin Once
      PROVE  AskingInv'
  BY <1>1, <1>2 DEF AskingInv
<1>3. ASSUME pc' # "request", loop'.more => loop'.at = 0
      PROVE  AskingInv'
  BY <1>1, <1>3 DEF AskingInv
<1>4. CASE HackerNewsRequest \/ YouTubeRequest \/ PinterestRequest \/ NitterRequest
  <2>1. pc' # "request" /\ source \notin Once
    BY <1>4 DEF HackerNewsRequest, YouTubeRequest, PinterestRequest, NitterRequest,
                Requesting, Ends, Raises, Receive
  <2>2. QED
    BY <1>2, <2>1
<1>5. CASE RedditRequest \/ CommentsRaise \/ GoogleTrendsRequest \/ MalformedItem
  <2>1. pc' # "request" /\ source \notin Once
    BY <1>5 DEF RedditRequest, CommentsRaise, GoogleTrendsRequest, MalformedItem,
                Requesting, Ends, Raises, Receive
  <2>2. QED
    BY <1>2, <2>1
<1>6. CASE TikTokRequest \/ AmazonRequest \/ RedditRSSRequest
  <2>1. pc = "request" /\ source \notin Once
    BY <1>6 DEF TikTokRequest, AmazonRequest, RedditRSSRequest, Requesting
  <2>2. pc' # "request" \/ loop'.more = loop.more
    BY <1>6 DEF TikTokRequest, AmazonRequest, RedditRSSRequest, Ends, Raises, Receive,
                SkipTo, LoopType
  <2>3. QED
    BY <1>1, <1>2, <2>1, <2>2
<1>7. CASE GitHubRequest \/ InstagramRequest
  <2>1. pc = "request" /\ source \in Once
    BY <1>7 DEF GitHubRequest, InstagramRequest, Requesting
  <2>2. \/ pc' = "ended" /\ loop' = loop
        \/ pc' = "page" /\ loop'.more = FALSE
    BY <1>7 DEF GitHubRequest, InstagramRequest, Ends, Receive, LoopType
  <2>3. QED
    BY <1>1, <1>3, <2>1, <2>2
<1>8. CASE YieldItem \/ StopInPage
  <2>1. pc' # "request" /\ loop'.more = loop.more /\ loop'.at = loop.at
    BY <1>8 DEF YieldItem, StopInPage, Ends, LoopType
  <2>2. QED
    BY <1>1, <2>1 DEF AskingInv
<1>9. CASE PageDone
  <2>1. /\ loop'.more = loop.more /\ loop'.at = loop.at
        /\ pc' = "request" => loop.more
    BY <1>9 DEF PageDone, SkipTo, Ends, LoopType
  <2>2. QED
    BY <1>1, <2>1 DEF AskingInv
<1>10. QED
  BY <1>4, <1>5, <1>6, <1>7, <1>8, <1>9 DEF Fetch

LEMMA AskingInit == Init => AskingInv
BY DEF Init, Fresh, AskingInv

LEMMA AskingNext ==
  ASSUME TypeInv, AskingInv, [Next]_vars
  PROVE  AskingInv'
<1>1. CASE FetchRaw
  BY <1>1, FetchAsking DEF FetchRaw, TypeInv
<1>2. CASE Connect \/ Setup
  BY <1>2 DEF AskingInv, Connect, Setup, Fails
<1>3. CASE Again
  BY <1>3 DEF AskingInv, Again, Fresh
<1>4. ASSUME UNCHANGED <<source, loop>>,
             pc' \in {"start", "setup", "request"} => pc' = pc
      PROVE  AskingInv'
  BY <1>4 DEF AskingInv
<1>5. CASE RunItem \/ Teardown \/ Collect
  BY <1>4, <1>5 DEF RunItem, Teardown, Fails, Collect, NextOrBreak
<1>6. CASE WriteRow \/ WriteFails \/ BatchWritten \/ Flushed \/ Close
  BY <1>4, <1>6 DEF WriteRow, WriteFails, Fails, BatchWritten, NextOrBreak, Flushed, Close
<1>7. CASE FinishGenerator \/ Interrupt \/ Cancel \/ UNCHANGED vars
  BY <1>4, <1>7 DEF FinishGenerator, Interrupt, Cancel, vars, scrape
<1>8. QED
  BY <1>1, <1>2, <1>3, <1>5, <1>6, <1>7 DEF Next, Command

-------------------------------------------------------------------------------
(* Every command ends: what RunEnds needs besides fairness.                 *)

\* Where the command is, the later the lower. A page that is used up comes
\* before the next request, a page with items on it after the request for it.
Rank ==
  CASE pc = "start" -> 12
    [] pc = "setup" -> 11
    [] pc = "item" -> 10
    [] pc = "emit" -> 9
    [] pc = "insert" -> 8
    [] pc = "page" /\ loop.hits = <<>> -> 7
    [] pc = "request" -> 6
    [] pc = "page" /\ loop.hits # <<>> -> 5
    [] pc \in {"ended", "raised"} -> 4
    [] pc = "flush" -> 3
    [] pc = "closing" -> 2
    [] OTHER -> 1

\* The targets still to be asked for, of adapters that go on to the next one
\* when a page is empty.
TargetsLeft ==
  CASE source \in {"amazon", "reddit_rss"} -> IF loop.at < Items THEN Items - loop.at ELSE 0
    [] source \in {"tiktok", "google_trends"} ->
         IF ~loop.more THEN 0 ELSE IF loop.at = 0 THEN 2 ELSE 1
    [] source \in {"github_trending", "instagram"} -> IF loop.more THEN 1 ELSE 0
    [] OTHER -> 0

\* reddit counts submissions against its limit and not their comments.
CommentsLeft == IF source = "reddit" THEN Len(loop.hits) ELSE 0

Measure == <<Limit - loop.yielded, TargetsLeft, CommentsLeft, Rank, Len(batch) - written>>

Lower(m, n) == \E j \in 1..5 : m[j] < n[j] /\ \A i \in 1..(j - 1) : m[i] = n[i]

\* Every step of a command, and its interruption, lowers the measure; what may
\* happen beside it leaves the measure as it is.
Advances ==
  [][/\ Command \/ Interrupt => Lower(Measure', Measure)
     /\ FinishGenerator \/ Cancel => Measure' = Measure]_vars

\* No sequence of measures is lowered for ever.
THEOREM MeasureWellFounded ==
  ~ \E f \in [Nat -> [1..5 -> Nat]] : \A n \in Nat : Lower(f[n + 1], f[n])
<1> DEFINE Less == OpToRel(<, Nat)
           Order == LexProductOrdering(Less, Nat, 5)
<1>1. IsWellFoundedOn(Order, [1..5 -> Nat])
  BY NatLessThanWellFounded, WFLexProductOrdering, 5 \in Nat
<1>2. ASSUME NEW m \in [1..5 -> Nat], NEW n \in [1..5 -> Nat], Lower(m, n)
      PROVE  <<m, n>> \in Order
  <2>1. PICK j \in 1..5 : m[j] < n[j] /\ \A i \in 1..(j - 1) : m[i] = n[i]
    BY <1>2 DEF Lower
  <2>2. <<m[j], n[j]>> \in Less
    BY <2>1 DEF OpToRel
  <2> HIDE DEF Less
  <2>3. QED
    BY <2>1, <2>2 DEF LexProductOrdering
<1> HIDE DEF Order
<1>3. SUFFICES ASSUME NEW f \in [Nat -> [1..5 -> Nat]],
                      \A n \in Nat : Lower(f[n + 1], f[n])
               PROVE  FALSE
  OBVIOUS
<1>4. ASSUME NEW n \in Nat PROVE <<f[n + 1], f[n]>> \in Order
  <2>1. f[n] \in [1..5 -> Nat] /\ f[n + 1] \in [1..5 -> Nat] /\ Lower(f[n + 1], f[n])
    BY <1>3
  <2>2. QED
    BY <1>2, <2>1
<1>5. QED
  BY <1>1, <1>3, <1>4 DEF IsWellFoundedOn

LEMMA LowerFrom ==
  ASSUME NEW a \in Nat, NEW b \in Nat, NEW c \in Nat, NEW d \in Nat, NEW e \in Nat,
         NEW a1 \in Nat, NEW b1 \in Nat, NEW c1 \in Nat, NEW d1 \in Nat, NEW e1 \in Nat,
         \/ a1 < a
         \/ a1 = a /\ b1 < b
         \/ a1 = a /\ b1 = b /\ c1 < c
         \/ a1 = a /\ b1 = b /\ c1 = c /\ d1 < d
         \/ a1 = a /\ b1 = b /\ c1 = c /\ d1 = d /\ e1 < e
  PROVE  Lower(<<a1, b1, c1, d1, e1>>, <<a, b, c, d, e>>)
<1> DEFINE m == <<a1, b1, c1, d1, e1>>
           n == <<a, b, c, d, e>>
<1>1. \E j \in 1..5 : m[j] < n[j] /\ \A i \in 1..(j - 1) : m[i] = n[i]
  <2>1. CASE a1 < a
    <3>1. m[1] < n[1] /\ \A i \in 1..(1 - 1) : m[i] = n[i]
      BY <2>1
    <3>2. QED
      BY <3>1
  <2>2. CASE a1 = a /\ b1 < b
    <3>1. m[2] < n[2] /\ \A i \in 1..(2 - 1) : m[i] = n[i]
      BY <2>2
    <3>2. QED
      BY <3>1
  <2>3. CASE a1 = a /\ b1 = b /\ c1 < c
    <3>1. m[3] < n[3] /\ \A i \in 1..(3 - 1) : m[i] = n[i]
      BY <2>3
    <3>2. QED
      BY <3>1
  <2>4. CASE a1 = a /\ b1 = b /\ c1 = c /\ d1 < d
    <3>1. m[4] < n[4] /\ \A i \in 1..(4 - 1) : m[i] = n[i]
      BY <2>4
    <3>2. QED
      BY <3>1
  <2>5. CASE a1 = a /\ b1 = b /\ c1 = c /\ d1 = d /\ e1 < e
    <3>1. m[5] < n[5] /\ \A i \in 1..(5 - 1) : m[i] = n[i]
      BY <2>5
    <3>2. QED
      BY <3>1
  <2>6. QED
    BY <2>1, <2>2, <2>3, <2>4, <2>5
<1>2. QED
  BY <1>1 DEF Lower

Counts ==
  /\ Limit - loop.yielded \in Nat /\ TargetsLeft \in Nat /\ CommentsLeft \in Nat
  /\ Rank \in 1..12 /\ Len(batch) - written \in Nat

LEMMA MeasureType == TypeInv => Counts
<1> USE SourcesAssumption
<1> SUFFICES ASSUME TypeInv PROVE Counts
  OBVIOUS
<1>1. /\ loop.yielded \in 0..Limit /\ loop.at \in Nat /\ loop.hits \in Seq(Platform)
      /\ loop.more \in BOOLEAN
  BY DEF TypeInv, LoopType
<1>2. batch \in Seq(Signals) /\ written \in 0..Len(batch)
  BY DEF TypeInv, TypeOK
<1>3. Limit - loop.yielded \in Nat
  BY <1>1
<1>4. TargetsLeft \in Nat
  BY <1>1 DEF TargetsLeft
<1>5. CommentsLeft \in Nat
  BY <1>1 DEF CommentsLeft
<1>6. Rank \in 1..12
  BY DEF Rank
<1>7. Len(batch) - written \in Nat
  BY <1>2
<1>8. QED
  BY <1>3, <1>4, <1>5, <1>6, <1>7 DEF Counts

\* What is to be shown of a step: it goes on in the loop, or towards the end of
\* the command, or writes.
LEMMA MeasureLower ==
  ASSUME TypeInv, TypeInv',
         \/ loop'.yielded > loop.yielded
         \/ loop'.yielded = loop.yielded /\ TargetsLeft' < TargetsLeft
         \/ loop'.yielded = loop.yielded /\ TargetsLeft' = TargetsLeft
              /\ CommentsLeft' < CommentsLeft
         \/ loop'.yielded = loop.yielded /\ TargetsLeft' = TargetsLeft
              /\ CommentsLeft' = CommentsLeft /\ Rank' < Rank
         \/ loop'.yielded = loop.yielded /\ TargetsLeft' = TargetsLeft
              /\ CommentsLeft' = CommentsLeft /\ Rank' = Rank
              /\ Len(batch') - written' < Len(batch) - written
  PROVE  Lower(Measure', Measure)
<1> USE SourcesAssumption
<1> DEFINE a == Limit - loop.yielded
           a1 == Limit - loop'.yielded
           e == Len(batch) - written
           e1 == Len(batch') - written'
<1>1. /\ a \in Nat /\ TargetsLeft \in Nat /\ CommentsLeft \in Nat /\ Rank \in 1..12
      /\ e \in Nat
  BY MeasureType DEF Counts
<1>2. /\ a1 \in Nat /\ TargetsLeft' \in Nat /\ CommentsLeft' \in Nat /\ Rank' \in 1..12
      /\ e1 \in Nat
  <2>1. TypeInv' => Counts'
    BY MeasureType, PTL
  <2>2. QED
    BY <2>1 DEF Counts
<1>3. loop.yielded \in 0..Limit /\ loop'.yielded \in 0..Limit
  BY DEF TypeInv, LoopType
<1>4. \/ a1 < a
      \/ a1 = a /\ TargetsLeft' < TargetsLeft
      \/ a1 = a /\ TargetsLeft' = TargetsLeft /\ CommentsLeft' < CommentsLeft
      \/ a1 = a /\ TargetsLeft' = TargetsLeft /\ CommentsLeft' = CommentsLeft
           /\ Rank' < Rank
      \/ a1 = a /\ TargetsLeft' = TargetsLeft /\ CommentsLeft' = CommentsLeft
           /\ Rank' = Rank /\ e1 < e
  BY <1>3
<1>5. Rank \in Nat /\ Rank' \in Nat
  BY <1>1, <1>2
<1>6. Lower(<<a1, TargetsLeft', CommentsLeft', Rank', e1>>,
            <<a, TargetsLeft, CommentsLeft, Rank, e>>)
  BY <1>1, <1>2, <1>4, <1>5, LowerFrom
<1>7. QED
  BY <1>6 DEF Measure

\* A step that does not touch the loop of the adapter.
LEMMA RankLower ==
  ASSUME TypeInv, TypeInv', UNCHANGED <<source, loop>>, Rank' < Rank
  PROVE  Lower(Measure', Measure)
BY MeasureLower DEF TargetsLeft, CommentsLeft

\* A page is received: the last target is behind, or the page is not empty.
LEMMA ReceiveLower ==
  ASSUME TypeInv, TypeInv', NEW hits \in Seq(Platform), NEW more \in BOOLEAN,
         NEW next \in Nat, pc = "request", Receive(hits, more, next), source' = source,
         source # "reddit",
         \/ TargetsLeft' < TargetsLeft
         \/ TargetsLeft' = TargetsLeft /\ hits # <<>>
  PROVE  Lower(Measure', Measure)
<1>1. /\ pc' = "page" /\ loop'.hits = hits /\ loop'.yielded = loop.yielded
  BY DEF Receive, TypeInv, LoopType
<1>2. CommentsLeft = 0 /\ CommentsLeft' = 0
  BY DEF CommentsLeft
<1>3. hits # <<>> => Rank = 6 /\ Rank' = 5
  BY <1>1 DEF Rank
<1>4. QED
  BY <1>1, <1>2, <1>3, MeasureLower

LEMMA FetchLower ==
  ASSUME TypeInv, TypeInv', AskingInv, FetchRaw
  PROVE  Lower(Measure', Measure)
<1> USE SourcesAssumption
<1> DEFINE Asked == Least(PageSize, Remaining)
<1>1. /\ loop.at \in Nat /\ loop.item \in Nat /\ loop.yielded \in 0..Limit
      /\ loop.hits \in Seq(Platform) /\ loop.more \in BOOLEAN
      /\ LoopType /\ LoopType'
  BY DEF TypeInv, LoopType
<1>2. Fetch /\ source' = source /\ UNCHANGED <<batch, written>>
  BY DEF FetchRaw, scrape
<1>3. Asked \in Nat /\ loop.at * Asked \in Nat /\ loop.at + 1 \in Nat
  BY <1>1 DEF Least, Remaining
<1>4. \A pos, size \in Nat : Page(pos, size) \in Seq(Platform)
  BY PageType
<1>5. ASSUME Ends \/ Raises, pc \in {"request", "page"}
      PROVE  Lower(Measure', Measure)
  <2>1. Rank' = 4 /\ Rank \in {5, 6, 7} /\ UNCHANGED <<source, loop>>
    BY <1>2, <1>5 DEF Ends, Raises, Rank
  <2>2. QED
    BY <2>1, RankLower
<1>6. ASSUME NEW next \in Nat, SkipTo(next), pc = "request", source # "reddit",
             TargetsLeft' < TargetsLeft
      PROVE  Lower(Measure', Measure)
  <2>1. loop'.yielded = loop.yielded
    BY <1>1, <1>6 DEF SkipTo, LoopType
  <2>2. QED
    BY <1>6, <2>1, MeasureLower
<1>7. CASE HackerNewsRequest
  <2>1. source = "hacker_news" /\ pc = "request" /\ TargetsLeft = 0 /\ TargetsLeft' = 0
    BY <1>2, <1>7 DEF HackerNewsRequest, Requesting, TargetsLeft
  <2> DEFINE hits(moved) == Page(loop.at * Asked - moved, Asked)
             more(moved) == Len(hits(moved)) = Asked
  <2>2. \A moved \in 0..(loop.at * Asked) :
          hits(moved) \in Seq(Platform) /\ more(moved) \in BOOLEAN
    <3> SUFFICES ASSUME NEW moved \in 0..(loop.at * Asked)
                 PROVE  hits(moved) \in Seq(Platform)
      OBVIOUS
    <3>1. loop.at * Asked - moved \in Nat
      BY <1>3
    <3>2. QED
      BY <1>3, <1>4, <3>1
  <2>3. \/ Ends \/ Raises
        \/ \E moved \in 0..(loop.at * Asked) :
             hits(moved) # <<>> /\ Receive(hits(moved), more(moved), loop.at + 1)
    BY <1>7 DEF HackerNewsRequest
  <2> HIDE DEF hits, more
  <2>4. CASE \E moved \in 0..(loop.at * Asked) :
               hits(moved) # <<>> /\ Receive(hits(moved), more(moved), loop.at + 1)
    <3>1. PICK moved \in 0..(loop.at * Asked) :
            hits(moved) # <<>> /\ Receive(hits(moved), more(moved), loop.at + 1)
      BY <2>4
    <3>2. TargetsLeft' = TargetsLeft /\ source # "reddit"
      BY <2>1
    <3>3. hits(moved) \in Seq(Platform) /\ more(moved) \in BOOLEAN
      BY <2>2
    <3>4. QED
      BY <1>2, <1>3, <2>1, <3>1, <3>2, <3>3, ReceiveLower
  <2>5. QED
    BY <1>5, <2>1, <2>3, <2>4
<1>8. CASE YouTubeRequest
  <2>1. source = "youtube" /\ pc = "request" /\ TargetsLeft = 0 /\ TargetsLeft' = 0
    BY <1>2, <1>8 DEF YouTubeRequest, Requesting, TargetsLeft
  <2> DEFINE hits(first) == Page(first, Asked)
  <2>2. \A first \in 0..Items : hits(first) \in Seq(Platform)
    BY <1>3, <1>4
  <2>3. \/ Ends
        \/ \E first \in 0..Items, token \in BOOLEAN :
             hits(first) # <<>> /\ Receive(hits(first), token, loop.at)
    BY <1>8 DEF YouTubeRequest
  <2> HIDE DEF hits
  <2>4. CASE \E first \in 0..Items, token \in BOOLEAN :
               hits(first) # <<>> /\ Receive(hits(first), token, loop.at)
    <3>1. PICK first \in 0..Items, token \in BOOLEAN :
            hits(first) # <<>> /\ Receive(hits(first), token, loop.at)
      BY <2>4
    <3>2. hits(first) \in Seq(Platform)
      BY <2>2
    <3>3. QED
      BY <1>1, <1>2, <2>1, <3>1, <3>2, ReceiveLower
  <2>5. QED
    BY <1>5, <2>1, <2>3, <2>4
<1>9. CASE PinterestRequest
  <2>1. source = "pinterest" /\ pc = "request" /\ TargetsLeft = 0 /\ TargetsLeft' = 0
    BY <1>2, <1>9 DEF PinterestRequest, Requesting, TargetsLeft
  <2> DEFINE hits == Page(loop.at, Asked)
  <2>2. hits \in Seq(Platform)
    BY <1>1, <1>3, <1>4
  <2>3. \/ Ends \/ Raises
        \/ hits # <<>> /\ \E bookmark \in 0..Items, some \in BOOLEAN :
                            Receive(hits, some /\ bookmark # loop.at, bookmark)
    BY <1>9 DEF PinterestRequest
  <2> HIDE DEF hits
  <2>4. CASE hits # <<>> /\ \E bookmark \in 0..Items, some \in BOOLEAN :
                              Receive(hits, some /\ bookmark # loop.at, bookmark)
    <3>1. PICK bookmark \in 0..Items, some \in BOOLEAN :
            Receive(hits, some /\ bookmark # loop.at, bookmark)
      BY <2>4
    <3>2. bookmark \in Nat /\ (some /\ bookmark # loop.at) \in BOOLEAN
      BY <3>1
    <3>3. QED
      BY <1>2, <2>1, <2>2, <2>4, <3>1, <3>2, ReceiveLower
  <2>5. QED
    BY <1>5, <2>1, <2>3, <2>4
<1>10. CASE NitterRequest
  <2>1. source = "nitter" /\ pc = "request" /\ TargetsLeft = 0 /\ TargetsLeft' = 0
    BY <1>2, <1>10 DEF NitterRequest, Requesting, TargetsLeft
  <2> DEFINE hits == Page(loop.at, PageSize)
  <2>2. hits \in Seq(Platform)
    BY <1>1, <1>4
  <2>3. \/ Ends
        \/ hits # <<>> /\ \E cursor \in 0..Items, some \in BOOLEAN :
                            Receive(hits, some, cursor)
    BY <1>10 DEF NitterRequest
  <2> HIDE DEF hits
  <2>4. CASE hits # <<>> /\ \E cursor \in 0..Items, some \in BOOLEAN :
                              Receive(hits, some, cursor)
    <3>1. PICK cursor \in 0..Items, some \in BOOLEAN : Receive(hits, some, cursor)
      BY <2>4
    <3>2. cursor \in Nat
      BY <3>1
    <3>3. QED
      BY <1>2, <2>1, <2>2, <2>4, <3>1, <3>2, ReceiveLower
  <2>5. QED
    BY <1>5, <2>1, <2>3, <2>4
<1>11. CASE RedditRequest
  <2>1. pc = "request"
    BY <1>11 DEF RedditRequest, Requesting
  <2>2. CASE Ends \/ Raises
    BY <1>5, <2>1, <2>2
  <2>3. CASE ~ (Ends \/ Raises)
    <3>1. loop'.yielded = loop.yielded + 1
      BY <1>1, <1>11, <2>3 DEF RedditRequest, LoopType
    <3>2. loop'.yielded > loop.yielded
      BY <1>1, <3>1
    <3>3. QED
      BY <3>2, MeasureLower
  <2>4. QED
    BY <2>2, <2>3
<1>12. CASE CommentsRaise \/ MalformedItem
  BY <1>5, <1>12 DEF CommentsRaise, MalformedItem
<1>13. CASE TikTokRequest
  <2> DEFINE half == Items \div 2
             hits == IF loop.at = 0 THEN Page(0, Least(half, Least(PageSize, Limit)))
                     ELSE Page(half, Asked)
             more == loop.at = 0
  <2>1. source = "tiktok" /\ pc = "request" /\ half \in Nat
    BY <1>13 DEF TikTokRequest, Requesting
  <2>2. hits \in Seq(Platform) /\ more \in BOOLEAN
    BY <1>3, <1>4, <2>1 DEF Least
  <2>3. loop.more
    BY <2>1 DEF AskingInv
  <2>4. Ends \/ Raises \/ (loop.at = 0 /\ SkipTo(1)) \/ Receive(hits, more, 1)
    BY <1>13 DEF TikTokRequest
  <2>5. ASSUME loop.at = 0, SkipTo(1) PROVE TargetsLeft' < TargetsLeft
    BY <1>1, <1>2, <2>1, <2>3, <2>5 DEF SkipTo, LoopType, TargetsLeft
  <2> HIDE DEF hits
  <2>6. ASSUME Receive(hits, more, 1) PROVE TargetsLeft' < TargetsLeft
    <3>1. loop'.more = more /\ loop'.at = 1
      BY <1>1, <2>6 DEF Receive, LoopType
    <3>2. CASE loop.at = 0
      <4>1. TargetsLeft = 2
        BY <2>1, <2>3, <3>2 DEF TargetsLeft
      <4>2. TargetsLeft' = 1
        BY <1>2, <2>1, <3>1, <3>2 DEF TargetsLeft
      <4>3. QED
        BY <4>1, <4>2
    <3>3. CASE loop.at # 0
      <4>1. TargetsLeft = 1
        BY <2>1, <2>3, <3>3 DEF TargetsLeft
      <4>2. ~loop'.more
        BY <3>1, <3>3
      <4>3. TargetsLeft' = 0
        BY <1>2, <2>1, <4>2 DEF TargetsLeft
      <4>4. QED
        BY <4>1, <4>3
    <3>4. QED
      BY <3>2, <3>3
  <2>7. 1 \in Nat /\ source # "reddit"
    BY <2>1
  <2> HIDE DEF more
  <2>8. CASE loop.at = 0 /\ SkipTo(1)
    BY <1>6, <2>1, <2>5, <2>7, <2>8
  <2>9. CASE Receive(hits, more, 1)
    BY <1>2, <2>1, <2>2, <2>6, <2>7, <2>9, ReceiveLower
  <2>10. QED
    BY <1>5, <2>1, <2>4, <2>8, <2>9
<1>14. CASE AmazonRequest \/ RedditRSSRequest
  <2>1. source \in {"amazon", "reddit_rss"} /\ pc = "request"
    BY <1>14 DEF AmazonRequest, RedditRSSRequest, Requesting
  <2>2. \/ Ends \/ Raises
        \/ loop.at < Items /\ SkipTo(loop.at + 1)
        \/ loop.at < Items /\ \E first \in Nat, size \in Nat :
                                Receive(Page(first, size), TRUE, loop.at + 1)
    <3>1. CASE \E first \in 0..Items : Receive(Page(first, PageSize), TRUE, loop.at + 1)
      BY <1>14, <3>1, 0..Items \subseteq Nat, PageSize \in Nat
         DEF AmazonRequest, RedditRSSRequest
    <3>2. CASE ~ \E first \in 0..Items : Receive(Page(first, PageSize), TRUE, loop.at + 1)
      BY <1>14, <3>2 DEF AmazonRequest, RedditRSSRequest
    <3>3. QED
      BY <3>1, <3>2
  <2>3. ASSUME loop.at < Items, loop'.at = loop.at + 1 PROVE TargetsLeft' < TargetsLeft
    BY <1>1, <1>2, <2>1, <2>3 DEF TargetsLeft
  <2>4. CASE loop.at < Items /\ SkipTo(loop.at + 1)
    <3>1. loop'.at = loop.at + 1
      BY <1>1, <2>4 DEF SkipTo, LoopType
    <3>2. QED
      BY <1>3, <1>6, <2>1, <2>3, <2>4, <3>1
  <2>5. CASE loop.at < Items /\ \E first \in Nat, size \in Nat :
                                  Receive(Page(first, size), TRUE, loop.at + 1)
    <3>1. PICK first \in Nat, size \in Nat : Receive(Page(first, size), TRUE, loop.at + 1)
      BY <2>5
    <3>2. loop'.at = loop.at + 1
      BY <1>1, <3>1 DEF Receive, LoopType
    <3>3. TargetsLeft' < TargetsLeft
      BY <2>3, <2>5, <3>2
    <3>4. Page(first, size) \in Seq(Platform) /\ TRUE \in BOOLEAN /\ source # "reddit"
      BY <1>4, <2>1
    <3>5. QED
      BY <1>2, <1>3, <2>1, <3>1, <3>3, <3>4, ReceiveLower
  <2>6. QED
    BY <1>5, <2>1, <2>2, <2>4, <2>5
<1>15. CASE GoogleTrendsRequest \/ GitHubRequest \/ InstagramRequest
  <2>1. /\ source \in {"google_trends", "github_trending", "instagram"} /\ pc = "request"
        /\ loop.more
    <3>1. source \in {"google_trends", "github_trending", "instagram"} /\ pc = "request"
      BY <1>15 DEF GoogleTrendsRequest, GitHubRequest, InstagramRequest, Requesting
    <3>2. QED
      BY <3>1 DEF AskingInv
  <2>2. \/ Ends
        \/ \E size \in Nat, more \in BOOLEAN :
             /\ Receive(Page(0, size), more, 1)
             /\ source = "google_trends" => loop.at = 0
             /\ source # "google_trends" => ~more
    <3>1. CASE GoogleTrendsRequest
      BY <3>1, Items \in Nat, TRUE \in BOOLEAN DEF GoogleTrendsRequest, Requesting
    <3>2. CASE GitHubRequest
      BY <3>2, Items \in Nat, FALSE \in BOOLEAN DEF GitHubRequest, Requesting
    <3>3. CASE InstagramRequest
      BY <3>3, 0..Limit \subseteq Nat, FALSE \in BOOLEAN DEF InstagramRequest, Requesting
    <3>4. QED
      BY <1>15, <3>1, <3>2, <3>3
  <2>3. CASE \E size \in Nat, more \in BOOLEAN :
               /\ Receive(Page(0, size), more, 1)
               /\ source = "google_trends" => loop.at = 0
               /\ source # "google_trends" => ~more
    <3>1. PICK size \in Nat, more \in BOOLEAN :
            /\ Receive(Page(0, size), more, 1)
            /\ source = "google_trends" => loop.at = 0
            /\ source # "google_trends" => ~more
      BY <2>3
    <3>2. loop'.more = more /\ loop'.at = 1
      BY <1>1, <3>1 DEF Receive, LoopType
    <3>3. TargetsLeft' < TargetsLeft
      BY <1>1, <1>2, <2>1, <3>1, <3>2 DEF TargetsLeft
    <3>4. Page(0, size) \in Seq(Platform) /\ 1 \in Nat /\ source # "reddit"
      BY <1>4, <2>1
    <3>5. QED
      BY <1>2, <2>1, <3>1, <3>3, <3>4, ReceiveLower
  <2>4. QED
    BY <1>5, <2>1, <2>2, <2>3
<1>16. CASE YieldItem
  <2>1. /\ loop'.yielded = loop.yielded + Counted /\ loop'.hits = Tail(loop.hits)
        /\ loop'.at = loop.at /\ loop'.more = loop.more /\ loop.hits # <<>>
    BY <1>1, <1>16 DEF YieldItem, LoopType
  <2>2. CASE source = "reddit"
    <3>1. loop'.yielded = loop.yielded /\ TargetsLeft' = TargetsLeft
      BY <1>1, <1>2, <2>1, <2>2 DEF Counted, TargetsLeft
    <3>2. CommentsLeft' < CommentsLeft
      BY <1>1, <1>2, <2>1, <2>2 DEF CommentsLeft
    <3>3. QED
      BY <3>1, <3>2, MeasureLower
  <2>3. CASE source # "reddit"
    <3>1. loop'.yielded > loop.yielded
      BY <1>1, <2>1, <2>3 DEF Counted
    <3>2. QED
      BY <3>1, MeasureLower
  <2>4. QED
    BY <2>2, <2>3
<1>17. CASE StopInPage
  BY <1>5, <1>17 DEF StopInPage
<1>18. CASE PageDone
  <2>1. pc = "page" /\ loop.hits = <<>> /\ (Ends \/ SkipTo(loop.at))
    BY <1>18 DEF PageDone
  <2>2. CASE SkipTo(loop.at)
    <3>1. /\ loop'.yielded = loop.yielded /\ loop'.hits = loop.hits /\ loop'.at = loop.at
          /\ loop'.more = loop.more /\ pc' = "request"
      BY <1>1, <2>2 DEF SkipTo, LoopType
    <3>2. TargetsLeft' = TargetsLeft /\ CommentsLeft' = CommentsLeft
      BY <1>2, <3>1 DEF TargetsLeft, CommentsLeft
    <3>3. Rank = 7 /\ Rank' = 6
      BY <2>1, <3>1 DEF Rank
    <3>4. QED
      BY <3>1, <3>2, <3>3, MeasureLower
  <2>3. QED
    BY <1>5, <2>1, <2>2
<1>19. QED
  BY <1>2, <1>7, <1>8, <1>9, <1>10, <1>11, <1>12, <1>13, <1>14, <1>15, <1>16, <1>17, <1>18
     DEF Fetch

LEMMA CommandLower ==
  ASSUME TypeInv, TypeInv', AskingInv, Command \/ Interrupt
  PROVE  Lower(Measure', Measure)
<1>1. CASE FetchRaw
  BY <1>1, FetchLower
<1>2. CASE Connect \/ Setup
  <2>1. UNCHANGED <<source, loop>> /\ Rank' < Rank
    BY <1>2 DEF Connect, Setup, Fails, Rank
  <2>2. QED
    BY <2>1, RankLower
<1>3. CASE RunItem \/ Teardown
  <2>1. /\ UNCHANGED <<source, loop>>
        /\ \/ pc = "item" /\ pc' \in {"ended", "emit", "page"}
           \/ pc \in {"ended", "raised"} /\ pc' \in {"flush", "closing"}
    BY <1>3 DEF RunItem, Teardown, Fails
  <2>2. Rank' < Rank
    BY <2>1 DEF Rank
  <2>3. QED
    BY <2>1, <2>2, RankLower
<1>4. CASE Collect \/ BatchWritten
  <2>1. /\ UNCHANGED <<source, loop>>
        /\ \/ pc = "emit" /\ pc' \in {"insert", "flush", "page"}
           \/ pc = "insert" /\ pc' \in {"flush", "page"}
    BY <1>4 DEF Collect, BatchWritten, NextOrBreak
  <2>2. Rank' < Rank
    BY <2>1 DEF Rank
  <2>3. QED
    BY <2>1, <2>2, RankLower
<1>5. CASE WriteRow
  <2>1. UNCHANGED <<source, loop, pc, batch>> /\ written' = written + 1
    BY <1>5 DEF WriteRow
  <2>2. /\ loop'.yielded = loop.yielded /\ TargetsLeft' = TargetsLeft
        /\ CommentsLeft' = CommentsLeft /\ Rank' = Rank
    BY <2>1 DEF TargetsLeft, CommentsLeft, Rank
  <2>3. Len(batch') - written' < Len(batch) - written
    BY <2>1 DEF TypeInv, TypeOK
  <2>4. QED
    BY <2>2, <2>3, MeasureLower
<1>6. CASE WriteFails \/ Flushed \/ Close
  <2>1. /\ UNCHANGED <<source, loop>>
        /\ \/ pc \in {"insert", "flush"} /\ pc' = "closing"
           \/ pc = "closing" /\ pc' = "exited"
    BY <1>6 DEF WriteFails, Fails, Flushed, Close
  <2>2. Rank' < Rank
    BY <2>1 DEF Rank
  <2>3. QED
    BY <2>1, <2>2, RankLower
<1>7. CASE Interrupt
  <2>1. /\ UNCHANGED <<source, loop>> /\ pc \in PCs \ {"emit", "exited"}
        /\ pc' = IF pc = "closing" THEN "exited" ELSE "closing"
    BY <1>7 DEF Interrupt, TypeInv, TypeOK
  <2>2. Rank' < Rank
    BY <2>1 DEF Rank, PCs
  <2>3. QED
    BY <2>1, <2>2, RankLower
<1>8. QED
  BY <1>1, <1>2, <1>3, <1>4, <1>5, <1>6, <1>7 DEF Command

\* Whatever the platform answers, a command takes finitely many steps: by
\* MeasureWellFounded no measure can be lowered for ever. Bookmarks and cursors
\* that repeat, empty pages, and items that are handed over and never emitted
\* do not keep an adapter asking.
THEOREM CommandAdvances == Spec => Advances
<1>1. Init => AskingInv
  BY AskingInit
<1>2. TypeInv /\ AskingInv /\ [Next]_vars => AskingInv'
  BY AskingNext
<1>3. TypeInv /\ TypeInv' /\ AskingInv /\ [Next]_vars =>
        [/\ Command \/ Interrupt => Lower(Measure', Measure)
         /\ FinishGenerator \/ Cancel => Measure' = Measure]_vars
  <2> SUFFICES ASSUME TypeInv, TypeInv', AskingInv
               PROVE  /\ Command \/ Interrupt => Lower(Measure', Measure)
                      /\ FinishGenerator \/ Cancel => Measure' = Measure
    OBVIOUS
  <2>1. Command \/ Interrupt => Lower(Measure', Measure)
    BY CommandLower
  <2>2. ASSUME FinishGenerator \/ Cancel PROVE Measure' = Measure
    <3>1. UNCHANGED <<source, loop, pc, batch, written>>
      BY <2>2 DEF FinishGenerator, Cancel, scrape
    <3>2. QED
      BY <3>1 DEF Measure, TargetsLeft, CommentsLeft, Rank
  <2>3. QED
    BY <2>1, <2>2
<1>4. QED
  BY <1>1, <1>2, <1>3, TypeAlways, PTL DEF Spec, Advances

-------------------------------------------------------------------------------
(* The command implements Outbox.                                           *)

\* The batch is the last of what was emitted, but for the signal that is not
\* in it yet.
BatchIsLast ==
  /\ NotInBatch + Len(batch) <= Len(emitted)
  /\ \A k \in 1..Len(batch) :
       batch[k] = emitted[Len(emitted) - NotInBatch - Len(batch) + k]

\* A command is over when it has reported how it ended.
ReportsAtTheEnd == status = "running" <=> pc \notin {"closing", "exited"}

OutboxInv == BatchIsLast /\ ReportsAtTheEnd

LEMMA ListFacts ==
  ASSUME TypeInv
  PROVE  /\ emitted \in Seq(Signals) /\ batch \in Seq(Signals)
         /\ Len(emitted) \in Nat /\ Len(batch) \in Nat /\ written \in 0..Len(batch)
         /\ NotInBatch \in {0, 1} /\ dry_run \in BOOLEAN
BY DEF TypeInv, TypeOK, NotInBatch

\* A step that leaves the signals where they are.
LEMMA SameSignals ==
  ASSUME UNCHANGED <<kind, dry_run, emitted, batch, written>>, pc # "emit", pc' # "emit"
  PROVE  Outgoing' = Outgoing /\ Sent' = Sent /\ (BatchIsLast => BatchIsLast')
<1>1. NotInBatch = 0 /\ NotInBatch' = 0
  BY DEF NotInBatch
<1>2. Outgoing' = Outgoing
  BY DEF Outgoing, Row
<1>3. Sent' = Sent
  BY <1>1 DEF Sent
<1>4. BatchIsLast => BatchIsLast'
  BY <1>1 DEF BatchIsLast
<1>5. QED
  BY <1>2, <1>3, <1>4

LEMMA RunItemOutbox ==
  ASSUME TypeInv, OutboxInv, RunItem
  PROVE  OutboxInv' /\ (O!Emit \/ UNCHANGED O!outboxVars)
<1> DEFINE next == [item |-> loop.item, scraped_at |-> <<attempt, Len(emitted) + 1>>]
<1>1. /\ pc = "item" /\ pc' \notin {"closing", "exited"} /\ status' = status
      /\ UNCHANGED <<kind, dry_run, batch, written, rows>>
      /\ \/ pc' # "emit" /\ emitted' = emitted
         \/ pc' = "emit" /\ emitted' = Append(emitted, next)
  BY DEF RunItem
<1>2. ReportsAtTheEnd' /\ status = "running"
  BY <1>1 DEF OutboxInv, ReportsAtTheEnd
<1> HIDE DEF next
<1>3. CASE pc' # "emit" /\ emitted' = emitted
  BY <1>1, <1>2, <1>3, SameSignals DEF OutboxInv, O!outboxVars
<1>4. CASE pc' = "emit" /\ emitted' = Append(emitted, next)
  <2>1. /\ emitted \in Seq(Signals) /\ Len(emitted) \in Nat /\ Len(batch) \in Nat
        /\ NotInBatch = 0 /\ NotInBatch' = 1
    BY <1>1, <1>4, ListFacts DEF NotInBatch
  <2>2. /\ Len(emitted') = Len(emitted) + 1
        /\ \A k \in 1..Len(emitted) : emitted'[k] = emitted[k]
    BY <1>4, <2>1
  <2>3. BatchIsLast'
    <3>1. NotInBatch' + Len(batch') <= Len(emitted')
      BY <1>1, <2>1, <2>2 DEF OutboxInv, BatchIsLast
    <3>2. ASSUME NEW k \in 1..Len(batch)
          PROVE  batch[k] = emitted'[Len(emitted') - NotInBatch' - Len(batch) + k]
      <4>1. /\ Len(emitted) - Len(batch) + k \in 1..Len(emitted)
            /\ batch[k] = emitted[Len(emitted) - Len(batch) + k]
            /\ Len(emitted') - NotInBatch' - Len(batch) + k = Len(emitted) - Len(batch) + k
        BY <2>1, <2>2 DEF OutboxInv, BatchIsLast
      <4>2. QED
        BY <2>2, <4>1
    <3>3. QED
      BY <1>1, <3>1, <3>2 DEF BatchIsLast
  <2>4. Sent' = Sent
    BY <1>1, <2>1, <2>2, ListFacts DEF Sent
  <2>5. CASE dry_run
    BY <1>1, <1>2, <2>3, <2>4, <2>5 DEF OutboxInv, Outgoing, O!outboxVars
  <2>6. CASE ~dry_run
    <3>1. /\ Outgoing = [k \in 1..Len(emitted) |-> Row(emitted[k])]
          /\ Outgoing' = [k \in 1..(Len(emitted) + 1) |-> Row(emitted[k])']
      BY <1>1, <2>2, <2>6 DEF Outgoing
    <3>2. \A k \in 1..Len(emitted) : Outgoing'[k] = Outgoing[k]
      <4> TAKE k \in 1..Len(emitted)
      <4>1. k \in 1..(Len(emitted) + 1) /\ Row(emitted[k])' = Row(emitted[k])
        BY <1>1, <2>1, <2>2 DEF Row
      <4>2. QED
        BY <3>1, <4>1
    <3>3. Len(Outgoing) = Len(emitted) /\ Len(Outgoing') = Len(emitted) + 1
      BY <2>1, <3>1
    <3>4. SubSeq(Outgoing', 1, Len(Outgoing)) = Outgoing
      <4> DEFINE X == {Outgoing'[k] : k \in 1..Len(emitted)}
                 front == SubSeq(Outgoing', 1, Len(emitted))
      <4>1. /\ front \in Seq(X)
            /\ Len(front) = IF 1 <= Len(emitted) THEN Len(emitted) - 1 + 1 ELSE 0
            /\ \A i \in 1..(Len(emitted) - 1 + 1) : front[i] = Outgoing'[1 + i - 1]
        BY <2>1, SubSeqProperties
      <4> HIDE DEF X, front
      <4>2. Len(front) = Len(emitted) /\ \A i \in 1..Len(emitted) : front[i] = Outgoing[i]
        BY <2>1, <3>2, <4>1
      <4>3. front = [k \in 1..Len(emitted) |-> Row(emitted[k])]
        BY <3>1, <4>1, <4>2
      <4>4. QED
        BY <3>1, <3>3, <4>3 DEF front
    <3>5. QED
      BY <1>1, <1>2, <2>3, <2>4, <3>3, <3>4 DEF OutboxInv, O!Emit
  <2>7. QED
    BY <2>5, <2>6
<1>5. QED
  BY <1>1, <1>3, <1>4

LEMMA CollectOutbox ==
  ASSUME TypeInv, OutboxInv, Collect
  PROVE  OutboxInv' /\ UNCHANGED O!outboxVars
<1>1. /\ pc = "emit" /\ pc' \notin {"emit", "closing", "exited"} /\ status' = status
      /\ UNCHANGED <<kind, dry_run, emitted, written, rows>>
      /\ batch' = Append(batch, emitted[Len(emitted)]) /\ Len(emitted) # 0
  BY DEF Collect, NextOrBreak, TypeInv
<1>2. /\ emitted \in Seq(Signals) /\ batch \in Seq(Signals)
      /\ Len(emitted) \in Nat /\ Len(batch) \in Nat /\ written \in Nat
      /\ NotInBatch = 1 /\ NotInBatch' = 0
  BY <1>1, ListFacts DEF NotInBatch
<1>3. emitted[Len(emitted)] \in Signals
  BY <1>1, <1>2
<1>4. /\ Len(batch') = Len(batch) + 1 /\ batch'[Len(batch) + 1] = emitted[Len(emitted)]
      /\ \A k \in 1..Len(batch) : batch'[k] = batch[k]
  BY <1>1, <1>2, <1>3
<1>5. BatchIsLast'
  <2>1. Len(batch') <= Len(emitted)
    BY <1>2, <1>4 DEF OutboxInv, BatchIsLast
  <2>2. ASSUME NEW k \in 1..Len(batch')
        PROVE  batch'[k] = emitted[Len(emitted) - Len(batch') + k]
    <3>1. CASE k = Len(batch) + 1
      <4>1. Len(emitted) - Len(batch') + k = Len(emitted)
        BY <1>2, <1>4, <3>1
      <4>2. QED
        BY <1>4, <3>1, <4>1
    <3>2. CASE k # Len(batch) + 1
      <4>1. /\ k \in 1..Len(batch)
            /\ Len(emitted) - Len(batch') + k = Len(emitted) - NotInBatch - Len(batch) + k
        BY <1>2, <1>4, <3>2
      <4>2. QED
        BY <1>4, <4>1 DEF OutboxInv, BatchIsLast
    <3>3. QED
      BY <3>1, <3>2
  <2>3. \A k \in 1..Len(batch') : Len(emitted) - 0 - Len(batch') + k = Len(emitted) - Len(batch') + k
    BY <1>2, <1>4
  <2>4. QED
    BY <1>1, <1>2, <1>4, <2>1, <2>2, <2>3 DEF BatchIsLast
<1>6. Outgoing' = Outgoing /\ Sent' = Sent
  <2>1. Len(emitted) - 1 - Len(batch) + written = Len(emitted) - 0 - Len(batch') + written
    BY <1>2, <1>4
  <2>2. Sent' = Sent
    BY <1>1, <1>2, <2>1 DEF Sent
  <2>3. QED
    BY <1>1, <2>2 DEF Outgoing, Row
<1>7. QED
  BY <1>1, <1>5, <1>6 DEF OutboxInv, ReportsAtTheEnd, O!outboxVars

LEMMA WriteRowOutbox ==
  ASSUME TypeInv, OutboxInv, WriteRow
  PROVE  OutboxInv' /\ O!Store
<1>1. /\ pc \in {"insert", "flush"} /\ pc' = pc /\ ~dry_run /\ written < Len(batch)
      /\ rows' = rows \cup {Row(batch[written + 1])} /\ written' = written + 1
      /\ UNCHANGED <<kind, dry_run, emitted, batch, status>>
  BY DEF WriteRow
<1>2. /\ Len(emitted) \in Nat /\ Len(batch) \in Nat /\ written \in Nat
      /\ NotInBatch = 0 /\ NotInBatch' = 0
  BY <1>1, ListFacts DEF NotInBatch
<1>3. BatchIsLast' /\ ReportsAtTheEnd' /\ status = "running"
  BY <1>1, <1>2 DEF OutboxInv, BatchIsLast, ReportsAtTheEnd
<1>4. Sent = Len(emitted) - Len(batch) + written /\ Sent' = Sent + 1
  BY <1>1, <1>2 DEF Sent
<1>5. Outgoing' = Outgoing /\ Outgoing = [k \in 1..Len(emitted) |-> Row(emitted[k])]
  BY <1>1 DEF Outgoing, Row
<1>6. Len(Outgoing) = Len(emitted)
  BY <1>2, <1>5
<1>7. Sent + 1 \in 1..Len(emitted) /\ Sent < Len(Outgoing)
  BY <1>1, <1>2, <1>4, <1>6 DEF OutboxInv, BatchIsLast
<1>8. batch[written + 1] = emitted[Sent + 1]
  <2>1. /\ written + 1 \in 1..Len(batch)
        /\ Len(emitted) - NotInBatch - Len(batch) + (written + 1) = Sent + 1
    BY <1>1, <1>2, <1>4
  <2>2. QED
    BY <2>1 DEF OutboxInv, BatchIsLast
<1>9. rows' = rows \cup {Outgoing[Sent + 1]}
  BY <1>1, <1>5, <1>7, <1>8
<1>10. QED
  BY <1>1, <1>3, <1>4, <1>5, <1>7, <1>9 DEF OutboxInv, O!Store

LEMMA BatchWrittenOutbox ==
  ASSUME TypeInv, OutboxInv, BatchWritten
  PROVE  OutboxInv' /\ UNCHANGED O!outboxVars
<1>1. /\ pc = "insert" /\ pc' \in {"flush", "page"} /\ status' = status
      /\ UNCHANGED <<kind, dry_run, emitted, rows>>
      /\ written = Len(batch) /\ batch' = <<>> /\ written' = 0
  BY DEF BatchWritten, NextOrBreak
<1>2. /\ Len(emitted) \in Nat /\ Len(batch) \in Nat /\ Len(batch') = 0
      /\ NotInBatch = 0 /\ NotInBatch' = 0
  BY <1>1, ListFacts DEF NotInBatch
<1>3. BatchIsLast' /\ ReportsAtTheEnd'
  BY <1>1, <1>2 DEF OutboxInv, BatchIsLast, ReportsAtTheEnd
<1>4. Outgoing' = Outgoing /\ Sent' = Sent
  BY <1>1, <1>2 DEF Outgoing, Row, Sent
<1>5. QED
  BY <1>1, <1>3, <1>4 DEF OutboxInv, O!outboxVars

LEMMA FlushedOutbox ==
  ASSUME TypeInv, OutboxInv, Flushed
  PROVE  OutboxInv' /\ O!Succeed
<1>1. /\ pc = "flush" /\ pc' = "closing" /\ status' = "ok"
      /\ dry_run \/ written = Len(batch)
      /\ UNCHANGED <<kind, dry_run, emitted, batch, written, rows>>
  BY DEF Flushed
<1>2. Outgoing' = Outgoing /\ Sent' = Sent /\ BatchIsLast'
  BY <1>1, SameSignals DEF OutboxInv
<1>3. status = "running" /\ ReportsAtTheEnd'
  BY <1>1 DEF OutboxInv, ReportsAtTheEnd
<1>4. Sent = Len(Outgoing)
  <2>1. CASE dry_run
    BY <2>1 DEF Sent, Outgoing
  <2>2. CASE ~dry_run
    <3>1. /\ Len(emitted) \in Nat /\ Len(batch) \in Nat /\ NotInBatch = 0
          /\ written = Len(batch)
      BY <1>1, <2>2, ListFacts DEF NotInBatch
    <3>2. Sent = Len(emitted)
      BY <2>2, <3>1 DEF Sent
    <3>3. Outgoing = [k \in 1..Len(emitted) |-> Row(emitted[k])]
      BY <2>2 DEF Outgoing
    <3>4. Len(Outgoing) = Len(emitted)
      BY <3>1, <3>3
    <3>5. QED
      BY <3>2, <3>4
  <2>3. QED
    BY <2>1, <2>2
<1>5. QED
  BY <1>1, <1>2, <1>3, <1>4 DEF OutboxInv, O!Succeed

\* The other steps leave the signals where they are; some report a failure.
LEMMA QuietOutbox ==
  ASSUME OutboxInv,
         UNCHANGED <<kind, dry_run, emitted, batch, written, rows>>,
         pc # "emit", pc' # "emit",
         \/ status' = "failed" /\ pc' \in {"closing", "exited"}
         \/ /\ status' = status
            /\ pc \in {"closing", "exited"} <=> pc' \in {"closing", "exited"}
  PROVE  OutboxInv' /\ (O!Fail \/ UNCHANGED O!outboxVars)
<1>1. Outgoing' = Outgoing /\ Sent' = Sent /\ BatchIsLast'
  BY SameSignals DEF OutboxInv
<1>2. ReportsAtTheEnd'
  BY DEF OutboxInv, ReportsAtTheEnd
<1>3. QED
  BY <1>1, <1>2 DEF OutboxInv, O!Fail, O!outboxVars

LEMMA AgainOutbox ==
  ASSUME TypeInv, OutboxInv, Again
  PROVE  OutboxInv' /\ O!Again
<1>1. /\ pc = "exited" /\ pc' = "start" /\ status' = "running" /\ rows' = rows
      /\ emitted' = <<>> /\ batch' = <<>> /\ written' = 0 /\ ~dry_run /\ dry_run' = dry_run
  BY DEF Again
<1>2. status # "running"
  BY <1>1 DEF OutboxInv, ReportsAtTheEnd
<1>3. Len(emitted') = 0 /\ Len(batch') = 0 /\ NotInBatch' = 0
  BY <1>1 DEF NotInBatch
<1>4. OutboxInv'
  BY <1>1, <1>3 DEF OutboxInv, BatchIsLast, ReportsAtTheEnd
<1>5. Sent' = 0
  BY <1>1, <1>3 DEF Sent
<1>6. Outgoing' = <<>>
  <2>1. Outgoing' = [k \in 1..0 |-> Row(emitted[k])']
    BY <1>1, <1>3 DEF Outgoing
  <2>2. QED
    BY <2>1
<1>7. QED
  BY <1>1, <1>2, <1>4, <1>5, <1>6 DEF O!Again

LEMMA OutboxNext ==
  ASSUME TypeInv, OutboxInv, [Next]_vars
  PROVE  OutboxInv' /\ [O!Next]_(O!outboxVars)
<1>1. CASE RunItem \/ Collect \/ WriteRow \/ BatchWritten \/ Flushed \/ Again
  BY <1>1, RunItemOutbox, CollectOutbox, WriteRowOutbox, BatchWrittenOutbox, FlushedOutbox,
     AgainOutbox DEF O!Next
<1>2. CASE Connect \/ Setup \/ Teardown \/ WriteFails \/ Close \/ Interrupt
  <2>1. /\ UNCHANGED <<kind, dry_run, emitted, batch, written, rows>>
        /\ pc # "emit" /\ pc' # "emit"
        /\ \/ status' = "failed" /\ pc' \in {"closing", "exited"}
           \/ /\ status' = status
              /\ pc \in {"closing", "exited"} <=> pc' \in {"closing", "exited"}
    BY <1>2 DEF Connect, Setup, Teardown, WriteFails, Close, Interrupt, Fails
  <2>2. QED
    BY <2>1, QuietOutbox DEF O!Next
<1>3. CASE FetchRaw
  <2>1. pc \in {"request", "page"} /\ pc' \notin {"emit", "closing", "exited"}
    BY <1>3, FetchType DEF FetchRaw, TypeInv
  <2>2. UNCHANGED <<kind, dry_run, emitted, batch, written, rows, status>>
    BY <1>3 DEF FetchRaw, scrape
  <2>3. QED
    BY <2>1, <2>2, QuietOutbox DEF O!Next
<1>4. ASSUME UNCHANGED <<kind, dry_run, emitted, batch, written, rows, pc, status>>
      PROVE  OutboxInv' /\ UNCHANGED O!outboxVars
  BY <1>4 DEF OutboxInv, BatchIsLast, ReportsAtTheEnd, NotInBatch, Outgoing, Sent, Row,
              O!outboxVars
<1>5. CASE FinishGenerator \/ Cancel
  BY <1>4, <1>5 DEF FinishGenerator, Cancel, scrape
<1>6. CASE UNCHANGED vars
  BY <1>4, <1>6 DEF vars, scrape
<1>7. QED
  BY <1>1, <1>2, <1>3, <1>5, <1>6 DEF Next, Command

\* Every run of the command is a run of Outbox: the signals it emits are stored
\* in their order, each once in a command, across batches and failures, and it
\* reports success only when none is left (SourceAdapter.run, _scrape_async,
\* insert_signals).
THEOREM ImplementsOutbox == Spec => StoredInOrder
<1>1. Init => OutboxInv /\ O!Init
  <2> SUFFICES ASSUME Init PROVE OutboxInv /\ O!Init
    OBVIOUS
  <2>1. /\ emitted = <<>> /\ batch = <<>> /\ written = 0 /\ rows = {}
        /\ pc = "start" /\ status = "running" /\ NotInBatch = 0
    BY DEF Init, NotInBatch
  <2>2. Len(emitted) = 0 /\ Len(batch) = 0
    BY <2>1
  <2>3. OutboxInv /\ Sent = 0
    BY <2>1, <2>2 DEF OutboxInv, BatchIsLast, ReportsAtTheEnd, Sent
  <2>4. Outgoing = <<>>
    <3>1. [k \in 1..0 |-> Row(emitted[k])] = <<>>
      OBVIOUS
    <3>2. QED
      BY <2>2, <3>1 DEF Outgoing
  <2>5. QED
    BY <2>1, <2>3, <2>4 DEF O!Init
<1>2. TypeInv /\ OutboxInv /\ [Next]_vars => OutboxInv' /\ [O!Next]_(O!outboxVars)
  BY OutboxNext
<1>3. QED
  BY <1>1, <1>2, TypeAlways, PTL DEF Spec, StoredInOrder, O!Spec

===============================================================================
