-------------------------------- MODULE Sources --------------------------------
(***************************************************************************)
(* The loops in which the source adapters fetch raw items                  *)
(* (scrape/sources/*.py): each fetch_raw is a generator that asks the      *)
(* platform for a page, hands the items of the page over one by one, and   *)
(* decides whether to ask again.  What differs between them is how a page  *)
(* is named (page number, token, bookmark, cursor, list of targets), which *)
(* failures end the loop, skip a target or leave as an exception, and what *)
(* counts against the limit.                                               *)
(*                                                                         *)
(* The platform is the sequence of items 1..Items.  Its listings move      *)
(* while they are read: a page may repeat what an earlier one had, or      *)
(* leave items out.  A payload is abstracted to what parse makes of it     *)
(* (Signals).                                                              *)
(***************************************************************************)
EXTENDS Integers, Sequences, Signals

CONSTANTS
  Items,     \* number of items the platform has, and of targets to ask for
  Limit,     \* the limit given to fetch_raw
  PageSize   \* the most a request asks for (50, 25 or 100 in the code)

ASSUME SourcesAssumption ==
  /\ Items \in Nat
  /\ Limit \in Nat \ {0}
  /\ PageSize \in Nat \ {0}

VARIABLES
  source,     \* the adapter that runs
  kind,       \* what parse makes of each item of the platform
  cancelled,  \* cancel() has been called
  pc,         \* where the scrape is
  loop        \* the local variables of fetch_raw

Platform == 1..Items

Sources == DOMAIN ParseOf

-------------------------------------------------------------------------------
(* The generator.                                                          *)

\* at names the next page: a page number, a position, or a target (it stays 0
\* where the platform keeps the position); item is the raw item last handed over.
Fresh == [yielded |-> 0, at |-> 0, hits |-> <<>>, more |-> TRUE, item |-> 0]

Least(a, b) == IF a < b THEN a ELSE b

\* The items after a position, size of them at most.
Page(pos, size) ==
  [k \in 1..(IF pos < Items THEN Least(size, Items - pos) ELSE 0) |-> pos + k]

\* Of reddit the limit bounds the listing, and comments are not counted.
Full == source # "reddit" /\ loop.yielded >= Limit

Remaining == Limit - loop.yielded

Ends == pc' = "ended" /\ UNCHANGED loop

Raises == pc' = "raised" /\ UNCHANGED loop

\* The page is received; after it the loop goes on at next if more is true.
Receive(hits, more, next) ==
  /\ pc' = "page"
  /\ loop' = [loop EXCEPT !.hits = hits, !.more = more, !.at = next]

\* Asks for the next target without having received anything.
SkipTo(next) ==
  /\ pc' = "request"
  /\ loop' = [loop EXCEPT !.at = next]

Requesting(s) == source = s /\ pc = "request"

-------------------------------------------------------------------------------
(* One request of each adapter.                                            *)

\* The size of a page shrinks with what is still wanted, and the page number
\* does not know; newer items move the rest of the listing down.
HackerNewsRequest ==
  /\ Requesting("hacker_news")
  /\ LET size == Least(PageSize, Remaining)
     IN \/ Ends
        \/ ~Full /\ ~cancelled /\ Raises
        \/ /\ ~Full /\ ~cancelled
           /\ \E moved \in 0..(loop.at * size) :
                LET hits == Page(loop.at * size - moved, size)
                IN hits # <<>> /\ Receive(hits, Len(hits) = size, loop.at + 1)

\* Any failure of the search ends the loop; that of the details is ignored. What
\* a token stands for is up to the platform; that every result has an id is what
\* a search for videos promises (one without is passed over and not counted).
YouTubeRequest ==
  /\ Requesting("youtube")
  /\ \/ Ends
     \/ /\ ~Full /\ ~cancelled
        /\ \E first \in 0..Items, token \in BOOLEAN :
             LET hits == Page(first, Least(PageSize, Remaining))
             IN hits # <<>> /\ Receive(hits, token, loop.at)

\* The platform names the next page, "-end-", or the same bookmark again.
PinterestRequest ==
  /\ Requesting("pinterest")
  /\ LET hits == Page(loop.at, Least(PageSize, Remaining))
     IN \/ Ends
        \/ ~Full /\ ~cancelled /\ Raises
        \/ /\ ~Full /\ ~cancelled /\ hits # <<>>
           /\ \E bookmark \in 0..Items, some \in BOOLEAN :
                Receive(hits, some /\ bookmark # loop.at, bookmark)

\* The mirrors are tried in turn; the loop ends when none answers. A cursor
\* that does not advance is not noticed.
NitterRequest ==
  /\ Requesting("nitter")
  /\ LET hits == Page(loop.at, PageSize)
     IN \/ Ends
        \/ /\ ~Full /\ ~cancelled /\ hits # <<>>
           /\ \E cursor \in 0..Items, some \in BOOLEAN : Receive(hits, some, cursor)

\* A submission of the listing, which may end anywhere, and up to PageSize - 1
\* comments, which follow it here. Nothing is caught: also see CommentsRaise.
RedditRequest ==
  /\ Requesting("reddit")
  /\ \/ Ends
     \/ ~cancelled /\ Raises
     \/ /\ ~cancelled /\ loop.yielded < Limit
        /\ \E first \in 0..Items, comments \in 0..(PageSize - 1) :
             LET hits == Page(first, 1 + comments)
             IN /\ hits # <<>>
                /\ pc' = "page"
                /\ loop' = [loop EXCEPT !.yielded = @ + 1, !.hits = hits]

\* The listing of comments fails after its submission has been handed over.
CommentsRaise == source = "reddit" /\ pc = "page" /\ Raises

\* Hashtags (target 0), then videos (target 1); they have no item in common.
TikTokRequest ==
  /\ Requesting("tiktok")
  /\ LET half == Items \div 2
         hits == IF loop.at = 0 THEN Page(0, Least(half, Least(PageSize, Limit)))
                 ELSE Page(half, Least(PageSize, Remaining))
     IN \/ (loop.at = 0 \/ ~Full) /\ Raises
        \/ loop.at = 0 /\ (Ends \/ SkipTo(1))
        \/ loop.at = 1 /\ Ends
        \/ /\ loop.at = 0 \/ (~Full /\ ~cancelled)
           /\ Receive(hits, loop.at = 0, 1)

\* Best-seller lists may have items in common; a failed one is passed over.
AmazonRequest ==
  /\ Requesting("amazon")
  /\ \/ (loop.at = Items \/ Full \/ cancelled) /\ Ends
     \/ /\ loop.at < Items /\ ~Full /\ ~cancelled
        /\ \/ SkipTo(loop.at + 1)
           \/ \E first \in 0..Items : Receive(Page(first, PageSize), TRUE, loop.at + 1)

\* One subreddit after another: 429 ends the loop, a body that is no object
\* raises, other failures are passed over.
RedditRSSRequest ==
  /\ Requesting("reddit_rss")
  /\ \/ Ends
     \/ /\ loop.at < Items /\ ~Full /\ ~cancelled
        /\ \/ Raises
           \/ SkipTo(loop.at + 1)
           \/ \E first \in 0..Items : Receive(Page(first, PageSize), TRUE, loop.at + 1)

\* The command gives one keyword: one chunk, and the rows of its result.
GoogleTrendsRequest ==
  /\ Requesting("google_trends")
  /\ Ends \/ (loop.at = 0 /\ ~cancelled /\ Receive(Page(0, Items), TRUE, 1))

GitHubRequest ==
  /\ Requesting("github_trending")
  /\ Ends \/ Receive(Page(0, Items), FALSE, 1)

\* Collected in a thread up to the limit; a failure gives the empty list.
InstagramRequest ==
  /\ Requesting("instagram")
  /\ \E found \in 0..Limit : Receive(Page(0, found), FALSE, 1)

-------------------------------------------------------------------------------
(* The items of a page.                                                    *)

\* (mutant) nothing counts against the limit.
Counted_Nothing == 0

\* What an item that is handed over adds to total_yielded.
Counted == IF source = "reddit" THEN 0 ELSE 1

\* The item is not what the adapter takes it for: a count that is no number, an
\* entry that is no object. What is done to it stands outside of any try.
MalformedItem ==
  /\ source \in {"youtube", "reddit_rss", "google_trends", "tiktok"}
  /\ pc = "page" /\ loop.hits # <<>> /\ ~Full /\ ~cancelled
  /\ Raises

\* Hands the next item of the page to run, which resumes the generator later.
YieldItem ==
  /\ pc = "page" /\ loop.hits # <<>> /\ ~Full /\ ~cancelled
  /\ pc' = "item"
  /\ loop' = [loop EXCEPT !.yielded = @ + Counted, !.item = Head(loop.hits),
                          !.hits = Tail(@)]

\* The generator returns in the middle of a page.
StopInPage == pc = "page" /\ loop.hits # <<>> /\ (Full \/ cancelled) /\ Ends

PageDone ==
  /\ pc = "page" /\ loop.hits = <<>>
  /\ IF loop.more THEN SkipTo(loop.at) ELSE Ends

Fetch ==
  \/ HackerNewsRequest \/ YouTubeRequest \/ PinterestRequest \/ NitterRequest
  \/ RedditRequest \/ CommentsRaise \/ TikTokRequest \/ AmazonRequest
  \/ RedditRSSRequest \/ GoogleTrendsRequest \/ GitHubRequest \/ InstagramRequest
  \/ MalformedItem \/ YieldItem \/ StopInPage \/ PageDone

===============================================================================
