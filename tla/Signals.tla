-------------------------------- MODULE Signals --------------------------------
(***************************************************************************)
(* What becomes of a raw item (schemas/signal.py and the parse methods of  *)
(* scrape/sources/*.py).  An adapter hashes the fields as it read them and  *)
(* then builds the signal, which strips them and compares the hash of what *)
(* is left with the one it was given: an item whose hash and fields were   *)
(* derived differently is refused, and with it the item.                    *)
(*                                                                         *)
(* A text is the class of strings the rules tell apart, a hash is the      *)
(* fields that went into it (digests are taken to be injective).           *)
(***************************************************************************)

\* "null" is None, "empty" is "", "padded" has blanks around it, "long" is
\* beyond the length the schema allows.
Texts == {"empty", "text", "padded", "long"}

\* A raw item: id is whether it carries an identifier, hidden whether the
\* platform marks it (stickied, over_18, deleted), type what reddit and tiktok
\* mix in one loop, tag whether its tag has only the characters allowed.
Raws == [id : BOOLEAN, hidden : BOOLEAN, type : {"post", "reply"},
         date : {"aware", "naive", "bad", "absent"},
         title : Texts, body : Texts, tag : {"ascii", "other"}]

\* skipped: parse returns None by design.  rejected: parse catches its own
\* exception and returns None.  raised: the exception leaves parse.
Outcomes == {"skipped", "rejected", "raised", "dated", "undated"}

-------------------------------------------------------------------------------
OrNone(text) == IF text = "empty" THEN "null" ELSE text

\* a or b or None
FirstOf(a, b) == IF a = "empty" THEN OrNone(b) ELSE a

Strip(text) == IF text = "padded" THEN "text" ELSE text

\* text[:n], for an n the schema allows.
Cut(text) == IF text = "long" THEN "text" ELSE text

compute_content_hash(title, body, date) == <<title, body, date>>

\* The validators of ProductSignal: lengths, tags, and the hash of the
\* stripped fields.
Valid(hash, title, body, date, tag) ==
  /\ title # "long" /\ body # "long"
  /\ tag = "ascii"
  /\ hash = compute_content_hash(Strip(title), Strip(body), date)

Signal(valid, date, failure) ==
  IF ~valid THEN failure ELSE IF date = "null" THEN "undated" ELSE "dated"

\* suppress(ValueError) around fromisoformat: a date without an offset passes,
\* and compute_content_hash refuses it.
IsoDate(date) == IF date \in {"bad", "absent"} THEN "null" ELSE date

UTCDate(date) == IF date \in {"bad", "absent"} THEN "null" ELSE "aware"

-------------------------------------------------------------------------------
(* parse, for each adapter.                                                 *)

HackerNewsParse(raw) ==
  LET date == IsoDate(raw.date)
  IN IF ~raw.id THEN "skipped"
     ELSE Signal(/\ date # "naive"
                 /\ Valid(compute_content_hash(raw.title, "null", date),
                          OrNone(raw.title), "null", date, "ascii"),
                 date, "rejected")

YouTubeParse(raw) ==
  LET date == IsoDate(raw.date)
  IN IF ~raw.id THEN "skipped"
     ELSE Signal(/\ date # "naive"
                 /\ Valid(compute_content_hash(raw.title, OrNone(raw.body), date),
                          OrNone(raw.title), OrNone(raw.body), date, raw.tag),
                 date, "rejected")

\* The hash takes the description for a title when there is none; the signal
\* does not.
PinterestParse(raw) ==
  LET date == IsoDate(raw.date)
  IN IF ~raw.id THEN "skipped"
     ELSE Signal(/\ date # "naive"
                 /\ Valid(compute_content_hash(FirstOf(raw.title, raw.body),
                                               OrNone(raw.body), date),
                          OrNone(raw.title), OrNone(raw.body), date, "ascii"),
                 date, "rejected")

\* _clean_text has stripped the text of the block; hashtags become tags.
TweetBlock(raw) == [raw EXCEPT !.body = Strip(@)]

NitterParse(raw) ==
  LET tweet == TweetBlock(raw)
      date == UTCDate(tweet.date)
      body == OrNone(tweet.body)
  IN IF ~tweet.id THEN "skipped"
     ELSE Signal(Valid(compute_content_hash("null", body, date),
                       "null", body, date, tweet.tag), date, "rejected")

RedditSubmission(raw) ==
  LET date == UTCDate(raw.date)
      title == OrNone(raw.title)
      body == OrNone(raw.body)
  IN IF raw.date = "bad" \/ ~raw.id THEN "rejected"
     ELSE IF raw.hidden THEN "skipped"
     ELSE Signal(Valid(compute_content_hash(title, body, date),
                       title, body, date, "ascii"), date, "raised")

RedditComment(raw) ==
  LET date == UTCDate(raw.date)
  IN IF raw.hidden THEN "skipped"
     ELSE IF raw.date = "bad" \/ ~raw.id THEN "rejected"
     ELSE Signal(Valid(compute_content_hash("null", raw.body, date),
                       "null", raw.body, date, "ascii"), date, "raised")

RedditParse(raw) ==
  IF raw.type = "reply" THEN RedditComment(raw) ELSE RedditSubmission(raw)

RedditRSSParse(raw) ==
  LET date == UTCDate(raw.date)
      title == OrNone(Cut(raw.title))
      body == OrNone(Cut(raw.body))
  IN IF ~raw.id \/ raw.hidden THEN "skipped"
     ELSE Signal(Valid(compute_content_hash(title, body, date),
                       title, body, date, "ascii"), date, "rejected")

GoogleTrendsParse(raw) ==
  LET date == UTCDate(raw.date)
  IN IF raw.title = "empty" THEN "skipped"
     ELSE Signal(Valid(compute_content_hash(raw.title, "null", date),
                       raw.title, "null", date, raw.tag), date, "rejected")

InstagramParse(raw) ==
  LET date == UTCDate(raw.date)
      body == OrNone(raw.body)
  IN IF ~raw.id THEN "skipped"
     ELSE Signal(Valid(compute_content_hash("null", body, date),
                       "null", body, date, "ascii"), date, "rejected")

\* title is "#" and the name, and so never empty.
TikTokHashtag(raw) ==
  IF raw.title = "empty" THEN "skipped"
  ELSE Signal(Valid(compute_content_hash(raw.title, "null", "null"),
                    raw.title, "null", "null", raw.tag), "null", "rejected")

TikTokVideo(raw) ==
  IF ~raw.id THEN "skipped"
  ELSE Signal(Valid(compute_content_hash(raw.title, "null", "null"),
                    OrNone(raw.title), "null", "null", "ascii"), "null", "rejected")

TikTokParse(raw) ==
  IF raw.type = "post" THEN TikTokHashtag(raw) ELSE TikTokVideo(raw)

\* The title is cut out of the address and stripped.
BestsellersPage(raw) == [raw EXCEPT !.title = Strip(@)]

AmazonParse(raw) ==
  LET title == OrNone(BestsellersPage(raw).title)
  IN IF ~raw.id THEN "skipped"
     ELSE Signal(Valid(compute_content_hash(title, "null", "null"),
                       title, "null", "null", "ascii"), "null", "rejected")

\* _clean has stripped the description; the title is the name of the
\* repository and the description, cut, and the tag loses what is not allowed.
GitHubParse(raw) ==
  LET body == OrNone(Strip(raw.body))
  IN IF ~raw.id THEN "skipped"
     ELSE Signal(Valid(compute_content_hash("text", body, "null"),
                       "text", body, "null", "ascii"), "null", "rejected")

ParseOf == [
  hacker_news     |-> {HackerNewsParse(raw) : raw \in Raws},
  youtube         |-> {YouTubeParse(raw) : raw \in Raws},
  pinterest       |-> {PinterestParse(raw) : raw \in Raws},
  nitter          |-> {NitterParse(raw) : raw \in Raws},
  reddit          |-> {RedditParse(raw) : raw \in Raws},
  reddit_rss      |-> {RedditRSSParse(raw) : raw \in Raws},
  google_trends   |-> {GoogleTrendsParse(raw) : raw \in Raws},
  instagram       |-> {InstagramParse(raw) : raw \in Raws},
  tiktok          |-> {TikTokParse(raw) : raw \in Raws},
  amazon          |-> {AmazonParse(raw) : raw \in Raws},
  github_trending |-> {GitHubParse(raw) : raw \in Raws}]

===============================================================================
