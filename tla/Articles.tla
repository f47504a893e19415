------------------------------- MODULE Articles -------------------------------
(***************************************************************************)
(* The article sources (ai/sources): every cycle the scheduler polls the   *)
(* feeds (rss.py), in one transaction, then fetches the full text of the   *)
(* oldest articles that still hold a summary (fulltext.py), in another.    *)
(* scripts/corpus_runner.py sweeps the same backlog beside it.  The        *)
(* campaigns page groups what is stored (clustering.py) and keeps nothing. *)
(*                                                                         *)
(* An article is what its canonical URL tells apart; later ones have       *)
(* greater numbers, and a feed lists them first.                           *)
(***************************************************************************)
EXTENDS Naturals, Sequences, FiniteSets

CONSTANTS
  Urls, Feeds,
  Carries,           \* the URLs a feed lists at some time
  Near,              \* pairs of summaries a simhash does not tell apart
  Refused,           \* URLs whose page holds no article
  Limit,             \* DEFAULT_FULLTEXT_LIMIT
  Similar,           \* pairs of articles above the clustering threshold
  Title,             \* titles up to what varies between instalments
  MIN_SERIES_LENGTH,
  MaxVersion         \* bound: changes of a feed

ASSUME ArticlesAssumption ==
  /\ Urls \subseteq Nat /\ IsFiniteSet(Urls)
  /\ Carries \in [Feeds -> SUBSET Urls]
  /\ Near \subseteq SUBSET Urls /\ Similar \subseteq SUBSET Urls
  /\ Refused \subseteq Urls /\ Limit \in Nat \ {0}
  /\ DOMAIN Title = Urls /\ MIN_SERIES_LENGTH \in Nat /\ MaxVersion \in Nat \ {0}

VARIABLES
  listed, version,  \* per feed, what it lists, and how often that changed
  db,               \* what is committed
  draft,            \* the transaction of the scheduler
  pc,               \* "poll" or "pages"
  todo              \* feeds to poll, or articles to fetch

vars == <<listed, version, db, draft, pc, todo>>

\* articles in the order of their ids, each with the feed it came by; per feed,
\* the version its validators name (0 for none); feeds whose last body was cut
\* short; URLs of the articles with a full text.
Tables == [articles : Seq([url : Urls, feed : Feeds]), seen : [Feeds -> 0..MaxVersion],
           cut : SUBSET Feeds, full : SUBSET Urls]

UrlsOf(articles) == {articles[i].url : i \in DOMAIN articles}

Init == /\ listed = [f \in Feeds |-> {}] /\ version = [f \in Feeds |-> 1]
        /\ db = [articles |-> <<>>, seen |-> [f \in Feeds |-> 0], cut |-> {}, full |-> {}]
        /\ draft = db /\ pc = "poll" /\ todo = Feeds

-----------------------------------------------------------------------------
(* Publishers.                                                             *)

Change(f, urls) == /\ version[f] < MaxVersion
                   /\ listed' = [listed EXCEPT ![f] = urls]
                   /\ version' = [version EXCEPT ![f] = @ + 1]
                   /\ UNCHANGED <<db, draft, pc, todo>>

Post(f) == \E u \in Carries[f] \ listed[f] : Change(f, listed[f] \cup {u})
Drop(f) == \E u \in listed[f] : Change(f, listed[f] \ {u})

-----------------------------------------------------------------------------
(* Polling a feed.                                                         *)

\* find_near_duplicate: a full text is never near a summary.
NearDuplicate(articles, u) ==
  \E w \in UrlsOf(articles) \ db.full : w = u \/ {u, w} \in Near

\* (mutant) Only near duplicates are looked for.
AddedTwice(articles, u, f) ==
  IF NearDuplicate(articles, u) THEN articles ELSE Append(articles, [url |-> u, feed |-> f])

Added(articles, u, f) ==
  IF u \in UrlsOf(articles) \/ NearDuplicate(articles, u)
  THEN articles ELSE Append(articles, [url |-> u, feed |-> f])

\* The entries of a feed, newest first, and the articles once n of them are read.
Entries(f) == CHOOSE s \in [1..Cardinality(listed[f]) -> listed[f]] :
                \A i, j \in DOMAIN s : i < j => s[i] > s[j]
AllAdded(articles, f, n) ==
  LET after[i \in 0..n] == IF i = 0 THEN articles ELSE Added(after[i - 1], Entries(f)[i], f)
  IN  after[n]

Polled(f) == /\ pc = "poll" /\ f \in todo
             /\ todo' = todo \ {f}
             /\ UNCHANGED <<listed, version, db, pc>>

NotModified(f) == /\ Polled(f)
                  /\ draft.seen[f] = version[f]
                  /\ UNCHANGED draft

\* The body is parsed, or the part of it that can be.
Take(f) == \E n \in 0..Len(Entries(f)) :
  /\ Polled(f)
  /\ draft.seen[f] # version[f]
  /\ n = 0 => listed[f] = {}
  /\ draft' = [draft EXCEPT
       !.articles = AllAdded(@, f, n),
       !.seen[f] = version[f],
       !.cut = IF n < Len(Entries(f)) THEN @ \cup {f} ELSE @ \ {f}]

\* (mutant) The validators are kept before the body is parsed.
FeedFailsSeen(f) == /\ Polled(f)
                    /\ draft.seen[f] # version[f]
                    /\ draft' = [draft EXCEPT !.seen[f] = version[f], !.cut = @ \ {f}]

\* An error status, no answer, nothing that parses, or an entry that raises
\* once the ones before it are added.
FeedFails(f) == \E n \in 0..Len(Entries(f)) :
  /\ Polled(f)
  /\ draft.seen[f] # version[f]
  /\ draft' = [draft EXCEPT !.articles = AllAdded(@, f, n)]

-----------------------------------------------------------------------------
(* Full texts, oldest first.                                               *)

\* The articles that still hold a summary, by their ids.
Truncated == {i \in DOMAIN db.articles : db.articles[i].url \notin db.full}

\* (mutant) Newest first.
BatchOfNewest == {db.articles[i].url : i \in {k \in Truncated : Cardinality({j \in Truncated : j > k}) < Limit}}

Batch == {db.articles[i].url : i \in {k \in Truncated : Cardinality({j \in Truncated : j < k}) < Limit}}

\* The session is committed between the two phases.
EndPoll == /\ pc = "poll" /\ todo = {}
           /\ db' = [draft EXCEPT !.full = db.full]
           /\ draft' = db'
           /\ pc' = "pages" /\ todo' = Batch'
           /\ UNCHANGED <<listed, version>>

\* The page of an article is asked for once a cycle: its text is kept, or there
\* is none to keep.
FetchPage(u) == /\ pc = "pages" /\ u \in todo
                /\ draft' = [draft EXCEPT !.full = IF u \in Refused THEN @ ELSE @ \cup {u}]
                /\ todo' = todo \ {u}
                /\ UNCHANGED <<listed, version, db, pc>>

PageFails(u) == /\ pc = "pages" /\ u \in todo \ Refused
                /\ todo' = todo \ {u}
                /\ UNCHANGED <<listed, version, db, draft, pc>>

\* The bodies are committed together, and the next cycle begins.
EndPages == /\ pc = "pages" /\ todo = {}
            /\ db' = [draft EXCEPT !.full = @ \cup db.full]
            /\ draft' = db'
            /\ pc' = "poll" /\ todo' = Feeds
            /\ UNCHANGED <<listed, version>>

\* backfill_fulltext, beside the scheduler: each body is committed as it lands.
\* SQLite lets nobody else write while the scheduler's inserts are flushed.
Sweep(u) == /\ draft.articles = db.articles
            /\ u \in {db.articles[i].url : i \in Truncated} \ Refused
            /\ db' = [db EXCEPT !.full = @ \cup {u}]
            /\ UNCHANGED <<listed, version, draft, pc, todo>>

\* The scheduler is killed, or the enrichment raises: its transaction is lost.
\* (After the last page there is nothing to lose but what the commit would add.)
Crash == /\ draft' = db /\ pc' = "poll" /\ todo' = Feeds
         /\ pc = "poll" \/ todo # {} \/ ~(draft.full \subseteq db.full)
         /\ <<draft, pc, todo>> # <<db, "poll", Feeds>>
         /\ UNCHANGED <<listed, version, db>>

Cycle == \/ \E f \in Feeds : NotModified(f) \/ Take(f)
         \/ EndPoll \/ EndPages
         \/ \E u \in Urls : FetchPage(u)

Failure == \/ \E f \in Feeds : FeedFails(f)
           \/ \E u \in Urls : PageFails(u)
           \/ Crash

Next == \/ Cycle \/ Failure
        \/ \E f \in Feeds : Post(f) \/ Drop(f)
        \/ \E u \in Urls : Sweep(u)

Spec == Init /\ [][Next]_vars /\ WF_vars(Cycle)

-----------------------------------------------------------------------------
(* The campaigns page: cluster_articles over what is stored.  Articles are *)
(* named by their position.                                                *)

Key(i) == LET a == db.articles[i] IN <<a.feed, Title[a.url]>>
Instalments(k) == {i \in DOMAIN db.articles : Key(i) = k}

SameSeries(i, j) == /\ Key(i) = Key(j)
                    /\ Cardinality(Instalments(Key(i))) >= MIN_SERIES_LENGTH

Pairings == {p \in (DOMAIN db.articles) \X (DOMAIN db.articles) :
  /\ p[1] < p[2]
  /\ {db.articles[p[1]].url, db.articles[p[2]].url} \in Similar}

\* They are compared in the order of a Python set.
Orders == {order \in [1..Cardinality(Pairings) -> Pairings] : \A p \in Pairings : \E i \in DOMAIN order : order[i] = p}

Find(parent) ==
  LET root[i \in DOMAIN parent] == IF parent[i] = i THEN i ELSE root[parent[i]]
  IN root

\* (mutant) The articles are joined, and not the campaigns they are in.
UnionOfTwo(p, parent) ==
  IF SameSeries(p[1], p[2]) THEN parent ELSE [parent EXCEPT ![p[2]] = p[1]]

Union(p, parent) ==
  LET ri == Find(parent)[p[1]]
      rj == Find(parent)[p[2]]
  IN  IF SameSeries(p[1], p[2]) \/ ri = rj THEN parent
      ELSE [parent EXCEPT ![IF ri > rj THEN ri ELSE rj] = IF ri > rj THEN rj ELSE ri]

Parents(order) ==
  LET after[i \in 0..Len(order)] ==
        IF i = 0 THEN [k \in DOMAIN db.articles |-> k] ELSE Union(order[i], after[i - 1])
  IN  after[Len(order)]

\* _renumber: campaigns are numbered as they first appear.
Labels(parents) ==
  LET root == Find(parents)
      first(r) == CHOOSE i \in DOMAIN root : root[i] = r /\ \A j \in 1..i-1 : root[j] # r
  IN  [i \in DOMAIN root |->
        Cardinality({root[j] : j \in {k \in DOMAIN root : first(root[k]) < first(root[i])}})]

-----------------------------------------------------------------------------
(* Properties.                                                             *)

\* The types of the variables, and one row to an article: the hash of the
\* canonical URL is unique (rss.py, tables.py Article).
TypeOK == /\ listed \in [Feeds -> SUBSET Urls] /\ version \in [Feeds -> 1..MaxVersion]
          /\ \A t \in {db, draft} :
               /\ t.articles \in Seq([url : Urls, feed : Feeds])
               /\ \A i, j \in DOMAIN t.articles :
                    t.articles[i].url = t.articles[j].url => i = j
               /\ t.seen \in [Feeds -> 0..MaxVersion] /\ t.cut \subseteq Feeds
               /\ t.full \subseteq UrlsOf(t.articles)
          /\ pc \in {"poll", "pages"}
          /\ todo \subseteq (IF pc = "poll" THEN Feeds ELSE Urls)

\* A feed that answers "not modified" hides nothing: unless its last body was
\* cut short, everything it lists is stored, or was too near something stored
\* ("so a malformed body cannot poison the cache into skipping a feed forever",
\* rss.py 83-84), whatever failed or was lost before.
NothingHidden == \A f \in Feeds :
  db.seen[f] = version[f] /\ f \notin db.cut =>
    \A u \in listed[f] : u \in UrlsOf(db.articles)
                         \/ \E w \in UrlsOf(db.articles) : {u, w} \in Near

\* The articles stored before u whose page holds none: they stay in the backlog.
RefusedBefore(u) ==
  {w \in Refused : \E i, j \in DOMAIN db.articles :
                    i < j /\ db.articles[i].url = w /\ db.articles[j].url = u}

\* Once failures stop, each stored article whose page holds one gets its full
\* text, however many newer ones arrive and whatever their pages hold, as long as
\* the older ones that never get theirs are fewer than a cycle asks for
\* (fulltext.py 148-171: oldest first, and what fails comes round again).
FullTextReached ==
  <>[][~Failure]_vars =>
    \A u \in Urls \ Refused :
      [](u \in UrlsOf(db.articles) /\ Cardinality(RefusedBefore(u)) < Limit => <>(u \in db.full))

\* The reference: similar articles, no two of one series, are links; a chain of
\* them leads to whatever no set closed under them keeps apart.
Links == {p \in Pairings : ~SameSeries(p[1], p[2])}
Closed(S) == \A p \in Links : p[1] \in S <=> p[2] \in S
Linked(i, j) == \A S \in SUBSET DOMAIN db.articles : Closed(S) /\ i \in S => j \in S

\* Two articles are in one campaign exactly when a chain of similar articles,
\* no link of it within one series, leads from one to the other (clustering.py
\* 350-352), in whatever order the pairs are compared.
CampaignsLinked ==
  \A order \in Orders :
    LET campaign == Labels(Parents(order))
    IN  \A i, j \in DOMAIN db.articles : (campaign[i] = campaign[j]) <=> Linked(i, j)
=============================================================================
