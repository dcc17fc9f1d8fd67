------------------------------ MODULE CrawlFlow ------------------------------
(***************************************************************************)
(* From an editor's row to an event: the exporters turn the spreadsheet    *)
(* into publishers.json and pages.py, the scheduler enqueues a page of the *)
(* former, and the discovery worker turns the article list of the page     *)
(* into events and jobs (handlers/extract-discovery.ts).                   *)
(*                                                                         *)
(* Once a page is enqueued the spreadsheet is out of sight, so the model   *)
(* forgets it.                                                             *)
(***************************************************************************)
EXTENDS PublisherPages

CONSTANTS
  Spreadsheets,   \* the spreadsheets considered: a Topics sheet, and sources
  ItemLists,      \* the article lists Zyte can return
  NoJsDomains,    \* NO_JS_ARTICLE_LIST_DOMAINS
  Nothing         \* no export yet, no page, no date

VARIABLES
  spreadsheet, json, python,
  page,         \* the job: a URL and its contexts
  approved,     \* history: the contexts whose rows list that URL
  crawl         \* what its crawl saw and returned

vars == <<spreadsheet, json, python, page, approved, crawl>>

NoDomain == 0

(* An item of an article list; an author without a name is "". *)
Dates == {"iso", "blank", "garbage", Nothing}
Items == [url: Urls \cup {NoUrl}, authors: Seq(STRING), date: Dates]

ASSUME FlowAssumption ==
  /\ Spreadsheets \subseteq [sources: Seq(SourceSheets), topics: TopicSheets]
  /\ ItemLists \subseteq Seq(Items)

TypeOK ==
  /\ spreadsheet \in Spreadsheets \cup {Nothing}
  /\ \A e \in {json, python} : e = Nothing \/ e.ok \in BOOLEAN
  /\ page = Nothing \/ page.url \in Urls
  /\ \A c \in approved : c.surface \in Nat \ {0} /\ c.topic \in Nat \ {NoId}
  /\ crawl = Nothing \/
       \A i \in 1..Len(crawl.events) :
         crawl.events[i].published_at \in {"iso", Nothing} /\ "" \notin ToSet(crawl.events[i].authors)

Init ==
  /\ spreadsheet \in Spreadsheets
  /\ json = Nothing /\ python = Nothing /\ page = Nothing
  /\ approved = {} /\ crawl = Nothing
-----------------------------------------------------------------------------
(* The menu's Generate JSON and Generate Python. *)
GenerateJson ==
  /\ spreadsheet # Nothing /\ json = Nothing
  /\ json' = PublishersJson(spreadsheet.sources, spreadsheet.topics)
  /\ UNCHANGED <<spreadsheet, python, page, approved, crawl>>

GeneratePython ==
  /\ spreadsheet # Nothing /\ python = Nothing
  /\ python' = PythonList(spreadsheet.sources, spreadsheet.topics)
  /\ UNCHANGED <<spreadsheet, json, page, approved, crawl>>

ApprovedEntries(sources) ==
  UNION {{[url |-> ReadUrl(row.cell), surface |-> s, topic |-> row.topic] :
            row \in {r \in ToSet(sources[s].rows) :
                       r.approved /\ r.topic # NoTopic /\ ReadUrl(r.cell) # NoUrl}} :
         s \in {s \in 1..Len(sources) : sources[s] # NoSheet}}

ApprovedContexts(u, sheet) ==
  {[surface |-> e.surface, topic |-> TopicId(sheet.topics, "id", e.topic)] :
     e \in {e \in ApprovedEntries(sheet.sources) : e.url = u}}

(* The scheduler enqueues a page of publishers.json. *)
EnqueuePage(i) ==
  /\ json # Nothing /\ python # Nothing /\ i <= Len(json.pages)
  /\ page' = json.pages[i]
  /\ approved' = ApprovedContexts(page'.url, spreadsheet)
  /\ spreadsheet' = Nothing /\ json' = Nothing /\ python' = Nothing
  /\ UNCHANGED crawl
-----------------------------------------------------------------------------
(* getRegistrableDomain; an IP address has none. *)
Domain(u) == u.site

(* resolveExtractFrom: plain HTTP for the domains known to need no browser. *)
ResolveExtractFrom(u) ==
  IF Domain(u) # NoDomain /\ Domain(u) \in NoJsDomains
  THEN "httpResponseBody" ELSE "browserHtml"

Own(pageUrls) == {Domain(u) : u \in pageUrls} \ {NoDomain}

\* Mutant: an article listed twice is kept twice.
EveryListing(items, pageUrls) ==
  AtPlaces([i \in 1..Len(items) |-> i],
    {i \in 1..Len(items) : items[i].url # NoUrl /\ Domain(items[i].url) \in Own(pageUrls)})

(* selectArticles: the listed places of the publisher's own articles, each  *)
(* URL at its first.                                                        *)
SelectArticles(items, pageUrls) ==
  AtPlaces([i \in 1..Len(items) |-> i],
    {i \in 1..Len(items) :
       /\ items[i].url # NoUrl
       /\ \A k \in 1..i - 1 : items[k].url # items[i].url
       /\ Domain(items[i].url) \in Own(pageUrls)})

\* Mutant: a date is passed on as it is.
AnyDate(date) == date

(* Only an author with a name and a date that can be parsed reach BigQuery, *)
(* whose subscription has no dead-letter queue.                             *)
ToEventAuthors(authors) == AtPlaces(authors, {i \in 1..Len(authors) : authors[i] # ""})
ToEventTimestamp(date) == IF date = "iso" THEN date ELSE Nothing

(* mapToDiscoveryEvent *)
DiscoveryEvent(items, i, context) ==
  [url |-> items[i].url, page_position |-> i, source_url |-> page.url,
   surface |-> context.surface, topic |-> context.topic,
   authors |-> ToEventAuthors(items[i].authors),
   published_at |-> ToEventTimestamp(items[i].date)]

(* handleArticleDiscovery: one event for each article and context. *)
CrawlOf(items, resolved) ==
  LET articles == SelectArticles(items, {page.url, resolved})
      places == (1..Len(articles)) \X (1..Len(page.contexts))
  IN [items |-> items, resolved |-> resolved, extractFrom |-> ResolveExtractFrom(page.url),
      events |-> Along(Arranged([p \in places |-> p]),
                       [p \in places |->
                          DiscoveryEvent(items, articles[p[1]], page.contexts[p[2]])]),
      articleUrls |-> [a \in 1..Len(articles) |-> items[articles[a]].url]]

Crawl(items, resolved) ==
  /\ page # Nothing /\ crawl = Nothing
  /\ crawl' = CrawlOf(items, resolved)
  /\ UNCHANGED <<spreadsheet, json, python, page, approved>>

Next ==
  \/ GenerateJson \/ GeneratePython
  \/ json # Nothing /\ \E i \in 1..Len(json.pages) : EnqueuePage(i)
  \/ page # Nothing /\ \E items \in ItemLists :
       \E resolved \in {page.url} \cup {[page.url EXCEPT !.site = s] : s \in {NoDomain, 3}} :
         Crawl(items, resolved)

Spec == Init /\ [][Next]_vars
-----------------------------------------------------------------------------
(* publishers.json is a function of the approved rows, in no matter what    *)
(* order and sheets they come ("the output cannot depend on where a row     *)
(* sits in the spreadsheet"): each URL once, each of its contexts once,     *)
(* sorted, and a failure exactly for sheets and topics that cannot be used. *)
JsonMatchesRows ==
  json # Nothing /\ spreadsheet # Nothing =>
    LET entries == ApprovedEntries(spreadsheet.sources)
        topics == spreadsheet.topics
    IN IF /\ topics # NoSheet /\ topics.rows # <<>> /\ {"display", "id"} \subseteq topics.columns
          /\ \A s \in 1..Len(spreadsheet.sources) : SourceUsable(spreadsheet.sources[s])
          /\ \A e \in entries : \E r \in ToSet(topics.rows) :
               Lower[r.display] = Lower[e.topic] /\ r.id # NoId
       THEN /\ json.ok
            /\ {p.url : p \in ToSet(json.pages)} = {e.url : e \in entries}
            /\ \A i, k \in 1..Len(json.pages) :
                 i < k => TupleLess(UrlKey(json.pages[i].url), UrlKey(json.pages[k].url))
            /\ \A p \in ToSet(json.pages) :
                 /\ ToSet(p.contexts) = ApprovedContexts(p.url, spreadsheet)
                 /\ \A i, k \in 1..Len(p.contexts) :
                      i < k => TupleLess(ContextKey(p.contexts[i]), ContextKey(p.contexts[k]))
       ELSE ~json.ok

(* Both exports cover the same pages and locales, and name the same missing *)
(* sheets, when both succeed; they may order pages with one key apart.      *)
ExportsAgree ==
  json # Nothing /\ python # Nothing /\ json.ok /\ python.ok =>
    /\ json.missing = python.missing
    /\ \A s \in 1..Len(spreadsheet.sources) :
         spreadsheet.sources[s] = NoSheet <=> s \in ToSet(json.missing)
    /\ Len(json.pages) = Len(python.pages)
    /\ \A i \in 1..Len(json.pages) :
         /\ SortKey(json.pages[i].url) = SortKey(python.pages[i].url)
         /\ \E k \in 1..Len(python.pages) :
              /\ python.pages[k].url = json.pages[i].url
              /\ DOMAIN python.pages[k].targets = {c.surface : c \in ToSet(json.pages[i].contexts)}

(* A crawl yields one event for each of the publisher's own articles and    *)
(* each context an editor approved for the page, no other, and one job for  *)
(* each article, whatever the list repeats and wherever the page redirects. *)
CrawlCoversContexts ==
  crawl # Nothing =>
    LET own == {Domain(page.url), Domain(crawl.resolved)} \ {NoDomain}
        articles == {item.url : item \in {x \in ToSet(crawl.items) : x.url # NoUrl /\ x.url.site \in own}}
        of == {<<e.url, [surface |-> e.surface, topic |-> e.topic]>> : e \in ToSet(crawl.events)}
    IN /\ of = articles \X approved
       /\ Len(crawl.events) = Cardinality(of)
       /\ ToSet(crawl.articleUrls) = articles /\ Len(crawl.articleUrls) = Cardinality(articles)
       /\ \A e \in ToSet(crawl.events) :
            e.page_position = Min({i \in 1..Len(crawl.items) : crawl.items[i].url = e.url})
=============================================================================
