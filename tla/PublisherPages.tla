---------------------------- MODULE PublisherPages ----------------------------
(***************************************************************************)
(* The exporters of the publisher list                                     *)
(* (scripts/sheets-exporter/src/sheets-app-script.js) as operators on the  *)
(* spreadsheet: a sheet per locale, whose rows name a topic and a page,    *)
(* and the Topics sheet, which gives the ids of a topic.                   *)
(*                                                                         *)
(* Ids, surfaces and the parts of a URL are numbers that stand for their   *)
(* places in localeCompare's order.  A surface is its locale's.            *)
(***************************************************************************)
EXTENDS Integers, SequencesExt

CONSTANTS
  Displays,    \* what topic cells show
  Lower,       \* of each, its lower case
  NoTopic,     \* a topic cell that is empty or holds a link
  NoUrl,       \* a URL cell that names no page
  NoSheet      \* a sheet that was renamed or is missing

NoId == 0      \* an empty id cell

\* scheme is 0 for http and 1 for https; site numbers the host without www.
Urls == [scheme: 0..1, www: 0..1, site: Nat, path: Nat]

(* What the sheets show: the rows of a locale, and those of the topics. *)
Cells == [kind: {"url", "note", "bare"}, url: Urls] \cup [kind: {"text"}, url: {NoUrl}]
SourceSheets ==
  {NoSheet} \cup
  [columns: BOOLEAN,
   rows: Seq([topic: Displays \cup {NoTopic}, cell: Cells, approved: BOOLEAN])]
TopicSheets ==
  {NoSheet} \cup
  [columns: SUBSET {"display", "id", "legacy"},
   rows: Seq([display: Displays, id: Nat, legacy: Nat])]

(* sortKeyForUrl_, which ignores the scheme and a leading www. *)
SortKey(u) == <<u.site, u.path>>

(* The order of two tuples of numbers, component by component. *)
TupleLess(a, b) ==
  \E i \in 1..Len(a) : a[i] < b[i] /\ \A k \in 1..i - 1 : a[k] = b[k]

(* Pages are ordered by their key, and those of buildPublisherPages_ then   *)
(* by the URL itself; contexts by surface and topic.                        *)
UrlKey(u) == <<u.site, u.path, u.scheme, u.www>>
ContextKey(c) == <<c.surface, c.topic>>

(* The elements of a finite set by their keys, which are tuples of one      *)
(* length, no two alike: the k-th has k - 1 before it.                      *)
Arranged(key) ==
  [k \in 1..Cardinality(DOMAIN key) |->
     CHOOSE x \in DOMAIN key :
       Cardinality({y \in DOMAIN key : TupleLess(key[y], key[x])}) = k - 1]

Along(order, f) == [k \in 1..Len(order) |-> f[order[k]]]

(* What a loop over a sequence keeps when it keeps some places. *)
AtPlaces(s, places) == Along(Arranged([i \in places |-> <<i>>]), s)

(* Array.prototype.sort is stable: equal keys stay as they were. *)
StableSort(s, keys) == Along(Arranged([i \in 1..Len(s) |-> Append(keys[i], i)]), s)

(* What a Map or a Set keeps of its insertions. *)
Distinct(s) == AtPlaces(s, {i \in 1..Len(s) : \A k \in 1..i - 1 : s[k] # s[i]})
-----------------------------------------------------------------------------
(* readUrl_: a URL with a scheme anywhere in the cell, or a cell that is    *)
(* just a host and path, taken to be https.                                 *)
ReadUrl(cell) ==
  CASE cell.kind \in {"url", "note"} -> cell.url
    [] cell.kind = "bare" -> [cell.url EXCEPT !.scheme = 1]
    [] OTHER -> NoUrl

(* ingestSourceSheet_ takes a row that is approved, names a topic and has   *)
(* the URL of a page.                                                       *)
Kept(row) == row.approved /\ row.topic # NoTopic /\ ReadUrl(row.cell) # NoUrl

(* loadTopicMap_: the id of a topic, by its name in lower case.  The last   *)
(* row of a topic that has an id counts.                                    *)
TopicId(topics, column, display) ==
  LET rows == {i \in 1..Len(topics.rows) :
                 Lower[topics.rows[i].display] = Lower[display] /\ topics.rows[i][column] # NoId}
  IN IF rows = {} THEN NoId ELSE topics.rows[Max(rows)][column]

TopicsUsable(topics, column) ==
  topics # NoSheet /\ topics.rows # <<>> /\ {"display", column} \subseteq topics.columns

(* getRequiredHeaderIndex_ throws for a source sheet with rows but without  *)
(* the three columns; one without rows is passed over before.               *)
SourceUsable(sheet) == sheet = NoSheet \/ sheet.rows = <<>> \/ sheet.columns

MissingSheets(sheets) ==
  LET Missing == {s \in 1..Len(sheets) : sheets[s] = NoSheet}
  IN AtPlaces([s \in 1..Len(sheets) |-> s], Missing)

KeptRows(sheet) ==
  IF sheet = NoSheet THEN {} ELSE {i \in 1..Len(sheet.rows) : Kept(sheet.rows[i])}

KeptPlaces(sheets) == UNION {{s} \X KeptRows(sheets[s]) : s \in 1..Len(sheets)}

(* ingestSourceSheet_ of every source: which URLs are filed under which     *)
(* topic, resolved, and locale, in the order of insertion.                  *)
Entry(sheets, place, resolve) ==
  LET row == sheets[place[1]].rows[place[2]]
  IN [url |-> ReadUrl(row.cell), surface |-> place[1], topic |-> resolve[row.topic]]

Ingested(sheets, resolve) ==
  LET places == KeptPlaces(sheets)
  IN Distinct(Along(Arranged([p \in places |-> p]),
                    [p \in places |-> Entry(sheets, p, resolve)]))

EntryUrls(entries) == Distinct([i \in 1..Len(entries) |-> entries[i].url])

EntriesOf(u, entries) == AtPlaces(entries, {i \in 1..Len(entries) : entries[i].url = u})
-----------------------------------------------------------------------------
Failed == [ok |-> FALSE, missing |-> <<>>, pages |-> <<>>]

(* buildPublisherPages_: the contexts of a URL, each once, for two topics   *)
(* may share an id, and sorted.                                             *)
PageContexts(u, entries, topics) ==
  LET of == EntriesOf(u, entries)
      contexts == Distinct([i \in 1..Len(of) |->
                              [surface |-> of[i].surface, topic |-> TopicId(topics, "id", of[i].topic)]])
  IN StableSort(contexts, [i \in 1..Len(contexts) |-> ContextKey(contexts[i])])

JsonOrder(urls) == StableSort(urls, [i \in 1..Len(urls) |-> UrlKey(urls[i])])

(* buildPublishersJson_, which throws for a topic without an id. *)
PublishersJson(sheets, topics) ==
  LET entries == Ingested(sheets, [display \in Displays |-> display])
      urls == JsonOrder(EntryUrls(entries))
  IN IF /\ TopicsUsable(topics, "id") /\ \A s \in 1..Len(sheets) : SourceUsable(sheets[s])
        /\ \A e \in ToSet(entries) : TopicId(topics, "id", e.topic) # NoId
     THEN [ok |-> TRUE, missing |-> MissingSheets(sheets),
           pages |-> [i \in 1..Len(urls) |->
                        [url |-> urls[i], contexts |-> PageContexts(urls[i], entries, topics)]]]
     ELSE Failed

(* The older crawler's name of a topic, or else what the cell shows. *)
LegacyName(topics, display) ==
  LET id == TopicId(topics, "legacy", display) IN
  IF id = NoId THEN <<"display", display>> ELSE <<"legacy", id>>

\* Mutant: pages stay where their rows put them.
InRowOrder(urls) == urls

(* The pages of the Python list, sorted by their key alone. *)
PythonOrder(urls) == StableSort(urls, [i \in 1..Len(urls) |-> SortKey(urls[i])])

(* buildPythonList_: one item per URL, with the topics of each locale. *)
PythonList(sheets, topics) ==
  LET entries == Ingested(sheets, [display \in Displays |-> LegacyName(topics, display)])
      urls == PythonOrder(EntryUrls(entries))
      Topics(u, s) == {e.topic : e \in {f \in ToSet(EntriesOf(u, entries)) : f.surface = s}}
      locales(u) == {e.surface : e \in ToSet(EntriesOf(u, entries))}
  IN IF TopicsUsable(topics, "legacy") /\ \A s \in 1..Len(sheets) : SourceUsable(sheets[s])
     THEN [ok |-> TRUE, missing |-> MissingSheets(sheets),
           pages |-> [i \in 1..Len(urls) |->
                        [url |-> urls[i], targets |-> [s \in locales(urls[i]) |-> Topics(urls[i], s)]]]]
     ELSE Failed
=============================================================================
