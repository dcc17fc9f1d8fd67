----------------------------- MODULE MCCrawlFlow -----------------------------
(* A locale sheet of up to two rows and one of up to one, with two topics   *)
(* that share an id, one without an id, and URLs that share a sort key.     *)
EXTENDS CrawlFlow

SomeDisplays == {"Education", "EDUCATION", "History", "Sports", "Gardening"}
LowerCase ==
  [d \in SomeDisplays |-> IF d = "EDUCATION" THEN "education"
                          ELSE IF d = "Education" THEN "education" ELSE d]

Url(scheme, www, site, path) == [scheme |-> scheme, www |-> www, site |-> site, path |-> path]
Cell(kind, url) == [kind |-> kind, url |-> url]
Row(topic, cell) == [topic |-> topic, cell |-> cell, approved |-> TRUE]
apple == Url(1, 0, 1, 1)

Rows ==
  {Row("Education", Cell("url", apple)),
   Row("EDUCATION", Cell("note", Url(0, 0, 1, 0))),
   Row("History", Cell("bare", Url(0, 0, 1, 1))),
   Row("Sports", Cell("url", Url(1, 1, 1, 1))),
   Row("Gardening", Cell("url", Url(1, 1, 2, 1))),
   Row(NoTopic, Cell("url", apple)),
   Row("Sports", Cell("text", NoUrl)),
   [Row("Sports", Cell("url", Url(1, 0, 2, 2))) EXCEPT !.approved = FALSE]}

Sheets(columns, lengths) ==
  {[columns |-> columns, rows |-> r] : r \in UNION {[1..n -> Rows] : n \in lengths}}
Sources(lengths) ==
  {NoSheet} \cup Sheets(TRUE, lengths)
    \cup {[columns |-> FALSE, rows |-> r] : r \in {<<>>, <<Row("Sports", Cell("url", apple))>>}}

TopicRow(display, id, legacy) == [display |-> display, id |-> id, legacy |-> legacy]
TopicRows ==
  <<TopicRow("Education", 2, 3), TopicRow("History", 2, NoId), TopicRow("Sports", 1, 1),
    TopicRow("Sports", NoId, 2), TopicRow("Education", 3, 3)>>
TopicsSheets ==
  LET all == {"display", "id", "legacy"}
  IN {NoSheet, [columns |-> all, rows |-> <<>>],
      [columns |-> {"display", "legacy"}, rows |-> TopicRows],
      [columns |-> {"id", "legacy"}, rows |-> TopicRows],
      [columns |-> all, rows |-> SubSeq(TopicRows, 1, 4)],
      [columns |-> all, rows |-> TopicRows]}

SomeSpreadsheets ==
  {[sources |-> <<a, b>>, topics |-> t] : a \in Sources(0..2), b \in Sources(0..1), t \in TopicsSheets}

Item(url, authors, date) == [url |-> url, authors |-> authors, date |-> date]
SomeItems ==
  {Item(NoUrl, <<>>, Nothing),
   Item(Url(1, 0, 1, 5), <<"ann", "">>, "iso"),
   Item(Url(1, 0, 1, 6), <<"">>, "blank"),
   Item(Url(1, 0, 3, 5), <<>>, "garbage"),
   Item(Url(1, 0, NoDomain, 5), <<"bob">>, Nothing)}
SomeLists == UNION {[1..n -> SomeItems] : n \in 0..3}
=============================================================================
