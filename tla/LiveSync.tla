------------------------------- MODULE LiveSync -------------------------------
(***************************************************************************)
(* How the curated metadata of one live article follows its page.  The     *)
(* scheduler snapshots the corpus item into each job (live-articles.ts);   *)
(* the worker compares what Zyte extracts with the snapshot and updates    *)
(* the item (extract-article.ts).  Meanwhile curators edit the item, the   *)
(* publisher revises or moves the page, and calls fail.                    *)
(*                                                                         *)
(* The article lock lets one job of the article run at a time.  A text is  *)
(* a sequence of characters.                                               *)
(***************************************************************************)
EXTENDS Integers, Sequences, FiniteSets

CONSTANTS
  Jobs,            \* jobs of the article that are queued or running at once
  Chars,           \* characters, of which " " and "." are treated apart
  Texts,           \* what curators and publishers write
  CompareLength,   \* EXCERPT_COMPARE_LENGTH
  MaxDisturbances  \* bound on edits, revisions, moves and failures

Fields == {"title", "excerpt"}
Metadata == [Fields -> Texts]

(* normalizeText on a text: trim, cut, strip trailing periods, and collapse *)
(* whitespace.  Case and quotes fold to one character of the model.         *)
Trim(t) ==
  LET kept == {i \in 1..Len(t) : t[i] # " "} IN
  IF kept = {} THEN <<>>
  ELSE SubSeq(t, CHOOSE i \in kept : \A k \in kept : i <= k,
                 CHOOSE i \in kept : \A k \in kept : i >= k)

StripPeriods(t) ==
  SubSeq(t, 1, Len(t) - Cardinality({i \in 1..Len(t) :
                           \A k \in i..Len(t) : t[k] = "."}))

Collapse(t) ==
  LET kept == SelectSeq([i \in 1..Len(t) |-> i],
                LAMBDA i : i = 1 \/ t[i] # " " \/ t[i - 1] # " ")
  IN [k \in 1..Len(kept) |-> t[kept[k]]]

Cut(f, t) ==
  IF f = "excerpt" /\ Len(t) > CompareLength THEN SubSeq(t, 1, CompareLength) ELSE t

NormalizeText(f, t) == Collapse(StripPeriods(Cut(f, Trim(t))))

\* The same as a function, which TLC evaluates once.
Normal == [f \in Fields |-> [t \in Texts \cup {<<>>} |-> NormalizeText(f, t)]]

ASSUME SyncAssumption ==
  /\ CompareLength \in Nat /\ MaxDisturbances \in Nat
  /\ \A t \in Texts : t \in Seq(Chars) /\ Trim(t) \in Texts \cup {<<>>}

VARIABLES
  item,          \* the title and excerpt in the Corpus API
  page,          \* those of the page, and whose page the URL leads to
  job,           \* of each job, where it is, its snapshot and its input
  late,          \* inputs whose call timed out and that may still be applied
  disturbances,
  written,       \* history: the fields written since each job's snapshot
  source         \* history: whose text each field of the item is

vars == <<item, page, job, late, disturbances, written, source>>

Idle(text) == [at |-> "idle", snap |-> text, input |-> text, from |-> "own", changed |-> {}]

TypeOK ==
  /\ item \in Metadata
  /\ page \in [text: Metadata, kind: {"own", "elsewhere"}]
  /\ job \in [Jobs -> [at: {"idle", "queued", "update"}, snap: Metadata,
                       input: Metadata, from: {"own", "elsewhere"},
                       changed: SUBSET Fields]]
  /\ late \subseteq [input: Metadata, from: {"own", "elsewhere"}, changed: SUBSET Fields]
  /\ disturbances \in 0..MaxDisturbances
  /\ written \in [Jobs -> SUBSET Fields]
  /\ source \in [Fields -> {"curator", "own", "elsewhere"}]

Init ==
  \E text \in Metadata :
    /\ item = text
    /\ page = [text |-> text, kind |-> "own"]
    /\ job = [j \in Jobs |-> Idle(text)]
    /\ late = {} /\ disturbances = 0
    /\ written = [j \in Jobs |-> {}]
    /\ source = [f \in Fields |-> "curator"]
-----------------------------------------------------------------------------
(* The fields detectAndSyncChanges finds changed: those that Zyte extracted *)
(* and that differ from the snapshot in more than their style.              *)
Changed(text, snap) ==
  {f \in Fields : Trim(text[f]) # <<>> /\ Normal[f][text[f]] # Normal[f][snap[f]]}

\* Mutants: the extracted text replaces a field whether it changed or not;
\* the update keeps the title.
AllExtracted(text, snap, changed) == [f \in Fields |-> Trim(text[f])]
KeepTitle(text, snap, changed) ==
  [f \in Fields |-> IF f \in changed \ {"title"} THEN Trim(text[f]) ELSE snap[f]]

BuildUpdateInput(text, snap, changed) ==
  [f \in Fields |-> IF f \in changed THEN Trim(text[f]) ELSE snap[f]]
-----------------------------------------------------------------------------
Write(input, from, changed) ==
  /\ item' = input
  /\ source' = [f \in Fields |-> IF f \in changed THEN from ELSE source[f]]

NoteWrite == written' = [j \in Jobs |-> written[j] \cup {f \in Fields : item'[f] # item[f]}]

Disturb ==
  disturbances < MaxDisturbances /\ disturbances' = disturbances + 1

(* publishCrawlJob: the snapshot of the item rides along. *)
Enqueue(j) ==
  /\ job[j].at = "idle"
  /\ job' = [job EXCEPT ![j] = [Idle(item) EXCEPT !.at = "queued"]]
  /\ written' = [written EXCEPT ![j] = {}]
  /\ UNCHANGED <<item, page, late, disturbances, source>>

(* Zyte answers and the worker compares, whether or not the page was        *)
(* eligible for an event.                                                   *)
Extract(j) ==
  /\ job[j].at = "queued" /\ \A k \in Jobs : job[k].at # "update"
  /\ LET changed == Changed(page.text, job[j].snap) IN
     job' = [job EXCEPT ![j] =
       IF changed = {} THEN Idle(item)
       ELSE [@ EXCEPT !.at = "update", !.from = page.kind, !.changed = changed,
               !.input = BuildUpdateInput(page.text, job[j].snap, changed)]]
  /\ UNCHANGED <<item, page, late, disturbances, written, source>>

(* The update is applied; unless its answer is lost, the job is done. *)
Update(j) ==
  /\ job[j].at = "update"
  /\ Write(job[j].input, job[j].from, job[j].changed)
  /\ NoteWrite
  /\ job' = [job EXCEPT ![j] = Idle(item')]
  /\ UNCHANGED <<page, late, disturbances>>

(* Every attempt times out or is refused, and the job is redelivered; a     *)
(* request that timed out may still be applied.                             *)
UpdateFails(j) ==
  /\ job[j].at = "update" /\ Disturb
  /\ job' = [job EXCEPT ![j].at = "queued"]
  /\ \/ late' = late \cup {[input |-> job[j].input, from |-> job[j].from,
                            changed |-> job[j].changed]}
     \/ UNCHANGED late
  /\ UNCHANGED <<item, page, written, source>>

ApplyLate(u) ==
  /\ u \in late
  /\ late' = late \ {u}
  /\ Write(u.input, u.from, u.changed)
  /\ NoteWrite
  /\ UNCHANGED <<page, job, disturbances>>

(* Pub/Sub gives up on a job, or the worker skips it. *)
Drop(j) ==
  /\ job[j].at = "queued" /\ Disturb
  /\ job' = [job EXCEPT ![j] = Idle(item)]
  /\ UNCHANGED <<item, page, late, written, source>>

CuratorEdits(f, t) ==
  /\ Disturb
  /\ item' = [item EXCEPT ![f] = t] /\ source' = [source EXCEPT ![f] = "curator"]
  /\ NoteWrite
  /\ UNCHANGED <<page, job, late>>

PublisherRevises(f, t, kind) ==
  /\ Disturb
  /\ page' = [text |-> [page.text EXCEPT ![f] = t], kind |-> kind]
  /\ UNCHANGED <<item, job, late, written, source>>

Next ==
  \/ \E j \in Jobs : Enqueue(j) \/ Extract(j) \/ Update(j) \/ UpdateFails(j) \/ Drop(j)
  \/ \E u \in late : ApplyLate(u)
  \/ \E f \in Fields, t \in Texts :
       CuratorEdits(f, t) \/ \E kind \in {"own", "elsewhere"} : PublisherRevises(f, t, kind)

Spec == Init /\ [][Next]_vars

(* The live loop re-enqueues the article; jobs run and updates land. *)
FairSpec ==
  /\ Spec
  /\ \A j \in Jobs : WF_vars(Enqueue(j)) /\ SF_vars(Extract(j)) /\ WF_vars(Update(j))
  /\ WF_vars(\E u \in late : ApplyLate(u))
-----------------------------------------------------------------------------
(* Once edits, revisions and failures cease, the item comes to agree with   *)
(* the page and stays so, whatever stale snapshots and late updates were    *)
(* still under way.                                                         *)
Agrees == Changed(page.text, item) = {}
Converges == <>[]Agrees

(* An update writes only fields in which the page differs from the item by  *)
(* more than style, unless the field was written after the snapshot ("to    *)
(* avoid overwriting curator edits with cosmetic differences").             *)
StyleKept ==
  [][\A j \in Jobs : job[j].at = "update" /\ job'[j].at = "idle" =>
       \A f \in Fields : item'[f] # item[f] =>
         f \in written[j] \/ Normal[f][item'[f]] # Normal[f][item[f]]]_vars

(* toCanonicalUrl drops "a redirect to another domain, because the page is  *)
(* not the article we asked for": no such page becomes the article's text.  *)
SyncedFromOwnPage == \A f \in Fields : source[f] # "elsewhere"
=============================================================================
