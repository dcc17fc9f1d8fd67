------------------------------ MODULE Scheduler ------------------------------
(***************************************************************************)
(* services/crawl-scheduler: the two loops that main.ts runs with          *)
(* runEveryMinute, what their ticks publish (pages.ts, live-articles.ts),  *)
(* /healthz (app.ts) and the shutdown.                                     *)
(*                                                                         *)
(* The clock counts units, Minute of them to a minute.  A tick takes as    *)
(* long as its publishes and the Corpus API take; a publish takes at least *)
(* a unit.  A timer fires at the earliest Early units before the minute it *)
(* waits for: setTimeout may fire just before Date.now() gets there.       *)
(***************************************************************************)
EXTENDS Integers, Sequences, FiniteSets

CONSTANTS
  PageList,      \* the URLs of publishers.json, in order
  PageOffset,    \* pageOffset, a hash of the URL modulo RefreshMinutes
  RefreshMinutes,    \* crawlConfig.pageRefreshMinutes
  MaxPagesPerTick,   \* config.maxPagesPerTick; Len(PageList) for no limit
  LiveArticles,      \* what getScheduledSectionItems can return
  MaxLivePerTick,    \* config.maxLiveArticlesPerTick
  Threshold,     \* config.staleTickThresholdMinutes, in units
  Minute, Early, MaxTime

Pages == {PageList[i] : i \in 1..Len(PageList)}
Loops == {"pages", "live"}
Epochs == 0..(MaxTime \div Minute) + 1

ASSUME SchedulerAssumption ==
  /\ Minute \in Nat \ {0} /\ Early \in 0..Minute - 1 /\ MaxTime \in Nat \ {0}
  /\ RefreshMinutes \in Nat \ {0} /\ MaxPagesPerTick \in Nat
  /\ MaxLivePerTick \in Nat /\ Threshold \in Nat
  /\ PageOffset \in [Pages -> 0..RefreshMinutes - 1]

VARIABLES
  clock,
  phase,       \* of each loop: waiting, fetching, publishing, stopped
  target,      \* the epoch minute it waits for, or ticks for
  woke,        \* when the tick under way started
  inFlight,    \* publishes under way, by loop, item and minute
  enqueued,    \* how often each page was enqueued for each epoch minute
  lastTickAt,  \* /healthz
  proc,        \* up, aborted (SIGTERM), draining Pub/Sub, exited
  topics,      \* the loops whose topic is in topicCache
  flushing,    \* the publishes that flushTopics waits for
  last         \* history: the page loop's last tick and when it ended

vars == <<clock, phase, target, woke, inFlight, enqueued, lastTickAt, proc,
          topics, flushing, last>>
drain == <<topics, flushing>>

NoTick == [minute |-> 0, ended |-> 0]
Items == Pages \cup LiveArticles

TypeOK ==
  /\ clock \in 1..MaxTime
  /\ phase \in [Loops -> {"wait", "fetch", "publish", "stopped"}]
  /\ target \in [Loops -> Epochs]
  /\ woke \in [Loops -> 0..MaxTime]
  /\ inFlight \subseteq [loop: Loops, item: Items, minute: Epochs]
  /\ enqueued \in [Pages -> [Epochs -> Nat]]
  /\ lastTickAt \in 0..MaxTime
  /\ proc \in {"up", "aborted", "draining", "exited"}
  /\ topics \subseteq Loops /\ flushing \subseteq inFlight
  /\ last \in [minute: Epochs, ended: 0..MaxTime]

\* Mutants: the minute under way; the minute after the next.
ThisMinute(t) == t \div Minute
SkipMinute(t) == t \div Minute + 2

(* waitForNextMinute *)
NextMinute(t) == t \div Minute + 1

(* duePages: the first pages, in list order, whose offset is due. *)
IsDue(i, m) == PageOffset[PageList[i]] = m % RefreshMinutes
DuePages(m) ==
  {PageList[i] : i \in {k \in 1..Len(PageList) :
     /\ IsDue(k, m)
     /\ Cardinality({j \in 1..k - 1 : IsDue(j, m)}) < MaxPagesPerTick}}

(* randomBatch: at most limit of the items, whichever. *)
IsBatch(batch, items, limit) ==
  Cardinality(batch) =
    IF Cardinality(items) < limit THEN Cardinality(items) ELSE limit

(* The clock starts in the first minute, and 0 is no time of a tick. *)
Init ==
  /\ clock = 1
  /\ phase = [l \in Loops |-> "wait"]
  /\ target = [l \in Loops |-> NextMinute(1)]
  /\ woke = [l \in Loops |-> 0]
  /\ inFlight = {}
  /\ enqueued = [p \in Pages |-> [m \in Epochs |-> 0]]
  /\ lastTickAt = 0
  /\ proc = "up"
  /\ topics = {} /\ flushing = {}
  /\ last = NoTick
-----------------------------------------------------------------------------
Sending(l, items) ==
  {[loop |-> l, item |-> i, minute |-> target[l]] : i \in items}
Send(l, items) ==
  /\ inFlight' = inFlight \cup Sending(l, items)
  /\ topics' = IF items = {} THEN topics ELSE topics \cup {l}
OfTick(l) == {s \in inFlight : s.loop = l /\ s.minute = target[l]}

(* The tick resolved or rejected: wait for the next minute, or return from  *)
(* runEveryMinute if the wait is aborted.                                   *)
NextWait(l) ==
  /\ IF proc = "up"
       THEN /\ phase' = [phase EXCEPT ![l] = "wait"]
            /\ target' = [target EXCEPT ![l] = NextMinute(clock)]
       ELSE phase' = [phase EXCEPT ![l] = "stopped"] /\ UNCHANGED target
  /\ woke' = [woke EXCEPT ![l] = 0]
  /\ last' = IF l = "pages" THEN [minute |-> target[l], ended |-> clock] ELSE last

TimerFires(l) ==
  /\ proc = "up" /\ phase[l] = "wait"
  /\ clock >= target[l] * Minute - Early
  /\ woke' = [woke EXCEPT ![l] = clock]

\* Mutant: one loop calls both ticks, so the pages wait for live articles.
TimerFiresAlone(l) ==
  /\ proc = "up" /\ phase[l] = "wait"
  /\ phase["live"] = "wait"
  /\ clock >= target[l] * Minute - Early
  /\ woke' = [woke EXCEPT ![l] = clock]

PagesTimer(l) == TimerFires(l)

(* tickPages: note the tick, and publish the pages due. *)
TickPages ==
  /\ PagesTimer("pages")
  /\ phase' = [phase EXCEPT !["pages"] = "publish"]
  /\ lastTickAt' = clock
  /\ Send("pages", DuePages(target["pages"]))
  /\ UNCHANGED <<clock, target, enqueued, proc, flushing, last>>

\* Mutant: the live tick counts as a tick for /healthz too.
NoteAnyTick == lastTickAt' = clock

NoteLiveTick == UNCHANGED lastTickAt

(* tickLiveArticles: ask the Corpus API for the live articles, unless the   *)
(* limit is 0, ...                                                          *)
TickLive ==
  /\ TimerFires("live")
  /\ phase' = [phase EXCEPT !["live"] =
                 IF MaxLivePerTick = 0 THEN "publish" ELSE "fetch"]
  /\ NoteLiveTick
  /\ UNCHANGED <<clock, target, inFlight, enqueued, proc, drain, last>>

(* ... and publish a batch of them.  Once the drain dropped the client,     *)
(* publishMessage throws unless the topic is cached.                        *)
FetchLive ==
  /\ phase["live"] = "fetch"
  /\ \/ /\ proc = "draining" => "live" \in topics
        /\ phase' = [phase EXCEPT !["live"] = "publish"]
        /\ \E items \in SUBSET LiveArticles : \E batch \in SUBSET items :
             IsBatch(batch, items, MaxLivePerTick) /\ Send("live", batch)
        /\ UNCHANGED <<target, woke, last>>
     \/ NextWait("live") /\ UNCHANGED <<inFlight, topics>>     \* it throws
  /\ UNCHANGED <<clock, enqueued, lastTickAt, proc, flushing>>

(* A publish takes a unit or more. *)
Sent(s) == s \in OfTick(s.loop) => clock > woke[s.loop]

(* A publish lands in its topic, ... *)
Land(s) ==
  /\ s \in inFlight /\ Sent(s)
  /\ inFlight' = inFlight \ {s} /\ flushing' = flushing \ {s}
  /\ enqueued' = IF s.loop = "pages"
                 THEN [enqueued EXCEPT ![s.item][s.minute] = @ + 1]
                 ELSE enqueued
  /\ UNCHANGED <<clock, phase, target, woke, lastTickAt, proc, topics, last>>

(* ... or fails, which fails the tick it belongs to if that is not over.    *)
Fail(s) ==
  /\ s \in inFlight /\ Sent(s)
  /\ inFlight' = inFlight \ {s} /\ flushing' = flushing \ {s}
  /\ IF phase[s.loop] = "publish" /\ target[s.loop] = s.minute
       THEN NextWait(s.loop) ELSE UNCHANGED <<phase, target, woke, last>>
  /\ UNCHANGED <<clock, enqueued, lastTickAt, proc, topics>>

(* Every publish of the tick landed. *)
TickDone(l) ==
  /\ phase[l] = "publish" /\ OfTick(l) = {}
  /\ NextWait(l)
  /\ UNCHANGED <<clock, inFlight, enqueued, lastTickAt, proc, drain>>

(* SIGTERM: abort the waits. *)
Abort ==
  /\ proc = "up"
  /\ proc' = "aborted"
  /\ phase' = [l \in Loops |-> IF phase[l] = "wait" THEN "stopped" ELSE phase[l]]
  /\ UNCHANGED <<clock, target, woke, inFlight, enqueued, lastTickAt, drain, last>>

(* server.close called back: shutdownPubSub drops the client and flushes    *)
(* what is queued by then.                                                  *)
Drain ==
  /\ proc = "aborted"
  /\ proc' = "draining"
  /\ flushing' = inFlight
  /\ UNCHANGED <<clock, phase, target, woke, inFlight, enqueued, lastTickAt, topics, last>>

(* The flush is over, or the timer of SHUTDOWN_TIMEOUT_MS fires: a publish  *)
(* still under way is lost.                                                 *)
Exit ==
  /\ proc' = "exited"
  /\ inFlight' = {} /\ flushing' = {}
  /\ phase' = [l \in Loops |-> "stopped"]
  /\ UNCHANGED <<clock, target, woke, enqueued, lastTickAt, topics, last>>
Flushed == proc = "draining" /\ flushing = {} /\ Exit
ForceExit == proc \in {"aborted", "draining"} /\ Exit

Pass ==
  /\ clock < MaxTime
  /\ clock' = clock + 1
  /\ UNCHANGED <<phase, target, woke, inFlight, enqueued, lastTickAt, proc, drain, last>>

(* The bound on the clock, or the exit, ends a behaviour. *)
Over == (clock = MaxTime \/ proc = "exited") /\ UNCHANGED vars

Next ==
  \/ TickPages \/ TickLive \/ FetchLive
  \/ \E s \in inFlight : Land(s) \/ Fail(s)
  \/ \E l \in Loops : TickDone(l)
  \/ Abort \/ Drain \/ Flushed \/ ForceExit
  \/ Pass \/ Over

Spec == Init /\ [][Next]_vars

(* Time passes, timers fire and the forced exit comes; a publish and the    *)
(* Corpus API may hang.                                                     *)
FairSpec ==
  Spec /\ WF_vars(Pass) /\ WF_vars(TickPages) /\ WF_vars(TickLive)
       /\ WF_vars(ForceExit) /\ WF_vars(TickDone("pages"))
-----------------------------------------------------------------------------
(* A page is enqueued only for its own minutes of the interval, and never   *)
(* twice for one, whatever the timers, the slow ticks and the publishes     *)
(* that land after their tick failed: two of its jobs are for minutes       *)
(* RefreshMinutes apart or more.                                            *)
EnqueuesSpaced ==
  \A p \in Pages, m \in Epochs : enqueued[p][m] > 0 =>
    enqueued[p][m] = 1 /\ m % RefreshMinutes = PageOffset[p]

(* The page loop misses a minute only if the tick before it was still       *)
(* running when that minute began.                                          *)
SkippedOnlyByOverrun ==
  (phase["pages"] = "wait" /\ last # NoTick /\ target["pages"] > last.minute + 1)
    => last.ended >= (last.minute + 1) * Minute

(* /healthz turns unhealthy when a page tick hangs longer than the          *)
(* threshold, whatever the live loop does.                                  *)
Healthy == lastTickAt # 0 /\ clock - lastTickAt <= Threshold
HungPagesUnhealthy ==
  phase["pages"] = "publish" /\ clock - woke["pages"] > Threshold => ~Healthy

(* A Corpus API that hangs never keeps the page loop from its next tick.    *)
PagesKeepTicking ==
  \A m \in Epochs :
    (phase["pages"] = "wait" /\ target["pages"] = m /\ m * Minute < MaxTime)
      ~> (last.minute = m \/ phase["pages"] = "publish" \/ proc # "up")
=============================================================================
