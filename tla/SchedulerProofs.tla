--------------------------- MODULE SchedulerProofs ---------------------------
(***************************************************************************)
(* Proofs about Scheduler, for any list of pages, offsets, limits and      *)
(* thresholds, any length of a minute and any lateness of its publishes.   *)
(***************************************************************************)
EXTENDS Scheduler, TLAPS

Phases == {"wait", "fetch", "publish", "stopped"}
Sends == [loop: Loops, item: Items, minute: Epochs]
PageSend(p, m) == [loop |-> "pages", item |-> p, minute |-> m]

USE SchedulerAssumption

-----------------------------------------------------------------------------
(* Division of the clock into minutes. *)
LEMMA Quotient ==
  ASSUME NEW t \in Nat
  PROVE  /\ t \div Minute \in Nat
         /\ (t \div Minute) * Minute <= t
         /\ t < (t \div Minute) * Minute + Minute
OBVIOUS

LEMMA TimesMonotone ==
  ASSUME NEW i \in Int, NEW j \in Int, i <= j, NEW n \in Nat
  PROVE  i * n <= j * n
<1>1. PICK k \in Nat : j = i + k
  BY j - i \in Nat
<1>2. j * n = i * n + k * n /\ k * n \in Nat
  BY <1>1
<1> QED BY <1>2

LEMMA QuotientBound ==
  ASSUME NEW t \in Nat, NEW q \in Nat, q * Minute <= t
  PROVE  q <= t \div Minute
<1> SUFFICES ASSUME t \div Minute < q PROVE FALSE
  BY Quotient
<1> DEFINE r == t \div Minute
<1>1. r \in Nat /\ t < r * Minute + Minute
  BY Quotient
<1>2. r + 1 <= q
  BY <1>1
<1> HIDE DEF r
<1>3. (r + 1) * Minute <= q * Minute
  BY <1>1, <1>2, TimesMonotone
<1>4. (r + 1) * Minute = r * Minute + Minute
  BY <1>1
<1>5. r * Minute \in Nat /\ q * Minute \in Nat
  BY <1>1
<1> QED BY <1>1, <1>3, <1>4, <1>5

LEMMA QuotientMonotone ==
  ASSUME NEW t \in Nat, NEW u \in Nat, t <= u
  PROVE  t \div Minute <= u \div Minute
BY Quotient, QuotientBound

LEMMA NextMinuteType ==
  ASSUME NEW t \in 1..MaxTime
  PROVE  NextMinute(t) \in Epochs /\ NextMinute(t) \in Nat
<1>1. t \in Nat /\ t <= MaxTime /\ MaxTime \in Nat
  OBVIOUS
<1>2. t \div Minute <= MaxTime \div Minute /\ t \div Minute \in Nat /\ MaxTime \div Minute \in Nat
  BY <1>1, Quotient, QuotientMonotone
<1> QED BY <1>2 DEF NextMinute, Epochs

LEMMA EpochsNat == Epochs \subseteq Nat /\ 0 \in Epochs
BY Quotient DEF Epochs

LEMMA DuePagesType ==
  \A m : DuePages(m) \subseteq Pages
BY DEF DuePages, Pages

LEMMA DueOffset ==
  ASSUME NEW m, NEW p \in DuePages(m)
  PROVE  m % RefreshMinutes = PageOffset[p]
BY DEF DuePages, IsDue

LEMMA Typed ==
  TypeOK <=>
    /\ clock \in 1..MaxTime /\ phase \in [Loops -> Phases]
    /\ target \in [Loops -> Epochs] /\ woke \in [Loops -> 0..MaxTime]
    /\ inFlight \subseteq Sends /\ enqueued \in [Pages -> [Epochs -> Nat]]
    /\ lastTickAt \in 0..MaxTime
    /\ proc \in {"up", "aborted", "draining", "exited"}
    /\ topics \subseteq Loops /\ flushing \subseteq inFlight
    /\ last \in [minute: Epochs, ended: 0..MaxTime]
BY DEF TypeOK, Phases, Sends

-----------------------------------------------------------------------------
(* The shared parts of the actions keep the types. *)
LEMMA SendType ==
  ASSUME TypeOK, NEW l \in Loops, NEW items \in SUBSET Items, Send(l, items)
  PROVE  /\ inFlight' \subseteq Sends /\ inFlight \subseteq inFlight'
         /\ topics' \subseteq Loops
<1>1. target[l] \in Epochs
  BY Typed
<1>2. Sending(l, items) \subseteq Sends
  BY <1>1 DEF Sending, Sends
<1> QED BY <1>2, Typed DEF Send

LEMMA NextWaitType ==
  ASSUME TypeOK, NEW l \in Loops, NextWait(l)
  PROVE  /\ phase' \in [Loops -> Phases]
         /\ target' \in [Loops -> Epochs]
         /\ woke' \in [Loops -> 0..MaxTime]
         /\ last' \in [minute: Epochs, ended: 0..MaxTime]
<1>1. NextMinute(clock) \in Epochs
  BY Typed, NextMinuteType
<1>2. phase' \in [Loops -> Phases] /\ target' \in [Loops -> Epochs]
  BY <1>1, Typed DEF NextWait, Phases
<1>3. woke' \in [Loops -> 0..MaxTime] /\ clock \in 0..MaxTime
  BY Typed DEF NextWait
<1>4. last' \in [minute: Epochs, ended: 0..MaxTime]
  BY <1>3, Typed DEF NextWait
<1> QED BY <1>2, <1>3, <1>4

LEMMA TickPagesType == ASSUME TypeOK, TickPages PROVE TypeOK'
<1>1. DuePages(target["pages"]) \in SUBSET Items /\ "pages" \in Loops
  BY DuePagesType DEF Items, Loops
<1>2. inFlight' \subseteq Sends /\ inFlight \subseteq inFlight' /\ topics' \subseteq Loops
  BY <1>1, SendType DEF TickPages
<1>3. clock \in 0..MaxTime
  BY Typed
<1>4. phase' \in [Loops -> Phases] /\ woke' \in [Loops -> 0..MaxTime]
  BY <1>3, Typed DEF TickPages, PagesTimer, TimerFires, Phases
<1> QED BY <1>2, <1>3, <1>4, Typed DEF TickPages, TypeOK, Phases, Sends

LEMMA TickLiveType == ASSUME TypeOK, TickLive PROVE TypeOK'
<1>1. clock \in 0..MaxTime
  BY Typed
<1>2. phase' \in [Loops -> Phases] /\ woke' \in [Loops -> 0..MaxTime]
  BY <1>1, Typed DEF TickLive, TimerFires, Phases
<1> QED BY <1>2, Typed DEF TickLive, NoteLiveTick, TypeOK, drain, Phases

LEMMA FetchLiveType == ASSUME TypeOK, FetchLive PROVE TypeOK'
<1>1. "live" \in Loops
  BY DEF Loops
<1>2. CASE NextWait("live") /\ UNCHANGED <<inFlight, topics>>
  BY <1>1, <1>2, NextWaitType DEF FetchLive, TypeOK, Phases
<1>3. ASSUME NEW batch \in SUBSET LiveArticles, Send("live", batch),
             phase' = [phase EXCEPT !["live"] = "publish"],
             UNCHANGED <<target, woke, last>>
      PROVE  TypeOK'
  <2>1. batch \in SUBSET Items
    BY DEF Items
  <2>2. inFlight' \subseteq Sends /\ inFlight \subseteq inFlight' /\ topics' \subseteq Loops
    BY <1>1, <1>3, <2>1, SendType
  <2>3. phase' \in [Loops -> Phases]
    BY <1>3, Typed DEF Phases
  <2> QED BY <1>3, <2>2, <2>3, Typed DEF FetchLive, TypeOK, Phases, Sends
<1> QED BY <1>2, <1>3 DEF FetchLive

LEMMA LandType == ASSUME TypeOK, NEW s \in inFlight, Land(s) PROVE TypeOK'
<1>1. enqueued' \in [Pages -> [Epochs -> Nat]]
  <2>1. s.minute \in Epochs
    BY Typed DEF Sends
  <2>2. CASE s.item \in Pages
    <3>1. enqueued[s.item] \in [Epochs -> Nat]
      BY <2>2, Typed
    <3>2. enqueued[s.item][s.minute] + 1 \in Nat
      BY <2>1, <3>1
    <3>3. [enqueued[s.item] EXCEPT ![s.minute] = @ + 1] \in [Epochs -> Nat]
      BY <3>1, <3>2
    <3> QED BY <3>3, Typed DEF Land
  <2>3. CASE s.item \notin Pages
    <3>1. \A x : [enqueued EXCEPT ![s.item] = x] \in [Pages -> [Epochs -> Nat]]
      BY <2>3, Typed
    <3> QED BY <3>1, Typed DEF Land
  <2> QED BY <2>2, <2>3
<1> QED BY <1>1 DEF Land, TypeOK

LEMMA FailType == ASSUME TypeOK, NEW s \in inFlight, Fail(s) PROVE TypeOK'
<1>1. s.loop \in Loops
  BY Typed DEF Sends
<1>2. CASE NextWait(s.loop)
  BY <1>1, <1>2, NextWaitType DEF Fail, TypeOK, Phases
<1>3. CASE UNCHANGED <<phase, target, woke, last>>
  BY <1>3 DEF Fail, TypeOK
<1> QED BY <1>2, <1>3 DEF Fail

LEMMA TickDoneType == ASSUME TypeOK, NEW l \in Loops, TickDone(l) PROVE TypeOK'
BY NextWaitType DEF TickDone, TypeOK, drain, Phases

LEMMA EndType ==
  ASSUME TypeOK, Abort \/ Drain \/ Flushed \/ ForceExit \/ Pass
  PROVE  TypeOK'
<1>1. CASE Abort
  BY <1>1 DEF Abort, TypeOK, drain
<1>2. CASE Drain
  BY <1>2 DEF Drain, TypeOK
<1>3. CASE Flushed \/ ForceExit
  BY <1>3 DEF Flushed, ForceExit, Exit, TypeOK
<1>4. CASE Pass
  <2>1. clock' \in 1..MaxTime
    BY <1>4, Typed DEF Pass
  <2> QED BY <1>4, <2>1 DEF Pass, TypeOK, drain
<1> QED BY <1>1, <1>2, <1>3, <1>4

LEMMA TypeInit == Init => TypeOK
<1> SUFFICES ASSUME Init PROVE TypeOK
  OBVIOUS
<1>1. 1 \in 1..MaxTime
  OBVIOUS
<1>2. NextMinute(1) \in Epochs
  BY <1>1, NextMinuteType
<1>3. last \in [minute: Epochs, ended: 0..MaxTime]
  BY EpochsNat DEF Init, NoTick
<1> QED BY <1>1, <1>2, <1>3 DEF Init, TypeOK

LEMMA TypeNext == TypeOK /\ [Next]_vars => TypeOK'
<1> SUFFICES ASSUME TypeOK, [Next]_vars PROVE TypeOK'
  OBVIOUS
<1>1. CASE UNCHANGED vars
  BY <1>1 DEF TypeOK, vars
<1> QED BY <1>1, TickPagesType, TickLiveType, FetchLiveType, LandType, FailType,
           TickDoneType, EndType DEF Next, Over

(* Every reachable state of the scheduler has the declared types.           *)
THEOREM TypeCorrect == Spec => []TypeOK
BY TypeInit, TypeNext, PTL DEF Spec

-----------------------------------------------------------------------------
(* What a step is to the page loop: it ticks, its tick ends, it stops, or   *)
(* it is left alone.                                                        *)
Untouched ==
  /\ phase'["pages"] = phase["pages"] /\ target'["pages"] = target["pages"]
  /\ woke'["pages"] = woke["pages"] /\ last' = last

Ends == phase["pages"] = "publish" /\ NextWait("pages")

Stops == phase'["pages"] = "stopped" /\ UNCHANGED <<target, last>>

LEMMA LiveWait ==
  ASSUME TypeOK, NextWait("live")
  PROVE  Untouched
<1>1. "live" \in Loops /\ "pages" \in Loops /\ "live" # "pages"
  BY DEF Loops
<1> QED BY <1>1, Typed DEF NextWait, Untouched

LEMMA LiveMoves ==
  ASSUME TypeOK, TickLive \/ FetchLive
  PROVE  Untouched
<1>1. "live" \in Loops /\ "pages" \in Loops /\ "live" # "pages"
  BY DEF Loops
<1>2. CASE TickLive
  BY <1>1, <1>2, Typed DEF TickLive, TimerFires, Untouched
<1>3. CASE FetchLive
  BY <1>1, <1>3, LiveWait, Typed DEF FetchLive, Untouched
<1> QED BY <1>2, <1>3

LEMMA FailEnds ==
  ASSUME TypeOK, NEW s \in inFlight, Fail(s)
  PROVE  \/ Untouched
         \/ /\ Ends
            /\ s.loop = "pages" /\ s.minute = target["pages"] /\ clock > woke["pages"]
<1>1. s.loop \in {"pages", "live"}
  BY Typed DEF Sends, Loops
<1>2. CASE UNCHANGED <<phase, target, woke, last>>
  BY <1>2 DEF Untouched
<1>3. CASE /\ phase[s.loop] = "publish" /\ target[s.loop] = s.minute
           /\ NextWait(s.loop)
  <2>1. CASE s.loop = "live"
    BY <1>3, <2>1, LiveWait
  <2>2. CASE s.loop = "pages"
    <3>1. s \in OfTick("pages")
      BY <1>3, <2>2 DEF OfTick
    <3> QED BY <1>3, <2>2, <3>1 DEF Fail, Sent, Ends
  <2> QED BY <1>1, <2>1, <2>2
<1> QED BY <1>2, <1>3 DEF Fail

LEMMA DoneEnds ==
  ASSUME TypeOK, NEW l \in Loops, TickDone(l)
  PROVE  \/ Untouched
         \/ Ends /\ OfTick("pages") = {}
<1>1. CASE l = "live"
  BY <1>1, LiveWait DEF TickDone
<1>2. CASE l = "pages"
  BY <1>2 DEF TickDone, Ends
<1> QED BY <1>1, <1>2 DEF Loops

LEMMA PageSteps ==
  ASSUME TypeOK, [Next]_vars
  PROVE  TickPages \/ Ends \/ Stops \/ Untouched
<1>1. ASSUME NEW s \in inFlight, Land(s) PROVE Untouched
  BY <1>1 DEF Land, Untouched
<1>2. CASE Abort \/ Drain
  BY <1>2, Typed DEF Abort, Drain, Stops, Untouched, Loops
<1>3. CASE Flushed \/ ForceExit
  BY <1>3 DEF Flushed, ForceExit, Exit, Stops, Loops
<1>4. CASE Pass \/ UNCHANGED vars
  BY <1>4 DEF Pass, vars, Untouched
<1> QED BY <1>1, <1>2, <1>3, <1>4, LiveMoves, FailEnds, DoneEnds DEF Next, Over

LEMMA EndsIn ==
  ASSUME TypeOK, Ends
  PROVE  /\ phase'["pages"] = "wait" =>
              target'["pages"] = NextMinute(clock)
         /\ phase'["pages"] \in {"wait", "stopped"}
         /\ phase'["pages"] = "stopped" => target'["pages"] = target["pages"]
         /\ last' = [minute |-> target["pages"], ended |-> clock]
<1>1. "pages" \in Loops
  BY DEF Loops
<1> QED BY <1>1, Typed DEF Ends, NextWait

LEMMA TicksIn ==
  ASSUME TypeOK, TickPages
  PROVE  /\ phase["pages"] = "wait" /\ phase'["pages"] = "publish"
         /\ woke'["pages"] = clock /\ lastTickAt' = clock
         /\ UNCHANGED <<clock, target, last, enqueued>>
         /\ clock >= target["pages"] * Minute - Early
<1>1. "pages" \in Loops
  BY DEF Loops
<1> QED BY <1>1, Typed DEF TickPages, PagesTimer, TimerFires

-----------------------------------------------------------------------------
(* While a page tick runs, the probe's time is that tick's start.           *)
TickNoted == phase["pages"] = "publish" => lastTickAt = woke["pages"]

LEMMA NotedNext == TypeOK /\ TickNoted /\ [Next]_vars => TickNoted'
<1> SUFFICES ASSUME TypeOK, TickNoted, [Next]_vars PROVE TickNoted'
  OBVIOUS
<1>1. CASE TickPages
  BY <1>1, TicksIn DEF TickNoted
<1>2. CASE Ends \/ Stops
  BY <1>2, EndsIn DEF Stops, TickNoted
<1>3. CASE Untouched /\ ~TickPages
  <2>1. lastTickAt' = lastTickAt
    BY <1>3 DEF Next, TickLive, NoteLiveTick, FetchLive, Land, Fail, TickDone,
                Abort, Drain, Flushed, ForceExit, Exit, Pass, Over, vars
  <2> QED BY <1>3, <2>1 DEF Untouched, TickNoted
<1> QED BY <1>1, <1>2, <1>3, PageSteps

LEMMA NotedHealth == TypeOK /\ TickNoted => HungPagesUnhealthy
<1> SUFFICES ASSUME TypeOK, TickNoted, phase["pages"] = "publish",
                    clock - woke["pages"] > Threshold
             PROVE  ~(clock - lastTickAt <= Threshold)
  BY DEF HungPagesUnhealthy, Healthy
<1>1. clock \in Int /\ lastTickAt \in Int /\ lastTickAt = woke["pages"]
  BY Typed DEF TickNoted
<1> QED BY <1>1

(* A page tick that hangs past the threshold makes the probe fail, whatever *)
(* the live loop and the publishes do.                                      *)
THEOREM HangNoticed == Spec => []HungPagesUnhealthy
<1>1. Init => TickNoted
  BY DEF Init, TickNoted, Loops
<1> QED BY <1>1, TypeCorrect, NotedNext, NotedHealth, PTL DEF Spec

-----------------------------------------------------------------------------
(* A loop that waits after a tick waits for the minute after that tick's    *)
(* end.                                                                     *)
WaitsForNext ==
  phase["pages"] = "wait" /\ last # NoTick => target["pages"] = NextMinute(last.ended)

LEMMA WaitsNext == TypeOK /\ WaitsForNext /\ [Next]_vars => WaitsForNext'
<1> SUFFICES ASSUME TypeOK, WaitsForNext, [Next]_vars PROVE WaitsForNext'
  OBVIOUS
<1>1. CASE TickPages
  BY <1>1, TicksIn DEF WaitsForNext
<1>2. CASE Ends
  BY <1>2, EndsIn DEF WaitsForNext
<1>3. CASE Stops \/ Untouched
  BY <1>3 DEF Stops, Untouched, WaitsForNext
<1> QED BY <1>1, <1>2, <1>3, PageSteps

LEMMA WaitsSkip == TypeOK /\ WaitsForNext => SkippedOnlyByOverrun
<1> SUFFICES ASSUME TypeOK, WaitsForNext, phase["pages"] = "wait", last # NoTick,
                    target["pages"] > last.minute + 1
             PROVE  last.ended >= (last.minute + 1) * Minute
  BY DEF SkippedOnlyByOverrun
<1> DEFINE q == last.ended \div Minute
<1>0. last \in [minute: Epochs, ended: 0..MaxTime]
  BY Typed
<1>a. last.ended \in 0..MaxTime /\ last.minute \in Epochs
  BY <1>0
<1>d. last.ended \in Nat
  BY <1>a
<1>e. last.minute \in Nat
  BY <1>a, EpochsNat
<1>1. last.ended \in Nat /\ last.minute \in Nat
  BY <1>d, <1>e
<1>b. target["pages"] = q + 1
  BY DEF WaitsForNext, NextMinute
<1>c. q \in Nat /\ q * Minute <= last.ended
  BY <1>1, Quotient
<1>2. q + 1 > last.minute + 1 /\ q \in Nat /\ q * Minute <= last.ended
  BY <1>b, <1>c
<1> HIDE DEF q
<1>3. (last.minute + 1) * Minute <= q * Minute
  BY <1>1, <1>2, TimesMonotone
<1>4. q * Minute \in Nat /\ (last.minute + 1) * Minute \in Nat
  BY <1>1, <1>2
<1> QED BY <1>1, <1>2, <1>3, <1>4

(* The page loop skips a minute only if its tick was still running when     *)
(* that minute began.                                                       *)
THEOREM SkipsOnlyOverruns == Spec => []SkippedOnlyByOverrun
<1>1. Init => WaitsForNext
  BY DEF Init, WaitsForNext
<1> QED BY <1>1, TypeCorrect, WaitsNext, WaitsSkip, PTL DEF Spec

-----------------------------------------------------------------------------
(* The jobs of page p for minute m: enqueued or on their way.  They are of  *)
(* the page's own minutes, and older than the minute the loop waits for.    *)
Known(p, m) == enqueued[p][m] > 0 \/ PageSend(p, m) \in inFlight

OwnMinutes ==
  /\ \A s \in inFlight : s.loop = "pages" => s.item \in Pages
  /\ \A p \in Pages, m \in Epochs : Known(p, m) =>
       /\ m % RefreshMinutes = PageOffset[p]
       /\ m <= target["pages"]
       /\ phase["pages"] = "wait" => m < target["pages"]

OnceOnly ==
  \A p \in Pages, m \in Epochs :
    /\ enqueued[p][m] \in {0, 1}
    /\ enqueued[p][m] = 1 => PageSend(p, m) \notin inFlight

(* A tick starts at most Early before its minute, and nothing of it lands   *)
(* at once.                                                                 *)
TickTimed ==
  phase["pages"] = "publish" =>
    /\ woke["pages"] >= target["pages"] * Minute - Early
    /\ woke["pages"] <= clock
    /\ clock = woke["pages"] => \A p \in Pages : enqueued[p][target["pages"]] = 0

SpacedInv == OwnMinutes /\ OnceOnly /\ TickTimed

LEMMA PageFacts ==
  ASSUME TypeOK
  PROVE  /\ "pages" \in Loops /\ target["pages"] \in Epochs /\ target["pages"] \in Nat
         /\ clock \in Nat /\ clock \in 1..MaxTime
         /\ woke["pages"] \in Nat
         /\ \A p \in Pages, m \in Epochs : enqueued[p][m] \in Nat
<1>1. "pages" \in Loops
  BY DEF Loops
<1>2. target["pages"] \in Epochs /\ woke["pages"] \in 0..MaxTime
  BY <1>1, Typed
<1>3. target["pages"] \in Nat
  BY <1>2, EpochsNat
<1>7. woke["pages"] \in Nat
  BY <1>2
<1>6. clock \in 1..MaxTime
  BY Typed
<1>4. clock \in Nat /\ clock \in 1..MaxTime
  BY <1>6
<1>5. \A p \in Pages, m \in Epochs : enqueued[p][m] \in Nat
  BY Typed
<1> QED BY <1>1, <1>2, <1>3, <1>4, <1>5, <1>7

(* Steps that add no page job and leave the page loop alone or stop it.     *)
LEMMA QuietKeeps ==
  ASSUME TypeOK, SpacedInv, Untouched \/ Stops,
         enqueued' = enqueued, clock' \in {clock, clock + 1},
         \A s \in inFlight' : s.loop = "pages" => s \in inFlight
  PROVE  SpacedInv'
<1>1. target'["pages"] = target["pages"]
      /\ (phase'["pages"] = phase["pages"] \/ phase'["pages"] = "stopped")
  BY DEF Untouched, Stops
<1>2. \A p, m : PageSend(p, m) \in inFlight' => PageSend(p, m) \in inFlight
  BY DEF PageSend
<1>3. OwnMinutes'
  BY <1>1, <1>2 DEF SpacedInv, OwnMinutes, Known, PageSend
<1>4. OnceOnly'
  BY <1>2 DEF SpacedInv, OnceOnly, PageSend
<1>5. TickTimed'
  <2>1. CASE phase'["pages"] = "stopped"
    BY <2>1 DEF TickTimed
  <2>2. CASE Untouched
    <3>1. clock \in Nat /\ woke["pages"] \in Nat
      BY PageFacts
    <3> QED BY <2>2, <3>1 DEF Untouched, SpacedInv, TickTimed
  <2> QED BY <2>1, <2>2 DEF Stops
<1> QED BY <1>3, <1>4, <1>5 DEF SpacedInv

LEMMA TickSpaced ==
  ASSUME TypeOK, SpacedInv, TickPages
  PROVE  SpacedInv'
<1> DEFINE t == target["pages"]
<1>1. /\ phase["pages"] = "wait" /\ phase'["pages"] = "publish"
      /\ woke'["pages"] = clock /\ clock' = clock
      /\ target' = target /\ enqueued' = enqueued
      /\ clock >= t * Minute - Early
  BY TicksIn
<1>2. inFlight' = inFlight \cup {PageSend(p, t) : p \in DuePages(t)}
  BY DEF TickPages, Send, Sending, PageSend
<1>3. t \in Epochs /\ t \in Nat /\ \A p \in Pages, m \in Epochs : enqueued[p][m] \in Nat
  BY PageFacts
<1>4. \A p \in Pages : enqueued[p][t] = 0 /\ PageSend(p, t) \notin inFlight
  BY <1>1, <1>3 DEF SpacedInv, OwnMinutes, Known
<1>5. ASSUME NEW p \in Pages, NEW m \in Epochs, PageSend(p, m) \in inFlight',
             PageSend(p, m) \notin inFlight
      PROVE  m = t /\ m % RefreshMinutes = PageOffset[p]
  <2>1. PICK q \in DuePages(t) : PageSend(p, m) = PageSend(q, t)
    BY <1>2, <1>5
  <2>2. p = q /\ m = t
    BY <2>1 DEF PageSend
  <2> QED BY <2>2, DueOffset
<1>6. OwnMinutes'
  <2>1. \A s \in inFlight' : s.loop = "pages" => s.item \in Pages
    BY <1>2, DuePagesType DEF SpacedInv, OwnMinutes, PageSend
  <2>2. ASSUME NEW p \in Pages, NEW m \in Epochs, Known(p, m)'
        PROVE  m % RefreshMinutes = PageOffset[p] /\ m <= t
    <3>1. CASE Known(p, m)
      BY <3>1 DEF SpacedInv, OwnMinutes
    <3>2. CASE ~Known(p, m)
      <4>1. PageSend(p, m) \in inFlight' /\ PageSend(p, m) \notin inFlight
        BY <1>1, <2>2, <3>2 DEF Known, PageSend
      <4> QED BY <1>3, <1>5, <4>1
    <3> QED BY <3>1, <3>2
  <2> QED BY <1>1, <2>1, <2>2 DEF OwnMinutes
<1>7. OnceOnly'
  <2> SUFFICES ASSUME NEW p \in Pages, NEW m \in Epochs
               PROVE  /\ enqueued[p][m] \in {0, 1}
                      /\ enqueued[p][m] = 1 => PageSend(p, m) \notin inFlight'
    BY <1>1 DEF OnceOnly, PageSend
  <2>1. CASE PageSend(p, m) \in inFlight' /\ PageSend(p, m) \notin inFlight
    BY <1>4, <1>5, <2>1
  <2>2. CASE ~(PageSend(p, m) \in inFlight' /\ PageSend(p, m) \notin inFlight)
    BY <2>2 DEF SpacedInv, OnceOnly
  <2> QED BY <2>1, <2>2
<1>8. TickTimed'
  BY <1>1, <1>4, PageFacts DEF TickTimed
<1> QED BY <1>6, <1>7, <1>8 DEF SpacedInv

(* The end of a page tick.  A publish takes a unit, and a timer is early by *)
(* one at most, so the next minute is a later one; a tick that ended at     *)
(* once had nothing to publish.                                             *)
LEMMA EndSpaced ==
  ASSUME Early <= 1, TypeOK, SpacedInv, Ends,
         clock' = clock, enqueued' = enqueued, inFlight' \subseteq inFlight,
         \/ clock > woke["pages"]
         \/ OfTick("pages") = {}
  PROVE  SpacedInv'
<1> DEFINE t == target["pages"]
           n == NextMinute(clock)
<1>1. /\ t \in Epochs /\ t \in Nat /\ clock \in Nat /\ woke["pages"] \in Nat
      /\ clock \in 1..MaxTime
  BY PageFacts
<1>2. /\ phase["pages"] = "publish"
      /\ woke["pages"] >= t * Minute - Early /\ woke["pages"] <= clock
      /\ clock = woke["pages"] => \A p \in Pages : enqueued[p][t] = 0
  BY DEF Ends, SpacedInv, TickTimed
<1>3. /\ phase'["pages"] \in {"wait", "stopped"}
      /\ phase'["pages"] = "wait" => target'["pages"] = n
      /\ phase'["pages"] = "stopped" => target'["pages"] = t
  BY EndsIn
<1>4. t * Minute \in Nat /\ n \in Nat
  BY <1>1, NextMinuteType
<1>5. t <= n /\ (clock > woke["pages"] => t < n)
  <2>1. ASSUME clock > woke["pages"] PROVE t < n
    <3>1. t * Minute <= clock
      BY <1>1, <1>2, <1>4, <2>1
    <3>2. t <= clock \div Minute
      BY <1>1, <3>1, QuotientBound
    <3> QED BY <1>1, <3>2, Quotient DEF NextMinute
  <2>2. t <= n
    <3>1. CASE t = 0
      BY <1>4, <3>1
    <3>2. CASE t # 0
      <4>1. t - 1 \in Nat /\ (t - 1) * Minute = t * Minute - Minute
        BY <1>1, <3>2
      <4>2. (t - 1) * Minute <= clock
        BY <1>1, <1>2, <1>4, <4>1
      <4>3. t - 1 <= clock \div Minute
        BY <1>1, <4>1, <4>2, QuotientBound
      <4> QED BY <1>1, <4>3, Quotient DEF NextMinute
    <3> QED BY <3>1, <3>2
  <2> QED BY <2>1, <2>2
<1>6. \A p, m : PageSend(p, m) \in inFlight' => PageSend(p, m) \in inFlight
  OBVIOUS
<1>7. ASSUME NEW p \in Pages, NEW m \in Epochs, Known(p, m)
      PROVE  m < n /\ m <= t /\ m % RefreshMinutes = PageOffset[p]
  <2>1. m <= t /\ m % RefreshMinutes = PageOffset[p] /\ m \in Nat
    BY <1>7, EpochsNat DEF SpacedInv, OwnMinutes
  <2>2. CASE clock > woke["pages"]
    BY <1>1, <1>4, <1>5, <2>1, <2>2
  <2>3. CASE clock = woke["pages"] /\ OfTick("pages") = {}
    <3>1. m # t
      BY <1>2, <1>7, <2>3 DEF Known, PageSend, OfTick
    <3> QED BY <1>1, <1>4, <1>5, <2>1, <3>1
  <2> QED BY <1>1, <1>2, <2>2, <2>3
<1> HIDE DEF n
<1>8. OwnMinutes'
  <2>1. \A s \in inFlight' : s.loop = "pages" => s.item \in Pages
    BY DEF SpacedInv, OwnMinutes
  <2>2. ASSUME NEW p \in Pages, NEW m \in Epochs, Known(p, m)'
        PROVE  /\ m % RefreshMinutes = PageOffset[p] /\ m <= target'["pages"]
               /\ phase'["pages"] = "wait" => m < target'["pages"]
    <3>1. Known(p, m)
      BY <1>6, <2>2 DEF Known, PageSend
    <3>2. m \in Nat
      BY EpochsNat
    <3> QED BY <1>3, <1>4, <1>7, <3>1, <3>2
  <2> QED BY <2>1, <2>2 DEF OwnMinutes
<1>9. OnceOnly'
  BY <1>6 DEF SpacedInv, OnceOnly, PageSend
<1> QED BY <1>3, <1>8, <1>9 DEF SpacedInv, TickTimed

(* A landed page job is counted once and is no longer on its way.           *)
LEMMA LandSpaced ==
  ASSUME TypeOK, SpacedInv, NEW s \in inFlight, Land(s)
  PROVE  SpacedInv'
<1>1. /\ UNCHANGED <<clock, phase, target, woke, last>>
      /\ inFlight' = inFlight \ {s}
  BY DEF Land
<1>2. CASE s.loop # "pages"
  BY <1>1, <1>2, QuietKeeps DEF Land, Untouched
<1>3. CASE s.loop = "pages"
  <2>1. s.item \in Pages /\ s.minute \in Epochs /\ s = PageSend(s.item, s.minute)
    BY <1>3, Typed DEF SpacedInv, OwnMinutes, Sends, PageSend
  <2>2. enqueued[s.item][s.minute] = 0
    BY <2>1 DEF SpacedInv, OnceOnly
  <2>3. \A p \in Pages, m \in Epochs :
          enqueued'[p][m] = IF p = s.item /\ m = s.minute THEN 1 ELSE enqueued[p][m]
    <3>1. enqueued' = [enqueued EXCEPT ![s.item][s.minute] = @ + 1]
      BY <1>3 DEF Land
    <3> QED BY <2>1, <2>2, <3>1, Typed
  <2>4. \A p, m : PageSend(p, m) \in inFlight' <=>
          PageSend(p, m) \in inFlight /\ ~(p = s.item /\ m = s.minute)
    BY <1>1, <2>1 DEF PageSend
  <2>5. \A p \in Pages, m \in Epochs : Known(p, m)' => Known(p, m)
    BY <2>1, <2>3, <2>4 DEF Known, PageSend
  <2>6. OwnMinutes'
    <3>1. \A r \in inFlight' : r.loop = "pages" => r.item \in Pages
      BY <1>1 DEF SpacedInv, OwnMinutes
    <3>2. ASSUME NEW p \in Pages, NEW m \in Epochs, Known(p, m)'
          PROVE  /\ m % RefreshMinutes = PageOffset[p]
                 /\ m <= target["pages"]
                 /\ phase["pages"] = "wait" => m < target["pages"]
      BY <2>5, <3>2 DEF SpacedInv, OwnMinutes
    <3>3. phase' = phase /\ target' = target
      BY <1>1
    <3>4. target'["pages"] = target["pages"] /\ phase'["pages"] = phase["pages"]
      BY <3>3
    <3> QED BY <3>1, <3>2, <3>4 DEF OwnMinutes
  <2>7. OnceOnly'
    <3> SUFFICES ASSUME NEW p \in Pages, NEW m \in Epochs
                 PROVE  /\ enqueued'[p][m] \in {0, 1}
                        /\ enqueued'[p][m] = 1 => PageSend(p, m) \notin inFlight'
      BY DEF OnceOnly, PageSend
    <3>1. /\ enqueued[p][m] \in {0, 1}
          /\ enqueued[p][m] = 1 => PageSend(p, m) \notin inFlight
      BY DEF SpacedInv, OnceOnly
    <3> QED BY <2>3, <2>4, <3>1
  <2>8. TickTimed'
    <3>1. ASSUME clock = woke["pages"], phase["pages"] = "publish"
          PROVE  s.minute # target["pages"]
      BY <1>3, <3>1, PageFacts DEF Land, Sent, OfTick
    <3>2. target["pages"] \in Epochs
      BY PageFacts
    <3> QED BY <1>1, <2>3, <3>1, <3>2 DEF SpacedInv, TickTimed
  <2> QED BY <2>6, <2>7, <2>8 DEF SpacedInv
<1> QED BY <1>2, <1>3

LEMMA FailSpaced ==
  ASSUME Early <= 1, TypeOK, SpacedInv, NEW s \in inFlight, Fail(s)
  PROVE  SpacedInv'
<1>1. /\ clock' = clock /\ enqueued' = enqueued /\ inFlight' \subseteq inFlight
  BY DEF Fail
<1>2. CASE Untouched
  BY <1>1, <1>2, QuietKeeps
<1>3. CASE Ends /\ clock > woke["pages"]
  BY <1>1, <1>3, EndSpaced
<1> QED BY <1>2, <1>3, FailEnds

LEMMA LiveSpaced ==
  ASSUME TypeOK, SpacedInv, TickLive \/ FetchLive
  PROVE  SpacedInv'
<1>1. clock' = clock /\ enqueued' = enqueued
  BY DEF TickLive, FetchLive
<1>2. \A s \in inFlight' : s.loop = "pages" => s \in inFlight
  BY DEF TickLive, FetchLive, Send, Sending
<1> QED BY <1>1, <1>2, LiveMoves, QuietKeeps

LEMMA DoneSpaced ==
  ASSUME Early <= 1, TypeOK, SpacedInv, NEW l \in Loops, TickDone(l)
  PROVE  SpacedInv'
<1>1. clock' = clock /\ enqueued' = enqueued /\ inFlight' = inFlight
  BY DEF TickDone
<1> QED BY <1>1, DoneEnds, QuietKeeps, EndSpaced

LEMMA StopSpaced ==
  ASSUME TypeOK, SpacedInv, Abort \/ Drain \/ Flushed \/ ForceExit \/ Pass \/ UNCHANGED vars
  PROVE  SpacedInv'
<1>1. enqueued' = enqueued /\ clock' \in {clock, clock + 1} /\ inFlight' \subseteq inFlight
  BY DEF Abort, Drain, Flushed, ForceExit, Exit, Pass, vars
<1>2. Untouched \/ Stops
  BY Typed DEF Abort, Drain, Flushed, ForceExit, Exit, Pass, vars, Untouched, Stops, Loops
<1> QED BY <1>1, <1>2, QuietKeeps

LEMMA SpacedInit == Init => SpacedInv
<1> SUFFICES ASSUME Init PROVE SpacedInv
  OBVIOUS
<1>1. \A p \in Pages, m \in Epochs : enqueued[p][m] = 0
  BY DEF Init
<1>2. inFlight = {} /\ phase["pages"] # "publish"
  BY DEF Init, Loops
<1> QED BY <1>1, <1>2 DEF SpacedInv, OwnMinutes, OnceOnly, TickTimed, Known

LEMMA SpacedNext == Early <= 1 /\ TypeOK /\ SpacedInv /\ [Next]_vars => SpacedInv'
BY TickSpaced, LiveSpaced, LandSpaced, FailSpaced, DoneSpaced, StopSpaced
   DEF Next, Over

(* If a publish takes at least as long as a timer can be early (the unit of *)
(* the clock), no page is enqueued twice for a minute, nor for a minute     *)
(* that is not its own, for any pages, interval, limit and overrun.         *)
THEOREM EnqueuedOnce == Early <= 1 => (Spec => []EnqueuesSpaced)
<1> SUFFICES ASSUME Early <= 1 PROVE Spec => []EnqueuesSpaced
  OBVIOUS
<1>1. SpacedInv => EnqueuesSpaced
  BY DEF SpacedInv, OwnMinutes, OnceOnly, Known, EnqueuesSpaced
<1>2. TypeOK /\ SpacedInv /\ [Next]_vars => SpacedInv'
  BY SpacedNext
<1> QED BY <1>1, <1>2, SpacedInit, TypeCorrect, PTL DEF Spec
=============================================================================
