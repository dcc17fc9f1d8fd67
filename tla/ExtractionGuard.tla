--------------------------- MODULE ExtractionGuard ---------------------------
(***************************************************************************)
(* What the marker and the lock of docs/crawl/DEDUPLICATION.md promise,    *)
(* without either: a URL is extracted by one worker at a time, and two     *)
(* extractions of it start at least MinGap apart, however often it is      *)
(* queued and whatever becomes of the workers.                             *)
(***************************************************************************)
EXTENDS Integers

CONSTANTS Urls, MinGap

VARIABLES
  clock,
  running,    \* the URLs being extracted
  started     \* when the last extraction of a URL started

guardVars == <<clock, running, started>>

Never == -1

Init ==
  /\ clock = 0
  /\ running = {}
  /\ started = [u \in Urls |-> Never]

Start(u) ==
  /\ u \notin running
  /\ started[u] = Never \/ clock - started[u] >= MinGap
  /\ running' = running \cup {u}
  /\ started' = [started EXCEPT ![u] = clock]
  /\ UNCHANGED clock

(* The extraction ends: done, failed, or its worker died. *)
Stop(u) ==
  /\ u \in running
  /\ running' = running \ {u}
  /\ UNCHANGED <<clock, started>>

Tick == clock' = clock + 1 /\ UNCHANGED <<running, started>>

Next == Tick \/ \E u \in Urls : Start(u) \/ Stop(u)

Spec == Init /\ [][Next]_guardVars
=============================================================================
