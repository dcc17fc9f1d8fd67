-------------------------- MODULE ApiRequestsProofs --------------------------
(***************************************************************************)
(* Proofs about ApiRequests, for any timeouts, retries, delays, outages    *)
(* and durations, and any lifetime and refresh window of the JWT.          *)
(*                                                                         *)
(* At the end, about TokenBucket, for any rate and burst.                  *)
(***************************************************************************)
EXTENDS ApiRequests, FunctionTheorems, FiniteSetTheorems, TLAPS

USE ApiAssumption

(* A wait is for a retry that is left and allowed. *)
WaitsToRetry ==
  phase = "wait" => attempts <= Retries[api] /\ cause \in Retryable[api]

TypeInv == TypeOK /\ WaitsToRetry

LEMMA RetryableCauses ==
  \A a \in Apis : Retryable[a] \subseteq Causes \ {"expired"}
BY DEF Apis, Retryable, Causes

LEMMA ApiState ==
  ASSUME TypeOK
  PROVE  /\ clock \in Nat /\ delay \in Nat /\ attempts \in Nat
         /\ firstAt \in Nat /\ sentAt \in Nat /\ firstAt <= sentAt /\ sentAt <= clock
         /\ Retries[api] \in Nat /\ MaxDelay[api] \in Nat /\ signedAt \in Int
BY DEF TypeOK

LEMMA AnswerType ==
  ASSUME TypeInv, NEW d \in Nat, Answer(d) \/ AnswerNothing(d)
  PROVE  TypeInv'
<1>1. clock + d \in Nat /\ clock <= clock + d
  BY ApiState DEF TypeInv
<1>2. phase' # "wait"
  BY DEF Answer, AnswerNothing
<1>3. TypeOK'
  BY <1>1, ApiState
     DEF TypeInv, TypeOK, Answer, AnswerNothing, Answered
<1> QED BY <1>2, <1>3 DEF TypeInv, WaitsToRetry

LEMMA FailType ==
  ASSUME TypeInv, NEW d \in Nat, NEW why \in Causes, AttemptFails(d, why)
  PROVE  TypeInv'
<1>1. clock + d \in Nat /\ clock <= clock + d
  BY ApiState DEF TypeInv
<1>2. TypeOK'
  BY <1>1, ApiState DEF TypeInv, TypeOK, AttemptFails
<1> QED BY <1>2 DEF TypeInv, WaitsToRetry, AttemptFails

LEMMA AfterFailureType ==
  ASSUME TypeInv, AfterFailure
  PROVE  TypeInv'
BY DEF TypeInv, TypeOK, WaitsToRetry, AfterFailure, RetriesLeft

LEMMA RetryType ==
  ASSUME TypeInv, Retry
  PROVE  TypeInv'
<1>1. /\ clock' = clock + delay /\ attempts' = attempts + 1 /\ api' = api
      /\ phase' = "attempt" /\ sentAt' = clock' /\ firstAt' = firstAt
      /\ outage' = outage /\ cause' = cause
  BY DEF Retry
<1>2. clock' \in Nat /\ clock <= clock'
  BY <1>1, ApiState DEF TypeInv
<1>3. attempts' \in 1..Retries[api] + 1
  BY <1>1, ApiState DEF TypeInv, TypeOK, WaitsToRetry, Retry
<1>4. delay' \in Nat
  BY ApiState DEF TypeInv, Retry, Double
<1>5. signedAt' \in Int /\ signedAt' <= clock'
  BY <1>1, <1>2, ApiState DEF TypeInv, TypeOK, Retry, Token
<1>6. firstAt' \in 0..clock' /\ sentAt' \in firstAt'..clock'
  BY <1>1, <1>2, ApiState DEF TypeInv
<1> QED BY <1>1, <1>2, <1>3, <1>4, <1>5, <1>6 DEF TypeInv, TypeOK, WaitsToRetry

LEMMA SyncType ==
  ASSUME TypeInv, NEW age \in Nat, SyncCorpus(clock - age)
  PROVE  TypeInv'
<1>1. /\ clock' = clock /\ api' = "corpus" /\ attempts' = 1 /\ phase' = "attempt"
      /\ delay' = MinDelay["corpus"] /\ cause' = "none"
      /\ firstAt' = clock /\ sentAt' = clock /\ outage' = outage
      /\ signedAt' \in {clock - age, clock}
  BY DEF SyncCorpus, Token
<1>2. clock \in Nat
  BY ApiState DEF TypeInv
<1>3. "corpus" \in Apis
  BY DEF Apis
<1>4. delay' \in Nat /\ 1 \in 1..Retries["corpus"] + 1
  BY <1>1, <1>3
<1>5. signedAt' \in Int /\ signedAt' <= clock'
  BY <1>1, <1>2
<1>6. firstAt' \in 0..clock' /\ sentAt' \in firstAt'..clock'
  BY <1>1, <1>2
<1> QED BY <1>1, <1>2, <1>3, <1>4, <1>5, <1>6 DEF TypeInv, TypeOK, WaitsToRetry

LEMMA TypeInit == Init => TypeInv
<1> SUFFICES ASSUME Init PROVE TypeInv
  OBVIOUS
<1>1. "zyte" \in Apis
  BY DEF Apis
<1>2. MinDelay["zyte"] \in Nat /\ 1 \in 1..Retries["zyte"] + 1 /\ -JwtTtl \in Int /\ -JwtTtl <= 0
  BY <1>1
<1> QED BY <1>1, <1>2 DEF Init, TypeInv, TypeOK, WaitsToRetry

LEMMA TypeNext == TypeInv /\ [Next]_vars => TypeInv'
<1> SUFFICES ASSUME TypeInv, [Next]_vars PROVE TypeInv'
  OBVIOUS
<1>1. Durations[api] \subseteq Nat
  BY DEF TypeInv, TypeOK
<1>2. CASE UNCHANGED vars
  BY <1>2 DEF TypeInv, TypeOK, WaitsToRetry, vars
<1> QED BY <1>1, <1>2, AnswerType, FailType, AfterFailureType, RetryType, SyncType
        DEF Next, Finished

(* Every reachable state of the calls has the declared types; a call makes  *)
(* at most Retries + 1 attempts.                                            *)
THEOREM TypeCorrect == Spec => []TypeOK
<1>1. TypeInv => TypeOK
  BY DEF TypeInv
<1> QED BY <1>1, TypeInit, TypeNext, PTL DEF Spec

-----------------------------------------------------------------------------
(* Each attempt at the Corpus API leaves with a JWT at most Refresh old,    *)
(* and a call that a JWT failed is over.                                    *)
TokenYoung ==
  /\ api = "corpus" => sentAt - signedAt <= Refresh
  /\ phase = "attempt" => clock = sentAt
  /\ phase \in {"attempt", "wait", "done"} => cause # "expired"

TokenInv == TypeInv /\ TokenYoung /\ TokenOutlivesTransit

LEMMA TokenAge ==
  ASSUME NEW cached \in Int, NEW at \in Int
  PROVE  at - Token(cached, at) <= Refresh
BY DEF Token

LEMMA FailToken ==
  ASSUME TokenInv, NEW d \in Nat, NEW why \in Causes, AttemptFails(d, why)
  PROVE  TokenYoung' /\ TokenOutlivesTransit'
<1>1. /\ clock = sentAt /\ clock' = clock + d /\ cause' = why /\ phase' = "failed"
      /\ api' = api /\ UNCHANGED <<sentAt, signedAt>>
      /\ clock \in Nat /\ sentAt \in Nat /\ signedAt \in Int
  BY ApiState DEF TokenInv, TypeInv, TokenYoung, AttemptFails
<1>2. TokenYoung'
  BY <1>1 DEF TokenInv, TokenYoung
<1>3. ASSUME why = "expired" PROVE clock' - sentAt' >= JwtTtl - Refresh
  <2>1. api = "corpus" /\ sentAt + d >= signedAt + JwtTtl
    BY <1>3 DEF AttemptFails, CanExpire
  <2>2. sentAt - signedAt <= Refresh
    BY <2>1 DEF TokenInv, TokenYoung
  <2>3. JwtTtl \in Int /\ Refresh \in Int
    OBVIOUS
  <2> QED BY <1>1, <2>1, <2>2, <2>3
<1> QED BY <1>1, <1>2, <1>3 DEF TokenOutlivesTransit

LEMMA NextToken ==
  ASSUME TokenInv, [Next]_vars
  PROVE  TokenYoung' /\ TokenOutlivesTransit'
<1> USE DEF TokenInv
<1>1. ASSUME NEW d \in Nat, Answer(d) \/ AnswerNothing(d)
      PROVE  TokenYoung' /\ TokenOutlivesTransit'
  BY <1>1 DEF Answer, AnswerNothing, Answered, TokenYoung, TokenOutlivesTransit
<1>2. CASE AfterFailure
  <2>1. cause \in Retryable[api] => cause # "expired"
    BY RetryableCauses DEF TypeInv, TypeOK
  <2> QED BY <1>2, <2>1 DEF AfterFailure, TokenYoung, TokenOutlivesTransit
<1>3. CASE Retry
  <2>1. clock' \in Int /\ signedAt \in Int
    BY <1>3, ApiState DEF Retry, TypeInv
  <2>2. api = "corpus" => sentAt' - signedAt' <= Refresh
    BY <1>3, <2>1, TokenAge DEF Retry
  <2>3. cause' # "expired"
    BY <1>3 DEF Retry, TokenYoung
  <2> QED BY <1>3, <2>2, <2>3 DEF Retry, TokenYoung, TokenOutlivesTransit
<1>4. ASSUME NEW age \in Nat, SyncCorpus(clock - age)
      PROVE  TokenYoung' /\ TokenOutlivesTransit'
  <2>1. clock \in Int /\ clock - age \in Int
    BY ApiState DEF TypeInv
  <2>2. sentAt' - signedAt' <= Refresh
    BY <1>4, <2>1, TokenAge DEF SyncCorpus
  <2> QED BY <1>4, <2>2 DEF SyncCorpus, TokenYoung, TokenOutlivesTransit
<1>5. CASE UNCHANGED vars
  BY <1>5 DEF vars, TokenYoung, TokenOutlivesTransit
<1>6. Durations[api] \subseteq Nat
  BY DEF TypeInv, TypeOK
<1> QED BY <1>1, <1>2, <1>3, <1>4, <1>5, <1>6, FailToken DEF Next, Finished

LEMMA InitToken == Init => TokenYoung /\ TokenOutlivesTransit
BY DEF Init, TokenYoung, TokenOutlivesTransit

(* A JWT is refused for its age only when the request that carried it was   *)
(* under way for at least the margin of JWT_REFRESH_BUFFER.                 *)
THEOREM TokenSurvives == Spec => []TokenOutlivesTransit
<1>1. Init => TokenInv
  BY TypeInit, InitToken DEF TokenInv
<1>2. TokenInv /\ [Next]_vars => TokenInv'
  BY TypeNext, NextToken DEF TokenInv
<1>3. TokenInv => TokenOutlivesTransit
  BY DEF TokenInv
<1> QED BY <1>1, <1>2, <1>3, PTL DEF Spec
-----------------------------------------------------------------------------
(* Induction, from the pigeonhole principle: were n the first number beyond *)
(* T, adding one would map the part of T up to n into itself, but not onto. *)
LEMMA SetInduction ==
  ASSUME NEW T \in SUBSET Nat, 0 \in T, \A n \in T : n + 1 \in T
  PROVE  T = Nat
<1> SUFFICES ASSUME NEW n \in Nat, n \notin T PROVE FALSE
  OBVIOUS
<1> DEFINE A == T \cap 0..n
           next == [i \in A |-> i + 1]
<1>1. IsFiniteSet(0..n) /\ A \subseteq 0..n /\ 0 \in A
  BY FS_Interval
<1>2. IsFiniteSet(A)
  BY <1>1, FS_Subset
<1>3. \A i \in A : i + 1 \in A /\ i \in Nat
  <2> SUFFICES ASSUME NEW i \in A PROVE i + 1 \in A /\ i \in Nat
    OBVIOUS
  <2>1. i \in T /\ i + 1 \in T /\ i \in Nat /\ i <= n /\ i # n
    OBVIOUS
  <2> QED BY <2>1
<1> HIDE DEF A
<1>4. next \in [A -> A]
  BY <1>3
<1>5. \A i, k \in A : next[i] = next[k] => i = k
  BY <1>3
<1>6. next \in Injection(A, A)
  BY <1>4, <1>5 DEF Injection, IsInjective
<1> HIDE DEF next
<1>7. next \in Surjection(A, A)
  BY <1>2, <1>6, FS_Injection
<1>8. PICK i \in A : next[i] = 0
  BY <1>1, <1>7 DEF Surjection
<1> QED BY <1>3, <1>8 DEF next

(* A function defined by recursion on Nat exists: its value at n is that of *)
(* any function that obeys the recursion up to n.                           *)
IsPrefix(f, k, S, s0, G) ==
  f \in [0..k -> S] /\ f[0] = s0 /\ \A n \in 0..k : n # 0 => f[n] = G[f[n - 1]]

LEMMA PrefixExists ==
  ASSUME NEW S, NEW s0 \in S, NEW G \in [S -> S]
  PROVE  \A k \in Nat : \E f : IsPrefix(f, k, S, s0, G)
<1> DEFINE T == {k \in Nat : \E f : IsPrefix(f, k, S, s0, G)}
<1>1. 0 \in T
  <2>1. IsPrefix([n \in 0..0 |-> s0], 0, S, s0, G)
    BY DEF IsPrefix
  <2> QED BY <2>1
<1>2. ASSUME NEW k \in T PROVE k + 1 \in T
  <2>1. PICK f : IsPrefix(f, k, S, s0, G)
    OBVIOUS
  <2> DEFINE g == [n \in 0..k + 1 |-> IF n = k + 1 THEN G[f[k]] ELSE f[n]]
  <2>2. /\ k \in Nat /\ f \in [0..k -> S] /\ f[0] = s0
        /\ \A n \in 0..k : n # 0 => f[n] = G[f[n - 1]]
    BY <2>1 DEF IsPrefix
  <2>3. g \in [0..k + 1 -> S]
    BY <2>2
  <2>4. g[0] = s0
    BY <2>2
  <2>5. ASSUME NEW n \in 0..k + 1, n # 0 PROVE g[n] = G[g[n - 1]]
    <3>1. n - 1 \in 0..k /\ n - 1 \in 0..k + 1 /\ n - 1 # k + 1
      BY <2>2, <2>5
    <3>2. g[n - 1] = f[n - 1]
      BY <3>1
    <3>3. CASE n = k + 1
      BY <2>2, <3>2, <3>3
    <3>4. CASE n # k + 1
      BY <2>2, <2>5, <3>2, <3>4
    <3> QED BY <3>3, <3>4
  <2> HIDE DEF g
  <2>6. IsPrefix(g, k + 1, S, s0, G)
    BY <2>3, <2>4, <2>5 DEF IsPrefix
  <2> QED BY <2>2, <2>6
<1> HIDE DEF T
<1>3. T = Nat
  BY <1>1, <1>2, SetInduction DEF T
<1> QED BY <1>3 DEF T

LEMMA PrefixesAgree ==
  ASSUME NEW S, NEW s0 \in S, NEW G \in [S -> S], NEW k \in Nat, NEW m \in Nat,
         NEW f, NEW g, IsPrefix(f, k, S, s0, G), IsPrefix(g, m, S, s0, G)
  PROVE  \A n \in Nat : n <= k /\ n <= m => f[n] = g[n]
<1> DEFINE T == {n \in Nat : n <= k /\ n <= m => f[n] = g[n]}
<1>1. 0 \in T
  BY DEF IsPrefix
<1>2. ASSUME NEW n \in T PROVE n + 1 \in T
  <2> SUFFICES ASSUME n + 1 <= k, n + 1 <= m PROVE f[n + 1] = g[n + 1]
    OBVIOUS
  <2>1. n \in Nat /\ n + 1 \in 0..k /\ n + 1 \in 0..m /\ n + 1 # 0 /\ (n + 1) - 1 = n
    OBVIOUS
  <2>2. f[n] = g[n]
    BY <2>1
  <2>3. f[n + 1] = G[f[(n + 1) - 1]] /\ g[n + 1] = G[g[(n + 1) - 1]]
    BY <2>1 DEF IsPrefix
  <2> QED BY <2>1, <2>2, <2>3
<1> HIDE DEF T
<1>3. T = Nat
  BY <1>1, <1>2, SetInduction DEF T
<1> QED BY <1>3 DEF T

Obeys(f, s0, G) == f = [n \in Nat |-> IF n = 0 THEN s0 ELSE G[f[n - 1]]]

LEMMA RecursionExists ==
  ASSUME NEW S, NEW s0 \in S, NEW G \in [S -> S]
  PROVE  \E f : Obeys(f, s0, G)
<1> DEFINE P(n) == CHOOSE f : IsPrefix(f, n, S, s0, G)
           h == [n \in Nat |-> P(n)[n]]
<1>1. \A n \in Nat : IsPrefix(P(n), n, S, s0, G)
  BY PrefixExists
<1> HIDE DEF P
<1>2. ASSUME NEW n \in Nat PROVE h[n] = IF n = 0 THEN s0 ELSE G[h[n - 1]]
  <2>1. CASE n = 0
    BY <1>1, <2>1 DEF IsPrefix
  <2>2. CASE n # 0
    <3>1. n - 1 \in Nat /\ n \in 0..n /\ n - 1 <= n
      BY <2>2
    <3>2. P(n)[n] = G[P(n)[n - 1]]
      BY <1>1, <2>2, <3>1 DEF IsPrefix
    <3>3. P(n)[n - 1] = P(n - 1)[n - 1]
      BY <1>1, <3>1, PrefixesAgree
    <3> QED BY <2>2, <3>1, <3>2, <3>3
  <2> QED BY <2>1, <2>2
<1> HIDE DEF h
<1>3. h = [n \in Nat |-> h[n]]
  BY DEF h
<1>4. h = [n \in Nat |-> IF n = 0 THEN s0 ELSE G[h[n - 1]]]
  BY <1>2, <1>3
<1> QED BY <1>4 DEF Obeys

-----------------------------------------------------------------------------
(* The backoff is what its recursive definition says, a wait and a total    *)
(* for each API, and the total grows.                                       *)
Waits == [Apis -> [wait: Nat, total: Nat]]

NoWaits == [a \in Apis |-> [wait |-> MinDelay[a], total |-> 0]]

WaitsAfter(w) ==
  [a \in Apis |-> LET b == w[a] IN [wait |-> Double(a, b.wait), total |-> b.total + b.wait]]

LEMMA WaitsTyped ==
  /\ NoWaits \in Waits
  /\ \A w \in Waits : WaitsAfter(w) \in Waits
<1>1. NoWaits \in Waits
  BY DEF NoWaits, Waits
<1>2. ASSUME NEW w \in Waits PROVE WaitsAfter(w) \in Waits
  <2>1. ASSUME NEW a \in Apis
        PROVE  [wait |-> Double(a, w[a].wait), total |-> w[a].total + w[a].wait]
                 \in [wait: Nat, total: Nat]
    <3>1. w[a].wait \in Nat /\ w[a].total \in Nat
      BY DEF Waits
    <3>2. Double(a, w[a].wait) \in Nat
      BY <3>1 DEF Double
    <3> QED BY <3>1, <3>2
  <2> QED BY <2>1 DEF WaitsAfter, Waits
<1> QED BY <1>1, <1>2

LEMMA BackoffIs ==
  Backoff = [n \in Nat |-> IF n = 0 THEN NoWaits ELSE WaitsAfter(Backoff[n - 1])]
<1> DEFINE G == [w \in Waits |-> WaitsAfter(w)]
<1>1. NoWaits \in Waits /\ G \in [Waits -> Waits]
  BY WaitsTyped
<1> HIDE DEF G
<1>2. PICK f : Obeys(f, NoWaits, G)
  BY <1>1, RecursionExists
<1> DEFINE T == {n \in Nat : f[n] \in Waits}
<1>3. 0 \in T
  BY <1>1, <1>2 DEF Obeys
<1>4. ASSUME NEW n \in T PROVE n + 1 \in T
  <2>1. n \in Nat /\ f[n] \in Waits /\ n + 1 \in Nat /\ n + 1 # 0 /\ (n + 1) - 1 = n
    OBVIOUS
  <2>2. f[n + 1] = G[f[(n + 1) - 1]]
    BY <1>2, <2>1 DEF Obeys
  <2>3. f[n + 1] \in Waits
    BY <1>1, <2>1, <2>2
  <2> QED BY <2>1, <2>3
<1> HIDE DEF T
<1>5. T = Nat
  BY <1>3, <1>4, SetInduction DEF T
<1>6. \A n \in Nat : n # 0 => G[f[n - 1]] = WaitsAfter(f[n - 1])
  <2> SUFFICES ASSUME NEW n \in Nat, n # 0 PROVE G[f[n - 1]] = WaitsAfter(f[n - 1])
    OBVIOUS
  <2>1. n - 1 \in Nat
    OBVIOUS
  <2>2. f[n - 1] \in Waits
    BY <1>5, <2>1 DEF T
  <2> QED BY <2>2 DEF G
<1>7. f = [n \in Nat |-> IF n = 0 THEN NoWaits ELSE WaitsAfter(f[n - 1])]
  BY <1>2, <1>6 DEF Obeys
<1>8. f = [n \in Nat |-> IF n = 0 THEN [a \in Apis |-> [wait |-> MinDelay[a], total |-> 0]]
                         ELSE [a \in Apis |-> LET b == f[n - 1][a] IN
                                [wait |-> Double(a, b.wait), total |-> b.total + b.wait]]]
  BY <1>7, Zenon DEF NoWaits, WaitsAfter
<1>9. Backoff = [n \in Nat |-> IF n = 0 THEN [a \in Apis |-> [wait |-> MinDelay[a], total |-> 0]]
                         ELSE [a \in Apis |-> LET b == Backoff[n - 1][a] IN
                                [wait |-> Double(a, b.wait), total |-> b.total + b.wait]]]
  BY <1>8, Zenon DEF Backoff
<1> QED BY <1>9, Zenon DEF NoWaits, WaitsAfter

LEMMA BackoffType == \A n \in Nat : Backoff[n] \in Waits
<1> DEFINE T == {n \in Nat : Backoff[n] \in Waits}
<1>1. 0 \in T
  BY BackoffIs, WaitsTyped
<1>2. ASSUME NEW n \in T PROVE n + 1 \in T
  <2>1. n \in Nat /\ n + 1 \in Nat /\ n + 1 # 0 /\ (n + 1) - 1 = n
    OBVIOUS
  <2>2. Backoff[n + 1] = WaitsAfter(Backoff[n])
    BY <2>1, BackoffIs
  <2> QED BY <2>1, <2>2, WaitsTyped
<1> HIDE DEF T
<1>3. T = Nat
  BY <1>1, <1>2, SetInduction DEF T
<1> QED BY <1>3 DEF T

LEMMA BackoffSteps ==
  ASSUME NEW a \in Apis
  PROVE  /\ Backoff[0][a].wait = MinDelay[a] /\ Backoff[0][a].total = 0
         /\ \A n \in Nat :
              /\ Backoff[n][a].wait \in Nat /\ Backoff[n][a].total \in Nat
              /\ Backoff[n + 1][a].wait = Double(a, Backoff[n][a].wait)
              /\ Backoff[n + 1][a].total = Backoff[n][a].total + Backoff[n][a].wait
<1>1. Backoff[0] = NoWaits
  BY BackoffIs
<1>2. ASSUME NEW n \in Nat
      PROVE  /\ Backoff[n][a].wait \in Nat /\ Backoff[n][a].total \in Nat
             /\ Backoff[n + 1][a].wait = Double(a, Backoff[n][a].wait)
             /\ Backoff[n + 1][a].total = Backoff[n][a].total + Backoff[n][a].wait
  <2>1. n + 1 \in Nat /\ n + 1 # 0 /\ (n + 1) - 1 = n
    OBVIOUS
  <2>2. Backoff[n + 1] = WaitsAfter(Backoff[n])
    BY <2>1, BackoffIs
  <2>3. Backoff[n] \in Waits
    BY BackoffType
  <2> QED BY <2>2, <2>3 DEF WaitsAfter, Waits
<1> QED BY <1>1, <1>2 DEF NoWaits

LEMMA BackoffGrows ==
  ASSUME NEW a \in Apis
  PROVE  \A n \in Nat : \A m \in 0..n : Backoff[m][a].total <= Backoff[n][a].total
<1> DEFINE T == {n \in Nat : \A m \in 0..n : Backoff[m][a].total <= Backoff[n][a].total}
<1>1. 0 \in T
  BY BackoffSteps
<1>2. ASSUME NEW n \in T PROVE n + 1 \in T
  <2> SUFFICES ASSUME NEW m \in 0..n + 1
               PROVE  Backoff[m][a].total <= Backoff[n + 1][a].total
    OBVIOUS
  <2>1. /\ Backoff[n][a].wait \in Nat /\ Backoff[n][a].total \in Nat
        /\ Backoff[n + 1][a].total = Backoff[n][a].total + Backoff[n][a].wait
    BY BackoffSteps
  <2>2. CASE m = n + 1
    BY <2>1, <2>2
  <2>3. CASE m # n + 1
    <3>1. m \in 0..n /\ m \in Nat
      BY <2>3
    <3>2. Backoff[m][a].total <= Backoff[n][a].total /\ Backoff[m][a].total \in Nat
      BY <3>1, BackoffSteps
    <3> QED BY <2>1, <3>2
  <2> QED BY <2>2, <2>3
<1> HIDE DEF T
<1>3. T = Nat
  BY <1>1, <1>2, SetInduction DEF T
<1> QED BY <1>3 DEF T

-----------------------------------------------------------------------------
(* What the retries of the call under way have taken: its waits, and at     *)
(* most a timeout for each attempt.                                         *)
Waited == Backoff[attempts - 1][api]

CallTimed ==
  /\ delay = Waited.wait
  /\ sentAt - firstAt >= Waited.total
  /\ sentAt - firstAt <= (attempts - 1) * Timeout[api] + Waited.total
  /\ phase = "attempt" => clock = sentAt
  /\ clock - sentAt <= Timeout[api]
  /\ phase = "done" => clock - sentAt < Timeout[api]

(* The Corpus API is called before Zyte's longest call would be over. *)
CallsInTurn ==
  /\ api = "zyte" => firstAt = 0
  /\ api = "corpus" => firstAt < LongestCall("zyte")

(* A call fails after its last retry, and only an outage fails an attempt   *)
(* that may be retried.                                                     *)
OutageLasts ==
  phase \in {"failed", "wait", "rejected"} /\ cause \in Retryable[api] =>
    /\ sentAt < outage[api][2]
    /\ phase = "rejected" => attempts = Retries[api] + 1

TimingInv == CallTimed /\ CallsInTurn /\ OutageLasts

LEMMA CallState ==
  ASSUME TypeInv
  PROVE  /\ api \in Apis /\ Timeout[api] \in Nat /\ Timeout[api] > 0
         /\ attempts - 1 \in Nat /\ attempts - 1 <= Retries[api]
         /\ Waited.wait \in Nat /\ Waited.total \in Nat
         /\ outage[api][2] \in Nat
<1>1. api \in Apis /\ attempts - 1 \in Nat /\ attempts - 1 <= Retries[api]
  BY ApiState DEF TypeInv, TypeOK
<1>2. Waited.wait \in Nat /\ Waited.total \in Nat
  BY <1>1, BackoffSteps DEF Waited
<1>3. outage[api] \in Nat \X Nat
  BY <1>1 DEF TypeInv, TypeOK, Apis
<1> QED BY <1>1, <1>2, <1>3

LEMMA TimesGrow ==
  ASSUME NEW m \in Nat, NEW n \in Nat, NEW t \in Nat
  PROVE  /\ (m + 1) * t = m * t + t /\ m * t \in Nat
         /\ m <= n => m * t <= n * t
<1>1. (m + 1) * t = m * t + t /\ m * t \in Nat
  OBVIOUS
<1>2. ASSUME m <= n PROVE m * t <= n * t
  <2>1. n - m \in Nat
    BY <1>2
  <2>2. (n - m) * t \in Nat
    BY <2>1
  <2>3. n * t = m * t + (n - m) * t
    OBVIOUS
  <2> QED BY <1>1, <2>2, <2>3
<1> QED BY <1>1, <1>2

\* However many attempts have been made, a call is within its longest.
LEMMA WithinLongest ==
  ASSUME TypeInv, CallTimed
  PROVE  /\ clock - firstAt <= LongestCall(api)
         /\ phase = "done" => clock - firstAt < LongestCall(api)
         /\ LongestCall(api) \in Nat
<1>1. /\ clock \in Nat /\ firstAt \in Nat /\ sentAt \in Nat /\ Retries[api] \in Nat
  BY ApiState DEF TypeInv
<1> DEFINE n == attempts - 1
<1>2. n \in Nat /\ n <= Retries[api] /\ Timeout[api] \in Nat
  BY CallState
<1>3. Waited.total <= BackoffTotal(api) /\ BackoffTotal(api) \in Nat /\ Waited.total \in Nat
  BY <1>1, <1>2, CallState, BackoffGrows, BackoffSteps DEF Waited, BackoffTotal
<1>4. /\ n * Timeout[api] <= Retries[api] * Timeout[api]
      /\ n * Timeout[api] \in Nat /\ Retries[api] * Timeout[api] \in Nat
      /\ (Retries[api] + 1) * Timeout[api] = Retries[api] * Timeout[api] + Timeout[api]
  BY <1>1, <1>2, TimesGrow
<1>5. sentAt - firstAt <= n * Timeout[api] + Waited.total
  BY DEF CallTimed
<1>6. clock - sentAt <= Timeout[api] /\ (phase = "done" => clock - sentAt < Timeout[api])
  BY DEF CallTimed
<1>7. LongestCall(api) = Retries[api] * Timeout[api] + Timeout[api] + BackoffTotal(api)
  BY <1>4 DEF LongestCall
<1> HIDE DEF n
<1> QED BY <1>1, <1>2, <1>3, <1>4, <1>5, <1>6, <1>7

LEMMA AnswerTimed ==
  ASSUME TypeInv, TimingInv, NEW d \in Nat, Answer(d) \/ AnswerNothing(d)
  PROVE  TimingInv'
<1>1. /\ clock = sentAt /\ clock' = clock + d /\ d < Timeout[api] /\ phase' \in {"done", "rejected"}
      /\ UNCHANGED <<outage, api, attempts, delay, firstAt, sentAt>>
      /\ phase' = "rejected" => cause' = "noData"
  BY DEF Answer, AnswerNothing, Answered, TimingInv, CallTimed
<1>2. clock \in Nat /\ sentAt \in Nat /\ Timeout[api] \in Nat
  BY ApiState, CallState DEF TypeInv
<1>3. CallTimed'
  BY <1>1, <1>2 DEF TimingInv, CallTimed, Waited
<1>4. "noData" \notin Retryable[api]
  BY RetryableCauses DEF Causes, TypeInv, TypeOK
<1> QED BY <1>1, <1>3, <1>4 DEF TimingInv, CallsInTurn, OutageLasts

LEMMA FailTimed ==
  ASSUME TypeInv, TimingInv, NEW d \in Nat, NEW why \in Causes, AttemptFails(d, why)
  PROVE  TimingInv'
<1>1. /\ clock = sentAt /\ clock' = clock + d /\ d <= Timeout[api] /\ phase' = "failed"
      /\ UNCHANGED <<outage, api, attempts, delay, firstAt, sentAt>>
      /\ cause' = why /\ (why \in Retryable[api] => clock < outage[api][2])
  BY CallState DEF AttemptFails, Down, TimingInv, CallTimed
<1>2. clock \in Nat /\ sentAt \in Nat /\ Timeout[api] \in Nat
  BY ApiState, CallState DEF TypeInv
<1>3. CallTimed'
  BY <1>1, <1>2 DEF TimingInv, CallTimed, Waited
<1> QED BY <1>1, <1>3 DEF TimingInv, CallsInTurn, OutageLasts

LEMMA AfterFailureTimed ==
  ASSUME TypeInv, TimingInv, AfterFailure
  PROVE  TimingInv'
<1>1. /\ UNCHANGED <<outage, clock, api, attempts, delay, cause, firstAt, sentAt>>
      /\ phase = "failed" /\ phase' \in {"wait", "rejected"}
      /\ phase' = "rejected" => cause \notin Retryable[api] \/ attempts > Retries[api]
  BY ApiState DEF AfterFailure, RetriesLeft, TypeInv
<1>2. attempts \in 1..Retries[api] + 1 /\ Retries[api] \in Nat
  BY ApiState DEF TypeInv, TypeOK
<1>3. CallTimed'
  BY <1>1 DEF TimingInv, CallTimed, Waited
<1> QED BY <1>1, <1>2, <1>3 DEF TimingInv, CallsInTurn, OutageLasts

LEMMA RetryTimed ==
  ASSUME TypeInv, TimingInv, Retry
  PROVE  TimingInv'
<1>1. /\ clock' = clock + delay /\ delay' = Double(api, delay) /\ sentAt' = clock'
      /\ attempts' = attempts + 1 /\ phase' = "attempt"
      /\ UNCHANGED <<outage, api, cause, firstAt>>
  BY DEF Retry
<1>2. /\ clock \in Nat /\ sentAt \in Nat /\ firstAt \in Nat /\ sentAt <= clock
      /\ delay \in Nat /\ attempts \in Nat
  BY ApiState DEF TypeInv
<1> DEFINE n == attempts - 1
<1>3. n \in Nat /\ attempts' - 1 = n + 1 /\ Timeout[api] \in Nat
  BY <1>1, <1>2, CallState
<1>4. /\ Waited = Backoff[n][api] /\ Waited' = Backoff[n + 1][api]
      /\ Waited'.wait = Double(api, Waited.wait)
      /\ Waited'.total = Waited.total + Waited.wait
      /\ Waited.wait \in Nat /\ Waited.total \in Nat
  BY <1>1, <1>3, CallState, BackoffSteps DEF Waited
<1>5. (n + 1) * Timeout[api] = n * Timeout[api] + Timeout[api] /\ n * Timeout[api] \in Nat
  BY <1>3, TimesGrow
<1>6. /\ delay = Waited.wait /\ sentAt - firstAt >= Waited.total
      /\ sentAt - firstAt <= n * Timeout[api] + Waited.total
      /\ clock - sentAt <= Timeout[api]
  BY DEF TimingInv, CallTimed
<1> HIDE DEF n
<1>7. sentAt' - firstAt' >= Waited'.total
  BY <1>1, <1>2, <1>4, <1>6
<1>8. sentAt' - firstAt' <= (n + 1) * Timeout[api] + Waited'.total
  BY <1>1, <1>2, <1>3, <1>4, <1>5, <1>6
<1>9. CallTimed'
  BY <1>1, <1>2, <1>3, <1>4, <1>6, <1>7, <1>8 DEF CallTimed
<1> QED BY <1>1, <1>9 DEF TimingInv, CallsInTurn, OutageLasts

LEMMA SyncTimed ==
  ASSUME TypeInv, TimingInv, NEW cached \in Int, SyncCorpus(cached)
  PROVE  TimingInv'
<1>1. /\ api' = "corpus" /\ attempts' = 1 /\ phase' = "attempt" /\ delay' = MinDelay["corpus"]
      /\ firstAt' = clock /\ sentAt' = clock /\ clock' = clock
      /\ api = "zyte" /\ phase = "done"
  BY DEF SyncCorpus
<1>2. "corpus" \in Apis /\ Timeout["corpus"] \in Nat /\ clock \in Nat
  BY ApiState DEF Apis, TypeInv
<1>3. attempts' - 1 = 0 /\ Waited' = Backoff[0]["corpus"] /\ 0 * Timeout["corpus"] = 0
  BY <1>1, <1>2 DEF Waited
<1>4. Waited'.wait = MinDelay["corpus"] /\ Waited'.total = 0
  BY <1>2, <1>3, BackoffSteps
<1>5. CallTimed'
  BY <1>1, <1>2, <1>3, <1>4 DEF CallTimed
<1>6. clock < LongestCall("zyte")
  BY <1>1, <1>2, WithinLongest DEF TimingInv, CallsInTurn
<1>7. LongestCall("zyte")' = LongestCall("zyte")
  BY DEF LongestCall, BackoffTotal
<1> QED BY <1>1, <1>5, <1>6, <1>7 DEF TimingInv, CallsInTurn, OutageLasts

LEMMA InitTimed == Init => TimingInv
<1> SUFFICES ASSUME Init PROVE TimingInv
  OBVIOUS
<1>1. /\ clock = 0 /\ api = "zyte" /\ phase = "attempt" /\ attempts = 1
      /\ delay = MinDelay["zyte"] /\ firstAt = 0 /\ sentAt = 0
  BY DEF Init
<1>2. "zyte" \in Apis /\ Timeout["zyte"] \in Nat
  BY DEF Apis
<1>3. attempts - 1 = 0 /\ Waited = Backoff[0]["zyte"] /\ 0 * Timeout["zyte"] = 0
  BY <1>1, <1>2 DEF Waited
<1>4. Waited.wait = MinDelay["zyte"] /\ Waited.total = 0
  BY <1>2, <1>3, BackoffSteps
<1>5. CallTimed
  BY <1>1, <1>2, <1>3, <1>4 DEF CallTimed
<1> QED BY <1>1, <1>5 DEF TimingInv, CallsInTurn, OutageLasts

LEMMA NextTimed ==
  ASSUME TypeInv, TimingInv, [Next]_vars
  PROVE  TimingInv'
<1>1. Durations[api] \subseteq Nat
  BY DEF TypeInv, TypeOK
<1>2. \A age \in JwtAges : clock - age \in Int
  BY ApiState DEF TypeInv
<1>3. CASE UNCHANGED vars
  BY <1>3 DEF vars, TimingInv, CallTimed, CallsInTurn, OutageLasts, Waited
<1> QED BY <1>1, <1>2, <1>3, AnswerTimed, FailTimed, AfterFailureTimed, RetryTimed, SyncTimed
        DEF Next, Finished

THEOREM CallsTimed == Spec => [](TypeInv /\ TimingInv)
<1>1. Init => TypeInv /\ TimingInv
  BY TypeInit, InitTimed
<1>2. TypeInv /\ TimingInv /\ [Next]_vars => TypeInv' /\ TimingInv'
  BY TypeNext, NextTimed
<1> QED BY <1>1, <1>2, PTL DEF Spec

(* An API call fails of what may pass only in an outage that is longer than *)
(* all the waits of its retries.                                            *)
THEOREM OutagesRidden == Spec => []ShortOutageRidden
<1>1. TypeInv /\ TimingInv => ShortOutageRidden
  <2> SUFFICES ASSUME TypeInv, TimingInv, phase = "rejected", cause \in Retryable[api]
               PROVE  outage[api][2] - firstAt > BackoffTotal(api)
    BY DEF ShortOutageRidden
  <2>1. attempts = Retries[api] + 1 /\ sentAt < outage[api][2]
    BY DEF TimingInv, OutageLasts
  <2>2. sentAt \in Nat /\ firstAt \in Nat /\ Retries[api] \in Nat /\ outage[api][2] \in Nat
    BY ApiState, CallState DEF TypeInv
  <2>3. attempts - 1 = Retries[api]
    BY <2>1, <2>2
  <2>4. BackoffTotal(api) = Waited.total /\ Waited.total \in Nat
    BY <2>3, CallState DEF BackoffTotal, Waited
  <2>5. sentAt - firstAt >= Waited.total
    BY DEF TimingInv, CallTimed
  <2> QED BY <2>1, <2>2, <2>4, <2>5
<1> QED BY <1>1, CallsTimed, PTL

(* MAX_JOB_SECONDS is enough if the longest calls of both APIs fit it: then *)
(* no call of a job outlives the job's lock.                                *)
CallsFit == LongestCall("zyte") + LongestCall("corpus") <= LockTtl

THEOREM LockOutlivesCalls == CallsFit => (Spec => []CallsFitLock)
<1> SUFFICES ASSUME CallsFit PROVE Spec => []CallsFitLock
  OBVIOUS
<1>1. TypeInv /\ TimingInv => CallsFitLock
  <2> SUFFICES ASSUME TypeInv, TimingInv PROVE clock < LockTtl
    BY DEF CallsFitLock
  <2>1. /\ clock - firstAt <= LongestCall(api) /\ LongestCall(api) \in Nat
        /\ clock \in Nat /\ firstAt \in Nat
    BY WithinLongest, ApiState DEF TimingInv, TypeInv
  <2>2. \A a \in Apis : LongestCall(a) \in Nat /\ LongestCall(a) > 0
    <3> SUFFICES ASSUME NEW a \in Apis PROVE LongestCall(a) \in Nat /\ LongestCall(a) > 0
      OBVIOUS
    <3>1. BackoffTotal(a) \in Nat
      BY BackoffSteps DEF BackoffTotal
    <3>2. Retries[a] \in Nat /\ Timeout[a] \in Nat /\ Timeout[a] > 0
      OBVIOUS
    <3>3. /\ (Retries[a] + 1) * Timeout[a] = Retries[a] * Timeout[a] + Timeout[a]
          /\ Retries[a] * Timeout[a] \in Nat
      BY <3>2, TimesGrow
    <3> QED BY <3>1, <3>2, <3>3 DEF LongestCall
  <2>3. CASE api = "zyte"
    BY <2>1, <2>2, <2>3 DEF TimingInv, CallsInTurn, CallsFit, Apis
  <2>4. CASE api = "corpus"
    BY <2>1, <2>2, <2>4 DEF TimingInv, CallsInTurn, CallsFit, Apis
  <2> QED BY <2>3, <2>4 DEF TypeInv, TypeOK, Apis
<1> QED BY <1>1, CallsTimed, PTL
-----------------------------------------------------------------------------
(* The token bucket, which is there to hold the calls of the replicas to    *)
(* what an API allows (packages/redis-state, acquireRateLimitToken).        *)
CONSTANTS RatePerMinute, Burst
VARIABLES now, bucket, taken, since, refused
TB == INSTANCE TokenBucket

(* The delay is what the missing part of a token takes to be refilled, in   *)
(* milliseconds, rounded up.                                                *)
LEMMA RetryRoundsUp ==
  ASSUME NEW level \in Int, level < TB!One, RatePerMinute \in Nat, RatePerMinute > 0
  PROVE  /\ TB!RetryMs(level) \in Nat
         /\ level + TB!RetryMs(level) * 1000 * RatePerMinute >= TB!One
         /\ level + (TB!RetryMs(level) - 1) * 1000 * RatePerMinute < TB!One
<1> DEFINE b == 1000 * RatePerMinute
           a == TB!One - level
<1>1. a \in Nat /\ b \in Nat /\ b > 0
  BY DEF TB!One, TB!Second
<1>2. TB!RetryMs(level) = (a + b - 1) \div b
  BY DEF TB!RetryMs
<1>3. /\ TB!RetryMs(level) \in Nat
      /\ b * TB!RetryMs(level) >= a /\ b * TB!RetryMs(level) <= a + b - 1
  <2> HIDE DEF a, b
  <2> QED BY <1>1, <1>2, SMTT(30)
<1> QED BY <1>3, SMTT(30) DEF TB!One, TB!Second

(* The key outlives a refill from empty. *)
LEMMA OutlivesRefill ==
  ASSUME RatePerMinute \in Nat, RatePerMinute > 0, Burst \in Nat
  PROVE  TB!TtlSeconds \in Nat /\ RatePerMinute * (TB!TtlSeconds * TB!Second) >= TB!Capacity
<1> DEFINE a == 60 * Burst
           q == (a + RatePerMinute - 1) \div RatePerMinute
<1>1. q \in Nat /\ RatePerMinute * q >= a
  <2> a \in Nat
    OBVIOUS
  <2> HIDE DEF a
  <2> QED BY SMTT(30)
<1>2. TB!TtlSeconds = q + 10
  BY DEF TB!TtlSeconds
<1> HIDE DEF q
<1> QED BY <1>1, <1>2, SMTT(30) DEF TB!Capacity, TB!One, TB!Second

LEMMA TimesMonotone ==
  \A r, d, e \in Int : r >= 0 /\ d >= e => r * d \in Int /\ r * e \in Int /\ r * d >= r * e
BY SMTT(30)

LEMMA TimesNotNegative == \A r, d \in Int : r >= 0 /\ d >= 0 => r * d \in Int /\ r * d >= 0
BY SMTT(30)

LEMMA TimesDistributes == \A r, d, e \in Int : r * (d + e) = r * d + r * e
BY SMTT(30)

LEMMA Inductive ==
  ASSUME RatePerMinute \in Nat, Burst \in Nat
  PROVE  TB!IInv /\ [TB!Next]_(TB!vars) => TB!IInv'
<1> SUFFICES ASSUME TB!IInv, [TB!Next]_(TB!vars) PROVE TB!IInv'
  OBVIOUS
<1>0. TB!Capacity \in Nat /\ TB!Capacity >= 0 /\ TB!One \in Nat
  BY DEF TB!Capacity, TB!One, TB!Second
<1>n. now \in Nat /\ since \in Nat /\ since <= now
  BY DEF TB!IInv
<1>1. CASE TB!Acquire
  <2> DEFINE allowed == TB!Level(now) >= TB!One
  <2>1. /\ TB!Level(now) >= 0 /\ TB!Level(now) <= TB!Capacity /\ TB!Level(now) \in Int
    BY <1>0 DEF TB!IInv, TB!Level, TB!MinOf, TB!MaxOf
  <2>2. /\ bucket'.exists = TRUE /\ bucket' # TB!NoBucket
        /\ bucket'.tokens = IF allowed THEN TB!Level(now) - TB!One ELSE TB!Level(now)
        /\ bucket'.ts = now /\ bucket'.expires = now + TB!TtlSeconds * TB!Second
        /\ taken' = IF allowed THEN taken + 1 ELSE taken
        /\ now' = now /\ since' = since /\ RatePerMinute > 0
    BY <1>1 DEF TB!Acquire, TB!NoBucket
  <2>3. TB!Level(now)' = bucket'.tokens
    <3>1. /\ now' - bucket'.ts = 0 /\ 0 * RatePerMinute = 0
          /\ bucket'.tokens \in Int /\ bucket'.tokens <= TB!Capacity
      BY <2>1, <2>2, <1>0 DEF TB!IInv, TB!One, TB!Second
    <3>2. TB!Level(now)' = TB!MinOf(TB!Capacity, bucket'.tokens)
      BY <3>1, <2>2 DEF TB!Level, TB!MaxOf, TB!Capacity
    <3> QED BY <3>1, <3>2, <1>0 DEF TB!MinOf
  <2>4. taken' * TB!One + TB!Level(now)' = taken * TB!One + TB!Level(now)
    BY <2>1, <2>2, <2>3, <1>0 DEF TB!IInv, TB!One, TB!Second
  <2> QED BY <2>1, <2>2, <2>3, <2>4, <1>0 DEF TB!IInv
<1>2. CASE TB!Expire
  <2>1. bucket' = TB!NoBucket /\ now' = now /\ taken' = taken /\ since' = since
    BY <1>2 DEF TB!Expire
  <2>2. RatePerMinute * (now - bucket.ts) >= TB!Capacity
    <3>1. now - bucket.ts >= TB!TtlSeconds * TB!Second /\ RatePerMinute > 0 /\ now - bucket.ts \in Int
      BY <1>2, OutlivesRefill DEF TB!Expire, TB!IInv, TB!Second
    <3>2. TB!TtlSeconds \in Nat /\ RatePerMinute * (TB!TtlSeconds * TB!Second) >= TB!Capacity
      BY <3>1, OutlivesRefill
    <3> DEFINE d == now - bucket.ts
               e == TB!TtlSeconds * TB!Second
    <3>3. e \in Int
      BY <3>2 DEF TB!Second
    <3>4. RatePerMinute * d >= RatePerMinute * e
      BY <3>1, <3>3, TimesMonotone
    <3> QED BY <3>1, <3>2, <3>3, <3>4, <1>0
  <2>3. TB!Level(now) = TB!Capacity
    BY <1>2, <2>2, <1>0, SMTT(30) DEF TB!Expire, TB!IInv, TB!Level, TB!MinOf, TB!MaxOf
  <2>4. TB!Level(now)' = TB!Capacity
    BY <2>1, <1>0 DEF TB!Level, TB!Capacity, TB!One, TB!Second
  <2> QED BY <2>1, <2>3, <2>4, <1>0 DEF TB!IInv
<1>3. CASE TB!Tick
  <2>1. PICK d \in Nat : now' = now + d
    BY <1>3 DEF TB!Tick
  <2>0. bucket' = bucket /\ taken' = taken /\ since' = since /\ now' \in Nat /\ since <= now'
    BY <1>3, <1>n, <2>1 DEF TB!Tick
  <2>2. RatePerMinute * (now' - since) = RatePerMinute * (now - since) + RatePerMinute * d
    <3>1. now' - since = (now - since) + d /\ now - since \in Int
      BY <2>1, <1>n
    <3> QED BY <3>1, TimesDistributes
  <2>3. RatePerMinute * d \in Int /\ RatePerMinute * d >= 0
    BY TimesNotNegative
  <2>4. TB!Level(now)' \in Int /\ TB!Level(now)' <= TB!Level(now) + RatePerMinute * d
    <3>1. CASE bucket = TB!NoBucket
      <4>1. TB!Level(now)' = TB!Capacity /\ TB!Level(now) = TB!Capacity
        BY <3>1, <2>0 DEF TB!Level, TB!Capacity, TB!One, TB!Second
      <4> QED BY <4>1, <2>3, <1>0
    <3>2. CASE bucket # TB!NoBucket
      <4>1. /\ bucket.ts \in Nat /\ bucket.ts <= now /\ bucket.tokens \in Int
            /\ RatePerMinute * (now' - bucket.ts)
                 = RatePerMinute * (now - bucket.ts) + RatePerMinute * d
        <5>1. bucket.ts \in Nat /\ bucket.ts <= now /\ bucket.tokens \in Int
          BY <3>2 DEF TB!IInv
        <5>2. now' - bucket.ts = (now - bucket.ts) + d /\ now - bucket.ts \in Int
          BY <5>1, <2>1, <1>n
        <5> QED BY <5>1, <5>2, TimesDistributes
      <4>2. /\ TB!Level(now)
                 = TB!MinOf(TB!Capacity, bucket.tokens + RatePerMinute * (now - bucket.ts))
            /\ TB!Level(now)'
                 = TB!MinOf(TB!Capacity, bucket.tokens + RatePerMinute * (now' - bucket.ts))
        BY <4>1, <3>2, <2>0, <2>1, SMTT(30) DEF TB!IInv, TB!Level, TB!MaxOf
      <4>3. /\ RatePerMinute * (now - bucket.ts) \in Int
            /\ RatePerMinute * d \in Int
        BY <4>1, <2>1 DEF TB!IInv
      <4> QED BY <4>1, <4>2, <4>3, <2>3, <1>0 DEF TB!MinOf
    <3> QED BY <3>1, <3>2
  <2>5. taken * TB!One \in Int /\ TB!Level(now) \in Int /\ RatePerMinute * (now - since) \in Int
        /\ RatePerMinute * d \in Int
    BY DEF TB!IInv, TB!One, TB!Second
  <2>6. taken' * TB!One + TB!Level(now)' <= TB!Capacity + RatePerMinute * (now' - since')
    BY <2>0, <2>1, <2>2, <2>3, <2>4, <2>5, <1>0 DEF TB!IInv
  <2>7. now <= now'
    BY <2>1, <1>n
  <2>8. bucket # TB!NoBucket => bucket.ts \in Nat /\ bucket.ts <= now'
    BY <2>7, <2>0, <1>n DEF TB!IInv
  <2> QED BY <2>0, <2>4, <2>6, <2>8, <1>n DEF TB!IInv
<1>4. CASE TB!Observe
  <2>1. taken' = 0 /\ since' = now /\ now' = now /\ bucket' = bucket
    BY <1>4 DEF TB!Observe
  <2>2. TB!Level(now)' = TB!Level(now) /\ TB!Level(now) \in Int /\ TB!Level(now) <= TB!Capacity
    BY <2>1, <1>0 DEF TB!IInv, TB!Level, TB!MinOf, TB!MaxOf
  <2>3. RatePerMinute * (now - now) = 0
    BY DEF TB!IInv
  <2> QED BY <2>1, <2>2, <2>3, <1>0 DEF TB!IInv, TB!One, TB!Second
<1>5. CASE UNCHANGED TB!vars
  <2>1. now' = now /\ bucket' = bucket /\ taken' = taken /\ since' = since
    BY <1>5 DEF TB!vars
  <2> QED BY <2>1 DEF TB!IInv, TB!Level, TB!MinOf, TB!MaxOf
<1> QED BY <1>1, <1>2, <1>3, <1>4, <1>5 DEF TB!Next

LEMMA LevelNotNegative ==
  ASSUME RatePerMinute \in Nat, Burst \in Nat, TB!IInv
  PROVE  TB!Level(now) >= 0 /\ TB!Level(now) \in Int
<1>1. CASE bucket = TB!NoBucket
  BY <1>1 DEF TB!Level, TB!Capacity, TB!One, TB!Second
<1>2. CASE bucket # TB!NoBucket
  <2>1. TB!MaxOf(0, now - bucket.ts) \in Nat /\ bucket.tokens >= 0 /\ bucket.tokens \in Int
    BY <1>2 DEF TB!IInv, TB!MaxOf
  <2>2. TB!MaxOf(0, now - bucket.ts) * RatePerMinute >= 0
    BY <2>1, SMTT(30)
  <2> QED BY <1>2, <2>1, <2>2, SMTT(30)
         DEF TB!IInv, TB!Level, TB!MinOf, TB!Capacity, TB!One, TB!Second
<1> QED BY <1>1, <1>2

(* No period sees more tokens taken than NoOverdraw allows, whatever the    *)
(* rate, the burst and the number of replicas.                              *)
THEOREM NeverOverdrawn ==
  ASSUME RatePerMinute \in Nat, Burst \in Nat
  PROVE  TB!Spec => []TB!NoOverdraw
<1>1. TB!Init => TB!IInv
  BY DEF TB!Init, TB!IInv, TB!Level, TB!Capacity, TB!One, TB!Second
<1>2. TB!IInv => TB!NoOverdraw
  <2> SUFFICES ASSUME TB!IInv PROVE TB!NoOverdraw
    OBVIOUS
  <2>1. TB!Level(now) >= 0 /\ TB!Level(now) \in Int
    BY LevelNotNegative
  <2>2. taken * TB!One \in Int /\ TB!Capacity + RatePerMinute * (now - since) \in Int
    BY DEF TB!IInv, TB!Capacity, TB!One, TB!Second
  <2> QED BY <2>1, <2>2 DEF TB!IInv, TB!NoOverdraw
<1>3. TB!IInv /\ [TB!Next]_(TB!vars) => TB!IInv'
  BY Inductive
<1> QED BY <1>1, <1>2, <1>3, PTL DEF TB!Spec

LEMMA LevelIs ==
  ASSUME RatePerMinute \in Nat, bucket # TB!NoBucket,
         bucket.ts \in Nat, now \in Nat, bucket.ts <= now, bucket.tokens \in Int
  PROVE  TB!Level(now) = TB!MinOf(TB!Capacity, bucket.tokens + RatePerMinute * (now - bucket.ts))
<1>1. TB!MaxOf(0, now - bucket.ts) = now - bucket.ts /\ now - bucket.ts \in Int
  BY DEF TB!MaxOf
<1>2. (now - bucket.ts) * RatePerMinute = RatePerMinute * (now - bucket.ts)
  BY <1>1, SMTT(30)
<1> QED BY <1>1, <1>2 DEF TB!Level

(* A level below the capacity is what has been refilled. *)
LEMMA LevelSinceTs ==
  ASSUME RatePerMinute \in Nat, Burst \in Nat, bucket # TB!NoBucket,
         bucket.ts \in Nat, now \in Nat, bucket.ts <= now, bucket.tokens \in Int,
         TB!Level(now) < TB!Capacity
  PROVE  TB!Level(now) = bucket.tokens + RatePerMinute * (now - bucket.ts)
<1>1. TB!Capacity \in Nat /\ RatePerMinute * (now - bucket.ts) \in Int
  BY DEF TB!Capacity, TB!One, TB!Second
<1> QED BY <1>1, LevelIs DEF TB!MinOf

LEMMA RefusalKept ==
  ASSUME RatePerMinute \in Nat, Burst \in Nat
  PROVE  TB!IInv /\ TB!RefusalInv /\ [TB!Next]_(TB!vars) => TB!RefusalInv'
<1> SUFFICES ASSUME TB!IInv, TB!RefusalInv, [TB!Next]_(TB!vars), refused' # TB!NoRefusal
             PROVE  TB!RefusalInv'
  BY DEF TB!RefusalInv
<1>0. TB!Capacity \in Nat /\ TB!One \in Nat /\ (Burst >= 1 => TB!Capacity >= TB!One)
  BY DEF TB!Capacity, TB!One, TB!Second
<1>1. CASE TB!Acquire
  <2>1. /\ RatePerMinute > 0 /\ Burst >= 1 /\ now' = now
        /\ TB!Level(now) < TB!One
        /\ bucket' # TB!NoBucket /\ bucket'.tokens = TB!Level(now) /\ bucket'.ts = now
        /\ refused' \in {refused, [followed |-> TRUE, at |-> now, level |-> TB!Level(now)]}
    <3>1. ~(TB!Level(now) >= TB!One)
      BY <1>1 DEF TB!Acquire
    <3>2. TB!Level(now) \in Int
      BY DEF TB!IInv
    <3> QED BY <1>1, <3>1, <3>2, <1>0 DEF TB!Acquire, TB!NoBucket
  <2>2. TB!Level(now) \in Int /\ TB!Level(now) >= 0 /\ now \in Nat
    BY LevelNotNegative DEF TB!IInv
  <2>3. CASE refused' = [followed |-> TRUE, at |-> now, level |-> TB!Level(now)]
    <3>1. RatePerMinute * (now - now) = 0
      BY <2>2
    <3> QED BY <2>1, <2>2, <2>3, <3>1 DEF TB!RefusalInv
  <2>4. CASE refused' = refused
    <3>1. bucket # TB!NoBucket
      BY <2>1, <1>0 DEF TB!Level
    <3>2. /\ refused.at \in Nat /\ refused.level \in Int /\ refused.at <= bucket.ts
          /\ bucket.tokens = refused.level + RatePerMinute * (bucket.ts - refused.at)
          /\ bucket.ts \in Nat /\ bucket.ts <= now /\ bucket.tokens \in Int
      BY <2>4, <3>1 DEF TB!RefusalInv, TB!IInv
    <3>3. TB!Level(now) = bucket.tokens + RatePerMinute * (now - bucket.ts)
      BY <2>1, <2>2, <3>1, <3>2, <1>0, LevelSinceTs
    <3>4. /\ RatePerMinute * (now - bucket.ts) \in Int
          /\ RatePerMinute * (bucket.ts - refused.at) \in Int
          /\ RatePerMinute * (now - refused.at)
               = RatePerMinute * (now - bucket.ts) + RatePerMinute * (bucket.ts - refused.at)
      <4>1. /\ now - bucket.ts \in Int /\ bucket.ts - refused.at \in Int
            /\ now - refused.at = (now - bucket.ts) + (bucket.ts - refused.at)
        BY <2>2, <3>2
      <4> QED BY <4>1, TimesDistributes
    <3>5. TB!Level(now) = refused.level + RatePerMinute * (now - refused.at)
      BY <3>2, <3>3, <3>4
    <3> QED BY <2>1, <2>2, <2>4, <3>2, <3>5 DEF TB!RefusalInv
  <2> QED BY <2>1, <2>3, <2>4
<1>2. CASE TB!Expire
  <2>1. /\ bucket # TB!NoBucket /\ bucket' = TB!NoBucket /\ now' = now /\ refused' = refused
        /\ now >= bucket.expires
    BY <1>2 DEF TB!Expire
  <2>2. /\ bucket.expires = bucket.ts + TB!TtlSeconds * TB!Second /\ bucket.ts \in Nat
        /\ now \in Nat /\ refused.at \in Nat /\ refused.at <= bucket.ts /\ RatePerMinute > 0
    BY <2>1 DEF TB!IInv, TB!RefusalInv
  <2>3. TB!TtlSeconds * TB!Second \in Nat
    BY <2>2, OutlivesRefill DEF TB!Second
  <2>4. now - refused.at >= TB!TtlSeconds * TB!Second
    BY <2>1, <2>2, <2>3
  <2> QED BY <2>1, <2>4 DEF TB!RefusalInv
<1>3. CASE TB!Tick
  <2>1. PICK d \in Nat : now' = now + d
    BY <1>3 DEF TB!Tick
  <2>2. bucket' = bucket /\ refused' = refused /\ now \in Nat
    BY <1>3 DEF TB!Tick, TB!IInv
  <2>3. refused.at \in Nat /\ refused.at <= now /\ RatePerMinute > 0
    BY <2>2 DEF TB!RefusalInv
  <2>4. TB!TtlSeconds * TB!Second \in Nat
    BY <2>3, OutlivesRefill DEF TB!Second
  <2>5. now' - refused.at = (now - refused.at) + d
    BY <2>1, <2>2, <2>3
  <2> QED BY <2>1, <2>2, <2>3, <2>4, <2>5 DEF TB!RefusalInv
<1>4. CASE TB!Observe \/ UNCHANGED TB!vars
  <2>1. now' = now /\ bucket' = bucket /\ refused' = refused
    BY <1>4 DEF TB!Observe, TB!vars
  <2> QED BY <2>1 DEF TB!RefusalInv
<1> QED BY <1>1, <1>2, <1>3, <1>4 DEF TB!Next

(* A refused caller finds the next token when it was told to, unless        *)
(* another has taken it, and not a millisecond earlier, for any rate, burst *)
(* and number of replicas.                                                  *)
THEOREM RefusedUntilTold ==
  ASSUME RatePerMinute \in Nat, Burst \in Nat
  PROVE  TB!Spec => []TB!WaitTold
<1>1. TB!Init => TB!IInv /\ TB!RefusalInv
  BY DEF TB!Init, TB!IInv, TB!RefusalInv, TB!Level, TB!Capacity, TB!One, TB!Second
<1>2. TB!IInv /\ TB!RefusalInv => TB!WaitTold
  <2> SUFFICES ASSUME TB!IInv, TB!RefusalInv, refused # TB!NoRefusal
               PROVE  /\ now >= TB!Due => TB!Level(now) >= TB!One
                      /\ now <= TB!Due - 1000 => TB!Level(now) < TB!One
    BY DEF TB!WaitTold
  <2> DEFINE ms == TB!RetryMs(refused.level)
             d == now - refused.at
  <2>0. TB!Capacity \in Nat /\ TB!One \in Nat /\ (Burst >= 1 => TB!Capacity >= TB!One)
    BY DEF TB!Capacity, TB!One, TB!Second
  <2>1. /\ refused.at \in Nat /\ refused.at <= now /\ now \in Nat /\ refused.level \in Int
        /\ refused.level >= 0 /\ refused.level < TB!One /\ RatePerMinute > 0 /\ Burst >= 1
        /\ TB!Level(now) \in Int
    BY DEF TB!RefusalInv, TB!IInv
  <2>2. /\ ms \in Nat
        /\ refused.level + ms * 1000 * RatePerMinute >= TB!One
        /\ refused.level + (ms - 1) * 1000 * RatePerMinute < TB!One
    BY <2>1, RetryRoundsUp
  <2>3. /\ ms * 1000 * RatePerMinute = RatePerMinute * (1000 * ms)
        /\ (ms - 1) * 1000 * RatePerMinute = RatePerMinute * (1000 * ms - 1000)
        /\ RatePerMinute * (1000 * ms) \in Int /\ RatePerMinute * (1000 * ms - 1000) \in Int
        /\ d \in Int /\ RatePerMinute * d \in Int
    <3> HIDE DEF ms
    <3> QED BY <2>1, <2>2, SMTT(30)
  <2>4. /\ d >= 1000 * ms => RatePerMinute * d >= TB!One - refused.level
        /\ d <= 1000 * ms - 1000 => RatePerMinute * d < TB!One - refused.level
    <3>1. 1000 * ms \in Int /\ 1000 * ms - 1000 \in Int
      BY <2>2
    <3>2. CASE d >= 1000 * ms
      <4>1. RatePerMinute * d >= RatePerMinute * (1000 * ms)
        BY <3>1, <3>2, <2>1, <2>3, TimesMonotone
      <4> HIDE DEF ms, d
      <4> QED BY <4>1, <3>1, <3>2, <2>0, <2>1, <2>2, <2>3
    <3>3. CASE d <= 1000 * ms - 1000
      <4>1. RatePerMinute * (1000 * ms - 1000) >= RatePerMinute * d
        BY <3>1, <3>3, <2>1, <2>3, TimesMonotone
      <4> HIDE DEF ms, d
      <4> QED BY <4>1, <3>1, <3>3, <2>0, <2>1, <2>2, <2>3
    <3> HIDE DEF ms, d
    <3> QED BY <3>1, <3>2, <3>3, <2>2, <2>3
  <2>5. TB!Level(now) >= TB!One <=> RatePerMinute * d >= TB!One - refused.level
    <3>1. CASE bucket = TB!NoBucket
      <4>1. TB!Level(now) >= TB!One
        BY <3>1, <2>0, <2>1 DEF TB!Level
      <4>2. TB!TtlSeconds \in Nat /\ RatePerMinute * (TB!TtlSeconds * TB!Second) >= TB!Capacity
        BY <2>1, OutlivesRefill
      <4>3. d >= TB!TtlSeconds * TB!Second /\ TB!TtlSeconds * TB!Second \in Int
        BY <3>1, <4>2 DEF TB!RefusalInv, TB!Second
      <4>4. /\ RatePerMinute * d >= RatePerMinute * (TB!TtlSeconds * TB!Second)
            /\ RatePerMinute * (TB!TtlSeconds * TB!Second) \in Int
        BY <4>3, <2>1, <2>3, TimesMonotone
      <4>5. RatePerMinute * d >= TB!One - refused.level
        BY <4>2, <4>4, <2>0, <2>1, <2>3
      <4> QED BY <4>1, <4>5
    <3>2. CASE bucket # TB!NoBucket
      <4>1. /\ refused.at <= bucket.ts /\ bucket.ts \in Nat /\ bucket.ts <= now /\ bucket.tokens \in Int
            /\ bucket.tokens = refused.level + RatePerMinute * (bucket.ts - refused.at)
        BY <3>2 DEF TB!RefusalInv, TB!IInv
      <4>2. /\ RatePerMinute * (now - bucket.ts) \in Int
            /\ RatePerMinute * (bucket.ts - refused.at) \in Int
            /\ RatePerMinute * d
                 = RatePerMinute * (now - bucket.ts) + RatePerMinute * (bucket.ts - refused.at)
        <5>1. /\ now - bucket.ts \in Int /\ bucket.ts - refused.at \in Int
              /\ d = (now - bucket.ts) + (bucket.ts - refused.at)
          BY <2>1, <4>1
        <5> QED BY <5>1, TimesDistributes
      <4>3. TB!Level(now)
              = TB!MinOf(TB!Capacity, bucket.tokens + RatePerMinute * (now - bucket.ts))
        BY <3>2, <4>1, <2>1, LevelIs
      <4> HIDE DEF d
      <4> QED BY <4>1, <4>2, <4>3, <2>0, <2>1, <2>3 DEF TB!MinOf
    <3> QED BY <3>1, <3>2
  <2>6. /\ now >= TB!Due <=> d >= 1000 * ms
        /\ now <= TB!Due - 1000 <=> d <= 1000 * ms - 1000
    <3>1. TB!Due = refused.at + 1000 * ms
      BY DEF TB!Due
    <3> HIDE DEF ms
    <3> QED BY <3>1, <2>1, <2>2
  <2>7. TB!Level(now) < TB!One <=> RatePerMinute * d < TB!One - refused.level
    <3> HIDE DEF d
    <3> QED BY <2>0, <2>1, <2>3, <2>5
  <2> QED BY <2>4, <2>5, <2>6, <2>7
<1>3. TB!IInv /\ TB!RefusalInv /\ [TB!Next]_(TB!vars) => TB!IInv' /\ TB!RefusalInv'
  BY Inductive, RefusalKept
<1> QED BY <1>1, <1>2, <1>3, PTL DEF TB!Spec
=============================================================================
