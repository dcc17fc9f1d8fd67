--------------------------- MODULE CrawlFlowProofs ---------------------------
(***************************************************************************)
(* Proofs about CrawlFlow, for any spreadsheets, however many sheets, rows *)
(* and topics they have, and any article lists.                            *)
(***************************************************************************)
EXTENDS CrawlFlow, FunctionTheorems, FiniteSetTheorems, TLAPS

-----------------------------------------------------------------------------
(* A set of numbers has a least one, and a bounded one a greatest one. *)
LEMMA LeastOf ==
  ASSUME NEW T \in SUBSET Nat, T # {}
  PROVE  \E m \in T : \A k \in T : m <= k
<1> DEFINE R == OpToRel(<, Nat)
<1>1. IsWellFoundedOn(R, Nat)
  BY NatLessThanWellFounded
<1>2. \A m, k \in Nat : k < m => <<k, m>> \in R
  BY DEF OpToRel
<1> HIDE DEF R
<1>3. PICK m \in T : \A k \in T : ~(<<k, m>> \in R)
  BY <1>1, WFMin
<1>4. \A k \in T : ~(k < m)
  BY <1>2, <1>3
<1> QED BY <1>4

LEMMA GreatestOf ==
  ASSUME NEW n \in Nat, NEW T \in SUBSET (1..n), T # {}
  PROVE  \E m \in T : \A k \in T : m >= k
<1> DEFINE M == {n - i : i \in T}
<1>1. M \in SUBSET Nat /\ M # {}
  <2>1. \A i \in T : n - i \in Nat
    OBVIOUS
  <2> QED BY <2>1
<1>2. PICK m \in M : \A k \in M : m <= k
  BY <1>1, LeastOf
<1>3. PICK i \in T : m = n - i
  OBVIOUS
<1>4. \A k \in T : n - k \in M
  OBVIOUS
<1> HIDE DEF M
<1> QED BY <1>2, <1>3, <1>4

(* The order of tuples of one length is strict and total. *)
Tuples(n) == [1..n -> Int]

LEMMA TupleLen == \A n \in Nat : \A a \in Tuples(n) : a \in Seq(Int) /\ Len(a) = n
BY DEF Tuples

LEMMA TupleIrreflexive == ASSUME NEW n \in Nat, NEW a \in Tuples(n) PROVE ~TupleLess(a, a)
BY TupleLen DEF TupleLess, Tuples

LEMMA TupleTransitive ==
  ASSUME NEW n \in Nat, NEW a \in Tuples(n), NEW b \in Tuples(n), NEW c \in Tuples(n),
         TupleLess(a, b), TupleLess(b, c)
  PROVE  TupleLess(a, c)
<1>1. PICK i \in 1..n : a[i] < b[i] /\ \A k \in 1..i - 1 : a[k] = b[k]
  BY TupleLen DEF TupleLess
<1>2. PICK j \in 1..n : b[j] < c[j] /\ \A k \in 1..j - 1 : b[k] = c[k]
  BY TupleLen DEF TupleLess
<1> DEFINE m == IF i < j THEN i ELSE j
<1>3. m \in 1..n /\ a[m] < c[m] /\ \A k \in 1..m - 1 : a[k] = c[k]
  BY <1>1, <1>2 DEF Tuples
<1> QED BY <1>3, TupleLen DEF TupleLess

LEMMA TupleTotal ==
  ASSUME NEW n \in Nat, NEW a \in Tuples(n), NEW b \in Tuples(n), a # b
  PROVE  TupleLess(a, b) \/ TupleLess(b, a)
<1> DEFINE T == {i \in 1..n : a[i] # b[i]}
<1>1. T \in SUBSET Nat /\ T # {}
  BY DEF Tuples
<1>2. PICK i \in T : \A k \in T : i <= k
  BY <1>1, LeastOf
<1>3. i \in 1..n /\ a[i] # b[i] /\ \A k \in 1..i - 1 : a[k] = b[k]
  BY <1>2
<1>4. a[i] < b[i] \/ b[i] < a[i]
  BY <1>3 DEF Tuples
<1> QED BY <1>3, <1>4, TupleLen DEF TupleLess

LEMMA TupleAsymmetric ==
  ASSUME NEW n \in Nat, NEW a \in Tuples(n), NEW b \in Tuples(n), TupleLess(a, b)
  PROVE  ~TupleLess(b, a) /\ a # b
BY TupleIrreflexive, TupleTransitive

LEMMA PairLess ==
  ASSUME NEW x \in Int, NEW y \in Int, NEW u \in Int, NEW v \in Int
  PROVE  /\ <<x, y>> \in Tuples(2)
         /\ TupleLess(<<x, y>>, <<u, v>>) <=> x < u \/ (x = u /\ y < v)
<1>1. <<x, y>> \in Tuples(2) /\ <<u, v>> \in Tuples(2)
  BY DEF Tuples
<1>2. ASSUME TupleLess(<<x, y>>, <<u, v>>) PROVE x < u \/ (x = u /\ y < v)
  BY <1>2 DEF TupleLess
<1>3. ASSUME x < u PROVE TupleLess(<<x, y>>, <<u, v>>)
  BY <1>3 DEF TupleLess
<1>4. ASSUME x = u, y < v PROVE TupleLess(<<x, y>>, <<u, v>>)
  BY <1>4 DEF TupleLess
<1> QED BY <1>1, <1>2, <1>3, <1>4

LEMMA OneLess ==
  ASSUME NEW x \in Int, NEW u \in Int
  PROVE  <<x>> \in Tuples(1) /\ (TupleLess(<<x>>, <<u>>) <=> x < u)
<1>1. <<x>> \in Tuples(1)
  BY DEF Tuples
<1>2. ASSUME TupleLess(<<x>>, <<u>>) PROVE x < u
  BY <1>2 DEF TupleLess
<1>3. ASSUME x < u PROVE TupleLess(<<x>>, <<u>>)
  <2>1. 1 \in 1..Len(<<x>>) /\ <<x>>[1] < <<u>>[1]
    BY <1>3
  <2>2. \A k \in 1..1 - 1 : <<x>>[k] = <<u>>[k]
    OBVIOUS
  <2> QED BY <2>1, <2>2 DEF TupleLess
<1> QED BY <1>1, <1>2, <1>3

-----------------------------------------------------------------------------
(* Arranged lists each element of a finite set once, in the order of their  *)
(* keys.                                                                    *)
LEMMA ArrangedIs ==
  ASSUME NEW S, IsFiniteSet(S), NEW n \in Nat, NEW key \in [S -> Tuples(n)],
         \A x, y \in S : key[x] = key[y] => x = y
  PROVE  /\ Cardinality(S) \in Nat
         /\ Arranged(key) \in Bijection(1..Cardinality(S), S)
         /\ \A i, k \in 1..Cardinality(S) :
              i < k <=> TupleLess(key[Arranged(key)[i]], key[Arranged(key)[k]])
<1> DEFINE c == Cardinality(S)
           Below(x) == {y \in S : TupleLess(key[y], key[x])}
           rank == [x \in S |-> Cardinality(Below(x)) + 1]
<1>1. c \in Nat
  BY FS_CardinalityType
<1>2. \A x \in S : IsFiniteSet(Below(x)) /\ Cardinality(Below(x)) \in Nat
  <2> SUFFICES ASSUME NEW x \in S PROVE IsFiniteSet(Below(x)) /\ Cardinality(Below(x)) \in Nat
    OBVIOUS
  <2>1. Below(x) \in SUBSET S
    OBVIOUS
  <2>2. IsFiniteSet(Below(x))
    BY <2>1, FS_Subset
  <2> QED BY <2>2, FS_CardinalityType
<1>3. ASSUME NEW x \in S, NEW T \in SUBSET S, Below(x) \subseteq T, x \in T
      PROVE  IsFiniteSet(T) /\ Cardinality(T) \in Nat /\ rank[x] <= Cardinality(T)
  <2>1. x \notin Below(x)
    BY TupleIrreflexive
  <2>2. IsFiniteSet(T) /\ Cardinality(T) \in Nat
    BY FS_Subset, FS_CardinalityType
  <2>3. IsFiniteSet(T \ {x}) /\ Cardinality(T \ {x}) = Cardinality(T) - 1
    BY <1>3, <2>2, FS_RemoveElement
  <2>4. Below(x) \in SUBSET (T \ {x})
    BY <1>3, <2>1
  <2>5. Cardinality(Below(x)) <= Cardinality(T \ {x})
    BY <2>3, <2>4, FS_Subset
  <2> QED BY <1>2, <2>2, <2>3, <2>5
<1>4. rank \in [S -> 1..c]
  <2> SUFFICES ASSUME NEW x \in S PROVE rank[x] \in 1..c
    OBVIOUS
  <2>1. rank[x] <= c
    BY <1>3
  <2>2. Cardinality(Below(x)) \in Nat
    BY <1>2
  <2> QED BY <1>1, <2>1, <2>2
<1>5. ASSUME NEW x \in S, NEW y \in S, TupleLess(key[x], key[y])
      PROVE  rank[x] < rank[y]
  <2>1. Below(x) \subseteq Below(y) /\ x \in Below(y) /\ Below(y) \in SUBSET S
    BY <1>5, TupleTransitive
  <2>2. rank[x] <= Cardinality(Below(y))
    BY <2>1, <1>3
  <2>3. Cardinality(Below(x)) \in Nat /\ Cardinality(Below(y)) \in Nat
    BY <1>2
  <2> QED BY <2>2, <2>3
<1> HIDE DEF rank, Below
<1>6. \A x, y \in S : rank[x] < rank[y] => TupleLess(key[x], key[y])
  <2> SUFFICES ASSUME NEW x \in S, NEW y \in S, rank[x] < rank[y], ~TupleLess(key[x], key[y])
               PROVE  FALSE
    OBVIOUS
  <2>1. x # y
    BY <1>4
  <2>2. TupleLess(key[y], key[x])
    BY <2>1, TupleTotal
  <2>3. rank[y] < rank[x] /\ rank[x] \in Int /\ rank[y] \in Int
    BY <2>2, <1>4, <1>5
  <2> QED BY <2>3
<1>7. \A x, y \in S : rank[x] = rank[y] => x = y
  <2> SUFFICES ASSUME NEW x \in S, NEW y \in S, rank[x] = rank[y], x # y PROVE FALSE
    OBVIOUS
  <2>1. TupleLess(key[x], key[y]) \/ TupleLess(key[y], key[x])
    BY TupleTotal
  <2>2. rank[x] < rank[y] \/ rank[y] < rank[x]
    BY <2>1, <1>5
  <2> QED BY <2>2, <1>4
<1>8. rank \in Injection(S, 1..c)
  BY <1>4, <1>7, Fun_IsInj
<1>9. \A k \in 1..c : \E x \in S : rank[x] = k
  <2>1. IsFiniteSet(1..c) /\ Cardinality(1..c) = c
    BY <1>1, FS_Interval
  <2>2. rank \in Surjection(S, 1..c)
    BY <1>8, <2>1, FS_Injection
  <2> QED BY <2>2, Fun_SurjectionProperties
<1>10. DOMAIN key = S
  OBVIOUS
<1>11. Arranged(key) = [k \in 1..c |-> CHOOSE x \in S : rank[x] = k]
  <2>1. \A k \in 1..c : \A x \in S : rank[x] = k <=> Cardinality(Below(x)) = k - 1
    BY <1>1, <1>2 DEF rank
  <2>2. \A k \in 1..c : (CHOOSE x \in S : Cardinality(Below(x)) = k - 1) = CHOOSE x \in S : rank[x] = k
    <3> SUFFICES ASSUME NEW k \in 1..c
                 PROVE  (CHOOSE x \in S : Cardinality(Below(x)) = k - 1) = CHOOSE x \in S : rank[x] = k
      OBVIOUS
    <3>1. PICK x \in S : rank[x] = k
      BY <1>9
    <3>2. \A y \in S : rank[y] = k => y = x
      BY <3>1, <1>7
    <3>3. \A y \in S : Cardinality(Below(y)) = k - 1 <=> y = x
      BY <3>1, <3>2, <2>1
    <3>4. (CHOOSE y \in S : Cardinality(Below(y)) = k - 1) = x
      BY <3>3
    <3>5. (CHOOSE y \in S : rank[y] = k) = x
      BY <3>1, <3>2
    <3> QED BY <3>4, <3>5
  <2>3. Arranged(key) = [k \in 1..c |-> CHOOSE x \in S : Cardinality(Below(x)) = k - 1]
    BY <1>10 DEF Arranged, Below
  <2> QED BY <2>2, <2>3
<1> DEFINE o == Arranged(key)
<1>12. \A k \in 1..c : o[k] \in S /\ rank[o[k]] = k
  BY <1>9, <1>11
<1>13. o \in [1..c -> S]
  BY <1>11, <1>12
<1> HIDE DEF o
<1>14. \A i, k \in 1..c : o[i] = o[k] => i = k
  BY <1>12
<1>15. \A x \in S : \E k \in 1..c : o[k] = x
  BY <1>4, <1>7, <1>12
<1>16. o \in Bijection(1..c, S)
  BY <1>13, <1>14, <1>15, Fun_IsBij
<1>17. \A i, k \in 1..c : i < k <=> TupleLess(key[o[i]], key[o[k]])
  <2> SUFFICES ASSUME NEW i \in 1..c, NEW k \in 1..c
               PROVE  i < k <=> TupleLess(key[o[i]], key[o[k]])
    OBVIOUS
  <2>1. o[i] \in S /\ o[k] \in S /\ rank[o[i]] = i /\ rank[o[k]] = k
    BY <1>12
  <2> QED BY <2>1, <1>5, <1>6
<1> QED BY <1>1, <1>16, <1>17 DEF o

-----------------------------------------------------------------------------
(* Sequences made from others: their length, type and elements. *)
LEMMA SeqIs ==
  ASSUME NEW X, NEW n \in Nat, NEW s \in [1..n -> X]
  PROVE  s \in Seq(X) /\ Len(s) = n /\ DOMAIN s = 1..n /\ ToSet(s) = {s[i] : i \in 1..n}
BY DEF ToSet

LEMMA SeqElements ==
  ASSUME NEW X, NEW s \in Seq(X)
  PROVE  /\ Len(s) \in Nat /\ s \in [1..Len(s) -> X] /\ DOMAIN s = 1..Len(s)
         /\ ToSet(s) = {s[i] : i \in 1..Len(s)}
BY DEF ToSet

LEMMA BijectionIs ==
  ASSUME NEW S, NEW T, NEW f \in Bijection(S, T)
  PROVE  /\ f \in [S -> T]
         /\ \A a, b \in S : f[a] = f[b] => a = b
         /\ \A t \in T : \E a \in S : f[a] = t
BY Fun_BijectionProperties

(* Along reads the values of g in the order of o. *)
LEMMA AlongIs ==
  ASSUME NEW c \in Nat, NEW P, NEW o \in Bijection(1..c, P), NEW g
  PROVE  /\ Len(Along(o, g)) = c /\ DOMAIN Along(o, g) = 1..c
         /\ \A k \in 1..c : o[k] \in P /\ Along(o, g)[k] = g[o[k]]
         /\ \A p \in P : \E k \in 1..c : o[k] = p
<1>1. /\ o \in [1..c -> P]
      /\ \A p \in P : \E a \in 1..c : o[a] = p
  BY BijectionIs
<1>2. Len(o) = c
  BY <1>1, SeqIs
<1>3. Along(o, g) = [k \in 1..c |-> g[o[k]]]
  BY <1>2 DEF Along
<1>4. Len(Along(o, g)) = c
  <2> DEFINE X == {g[o[k]] : k \in 1..c}
  <2>1. Along(o, g) \in [1..c -> X]
    BY <1>3
  <2> HIDE DEF X
  <2> QED BY <2>1, SeqIs
<1> QED BY <1>1, <1>3, <1>4

LEMMA AlongElements ==
  ASSUME NEW c \in Nat, NEW P, NEW o \in Bijection(1..c, P), NEW g
  PROVE  \A x : x \in ToSet(Along(o, g)) <=> \E p \in P : x = g[p]
<1> DEFINE r == Along(o, g)
<1>1. /\ DOMAIN r = 1..c
      /\ \A k \in 1..c : o[k] \in P /\ r[k] = g[o[k]]
      /\ \A p \in P : \E k \in 1..c : o[k] = p
  BY AlongIs
<1> HIDE DEF r
<1>2. \A x : x \in ToSet(r) <=> \E k \in 1..c : x = r[k]
  BY <1>1 DEF ToSet
<1> QED BY <1>1, <1>2 DEF r

LEMMA AlongType ==
  ASSUME NEW c \in Nat, NEW P, NEW o \in Bijection(1..c, P), NEW X,
         NEW g, \A p \in P : g[p] \in X
  PROVE  Along(o, g) \in Seq(X)
<1> DEFINE r == Along(o, g)
<1>1. \A k \in 1..c : o[k] \in P
  BY AlongIs
<1>2. o \in [1..c -> P]
  BY BijectionIs
<1>3. Len(o) = c
  BY <1>2, SeqIs
<1>4. r \in [1..c -> X]
  BY <1>1, <1>3 DEF Along
<1> QED BY <1>4, SeqIs

LEMMA AlongInjective ==
  ASSUME NEW c \in Nat, NEW P, NEW o \in Bijection(1..c, P),
         NEW g, \A p, q \in P : g[p] = g[q] => p = q
  PROVE  IsInjective(Along(o, g))
<1> DEFINE r == Along(o, g)
<1>1. DOMAIN r = 1..c /\ \A k \in 1..c : o[k] \in P /\ r[k] = g[o[k]]
  BY AlongIs
<1>2. \A a, b \in 1..c : o[a] = o[b] => a = b
  BY BijectionIs
<1> HIDE DEF r
<1>3. IsInjective(r)
  BY <1>1, <1>2 DEF IsInjective
<1> QED BY <1>3 DEF r

LEMMA PlacesArranged ==
  ASSUME NEW n \in Nat, NEW P \in SUBSET (1..n)
  PROVE  LET o == Arranged([i \in P |-> <<i>>])
         IN /\ Cardinality(P) \in Nat /\ o \in Bijection(1..Cardinality(P), P)
            /\ \A i, k \in 1..Cardinality(P) : i < k <=> o[i] < o[k]
<1> DEFINE c == Cardinality(P)
           key == [i \in P |-> <<i>>]
           o == Arranged(key)
<1>0. \A p \in P : p \in Int
  OBVIOUS
<1>1. IsFiniteSet(P)
  <2> HIDE DEF key, o, c
  <2>1. IsFiniteSet(1..n)
    BY FS_Interval
  <2> QED BY <2>1, FS_Subset
<1>2. \A x \in P : key[x] \in Tuples(1) /\ key[x] = <<x>>
  <2>1. \A x \in P : key[x] = <<x>> /\ x \in Int
    OBVIOUS
  <2> HIDE DEF key
  <2> QED BY <2>1, OneLess
<1>3. DOMAIN key = P /\ key = [x \in P |-> key[x]]
  OBVIOUS
<1> HIDE DEF key
<1>4. key \in [P -> Tuples(1)] /\ \A x, y \in P : key[x] = key[y] => x = y
  <2>1. key \in [P -> Tuples(1)]
    BY <1>2, <1>3
  <2>2. \A x, y \in P : <<x>> = <<y>> => x = y
    OBVIOUS
  <2> QED BY <1>2, <2>1, <2>2
<1> HIDE DEF o
<1>5. /\ c \in Nat /\ o \in Bijection(1..c, P)
      /\ \A i, k \in 1..c : i < k <=> TupleLess(key[o[i]], key[o[k]])
  BY <1>1, <1>4, ArrangedIs DEF o
<1>6. o \in [1..c -> P]
  BY <1>5, BijectionIs
<1>7. \A i, k \in 1..c : TupleLess(key[o[i]], key[o[k]]) <=> o[i] < o[k]
  <2> SUFFICES ASSUME NEW i \in 1..c, NEW k \in 1..c
               PROVE  TupleLess(key[o[i]], key[o[k]]) <=> o[i] < o[k]
    OBVIOUS
  <2>1. o[i] \in P /\ o[k] \in P
    BY <1>6
  <2>2. o[i] \in Int /\ o[k] \in Int
    BY <1>0, <2>1
  <2> QED BY <1>2, <2>1, <2>2, OneLess
<1> QED BY <1>5, <1>7 DEF o, key

LEMMA AtPlacesIs ==
  ASSUME NEW X, NEW s \in Seq(X), NEW P \in SUBSET (1..Len(s))
  PROVE  /\ AtPlaces(s, P) \in Seq(X) /\ ToSet(AtPlaces(s, P)) = {s[i] : i \in P}
         /\ (\A i, k \in P : s[i] = s[k] => i = k) => IsInjective(AtPlaces(s, P))
<1>1. Len(s) \in Nat /\ \A i \in P : s[i] \in X
  BY SeqElements
<1>2. PICK c, o : c \in Nat /\ o \in Bijection(1..c, P) /\ AtPlaces(s, P) = Along(o, s)
  BY <1>1, PlacesArranged DEF AtPlaces
<1>3. Along(o, s) \in Seq(X)
  BY <1>1, <1>2, AlongType
<1>4. ToSet(Along(o, s)) = {s[i] : i \in P}
  <2>1. ASSUME NEW x \in ToSet(Along(o, s)) PROVE \E p \in P : x = s[p]
    <3>1. DOMAIN Along(o, s) = 1..c
      BY <1>2, AlongIs
    <3>2. \A k \in 1..c : o[k] \in P /\ Along(o, s)[k] = s[o[k]]
      BY <1>2, AlongIs
    <3>3. PICK k \in 1..c : x = Along(o, s)[k]
      BY <2>1, <3>1 DEF ToSet
    <3> QED BY <3>2, <3>3
  <2>2. \A i \in P : s[i] \in ToSet(Along(o, s))
    BY <1>2, AlongElements
  <2> QED BY <2>1, <2>2
<1>5. (\A i, k \in P : s[i] = s[k] => i = k) => IsInjective(Along(o, s))
  BY <1>2, AlongInjective
<1> QED BY <1>2, <1>3, <1>4, <1>5

LEMMA DistinctIs ==
  ASSUME NEW X, NEW s \in Seq(X)
  PROVE  Distinct(s) \in Seq(X) /\ ToSet(Distinct(s)) = ToSet(s) /\ IsInjective(Distinct(s))
<1> DEFINE P == {i \in 1..Len(s) : \A k \in 1..i - 1 : s[k] # s[i]}
<1>1. Len(s) \in Nat /\ ToSet(s) = {s[i] : i \in 1..Len(s)}
  BY SeqElements
<1>2. P \in SUBSET (1..Len(s)) /\ Distinct(s) = AtPlaces(s, P)
  BY DEF Distinct
<1>3. \A i, k \in P : s[i] = s[k] => i = k
  BY <1>1
<1>4. \A i \in 1..Len(s) : \E k \in P : s[k] = s[i]
  <2> SUFFICES ASSUME NEW i \in 1..Len(s) PROVE \E k \in P : s[k] = s[i]
    OBVIOUS
  <2> DEFINE T == {k \in 1..Len(s) : s[k] = s[i]}
  <2>1. T \in SUBSET Nat /\ i \in T
    BY <1>1
  <2>2. PICK k \in T : \A l \in T : k <= l
    BY <2>1, LeastOf
  <2>3. k \in P
    BY <1>1, <2>2
  <2> QED BY <2>3
<1> HIDE DEF P
<1>5. {s[i] : i \in P} = {s[i] : i \in 1..Len(s)}
  BY <1>2, <1>4
<1>6. /\ Distinct(s) \in Seq(X) /\ ToSet(Distinct(s)) = {s[i] : i \in P}
      /\ IsInjective(Distinct(s))
  BY <1>2, <1>3, AtPlacesIs
<1> QED BY <1>1, <1>5, <1>6

LEMMA AppendedKey ==
  ASSUME NEW n \in Nat, NEW a \in Tuples(n), NEW b \in Tuples(n), NEW i \in Int, NEW k \in Int
  PROVE  /\ Append(a, i) \in Tuples(n + 1)
         /\ Append(a, i) = Append(b, k) => i = k
         /\ TupleLess(a, b) => TupleLess(Append(a, i), Append(b, k))
<1> DEFINE ai == Append(a, i)
           bk == Append(b, k)
<1>1. a \in Seq(Int) /\ b \in Seq(Int) /\ Len(a) = n /\ Len(b) = n
  BY TupleLen
<1>2. /\ ai \in Seq(Int) /\ Len(ai) = n + 1 /\ ai[n + 1] = i
      /\ bk \in Seq(Int) /\ Len(bk) = n + 1 /\ bk[n + 1] = k
      /\ \A j \in 1..n : ai[j] = a[j] /\ bk[j] = b[j]
  BY <1>1
<1> HIDE DEF ai, bk
<1>3. ai \in Tuples(n + 1)
  BY <1>2 DEF Tuples
<1>4. ASSUME TupleLess(a, b) PROVE TupleLess(ai, bk)
  <2>1. PICK j \in 1..n : a[j] < b[j] /\ \A l \in 1..j - 1 : a[l] = b[l]
    BY <1>1, <1>4 DEF TupleLess
  <2>2. j \in 1..n + 1 /\ ai[j] < bk[j]
    BY <1>2, <2>1
  <2>3. \A l \in 1..j - 1 : ai[l] = bk[l]
    BY <1>2, <2>1
  <2> QED BY <1>2, <2>2, <2>3 DEF TupleLess
<1> QED BY <1>2, <1>3, <1>4 DEF ai, bk

LEMMA StableSortIs ==
  ASSUME NEW X, NEW s \in Seq(X), NEW n \in Nat, NEW keys \in [1..Len(s) -> Tuples(n)]
  PROVE  LET r == StableSort(s, keys)
         IN /\ r \in Seq(X) /\ Len(r) = Len(s) /\ ToSet(r) = ToSet(s)
            /\ IsInjective(s) => IsInjective(r)
            /\ \E o \in Bijection(1..Len(s), 1..Len(s)) :
                 /\ \A k \in 1..Len(s) : o[k] \in 1..Len(s) /\ r[k] = s[o[k]]
                 /\ \A i, k \in 1..Len(s) : i < k => ~TupleLess(keys[o[k]], keys[o[i]])
<1>0. PICK m \in Nat : m = Len(s)
  BY SeqElements
<1>1. /\ s \in [1..m -> X] /\ DOMAIN s = 1..m /\ ToSet(s) = {s[i] : i \in 1..m}
      /\ keys \in [1..m -> Tuples(n)]
  BY <1>0, SeqElements
<1>2. IsFiniteSet(1..m) /\ Cardinality(1..m) = m
  BY FS_Interval
<1> DEFINE key == [i \in 1..m |-> Append(keys[i], i)]
           o == Arranged(key)
           r == Along(o, s)
<1>3. key \in [1..m -> Tuples(n + 1)] /\ \A i \in 1..m : key[i] = Append(keys[i], i)
  BY <1>1, AppendedKey
<1>4. StableSort(s, keys) = r
  BY <1>0 DEF StableSort
<1> HIDE DEF key
<1>5. \A x, y \in 1..m : key[x] = key[y] => x = y
  <2> SUFFICES ASSUME NEW x \in 1..m, NEW y \in 1..m, key[x] = key[y] PROVE x = y
    OBVIOUS
  <2>1. keys[x] \in Tuples(n) /\ keys[y] \in Tuples(n) /\ x \in Int /\ y \in Int
    BY <1>1
  <2>2. Append(keys[x], x) = Append(keys[y], y)
    BY <1>3
  <2> QED BY <2>1, <2>2, AppendedKey
<1> HIDE DEF o
<1>6. /\ o \in Bijection(1..m, 1..m)
      /\ \A i, k \in 1..m : i < k <=> TupleLess(key[o[i]], key[o[k]])
  <2>1. n + 1 \in Nat
    OBVIOUS
  <2> QED BY <1>2, <1>3, <1>5, <2>1, ArrangedIs DEF o
<1> HIDE DEF r
<1>7. Len(r) = m /\ \A k \in 1..m : o[k] \in 1..m /\ r[k] = s[o[k]]
  <2>1. Len(r) = m
    BY <1>6, AlongIs DEF r
  <2>2. \A k \in 1..m : o[k] \in 1..m /\ r[k] = s[o[k]]
    BY <1>6, AlongIs DEF r
  <2> QED BY <2>1, <2>2
<1>8. r \in Seq(X)
  <2>1. \A i \in 1..m : s[i] \in X
    BY <1>1
  <2> QED BY <1>6, <2>1, AlongType DEF r
<1>9. ToSet(r) = ToSet(s)
  <2>1. \A x : x \in ToSet(r) <=> \E i \in 1..m : x = s[i]
    BY <1>6, AlongElements DEF r
  <2>2. \A x : x \in ToSet(s) <=> \E i \in 1..m : x = s[i]
    BY <1>1
  <2> QED BY <2>1, <2>2
<1>10. IsInjective(s) => IsInjective(r)
  <2>1. (\A p, q \in 1..m : s[p] = s[q] => p = q) => IsInjective(r)
    BY <1>6, AlongInjective DEF r
  <2> QED BY <1>1, <2>1 DEF IsInjective
<1>11. ASSUME NEW i \in 1..m, NEW k \in 1..m, i < k, TupleLess(keys[o[k]], keys[o[i]]) PROVE FALSE
  <2>1. o[i] \in 1..m /\ o[k] \in 1..m
    BY <1>7
  <2>2. o[i] \in Int /\ o[k] \in Int
    BY <2>1
  <2>3. keys[o[i]] \in Tuples(n) /\ keys[o[k]] \in Tuples(n)
    BY <1>1, <2>1
  <2>4. TupleLess(key[o[k]], key[o[i]])
    <3>1. TupleLess(Append(keys[o[k]], o[k]), Append(keys[o[i]], o[i]))
      BY <1>11, <2>2, <2>3, AppendedKey
    <3> QED BY <1>3, <2>1, <3>1
  <2>5. k < i
    BY <1>6, <2>4
  <2> QED BY <1>11, <2>5
<1> QED BY <1>0, <1>4, <1>6, <1>7, <1>8, <1>9, <1>10, <1>11

(* Sorting by a key that is a function of the element. *)
LEMMA SortIs ==
  ASSUME NEW X, NEW s \in Seq(X), NEW n \in Nat, NEW K \in [X -> Tuples(n)]
  PROVE  LET r == StableSort(s, [i \in 1..Len(s) |-> K[s[i]]])
         IN /\ r \in Seq(X) /\ Len(r) = Len(s) /\ ToSet(r) = ToSet(s)
            /\ IsInjective(s) => IsInjective(r)
            /\ \A i, k \in 1..Len(r) : i < k => ~TupleLess(K[r[k]], K[r[i]])
<1> DEFINE keys == [i \in 1..Len(s) |-> K[s[i]]]
           r == StableSort(s, keys)
<1>0. Len(s) \in Nat /\ \A i \in 1..Len(s) : s[i] \in X
  BY SeqElements
<1>1. keys \in [1..Len(s) -> Tuples(n)] /\ \A i \in 1..Len(s) : keys[i] = K[s[i]]
  BY <1>0
<1> HIDE DEF keys
<1>2. /\ r \in Seq(X) /\ Len(r) = Len(s) /\ ToSet(r) = ToSet(s)
      /\ IsInjective(s) => IsInjective(r)
  BY <1>1, StableSortIs
<1>3. PICK o \in Bijection(1..Len(s), 1..Len(s)) :
        /\ \A k \in 1..Len(s) : o[k] \in 1..Len(s) /\ r[k] = s[o[k]]
        /\ \A i, k \in 1..Len(s) : i < k => ~TupleLess(keys[o[k]], keys[o[i]])
  BY <1>1, StableSortIs
<1> HIDE DEF r
<1>4. \A k \in 1..Len(s) : keys[o[k]] = K[r[k]]
  BY <1>1, <1>3
<1>5. \A i, k \in 1..Len(r) : i < k => ~TupleLess(K[r[k]], K[r[i]])
  BY <1>2, <1>3, <1>4
<1> QED BY <1>2, <1>5 DEF r, keys

LEMMA SortedStrictly ==
  ASSUME NEW X, NEW r \in Seq(X), IsInjective(r), NEW n \in Nat, NEW K \in [X -> Tuples(n)],
         \A x, y \in X : K[x] = K[y] => x = y,
         \A i, k \in 1..Len(r) : i < k => ~TupleLess(K[r[k]], K[r[i]])
  PROVE  \A i, k \in 1..Len(r) : i < k => TupleLess(K[r[i]], K[r[k]])
<1> SUFFICES ASSUME NEW i \in 1..Len(r), NEW k \in 1..Len(r), i < k
             PROVE  TupleLess(K[r[i]], K[r[k]])
  OBVIOUS
<1>1. DOMAIN r = 1..Len(r) /\ r[i] \in X /\ r[k] \in X
  BY SeqElements
<1>2. r[i] # r[k]
  BY <1>1 DEF IsInjective
<1>3. K[r[i]] \in Tuples(n) /\ K[r[k]] \in Tuples(n) /\ K[r[i]] # K[r[k]]
  BY <1>1, <1>2
<1>4. ~TupleLess(K[r[k]], K[r[i]])
  OBVIOUS
<1> QED BY <1>3, <1>4, TupleTotal

LEMMA ArrangedPairs ==
  ASSUME NEW P, IsFiniteSet(P), \A p \in P : p \in Tuples(2)
  PROVE  /\ Cardinality(P) \in Nat
         /\ Arranged([p \in P |-> p]) \in Bijection(1..Cardinality(P), P)
<1> DEFINE key == [p \in P |-> p]
<1>1. key \in [P -> Tuples(2)] /\ \A p \in P : key[p] = p
  OBVIOUS
<1> HIDE DEF key
<1>2. \A x, y \in P : key[x] = key[y] => x = y
  BY <1>1
<1>3. Cardinality(P) \in Nat /\ Arranged(key) \in Bijection(1..Cardinality(P), P)
  BY <1>1, <1>2, ArrangedIs
<1> QED BY <1>3 DEF key

-----------------------------------------------------------------------------
(* The rows that are kept, and the entries they make. *)
SheetRows == [topic: Displays \cup {NoTopic}, cell: Cells, approved: BOOLEAN]
Identity == [display \in Displays |-> display]
EntriesType(T) == [url: Urls, surface: Nat \ {0}, topic: T]

LEMMA SheetIs ==
  ASSUME NEW sheets \in Seq(SourceSheets), NEW s \in 1..Len(sheets), sheets[s] # NoSheet
  PROVE  sheets[s].rows \in Seq(SheetRows) /\ sheets[s].columns \in BOOLEAN
<1>1. sheets[s] \in SourceSheets
  BY SeqElements
<1> QED BY <1>1 DEF SourceSheets, SheetRows

LEMMA KeptRowsIs ==
  ASSUME NEW sheets \in Seq(SourceSheets), NEW s \in 1..Len(sheets)
  PROVE  /\ IsFiniteSet(KeptRows(sheets[s])) /\ KeptRows(sheets[s]) \subseteq Nat
         /\ \A i \in KeptRows(sheets[s]) :
              /\ sheets[s] # NoSheet /\ i \in 1..Len(sheets[s].rows)
              /\ sheets[s].rows[i] \in SheetRows
              /\ ReadUrl(sheets[s].rows[i].cell) \in Urls
              /\ sheets[s].rows[i].topic \in Displays
              /\ Kept(sheets[s].rows[i])
<1>1. CASE sheets[s] = NoSheet
  BY <1>1, FS_EmptySet DEF KeptRows
<1>2. CASE sheets[s] # NoSheet
  <2> DEFINE rows == sheets[s].rows
  <2>1. rows \in Seq(SheetRows)
    BY <1>2, SheetIs
  <2>2. Len(rows) \in Nat /\ \A i \in 1..Len(rows) : rows[i] \in SheetRows
    BY <2>1, SeqElements
  <2>3. KeptRows(sheets[s]) = {i \in 1..Len(rows) : Kept(rows[i])}
    BY <1>2 DEF KeptRows
  <2> HIDE DEF rows
  <2>4. IsFiniteSet(1..Len(rows))
    BY <2>2, FS_Interval
  <2>5. IsFiniteSet(KeptRows(sheets[s])) /\ KeptRows(sheets[s]) \subseteq Nat
    <3>1. KeptRows(sheets[s]) \in SUBSET (1..Len(rows)) /\ 1..Len(rows) \subseteq Nat
      BY <2>2, <2>3
    <3> QED BY <2>4, <3>1, FS_Subset
  <2>6. \A row \in SheetRows : Kept(row) => ReadUrl(row.cell) \in Urls /\ row.topic \in Displays
    <3> SUFFICES ASSUME NEW row \in SheetRows, Kept(row)
                 PROVE  ReadUrl(row.cell) \in Urls /\ row.topic \in Displays
      OBVIOUS
    <3>1. row.topic \in Displays /\ row.cell \in Cells /\ ReadUrl(row.cell) # NoUrl
      BY DEF Kept, SheetRows
    <3>2. ReadUrl(row.cell) \in Urls
      BY <3>1 DEF ReadUrl, Cells, Urls
    <3> QED BY <3>1, <3>2
  <2> QED BY <1>2, <2>2, <2>3, <2>5, <2>6 DEF rows
<1> QED BY <1>1, <1>2

LEMMA KeptPlacesIs ==
  ASSUME NEW sheets \in Seq(SourceSheets)
  PROVE  /\ IsFiniteSet(KeptPlaces(sheets)) /\ \A p \in KeptPlaces(sheets) : p \in Tuples(2)
         /\ \A p \in KeptPlaces(sheets) :
              p[1] \in 1..Len(sheets) /\ p[2] \in KeptRows(sheets[p[1]]) /\ p = <<p[1], p[2]>>
         /\ \A s \in 1..Len(sheets) : \A i \in KeptRows(sheets[s]) : <<s, i>> \in KeptPlaces(sheets)
<1> DEFINE n == Len(sheets)
           f == [s \in 1..n |-> {s} \X KeptRows(sheets[s])]
           T == {f[s] : s \in 1..n}
<1>1. n \in Nat /\ IsFiniteSet(1..n)
  BY SeqElements, FS_Interval
<1>2. \A s \in 1..n : IsFiniteSet(f[s])
  <2> SUFFICES ASSUME NEW s \in 1..n PROVE IsFiniteSet({s} \X KeptRows(sheets[s]))
    OBVIOUS
  <2>1. IsFiniteSet({s}) /\ IsFiniteSet(KeptRows(sheets[s]))
    BY FS_Singleton, KeptRowsIs
  <2> QED BY <2>1, FS_Product
<1>3. KeptPlaces(sheets) = UNION T
  BY DEF KeptPlaces
<1>4. \A s \in 1..n : f[s] = {s} \X KeptRows(sheets[s])
  OBVIOUS
<1>5. f \in [1..n -> T] /\ \A t \in T : \E s \in 1..n : f[s] = t
  OBVIOUS
<1> HIDE DEF f
<1>6. IsFiniteSet(T)
  <2>1. f \in Surjection(1..n, T)
    BY <1>5, Fun_IsSurj
  <2> HIDE DEF T
  <2> QED BY <1>1, <2>1, FS_Surjection
<1>7. \A t \in T : IsFiniteSet(t)
  BY <1>2
<1>8. IsFiniteSet(KeptPlaces(sheets))
  <2> HIDE DEF T
  <2> QED BY <1>3, <1>6, <1>7, FS_UNION
<1>9. \A p : p \in KeptPlaces(sheets) <=> \E s \in 1..n : p \in {s} \X KeptRows(sheets[s])
  BY <1>3, <1>4
<1>10. \A s \in 1..n : s \in Int /\ KeptRows(sheets[s]) \subseteq Int
  BY <1>1, KeptRowsIs
<1>11. \A p \in KeptPlaces(sheets) :
         p[1] \in 1..n /\ p[2] \in KeptRows(sheets[p[1]]) /\ p = <<p[1], p[2]>>
  BY <1>9
<1>12. \A p \in KeptPlaces(sheets) : p \in Tuples(2)
  <2> SUFFICES ASSUME NEW p \in KeptPlaces(sheets) PROVE p \in Tuples(2)
    OBVIOUS
  <2>1. p = <<p[1], p[2]>> /\ p[1] \in Int /\ p[2] \in Int
    BY <1>10, <1>11
  <2> QED BY <2>1, PairLess
<1>13. \A s \in 1..n : \A i \in KeptRows(sheets[s]) : <<s, i>> \in KeptPlaces(sheets)
  BY <1>9
<1> QED BY <1>8, <1>11, <1>12, <1>13

LEMMA EntryIs ==
  ASSUME NEW T, NEW resolve \in [Displays -> T], NEW sheets \in Seq(SourceSheets),
         NEW p \in KeptPlaces(sheets)
  PROVE  Entry(sheets, p, resolve) \in EntriesType(T)
<1>1. p[1] \in 1..Len(sheets) /\ p[2] \in KeptRows(sheets[p[1]])
  BY KeptPlacesIs
<1>2. Len(sheets) \in Nat
  BY SeqElements
<1> DEFINE row == sheets[p[1]].rows[p[2]]
<1>3. ReadUrl(row.cell) \in Urls /\ row.topic \in Displays
  BY <1>1, KeptRowsIs
<1>4. p[1] \in Nat \ {0}
  BY <1>1, <1>2
<1>5. Entry(sheets, p, resolve) =
        [url |-> ReadUrl(row.cell), surface |-> p[1], topic |-> resolve[row.topic]]
  BY DEF Entry
<1> HIDE DEF row
<1>6. resolve[row.topic] \in T
  BY <1>3
<1> QED BY <1>3, <1>4, <1>5, <1>6 DEF EntriesType

(* The exporters file one entry for each kept row, and each entry once. *)
LEMMA IngestedIs ==
  ASSUME NEW T, NEW resolve \in [Displays -> T], NEW sheets \in Seq(SourceSheets)
  PROVE  /\ Ingested(sheets, resolve) \in Seq(EntriesType(T))
         /\ ToSet(Ingested(sheets, resolve)) = {Entry(sheets, p, resolve) : p \in KeptPlaces(sheets)}
         /\ IsInjective(Ingested(sheets, resolve))
<1> DEFINE P == KeptPlaces(sheets)
           g == [p \in P |-> Entry(sheets, p, resolve)]
           o == Arranged([p \in P |-> p])
           c == Cardinality(P)
<1>1. c \in Nat /\ o \in Bijection(1..c, P)
  BY KeptPlacesIs, ArrangedPairs
<1>2. Ingested(sheets, resolve) = Distinct(Along(o, g))
  BY DEF Ingested
<1>3. \A p \in P : g[p] = Entry(sheets, p, resolve) /\ g[p] \in EntriesType(T)
  BY EntryIs
<1> HIDE DEF o, c, g
<1>4. Along(o, g) \in Seq(EntriesType(T))
  BY <1>1, <1>3, AlongType
<1>5. \A x : x \in ToSet(Along(o, g)) <=> \E p \in P : x = g[p]
  BY <1>1, AlongElements
<1>6. /\ Distinct(Along(o, g)) \in Seq(EntriesType(T)) /\ IsInjective(Distinct(Along(o, g)))
      /\ ToSet(Distinct(Along(o, g))) = ToSet(Along(o, g))
  BY <1>4, DistinctIs
<1>7. ToSet(Along(o, g)) = {Entry(sheets, p, resolve) : p \in P}
  BY <1>3, <1>5
<1> QED BY <1>2, <1>6, <1>7

(* The entries of the source sheets, as JsonMatchesRows counts them. *)
LEMMA ApprovedIs ==
  ASSUME NEW sheets \in Seq(SourceSheets)
  PROVE  ApprovedEntries(sheets) = {Entry(sheets, p, Identity) : p \in KeptPlaces(sheets)}
<1> DEFINE E == {Entry(sheets, p, Identity) : p \in KeptPlaces(sheets)}
           At(s, row) == [url |-> ReadUrl(row.cell), surface |-> s, topic |-> row.topic]
           Taken(s) == {row \in ToSet(sheets[s].rows) :
                          row.approved /\ row.topic # NoTopic /\ ReadUrl(row.cell) # NoUrl}
<1>1. \A x : x \in ApprovedEntries(sheets) <=>
        \E s \in 1..Len(sheets) : sheets[s] # NoSheet /\ \E row \in Taken(s) : x = At(s, row)
  BY DEF ApprovedEntries
<1>2. ASSUME NEW s \in 1..Len(sheets), NEW i \in KeptRows(sheets[s])
      PROVE  Entry(sheets, <<s, i>>, Identity) = At(s, sheets[s].rows[i])
  <2>1. sheets[s].rows[i].topic \in Displays
    BY KeptRowsIs
  <2> QED BY <2>1 DEF Entry, Identity
<1>3. ASSUME NEW s \in 1..Len(sheets), sheets[s] # NoSheet, NEW row
      PROVE  row \in Taken(s) <=> \E i \in KeptRows(sheets[s]) : row = sheets[s].rows[i]
  <2>1. \A x : x \in ToSet(sheets[s].rows) <=> \E i \in 1..Len(sheets[s].rows) : x = sheets[s].rows[i]
    BY <1>3, SheetIs, SeqElements
  <2>2. \A i : i \in KeptRows(sheets[s]) <=> i \in 1..Len(sheets[s].rows) /\ Kept(sheets[s].rows[i])
    BY <1>3 DEF KeptRows
  <2>3. row \in Taken(s) <=> row \in ToSet(sheets[s].rows) /\ Kept(row)
    BY DEF Kept
  <2> HIDE DEF Taken
  <2> QED BY <2>1, <2>2, <2>3
<1>4. \A s \in 1..Len(sheets) : sheets[s] = NoSheet => KeptRows(sheets[s]) = {}
  BY DEF KeptRows
<1> HIDE DEF At, Taken
<1>5. ASSUME NEW x \in ApprovedEntries(sheets) PROVE x \in E
  <2>1. PICK s \in 1..Len(sheets) : sheets[s] # NoSheet /\ \E row \in Taken(s) : x = At(s, row)
    BY <1>1
  <2>2. PICK i \in KeptRows(sheets[s]) : x = At(s, sheets[s].rows[i])
    BY <2>1, <1>3
  <2>3. <<s, i>> \in KeptPlaces(sheets)
    BY KeptPlacesIs
  <2>4. x = Entry(sheets, <<s, i>>, Identity)
    BY <2>2, <1>2
  <2> QED BY <2>3, <2>4
<1>6. ASSUME NEW x \in E PROVE x \in ApprovedEntries(sheets)
  <2>1. PICK p \in KeptPlaces(sheets) : x = Entry(sheets, p, Identity)
    OBVIOUS
  <2>2. p[1] \in 1..Len(sheets) /\ p[2] \in KeptRows(sheets[p[1]]) /\ p = <<p[1], p[2]>>
    BY KeptPlacesIs
  <2>3. x = At(p[1], sheets[p[1]].rows[p[2]])
    BY <2>1, <2>2, <1>2
  <2>4. sheets[p[1]] # NoSheet
    BY <2>2, <1>4
  <2>5. sheets[p[1]].rows[p[2]] \in Taken(p[1])
    BY <2>2, <2>4, <1>3
  <2> QED BY <2>2, <2>3, <2>4, <2>5, <1>1
<1> QED BY <1>5, <1>6

LEMMA EntryUrlsIs ==
  ASSUME NEW T, NEW entries \in Seq(EntriesType(T))
  PROVE  /\ EntryUrls(entries) \in Seq(Urls) /\ IsInjective(EntryUrls(entries))
         /\ \A u : u \in ToSet(EntryUrls(entries)) <=> \E e \in ToSet(entries) : u = e.url
<1> DEFINE n == Len(entries)
           s == [i \in 1..n |-> entries[i].url]
<1>1. /\ n \in Nat /\ \A i \in 1..n : entries[i] \in EntriesType(T)
      /\ \A x : x \in ToSet(entries) <=> \E i \in 1..n : x = entries[i]
  BY SeqElements
<1>2. s \in [1..n -> Urls] /\ \A i \in 1..n : s[i] = entries[i].url
  BY <1>1 DEF EntriesType
<1>3. EntryUrls(entries) = Distinct(s)
  BY DEF EntryUrls
<1> HIDE DEF s, n
<1>4. s \in Seq(Urls) /\ ToSet(s) = {s[i] : i \in 1..n}
  BY <1>1, <1>2, SeqIs
<1>5. Distinct(s) \in Seq(Urls) /\ ToSet(Distinct(s)) = ToSet(s) /\ IsInjective(Distinct(s))
  BY <1>4, DistinctIs
<1>6. \A u : u \in ToSet(s) <=> \E e \in ToSet(entries) : u = e.url
  BY <1>1, <1>2, <1>4
<1> QED BY <1>3, <1>5, <1>6

LEMMA EntriesOfIs ==
  ASSUME NEW T, NEW entries \in Seq(EntriesType(T)), NEW u
  PROVE  /\ EntriesOf(u, entries) \in Seq(EntriesType(T))
         /\ \A e : e \in ToSet(EntriesOf(u, entries)) <=> e \in ToSet(entries) /\ e.url = u
<1> DEFINE P == {i \in 1..Len(entries) : entries[i].url = u}
<1>1. \A x : x \in ToSet(entries) <=> \E i \in 1..Len(entries) : x = entries[i]
  BY SeqElements
<1>2. P \in SUBSET (1..Len(entries)) /\ EntriesOf(u, entries) = AtPlaces(entries, P)
  BY DEF EntriesOf
<1>3. \A i : i \in P <=> i \in 1..Len(entries) /\ entries[i].url = u
  OBVIOUS
<1> HIDE DEF P
<1>4. /\ AtPlaces(entries, P) \in Seq(EntriesType(T))
      /\ ToSet(AtPlaces(entries, P)) = {entries[i] : i \in P}
  BY <1>2, AtPlacesIs
<1>5. \A e : e \in ToSet(AtPlaces(entries, P)) <=> e \in ToSet(entries) /\ e.url = u
  BY <1>1, <1>3, <1>4
<1> QED BY <1>2, <1>4, <1>5

-----------------------------------------------------------------------------
(* A topic has an id exactly when one of its rows has. *)
LEMMA TopicIdIs ==
  ASSUME NEW topics \in TopicSheets, topics # NoSheet, NEW display
  PROVE  /\ TopicId(topics, "id", display) \in Nat
         /\ TopicId(topics, "id", display) # NoId
              <=> \E r \in ToSet(topics.rows) : Lower[r.display] = Lower[display] /\ r.id # NoId
<1> DEFINE rows == topics.rows
           R == {i \in 1..Len(rows) : Lower[rows[i].display] = Lower[display] /\ rows[i]["id"] # NoId}
<1>1. rows \in Seq([display: Displays, id: Nat, legacy: Nat])
  BY DEF TopicSheets
<1>2. /\ Len(rows) \in Nat
      /\ \A i \in 1..Len(rows) : rows[i] \in [display: Displays, id: Nat, legacy: Nat]
      /\ \A r : r \in ToSet(rows) <=> \E i \in 1..Len(rows) : r = rows[i]
  BY <1>1, SeqElements
<1>3. TopicId(topics, "id", display) = IF R = {} THEN NoId ELSE rows[Max(R)]["id"]
  BY DEF TopicId
<1> HIDE DEF rows
<1>4. \A i \in 1..Len(rows) : rows[i]["id"] = rows[i].id /\ rows[i].id \in Nat
  BY <1>2
<1>5. R # {} <=> \E r \in ToSet(rows) : Lower[r.display] = Lower[display] /\ r.id # NoId
  BY <1>2, <1>4
<1>6. R # {} => Max(R) \in R
  <2> SUFFICES ASSUME R # {} PROVE Max(R) \in R
    OBVIOUS
  <2>1. R \in SUBSET (1..Len(rows))
    OBVIOUS
  <2> HIDE DEF R
  <2>2. \E m \in R : \A k \in R : m >= k
    BY <1>2, <2>1, GreatestOf
  <2> QED BY <2>2 DEF Max
<1>7. R # {} => rows[Max(R)]["id"] \in Nat /\ rows[Max(R)]["id"] # NoId
  BY <1>4, <1>6
<1> HIDE DEF R
<1> QED BY <1>3, <1>5, <1>7 DEF NoId, rows

ContextsType == [surface: Nat \ {0}, topic: Nat]
ContextKeys == [c \in ContextsType |-> ContextKey(c)]

LEMMA ContextKeysIs ==
  /\ ContextKeys \in [ContextsType -> Tuples(2)]
  /\ \A x, y \in ContextsType : ContextKeys[x] = ContextKeys[y] => x = y
<1>1. \A c \in ContextsType : c.surface \in Int /\ c.topic \in Int
  BY DEF ContextsType
<1>2. \A c \in ContextsType : ContextKey(c) \in Tuples(2)
  BY <1>1, PairLess DEF ContextKey
<1>3. \A x, y \in ContextsType : ContextKey(x) = ContextKey(y) => x = y
  BY DEF ContextKey, ContextsType
<1> QED BY <1>2, <1>3 DEF ContextKeys

(* The contexts of a page are those of its entries, each once and sorted. *)
LEMMA PageContextsIs ==
  ASSUME NEW topics \in TopicSheets, topics # NoSheet,
         NEW entries \in Seq(EntriesType(Displays)), NEW u
  PROVE  LET r == PageContexts(u, entries, topics)
         IN /\ r \in Seq(ContextsType) /\ IsInjective(r)
            /\ \A c : c \in ToSet(r) <=> \E e \in ToSet(entries) :
                 e.url = u /\ c = [surface |-> e.surface, topic |-> TopicId(topics, "id", e.topic)]
            /\ \A i, k \in 1..Len(r) : i < k => TupleLess(ContextKey(r[i]), ContextKey(r[k]))
<1> DEFINE of == EntriesOf(u, entries)
           n == Len(of)
           g == [i \in 1..n |-> [surface |-> of[i].surface, topic |-> TopicId(topics, "id", of[i].topic)]]
           s == Distinct(g)
           keys == [i \in 1..Len(s) |-> ContextKeys[s[i]]]
           r == StableSort(s, keys)
<1>1. /\ of \in Seq(EntriesType(Displays))
      /\ \A e : e \in ToSet(of) <=> e \in ToSet(entries) /\ e.url = u
  BY EntriesOfIs
<1>2. /\ n \in Nat /\ \A i \in 1..n : of[i] \in EntriesType(Displays)
      /\ \A e : e \in ToSet(of) <=> \E i \in 1..n : e = of[i]
  BY <1>1, SeqElements
<1> HIDE DEF of
<1>3. /\ g \in [1..n -> ContextsType]
      /\ \A i \in 1..n : g[i] = [surface |-> of[i].surface, topic |-> TopicId(topics, "id", of[i].topic)]
  BY <1>2, TopicIdIs DEF EntriesType, ContextsType
<1> HIDE DEF g, n
<1>4. g \in Seq(ContextsType) /\ ToSet(g) = {g[i] : i \in 1..n}
  BY <1>2, <1>3, SeqIs
<1>5. s \in Seq(ContextsType) /\ ToSet(s) = ToSet(g) /\ IsInjective(s)
  BY <1>4, DistinctIs
<1> HIDE DEF s
<1>6. keys = [i \in 1..Len(s) |-> ContextKey(s[i])]
  BY <1>5, SeqElements DEF ContextKeys
<1>7. PageContexts(u, entries, topics) = r
  BY <1>6 DEF PageContexts, of, n, g, s
<1>8. /\ r \in Seq(ContextsType) /\ ToSet(r) = ToSet(s) /\ IsInjective(r)
      /\ \A i, k \in 1..Len(r) : i < k => ~TupleLess(ContextKeys[r[k]], ContextKeys[r[i]])
  <2>1. 2 \in Nat /\ ContextKeys \in [ContextsType -> Tuples(2)]
    BY ContextKeysIs
  <2>2. r \in Seq(ContextsType) /\ ToSet(r) = ToSet(s)
    BY <1>5, <2>1, SortIs
  <2>3. IsInjective(r)
    BY <1>5, <2>1, SortIs
  <2>4. \A i, k \in 1..Len(r) : i < k => ~TupleLess(ContextKeys[r[k]], ContextKeys[r[i]])
    BY <1>5, <2>1, SortIs
  <2> QED BY <2>2, <2>3, <2>4
<1> HIDE DEF r
<1>9. \A i, k \in 1..Len(r) : i < k => TupleLess(ContextKeys[r[i]], ContextKeys[r[k]])
  BY <1>8, ContextKeysIs, SortedStrictly
<1>10. \A i \in 1..Len(r) : ContextKeys[r[i]] = ContextKey(r[i])
  BY <1>8, SeqElements DEF ContextKeys
<1>11. \A c : c \in ToSet(r) <=> \E e \in ToSet(entries) :
         e.url = u /\ c = [surface |-> e.surface, topic |-> TopicId(topics, "id", e.topic)]
  <2>1. \A c : c \in ToSet(r) <=> \E i \in 1..n : c = g[i]
    BY <1>4, <1>5, <1>8
  <2> DEFINE Of(e) == [surface |-> e.surface, topic |-> TopicId(topics, "id", e.topic)]
  <2>2. \A i \in 1..n : of[i] \in ToSet(entries) /\ of[i].url = u /\ g[i] = Of(of[i])
    BY <1>1, <1>2, <1>3
  <2>3. \A e \in ToSet(entries) : e.url = u => \E i \in 1..n : e = of[i]
    BY <1>1, <1>2
  <2> HIDE DEF Of
  <2>4. \A c : c \in ToSet(r) <=> \E e \in ToSet(entries) : e.url = u /\ c = Of(e)
    BY <2>1, <2>2, <2>3
  <2> QED BY <2>4 DEF Of
<1> QED BY <1>7, <1>8, <1>9, <1>10, <1>11

-----------------------------------------------------------------------------
(* The two orders of the pages. *)
UrlKeys == [u \in Urls |-> UrlKey(u)]
SortKeys == [u \in Urls |-> SortKey(u)]

LEMMA UrlKeysIs ==
  /\ UrlKeys \in [Urls -> Tuples(4)]
  /\ \A x, y \in Urls : UrlKeys[x] = UrlKeys[y] => x = y
<1>1. \A u \in Urls : u.site \in Int /\ u.path \in Int /\ u.scheme \in Int /\ u.www \in Int
  BY DEF Urls
<1>2. \A u \in Urls : UrlKey(u) \in Tuples(4)
  BY <1>1 DEF UrlKey, Tuples
<1>3. \A x, y \in Urls : UrlKey(x) = UrlKey(y) => x = y
  BY DEF UrlKey, Urls
<1> QED BY <1>2, <1>3 DEF UrlKeys

LEMMA SortKeysIs == SortKeys \in [Urls -> Tuples(2)]
<1>1. \A u \in Urls : u.site \in Int /\ u.path \in Int
  BY DEF Urls
<1>2. \A u \in Urls : SortKey(u) \in Tuples(2)
  BY <1>1, PairLess DEF SortKey
<1> QED BY <1>2 DEF SortKeys

LEMMA UrlKeyRefines ==
  ASSUME NEW u \in Urls, NEW v \in Urls, TupleLess(UrlKey(u), UrlKey(v))
  PROVE  ~TupleLess(SortKey(v), SortKey(u))
<1>1. /\ u.site \in Int /\ u.path \in Int /\ v.site \in Int /\ v.path \in Int
  BY DEF Urls
<1>2. TupleLess(SortKey(v), SortKey(u)) <=> v.site < u.site \/ (v.site = u.site /\ v.path < u.path)
  BY <1>1, PairLess DEF SortKey
<1>3. PICK i \in 1..4 :
        UrlKey(u)[i] < UrlKey(v)[i] /\ \A k \in 1..i - 1 : UrlKey(u)[k] = UrlKey(v)[k]
  BY DEF TupleLess, UrlKey
<1>4. /\ UrlKey(u)[1] = u.site /\ UrlKey(u)[2] = u.path
      /\ UrlKey(v)[1] = v.site /\ UrlKey(v)[2] = v.path
  BY DEF UrlKey
<1>5. CASE i = 1
  BY <1>1, <1>2, <1>3, <1>4, <1>5
<1>6. CASE i = 2
  <2>1. 1 \in 1..i - 1
    BY <1>6
  <2> QED BY <2>1, <1>1, <1>2, <1>3, <1>4, <1>6
<1>7. CASE i > 2
  <2>1. 1 \in 1..i - 1 /\ 2 \in 1..i - 1
    BY <1>7
  <2> QED BY <2>1, <1>1, <1>2, <1>3, <1>4
<1> QED BY <1>5, <1>6, <1>7

(* Two listings of one set in the order of a key have the same key at each  *)
(* place: were f's smaller at i, its first i elements would be among the    *)
(* i - 1 that come before i in g.                                           *)
LEMMA NotSmallerAt ==
  ASSUME NEW n \in Nat, NEW U, NEW f \in Bijection(1..n, U), NEW g \in Bijection(1..n, U),
         NEW m \in Nat, NEW key \in [U -> Tuples(m)],
         \A i, k \in 1..n : i < k => ~TupleLess(key[f[k]], key[f[i]]),
         \A i, k \in 1..n : i < k => ~TupleLess(key[g[k]], key[g[i]]),
         NEW i \in 1..n
  PROVE  ~TupleLess(key[f[i]], key[g[i]])
<1> SUFFICES ASSUME TupleLess(key[f[i]], key[g[i]]) PROVE FALSE
  OBVIOUS
<1>1. /\ f \in [1..n -> U] /\ \A a, b \in 1..n : f[a] = f[b] => a = b
      /\ g \in [1..n -> U] /\ \A u \in U : \E a \in 1..n : g[a] = u
  <2>1. f \in [1..n -> U] /\ g \in [1..n -> U]
    BY DEF Bijection, Injection
  <2>2. \A a, b \in 1..n : f[a] = f[b] => a = b
    BY Zenon DEF Bijection, Injection, IsInjective
  <2>3. \A u \in U : \E a \in 1..n : g[a] = u
    BY DEF Bijection, Surjection
  <2> QED BY <2>1, <2>2, <2>3
<1>2. ASSUME NEW k \in 1..i PROVE \E l \in 1..i - 1 : g[l] = f[k]
  <2>1. k \in 1..n /\ f[k] \in U /\ f[i] \in U /\ g[i] \in U
    BY <1>1
  <2>2. TupleLess(key[f[k]], key[g[i]])
    <3>1. key[f[k]] \in Tuples(m) /\ key[f[i]] \in Tuples(m) /\ key[g[i]] \in Tuples(m)
      BY <2>1
    <3>2. CASE k = i
      BY <3>2
    <3>3. CASE k < i
      <4>1. ~TupleLess(key[f[i]], key[f[k]])
        BY <2>1, <3>3
      <4>2. CASE key[f[i]] = key[f[k]]
        BY <4>2
      <4>3. CASE key[f[i]] # key[f[k]]
        <5>1. TupleLess(key[f[k]], key[f[i]])
          BY <3>1, <4>1, <4>3, TupleTotal
        <5> QED BY <3>1, <5>1, TupleTransitive
      <4> QED BY <4>2, <4>3
    <3> QED BY <3>2, <3>3
  <2>3. PICK l \in 1..n : g[l] = f[k]
    BY <1>1, <2>1
  <2>4. TupleLess(key[g[l]], key[g[i]])
    BY <2>2, <2>3
  <2>5. ~(i < l)
    BY <2>4
  <2>6. l # i
    <3>1. ~TupleLess(key[g[i]], key[g[i]])
      BY <2>1, TupleIrreflexive
    <3> QED BY <2>4, <3>1
  <2>7. l \in 1..i - 1
    BY <2>5, <2>6
  <2> QED BY <2>3, <2>7
<1> DEFINE h == [k \in 1..i |-> CHOOSE l \in 1..i - 1 : g[l] = f[k]]
<1>3. \A k \in 1..i : h[k] \in 1..i - 1 /\ g[h[k]] = f[k]
  BY <1>2
<1>4. h \in [1..i -> 1..i - 1]
  BY <1>3
<1> HIDE DEF h
<1>5. /\ IsFiniteSet(1..i) /\ Cardinality(1..i) = i
      /\ IsFiniteSet(1..i - 1) /\ Cardinality(1..i - 1) = i - 1
  BY FS_Interval
<1>6. PICK a \in 1..i, b \in 1..i : a # b /\ h[a] = h[b]
  <2>1. Cardinality(1..i - 1) < Cardinality(1..i)
    BY <1>5
  <2> DEFINE A == 1..i
             B == 1..i - 1
  <2>2. IsFiniteSet(A) /\ IsFiniteSet(B) /\ Cardinality(B) < Cardinality(A) /\ h \in [A -> B]
    BY <1>4, <1>5, <2>1
  <2> HIDE DEF A, B
  <2>3. \E a, b \in A : a # b /\ h[a] = h[b]
    BY <2>2, FS_PigeonHole
  <2> QED BY <2>3 DEF A
<1>7. f[a] = f[b] /\ a \in 1..n /\ b \in 1..n
  BY <1>3, <1>6
<1> QED BY <1>1, <1>6, <1>7

InOrder(n, key, f) == \A i, k \in 1..n : i < k => ~TupleLess(key[f[k]], key[f[i]])

LEMMA SameKeys ==
  ASSUME NEW n \in Nat, NEW U, NEW f \in Bijection(1..n, U), NEW g \in Bijection(1..n, U),
         NEW m \in Nat, NEW key \in [U -> Tuples(m)],
         InOrder(n, key, f), InOrder(n, key, g),
         NEW i \in 1..n
  PROVE  key[f[i]] = key[g[i]]
<1>1. ~TupleLess(key[f[i]], key[g[i]]) /\ ~TupleLess(key[g[i]], key[f[i]])
  BY NotSmallerAt DEF InOrder
<1>2. f[i] \in U /\ g[i] \in U
  BY BijectionIs
<1>3. key[f[i]] \in Tuples(m) /\ key[g[i]] \in Tuples(m)
  BY <1>2
<1> QED BY <1>1, <1>3, TupleTotal

(* A sequence without repetition lists its elements. *)
LEMMA InjectiveIs ==
  ASSUME NEW X, NEW s \in Seq(X), IsInjective(s)
  PROVE  s \in Bijection(1..Len(s), ToSet(s)) /\ Cardinality(ToSet(s)) = Len(s)
<1> DEFINE n == Len(s)
           T == ToSet(s)
<1>1. /\ n \in Nat /\ s \in [1..n -> X] /\ DOMAIN s = 1..n
      /\ \A x : x \in T <=> \E i \in 1..n : x = s[i]
  BY SeqElements
<1> HIDE DEF n, T
<1>2. s \in [1..n -> T]
  BY <1>1
<1>3. (\A a, b \in 1..n : s[a] = s[b] => a = b) /\ \A x \in T : \E i \in 1..n : s[i] = x
  BY <1>1 DEF IsInjective
<1>4. s \in Bijection(1..n, T)
  BY <1>2, <1>3, Fun_IsBij
<1>5. Cardinality(T) = n
  <2>1. ExistsBijection(1..n, T)
    BY <1>4 DEF ExistsBijection
  <2> QED BY <1>1, <2>1, FS_CountingElements
<1> QED BY <1>4, <1>5 DEF n, T

LEMMA JsonOrderIs ==
  ASSUME NEW urls \in Seq(Urls), IsInjective(urls)
  PROVE  /\ JsonOrder(urls) \in Seq(Urls) /\ ToSet(JsonOrder(urls)) = ToSet(urls)
         /\ IsInjective(JsonOrder(urls))
         /\ \A i, k \in 1..Len(JsonOrder(urls)) :
              i < k => TupleLess(UrlKey(JsonOrder(urls)[i]), UrlKey(JsonOrder(urls)[k]))
<1> DEFINE keys == [i \in 1..Len(urls) |-> UrlKeys[urls[i]]]
           r == StableSort(urls, keys)
<1>1. keys = [i \in 1..Len(urls) |-> UrlKey(urls[i])]
  BY SeqElements DEF UrlKeys
<1>2. JsonOrder(urls) = r
  BY <1>1 DEF JsonOrder
<1>3. 4 \in Nat /\ UrlKeys \in [Urls -> Tuples(4)]
  BY UrlKeysIs
<1>4. r \in Seq(Urls) /\ ToSet(r) = ToSet(urls)
  BY <1>3, SortIs
<1>5. IsInjective(r)
  BY <1>3, SortIs
<1>6. \A i, k \in 1..Len(r) : i < k => ~TupleLess(UrlKeys[r[k]], UrlKeys[r[i]])
  BY <1>3, SortIs
<1> HIDE DEF r, keys
<1>7. \A i, k \in 1..Len(r) : i < k => TupleLess(UrlKeys[r[i]], UrlKeys[r[k]])
  BY <1>4, <1>5, <1>6, UrlKeysIs, SortedStrictly
<1>8. \A i \in 1..Len(r) : UrlKeys[r[i]] = UrlKey(r[i])
  BY <1>4, SeqElements DEF UrlKeys
<1> QED BY <1>2, <1>4, <1>5, <1>7, <1>8

LEMMA PythonOrderIs ==
  ASSUME NEW urls \in Seq(Urls), IsInjective(urls)
  PROVE  /\ PythonOrder(urls) \in Seq(Urls) /\ ToSet(PythonOrder(urls)) = ToSet(urls)
         /\ IsInjective(PythonOrder(urls))
         /\ \A i, k \in 1..Len(PythonOrder(urls)) :
              i < k => ~TupleLess(SortKeys[PythonOrder(urls)[k]], SortKeys[PythonOrder(urls)[i]])
<1> DEFINE keys == [i \in 1..Len(urls) |-> SortKeys[urls[i]]]
           r == StableSort(urls, keys)
<1>1. keys = [i \in 1..Len(urls) |-> SortKey(urls[i])]
  BY SeqElements DEF SortKeys
<1>2. PythonOrder(urls) = r
  BY <1>1 DEF PythonOrder
<1>3. 2 \in Nat /\ SortKeys \in [Urls -> Tuples(2)]
  BY SortKeysIs
<1>4. r \in Seq(Urls) /\ ToSet(r) = ToSet(urls)
  BY <1>3, SortIs
<1>5. IsInjective(r)
  BY <1>3, SortIs
<1>6. \A i, k \in 1..Len(r) : i < k => ~TupleLess(SortKeys[r[k]], SortKeys[r[i]])
  BY <1>3, SortIs
<1> QED BY <1>2, <1>4, <1>5, <1>6

LEMMA MissingIs ==
  ASSUME NEW sheets \in Seq(SourceSheets)
  PROVE  \A s \in 1..Len(sheets) : sheets[s] = NoSheet <=> s \in ToSet(MissingSheets(sheets))
<1> DEFINE n == Len(sheets)
           P == {s \in 1..n : sheets[s] = NoSheet}
           q == [s \in 1..n |-> s]
<1>1. n \in Nat
  BY SeqElements
<1>2. MissingSheets(sheets) = AtPlaces(q, P)
  BY DEF MissingSheets
<1>3. q \in [1..n -> 1..n] /\ \A s \in 1..n : q[s] = s
  OBVIOUS
<1>4. P \in SUBSET (1..n) /\ \A s \in 1..n : s \in P <=> sheets[s] = NoSheet
  OBVIOUS
<1> HIDE DEF P, q, n
<1>5. q \in Seq(1..n) /\ Len(q) = n
  BY <1>1, <1>3, SeqIs
<1>6. ToSet(AtPlaces(q, P)) = {q[s] : s \in P}
  BY <1>4, <1>5, AtPlacesIs
<1>7. \A s \in 1..n : s \in ToSet(AtPlaces(q, P)) <=> s \in P
  BY <1>3, <1>4, <1>6
<1> QED BY <1>2, <1>4, <1>7 DEF n

-----------------------------------------------------------------------------
(* What each export is of a spreadsheet. *)
JsonUrls(sheets) == JsonOrder(EntryUrls(Ingested(sheets, Identity)))
Usable(sheets) == \A s \in 1..Len(sheets) : SourceUsable(sheets[s])
AllHaveIds(sheets, topics) ==
  \A e \in ApprovedEntries(sheets) : TopicId(topics, "id", e.topic) # NoId

LEMMA IdentityIs == Identity \in [Displays -> Displays]
BY DEF Identity

LEMMA IngestedSet ==
  ASSUME NEW sheets \in Seq(SourceSheets)
  PROVE  /\ Ingested(sheets, Identity) \in Seq(EntriesType(Displays))
         /\ ToSet(Ingested(sheets, Identity)) = ApprovedEntries(sheets)
         /\ ApprovedEntries(sheets) \subseteq EntriesType(Displays)
<1>1. /\ Ingested(sheets, Identity) \in Seq(EntriesType(Displays))
      /\ ToSet(Ingested(sheets, Identity)) = {Entry(sheets, p, Identity) : p \in KeptPlaces(sheets)}
  BY IdentityIs, IngestedIs
<1>2. ApprovedEntries(sheets) = {Entry(sheets, p, Identity) : p \in KeptPlaces(sheets)}
  BY ApprovedIs
<1>3. \A p \in KeptPlaces(sheets) : Entry(sheets, p, Identity) \in EntriesType(Displays)
  BY IdentityIs, EntryIs
<1> QED BY <1>1, <1>2, <1>3

LEMMA JsonUrlsIs ==
  ASSUME NEW sheets \in Seq(SourceSheets)
  PROVE  /\ JsonUrls(sheets) \in Seq(Urls) /\ IsInjective(JsonUrls(sheets))
         /\ \A u : u \in ToSet(JsonUrls(sheets)) <=> \E e \in ApprovedEntries(sheets) : u = e.url
         /\ \A i, k \in 1..Len(JsonUrls(sheets)) :
              i < k => TupleLess(UrlKey(JsonUrls(sheets)[i]), UrlKey(JsonUrls(sheets)[k]))
<1> DEFINE urls == EntryUrls(Ingested(sheets, Identity))
<1>1. /\ Ingested(sheets, Identity) \in Seq(EntriesType(Displays))
      /\ ToSet(Ingested(sheets, Identity)) = ApprovedEntries(sheets)
  BY IngestedSet
<1>2. /\ urls \in Seq(Urls) /\ IsInjective(urls)
      /\ \A u : u \in ToSet(urls) <=> \E e \in ApprovedEntries(sheets) : u = e.url
  BY <1>1, EntryUrlsIs
<1>3. JsonUrls(sheets) = JsonOrder(urls)
  BY DEF JsonUrls
<1> HIDE DEF urls
<1> QED BY <1>2, <1>3, JsonOrderIs

LEMMA JsonIs ==
  ASSUME NEW sheets \in Seq(SourceSheets), NEW topics \in TopicSheets
  PROVE  LET j == PublishersJson(sheets, topics)
             urls == JsonUrls(sheets)
         IN /\ j.ok \in BOOLEAN
            /\ j.ok <=> /\ TopicsUsable(topics, "id") /\ Usable(sheets)
                        /\ AllHaveIds(sheets, topics)
            /\ ~j.ok => j.pages = <<>>
            /\ j.ok =>
                 /\ j.missing = MissingSheets(sheets)
                 /\ j.pages \in Seq([url: Urls, contexts: Seq(ContextsType)])
                 /\ Len(j.pages) = Len(urls)
                 /\ \A i \in 1..Len(urls) :
                      /\ j.pages[i].url = urls[i]
                      /\ j.pages[i].contexts
                           = PageContexts(urls[i], Ingested(sheets, Identity), topics)
<1> DEFINE j == PublishersJson(sheets, topics)
           entries == Ingested(sheets, Identity)
           urls == JsonUrls(sheets)
           n == Len(urls)
           pages == [i \in 1..n |->
                       [url |-> urls[i], contexts |-> PageContexts(urls[i], entries, topics)]]
           ok == TopicsUsable(topics, "id") /\ Usable(sheets) /\ AllHaveIds(sheets, topics)
<1>1. entries \in Seq(EntriesType(Displays)) /\ ToSet(entries) = ApprovedEntries(sheets)
  BY IngestedSet
<1>2. j = IF ok THEN [ok |-> TRUE, missing |-> MissingSheets(sheets), pages |-> pages]
          ELSE [ok |-> FALSE, missing |-> <<>>, pages |-> <<>>]
  BY <1>1 DEF PublishersJson, Failed, Usable, AllHaveIds, JsonUrls, Identity
<1>3. n \in Nat /\ \A i \in 1..n : urls[i] \in Urls
  BY JsonUrlsIs, SeqElements
<1>4. ASSUME ok PROVE pages \in Seq([url: Urls, contexts: Seq(ContextsType)]) /\ Len(pages) = n
  <2>1. topics # NoSheet
    BY <1>4 DEF TopicsUsable
  <2> HIDE DEF entries, urls, n
  <2>2. \A i \in 1..n : PageContexts(urls[i], entries, topics) \in Seq(ContextsType)
    BY <1>1, <2>1, PageContextsIs
  <2>3. pages \in [1..n -> [url: Urls, contexts: Seq(ContextsType)]]
    BY <1>3, <2>2
  <2> HIDE DEF pages
  <2> QED BY <1>3, <2>3, SeqIs
<1>5. \A i \in 1..n :
        pages[i].url = urls[i] /\ pages[i].contexts = PageContexts(urls[i], entries, topics)
  OBVIOUS
<1> HIDE DEF pages, ok, n, j
<1>6. CASE ok
  <2>1. j.ok = TRUE /\ j.missing = MissingSheets(sheets) /\ j.pages = pages
    BY <1>2, <1>6
  <2> QED BY <2>1, <1>4, <1>5, <1>6 DEF j, n, ok
<1>7. CASE ~ok
  <2>1. j.ok = FALSE /\ j.pages = <<>>
    BY <1>2, <1>7
  <2> QED BY <2>1, <1>7 DEF j, ok
<1> QED BY <1>6, <1>7

LEMMA JsonPage ==
  ASSUME NEW sheet \in Spreadsheets, NEW j, j = PublishersJson(sheet.sources, sheet.topics), j.ok,
         NEW p \in ToSet(j.pages)
  PROVE  /\ p.url \in Urls /\ p.contexts \in Seq(ContextsType) /\ IsInjective(p.contexts)
         /\ ToSet(p.contexts) = ApprovedContexts(p.url, sheet)
         /\ \A i, k \in 1..Len(p.contexts) :
              i < k => TupleLess(ContextKey(p.contexts[i]), ContextKey(p.contexts[k]))
         /\ \A c \in ApprovedContexts(p.url, sheet) : c \in ContextsType /\ c.topic # NoId
<1> DEFINE sheets == sheet.sources
           topics == sheet.topics
           entries == Ingested(sheets, Identity)
           urls == JsonUrls(sheets)
<1>1. sheets \in Seq(SourceSheets) /\ topics \in TopicSheets
  BY FlowAssumption
<1>2. /\ TopicsUsable(topics, "id") /\ AllHaveIds(sheets, topics)
      /\ j.pages \in Seq([url: Urls, contexts: Seq(ContextsType)]) /\ Len(j.pages) = Len(urls)
      /\ \A i \in 1..Len(urls) : /\ j.pages[i].url = urls[i]
                                /\ j.pages[i].contexts = PageContexts(urls[i], entries, topics)
  BY <1>1, JsonIs
<1>3. PICK i \in 1..Len(urls) : p = j.pages[i]
  BY <1>2, SeqElements
<1>4. urls[i] \in Urls
  BY <1>1, JsonUrlsIs, SeqElements
<1>5. p.url = urls[i] /\ p.contexts = PageContexts(p.url, entries, topics)
  BY <1>2, <1>3
<1>6. topics # NoSheet
  BY <1>2 DEF TopicsUsable
<1>7. /\ entries \in Seq(EntriesType(Displays)) /\ ToSet(entries) = ApprovedEntries(sheets)
      /\ ApprovedEntries(sheets) \subseteq EntriesType(Displays)
  BY <1>1, IngestedSet
<1> HIDE DEF entries, urls
<1> DEFINE Of(e) == [surface |-> e.surface, topic |-> TopicId(topics, "id", e.topic)]
           r == PageContexts(p.url, entries, topics)
<1>8. r \in Seq(ContextsType) /\ IsInjective(r)
  BY <1>1, <1>6, <1>7, PageContextsIs
<1>9. \A c : c \in ToSet(r) <=> \E e \in ToSet(entries) : e.url = p.url /\ c = Of(e)
  BY <1>1, <1>6, <1>7, PageContextsIs
<1>10. \A i_1, k \in 1..Len(r) : i_1 < k => TupleLess(ContextKey(r[i_1]), ContextKey(r[k]))
  BY <1>1, <1>6, <1>7, PageContextsIs
<1>11. \A c : c \in ApprovedContexts(p.url, sheet)
                <=> \E e \in ApprovedEntries(sheets) : e.url = p.url /\ c = Of(e)
  BY DEF ApprovedContexts
<1>12. \A e \in ApprovedEntries(sheets) : Of(e) \in ContextsType /\ Of(e).topic # NoId
  <2> SUFFICES ASSUME NEW e \in ApprovedEntries(sheets)
               PROVE  Of(e) \in ContextsType /\ Of(e).topic # NoId
    OBVIOUS
  <2>1. e.surface \in Nat \ {0}
    BY <1>7 DEF EntriesType
  <2>2. TopicId(topics, "id", e.topic) \in Nat /\ TopicId(topics, "id", e.topic) # NoId
    BY <1>1, <1>2, <1>6, TopicIdIs DEF AllHaveIds
  <2> QED BY <2>1, <2>2 DEF ContextsType
<1> HIDE DEF Of, r
<1>13. ToSet(r) = ApprovedContexts(p.url, sheet)
  BY <1>7, <1>9, <1>11
<1>14. \A c \in ApprovedContexts(p.url, sheet) : c \in ContextsType /\ c.topic # NoId
  BY <1>11, <1>12
<1>15. p.contexts = r
  BY <1>5 DEF r
<1> QED BY <1>4, <1>5, <1>8, <1>10, <1>13, <1>14, <1>15

(* The pages of publishers.json are the URLs of the approved rows. *)
LEMMA JsonPages ==
  ASSUME NEW sheet \in Spreadsheets, NEW j, j = PublishersJson(sheet.sources, sheet.topics), j.ok
  PROVE  /\ \A p \in ToSet(j.pages) : \E e \in ApprovedEntries(sheet.sources) : p.url = e.url
         /\ \A e \in ApprovedEntries(sheet.sources) : \E p \in ToSet(j.pages) : p.url = e.url
         /\ \A i, k \in 1..Len(j.pages) :
              i < k => TupleLess(UrlKey(j.pages[i].url), UrlKey(j.pages[k].url))
<1> DEFINE sheets == sheet.sources
           urls == JsonUrls(sheets)
<1>1. sheets \in Seq(SourceSheets) /\ sheet.topics \in TopicSheets
  BY FlowAssumption
<1>2. /\ j.pages \in Seq([url: Urls, contexts: Seq(ContextsType)]) /\ Len(j.pages) = Len(urls)
      /\ \A i \in 1..Len(urls) : j.pages[i].url = urls[i]
  BY <1>1, JsonIs
<1>3. /\ urls \in Seq(Urls)
      /\ \A u : u \in ToSet(urls) <=> \E e \in ApprovedEntries(sheets) : u = e.url
      /\ \A i, k \in 1..Len(urls) : i < k => TupleLess(UrlKey(urls[i]), UrlKey(urls[k]))
  BY <1>1, JsonUrlsIs
<1> HIDE DEF urls
<1>4. \A p : p \in ToSet(j.pages) <=> \E i \in 1..Len(urls) : p = j.pages[i]
  BY <1>2, SeqElements
<1>5. \A u : u \in ToSet(urls) <=> \E i \in 1..Len(urls) : u = urls[i]
  BY <1>3, SeqElements
<1>6. ASSUME NEW p \in ToSet(j.pages)
      PROVE  \E e \in ApprovedEntries(sheet.sources) : p.url = e.url
  <2>1. PICK i \in 1..Len(urls) : p = j.pages[i]
    BY <1>4
  <2>2. p.url = urls[i]
    BY <1>2, <2>1
  <2>3. urls[i] \in ToSet(urls)
    BY <1>5
  <2> QED BY <1>3, <2>2, <2>3
<1>7. ASSUME NEW e \in ApprovedEntries(sheet.sources)
      PROVE  \E p \in ToSet(j.pages) : p.url = e.url
  <2>1. PICK i \in 1..Len(urls) : e.url = urls[i]
    BY <1>3, <1>5
  <2>2. j.pages[i] \in ToSet(j.pages) /\ j.pages[i].url = e.url
    BY <1>2, <1>4, <2>1
  <2> QED BY <2>2
<1>8. \A i, k \in 1..Len(j.pages) : i < k => TupleLess(UrlKey(j.pages[i].url), UrlKey(j.pages[k].url))
  BY <1>2, <1>3
<1> QED BY <1>6, <1>7, <1>8

LEMMA JsonMatches ==
  ASSUME NEW sheet \in Spreadsheets, spreadsheet = sheet,
         json = PublishersJson(sheet.sources, sheet.topics)
  PROVE  JsonMatchesRows
<1> DEFINE sheets == sheet.sources
           topics == sheet.topics
           entries == ApprovedEntries(sheets)
           ok == /\ topics # NoSheet /\ topics.rows # <<>> /\ {"display", "id"} \subseteq topics.columns
                 /\ \A s \in 1..Len(sheets) : SourceUsable(sheets[s])
                 /\ \A e \in entries : \E r \in ToSet(topics.rows) :
                      Lower[r.display] = Lower[e.topic] /\ r.id # NoId
<1>1. sheets \in Seq(SourceSheets) /\ topics \in TopicSheets
  BY FlowAssumption
<1>2. json.ok \in BOOLEAN /\ (json.ok <=> ok)
  <2>1. /\ json.ok \in BOOLEAN
        /\ json.ok <=> /\ TopicsUsable(topics, "id") /\ Usable(sheets)
                       /\ AllHaveIds(sheets, topics)
    BY <1>1, JsonIs
  <2>2. ASSUME topics # NoSheet, NEW e
        PROVE  TopicId(topics, "id", e.topic) # NoId
                 <=> \E r \in ToSet(topics.rows) : Lower[r.display] = Lower[e.topic] /\ r.id # NoId
    BY <1>1, <2>2, TopicIdIs
  <2>3. topics # NoSheet =>
          (AllHaveIds(sheets, topics)
             <=> \A e \in entries : \E r \in ToSet(topics.rows) :
                   Lower[r.display] = Lower[e.topic] /\ r.id # NoId)
    BY <2>2 DEF AllHaveIds
  <2>4. TopicsUsable(topics, "id")
          <=> topics # NoSheet /\ topics.rows # <<>> /\ {"display", "id"} \subseteq topics.columns
    BY DEF TopicsUsable
  <2> QED BY <2>1, <2>3, <2>4 DEF Usable
<1>3. CASE ~ok
  BY <1>2, <1>3 DEF JsonMatchesRows
<1>4. CASE ok
  <2>1. json.ok
    BY <1>2, <1>4
  <2>2. {p.url : p \in ToSet(json.pages)} = {e.url : e \in entries}
    <3>1. \A p \in ToSet(json.pages) : \E e \in ApprovedEntries(sheet.sources) : p.url = e.url
      BY <2>1, JsonPages
    <3>2. \A e \in ApprovedEntries(sheet.sources) : \E p \in ToSet(json.pages) : p.url = e.url
      BY <2>1, JsonPages
    <3> HIDE DEF ok
    <3> QED BY <3>1, <3>2
  <2>3. \A i, k \in 1..Len(json.pages) :
          i < k => TupleLess(UrlKey(json.pages[i].url), UrlKey(json.pages[k].url))
    BY <2>1, JsonPages
  <2>4. \A p \in ToSet(json.pages) :
          /\ ToSet(p.contexts) = ApprovedContexts(p.url, spreadsheet)
          /\ \A i, k \in 1..Len(p.contexts) :
               i < k => TupleLess(ContextKey(p.contexts[i]), ContextKey(p.contexts[k]))
    BY <2>1, JsonPage
  <2> QED BY <1>2, <1>4, <2>2, <2>3, <2>4 DEF JsonMatchesRows
<1> QED BY <1>3, <1>4
-----------------------------------------------------------------------------
(* The Python list files the rows under other names, at the same URLs and   *)
(* locales.                                                                 *)
Names(topics) == [display \in Displays |-> LegacyName(topics, display)]
NamesOf(topics) == {LegacyName(topics, display) : display \in Displays}
PythonUrls(sheets, topics) == PythonOrder(EntryUrls(Ingested(sheets, Names(topics))))

Listed(entries, u, s) == \E e \in entries : e.url = u /\ e.surface = s

LEMMA PythonEntries ==
  ASSUME NEW sheets \in Seq(SourceSheets), NEW topics
  PROVE  /\ Ingested(sheets, Names(topics)) \in Seq(EntriesType(NamesOf(topics)))
         /\ \A u, s : Listed(ToSet(Ingested(sheets, Names(topics))), u, s)
                        <=> Listed(ApprovedEntries(sheets), u, s)
<1> DEFINE names == Names(topics)
           T == NamesOf(topics)
           P == KeptPlaces(sheets)
<1>1. names \in [Displays -> T]
  BY DEF Names, NamesOf
<1> HIDE DEF names, T, P
<1>2. /\ Ingested(sheets, names) \in Seq(EntriesType(T))
      /\ ToSet(Ingested(sheets, names)) = {Entry(sheets, p, names) : p \in KeptPlaces(sheets)}
  BY <1>1, IngestedIs
<1>3. ApprovedEntries(sheets) = {Entry(sheets, p, Identity) : p \in KeptPlaces(sheets)}
  BY ApprovedIs
<1>4. \A p \in P : /\ Entry(sheets, p, names).url = Entry(sheets, p, Identity).url
                   /\ Entry(sheets, p, names).surface = Entry(sheets, p, Identity).surface
  BY DEF Entry
<1>5. ASSUME NEW u, NEW s
      PROVE  Listed(ToSet(Ingested(sheets, names)), u, s) <=> Listed(ApprovedEntries(sheets), u, s)
  <2>1. Listed(ToSet(Ingested(sheets, names)), u, s)
          <=> \E p \in P : Entry(sheets, p, names).url = u /\ Entry(sheets, p, names).surface = s
    BY <1>2 DEF P, Listed
  <2>2. Listed(ApprovedEntries(sheets), u, s)
          <=> \E p \in P : Entry(sheets, p, Identity).url = u /\ Entry(sheets, p, Identity).surface = s
    BY <1>3 DEF P, Listed
  <2> QED BY <1>4, <2>1, <2>2
<1> QED BY <1>2, <1>5 DEF names, T

LEMMA PythonUrlsIs ==
  ASSUME NEW sheets \in Seq(SourceSheets), NEW topics
  PROVE  LET urls == PythonUrls(sheets, topics)
         IN /\ urls \in Seq(Urls) /\ IsInjective(urls)
            /\ \A u : u \in ToSet(urls) <=> \E e \in ApprovedEntries(sheets) : u = e.url
            /\ \A i, k \in 1..Len(urls) : i < k => ~TupleLess(SortKeys[urls[k]], SortKeys[urls[i]])
<1> DEFINE entries == Ingested(sheets, Names(topics))
           urls == EntryUrls(entries)
<1>1. /\ entries \in Seq(EntriesType(NamesOf(topics)))
      /\ \A u, s : Listed(ToSet(entries), u, s) <=> Listed(ApprovedEntries(sheets), u, s)
  BY PythonEntries
<1> HIDE DEF entries
<1>2. /\ urls \in Seq(Urls) /\ IsInjective(urls)
      /\ \A u : u \in ToSet(urls) <=> \E e \in ToSet(entries) : u = e.url
  BY <1>1, EntryUrlsIs
<1>3. ASSUME NEW u
      PROVE  (\E e \in ToSet(entries) : u = e.url) <=> \E e \in ApprovedEntries(sheets) : u = e.url
  <2>1. (\E e \in ToSet(entries) : u = e.url) <=> \E s : Listed(ToSet(entries), u, s)
    BY DEF Listed
  <2>2. (\E e \in ApprovedEntries(sheets) : u = e.url)
          <=> \E s : Listed(ApprovedEntries(sheets), u, s)
    BY DEF Listed
  <2> QED BY <1>1, <2>1, <2>2
<1>4. PythonUrls(sheets, topics) = PythonOrder(urls)
  BY DEF PythonUrls, entries
<1> HIDE DEF urls
<1> QED BY <1>2, <1>3, <1>4, PythonOrderIs

LEMMA PythonIs ==
  ASSUME NEW sheets \in Seq(SourceSheets), NEW topics
  PROVE  LET q == PythonList(sheets, topics)
             urls == PythonUrls(sheets, topics)
         IN /\ q.ok \in BOOLEAN
            /\ q.ok =>
                 /\ q.missing = MissingSheets(sheets) /\ Len(q.pages) = Len(urls)
                 /\ \A i \in 1..Len(urls) :
                      /\ q.pages[i].url = urls[i]
                      /\ \A s : s \in DOMAIN q.pages[i].targets
                                  <=> Listed(ApprovedEntries(sheets), urls[i], s)
<1> DEFINE q == PythonList(sheets, topics)
           entries == Ingested(sheets, Names(topics))
           urls == PythonUrls(sheets, topics)
           n == Len(urls)
           Topics(u, s) == {e.topic : e \in {f \in ToSet(EntriesOf(u, entries)) : f.surface = s}}
           Locales(u) == {e.surface : e \in ToSet(EntriesOf(u, entries))}
           pages == [i \in 1..n |-> [url |-> urls[i],
                                     targets |-> [s \in Locales(urls[i]) |-> Topics(urls[i], s)]]]
           ok == TopicsUsable(topics, "legacy") /\ Usable(sheets)
<1>1. q = IF ok THEN [ok |-> TRUE, missing |-> MissingSheets(sheets), pages |-> pages]
          ELSE [ok |-> FALSE, missing |-> <<>>, pages |-> <<>>]
  BY DEF PythonList, Failed, Usable, PythonUrls, Names
<1>2. n \in Nat
  BY PythonUrlsIs, SeqElements
<1>3. \A i \in 1..n : pages[i].url = urls[i] /\ DOMAIN pages[i].targets = Locales(urls[i])
  OBVIOUS
<1>4. Len(pages) = n
  <2>1. pages \in [1..n -> {pages[i] : i \in 1..n}]
    OBVIOUS
  <2> HIDE DEF pages, n
  <2> QED BY <1>2, <2>1, SeqIs
<1>5. /\ entries \in Seq(EntriesType(NamesOf(topics)))
      /\ \A u, s : Listed(ToSet(entries), u, s) <=> Listed(ApprovedEntries(sheets), u, s)
  BY PythonEntries
<1> HIDE DEF pages, entries
<1>6. ASSUME NEW u, NEW s
      PROVE  s \in Locales(u) <=> Listed(ApprovedEntries(sheets), u, s)
  <2>1. \A e : e \in ToSet(EntriesOf(u, entries)) <=> e \in ToSet(entries) /\ e.url = u
    BY <1>5, EntriesOfIs
  <2>2. s \in Locales(u) <=> Listed(ToSet(entries), u, s)
    BY <2>1 DEF Listed
  <2> QED BY <1>5, <2>2
<1> HIDE DEF Locales, ok, n, q
<1>7. \A i \in 1..n : \A s : s \in DOMAIN pages[i].targets
                               <=> Listed(ApprovedEntries(sheets), urls[i], s)
  BY <1>3, <1>6
<1>8. CASE ok
  <2>1. q.ok = TRUE /\ q.missing = MissingSheets(sheets) /\ q.pages = pages
    BY <1>1, <1>8
  <2> QED BY <2>1, <1>3, <1>4, <1>7 DEF q, n
<1>9. CASE ~ok
  <2>1. q.ok = FALSE
    BY <1>1, <1>9
  <2> QED BY <2>1 DEF q
<1> QED BY <1>8, <1>9

(* The URLs of both lists are those of the approved rows, and at each place *)
(* the two have one sort key.                                               *)
LEMMA OrdersAgree ==
  ASSUME NEW sheets \in Seq(SourceSheets), NEW topics
  PROVE  LET f == JsonUrls(sheets)
             g == PythonUrls(sheets, topics)
         IN /\ Len(f) = Len(g) /\ ToSet(f) = ToSet(g)
            /\ \A i \in 1..Len(f) : SortKey(f[i]) = SortKey(g[i])
<1> DEFINE f == JsonUrls(sheets)
           g == PythonUrls(sheets, topics)
           U == ToSet(f)
           n == Len(f)
           key == [u \in U |-> SortKeys[u]]
<1>1. /\ f \in Seq(Urls) /\ IsInjective(f)
      /\ \A u : u \in ToSet(f) <=> \E e \in ApprovedEntries(sheets) : u = e.url
      /\ \A i, k \in 1..Len(f) : i < k => TupleLess(UrlKey(f[i]), UrlKey(f[k]))
  BY JsonUrlsIs
<1>2. /\ g \in Seq(Urls) /\ IsInjective(g)
      /\ \A u : u \in ToSet(g) <=> \E e \in ApprovedEntries(sheets) : u = e.url
      /\ \A i, k \in 1..Len(g) : i < k => ~TupleLess(SortKeys[g[k]], SortKeys[g[i]])
  BY PythonUrlsIs
<1> HIDE DEF f, g
<1>3. U = ToSet(g)
  <2>1. \A u : u \in U <=> u \in ToSet(g)
    BY <1>1, <1>2
  <2> QED BY <2>1
<1>4. f \in Bijection(1..Len(f), U) /\ Cardinality(U) = Len(f)
  BY <1>1, InjectiveIs
<1>5. g \in Bijection(1..Len(g), U) /\ Cardinality(U) = Len(g)
  BY <1>2, <1>3, InjectiveIs
<1>6. n = Len(g) /\ n \in Nat
  BY <1>1, <1>4, <1>5, SeqElements
<1>7. U \subseteq Urls
  BY <1>1, SeqElements
<1>8. \A i \in 1..n : f[i] \in Urls /\ f[i] \in U /\ g[i] \in Urls /\ g[i] \in U
  BY <1>1, <1>2, <1>3, <1>6, SeqElements
<1>9. \A u \in Urls : SortKeys[u] = SortKey(u)
  BY DEF SortKeys
<1>10. \A u \in U : key[u] = SortKeys[u]
  OBVIOUS
<1>11. key \in [U -> Tuples(2)]
  BY <1>7, SortKeysIs
<1> HIDE DEF key, U, n
<1>12. InOrder(n, key, f)
  <2> SUFFICES ASSUME NEW i \in 1..n, NEW k \in 1..n, i < k
               PROVE  ~TupleLess(key[f[k]], key[f[i]])
    BY DEF InOrder
  <2>1. TupleLess(UrlKey(f[i]), UrlKey(f[k]))
    BY <1>1 DEF n
  <2>2. ~TupleLess(SortKey(f[k]), SortKey(f[i]))
    BY <1>8, <2>1, UrlKeyRefines
  <2>3. key[f[k]] = SortKey(f[k]) /\ key[f[i]] = SortKey(f[i])
    BY <1>8, <1>9, <1>10
  <2> QED BY <2>2, <2>3
<1>13. InOrder(n, key, g)
  BY <1>2, <1>6, <1>8, <1>10 DEF InOrder
<1>14. ASSUME NEW i \in 1..n PROVE SortKey(f[i]) = SortKey(g[i])
  <2>1. f \in Bijection(1..n, U) /\ g \in Bijection(1..n, U) /\ 2 \in Nat
    BY <1>4, <1>5, <1>6 DEF n
  <2>2. key[f[i]] = key[g[i]]
    BY <1>6, <1>11, <1>12, <1>13, <2>1, SameKeys
  <2> QED BY <1>8, <1>9, <1>10, <2>2
<1> QED BY <1>3, <1>6, <1>14 DEF n, U, f, g

LEMMA BothAgree ==
  ASSUME NEW sheet \in Spreadsheets, spreadsheet = sheet,
         json = PublishersJson(sheet.sources, sheet.topics),
         python = PythonList(sheet.sources, sheet.topics)
  PROVE  ExportsAgree
<1> DEFINE sheets == sheet.sources
           topics == sheet.topics
           f == JsonUrls(sheets)
           g == PythonUrls(sheets, topics)
<1> SUFFICES ASSUME json.ok, python.ok
             PROVE  /\ json.missing = python.missing
                    /\ \A s \in 1..Len(sheets) : sheets[s] = NoSheet <=> s \in ToSet(json.missing)
                    /\ Len(json.pages) = Len(python.pages)
                    /\ \A i \in 1..Len(json.pages) :
                         /\ SortKey(json.pages[i].url) = SortKey(python.pages[i].url)
                         /\ \E k \in 1..Len(python.pages) :
                              /\ python.pages[k].url = json.pages[i].url
                              /\ DOMAIN python.pages[k].targets
                                   = {c.surface : c \in ToSet(json.pages[i].contexts)}
  BY DEF ExportsAgree
<1>1. sheets \in Seq(SourceSheets) /\ topics \in TopicSheets
  BY FlowAssumption
<1>2. /\ json.missing = MissingSheets(sheets)
      /\ json.pages \in Seq([url: Urls, contexts: Seq(ContextsType)]) /\ Len(json.pages) = Len(f)
      /\ \A i \in 1..Len(f) : json.pages[i].url = f[i]
  BY <1>1, JsonIs
<1>3. /\ python.missing = MissingSheets(sheets) /\ Len(python.pages) = Len(g)
      /\ \A i \in 1..Len(g) :
           /\ python.pages[i].url = g[i]
           /\ \A s : s \in DOMAIN python.pages[i].targets
                       <=> Listed(ApprovedEntries(sheets), g[i], s)
  BY <1>1, PythonIs
<1>4. /\ Len(f) = Len(g) /\ ToSet(f) = ToSet(g)
      /\ \A i \in 1..Len(f) : SortKey(f[i]) = SortKey(g[i])
  BY <1>1, OrdersAgree
<1>5. f \in Seq(Urls) /\ g \in Seq(Urls)
  BY <1>1, JsonUrlsIs, PythonUrlsIs
<1>6. \A s \in 1..Len(sheets) : sheets[s] = NoSheet <=> s \in ToSet(MissingSheets(sheets))
  BY <1>1, MissingIs
<1> HIDE DEF f, g
<1>7. ASSUME NEW i \in 1..Len(f)
      PROVE  \E k \in 1..Len(g) :
               /\ python.pages[k].url = json.pages[i].url
               /\ DOMAIN python.pages[k].targets = {c.surface : c \in ToSet(json.pages[i].contexts)}
  <2>1. f[i] \in ToSet(g)
    BY <1>4, <1>5, SeqElements
  <2>2. PICK k \in 1..Len(g) : g[k] = f[i]
    BY <1>5, <2>1, SeqElements
  <2>3. json.pages[i] \in ToSet(json.pages) /\ json.pages[i].url = f[i]
    BY <1>2, SeqElements
  <2>4. ToSet(json.pages[i].contexts) = ApprovedContexts(f[i], sheet)
    BY <2>3, JsonPage
  <2> DEFINE Of(e) == [surface |-> e.surface, topic |-> TopicId(topics, "id", e.topic)]
  <2>5. \A s : s \in DOMAIN python.pages[k].targets
                 <=> Listed(ApprovedEntries(sheets), f[i], s)
    BY <1>3, <2>2
  <2> DEFINE C == ToSet(json.pages[i].contexts)
  <2>6. \A s : s \in {c.surface : c \in C}
                 <=> Listed(ApprovedEntries(sheets), f[i], s)
    <3>1. \A c : c \in C <=> \E e \in ApprovedEntries(sheets) : e.url = f[i] /\ c = Of(e)
      BY <2>4 DEF ApprovedContexts
    <3>2. \A e : Of(e).surface = e.surface
      OBVIOUS
    <3> HIDE DEF C, Of
    <3> QED BY <3>1, <3>2 DEF Listed
  <2>7. DOMAIN python.pages[k].targets = {c.surface : c \in C}
    BY <2>5, <2>6
  <2>8. python.pages[k].url = json.pages[i].url
    BY <1>3, <2>2, <2>3
  <2> QED BY <2>7, <2>8 DEF C
<1>8. \A i \in 1..Len(f) : SortKey(json.pages[i].url) = SortKey(python.pages[i].url)
  BY <1>2, <1>3, <1>4
<1> QED BY <1>2, <1>3, <1>4, <1>6, <1>7, <1>8
-----------------------------------------------------------------------------
(* A crawl: the listed places it takes are the first ones of the            *)
(* publisher's own articles.                                                *)
OfPublisher(items, pageUrls, i) ==
  /\ i \in 1..Len(items) /\ items[i].url # NoUrl
  /\ Domain(items[i].url) \in Own(pageUrls)
First(items, i) == \A k \in 1..i - 1 : items[k].url # items[i].url

LEMMA SelectIs ==
  ASSUME NEW items \in Seq(Items), NEW pageUrls
  PROVE  LET chosen == SelectArticles(items, pageUrls)
         IN /\ chosen \in Seq(1..Len(items)) /\ IsInjective(chosen)
            /\ \A i : i \in ToSet(chosen) <=> OfPublisher(items, pageUrls, i) /\ First(items, i)
<1> DEFINE n == Len(items)
           P == {i \in 1..n : OfPublisher(items, pageUrls, i) /\ First(items, i)}
           q == [i \in 1..n |-> i]
<1>1. n \in Nat
  BY SeqElements
<1>2. SelectArticles(items, pageUrls) = AtPlaces(q, P)
  <2>1. {i \in 1..Len(items) :
           /\ items[i].url # NoUrl
           /\ \A k \in 1..i - 1 : items[k].url # items[i].url
           /\ Domain(items[i].url) \in Own(pageUrls)} = P
    BY DEF OfPublisher, First
  <2> HIDE DEF P
  <2> QED BY <2>1 DEF SelectArticles
<1>3. q \in [1..n -> 1..n] /\ \A i \in 1..n : q[i] = i
  OBVIOUS
<1>4. P \in SUBSET (1..n)
      /\ \A i : i \in P <=> OfPublisher(items, pageUrls, i) /\ First(items, i)
  BY DEF OfPublisher
<1> HIDE DEF P, q, n
<1>5. q \in Seq(1..n) /\ Len(q) = n
  BY <1>1, <1>3, SeqIs
<1>6. /\ AtPlaces(q, P) \in Seq(1..n) /\ ToSet(AtPlaces(q, P)) = {q[i] : i \in P}
      /\ (\A i, k \in P : q[i] = q[k] => i = k) => IsInjective(AtPlaces(q, P))
  BY <1>4, <1>5, AtPlacesIs
<1>7. IsInjective(AtPlaces(q, P))
  BY <1>3, <1>4, <1>6
<1>8. \A i : i \in ToSet(AtPlaces(q, P)) <=> i \in P
  BY <1>3, <1>4, <1>6
<1> QED BY <1>2, <1>4, <1>6, <1>7, <1>8 DEF n

(* Each URL is listed first at one place. *)
LEMMA FirstIs ==
  ASSUME NEW items \in Seq(Items), NEW i \in 1..Len(items)
  PROVE  /\ \E m \in 1..Len(items) : items[m].url = items[i].url /\ First(items, m)
         /\ \A m \in 1..Len(items) :
              items[m].url = items[i].url /\ First(items, m) /\ First(items, i) => m = i
         /\ First(items, i) => i = Min({k \in 1..Len(items) : items[k].url = items[i].url})
<1> DEFINE n == Len(items)
           T == {k \in 1..n : items[k].url = items[i].url}
<1>1. n \in Nat
  BY SeqElements
<1>2. T \in SUBSET Nat /\ i \in T
  BY <1>1
<1>3. \A k : k \in T <=> k \in 1..n /\ items[k].url = items[i].url
  OBVIOUS
<1> HIDE DEF T, n
<1>4. PICK m \in T : \A k \in T : m <= k
  BY <1>2, LeastOf
<1>5. First(items, m) /\ m \in 1..n /\ items[m].url = items[i].url
  <2>1. ASSUME NEW k \in 1..m - 1, items[k].url = items[m].url
        PROVE  FALSE
    <3>1. k \in T
      BY <1>1, <1>3, <1>4, <2>1
    <3> QED BY <1>1, <1>3, <1>4, <3>1
  <2> QED BY <1>3, <1>4, <2>1 DEF First
<1>6. ASSUME NEW a \in 1..n, NEW b \in 1..n, items[a].url = items[b].url,
             First(items, a), First(items, b)
      PROVE  a = b
  <2>1. ~(a < b)
    BY <1>1, <1>6 DEF First
  <2>2. ~(b < a)
    BY <1>1, <1>6 DEF First
  <2> QED BY <1>1, <2>1, <2>2
<1>7. ASSUME First(items, i) PROVE i = Min(T)
  <2>1. i = m
    BY <1>5, <1>6, <1>7 DEF n
  <2>2. ASSUME NEW x \in T, \A k \in T : x <= k PROVE x = m
    BY <1>2, <1>4, <2>2
  <2> QED BY <1>4, <2>1, <2>2 DEF Min
<1> QED BY <1>5, <1>6, <1>7 DEF n, T

(* The URLs of the crawl's articles are those of the publisher, each once. *)
Articles(items, pageUrls) ==
  {item.url : item \in {x \in ToSet(items) : x.url # NoUrl /\ x.url.site \in Own(pageUrls)}}

LEMMA ArticlesIs ==
  ASSUME NEW items \in Seq(Items), NEW pageUrls
  PROVE  LET chosen == SelectArticles(items, pageUrls)
         IN /\ \A u : u \in Articles(items, pageUrls)
                        <=> \E a \in 1..Len(chosen) : u = items[chosen[a]].url
            /\ \A a, b \in 1..Len(chosen) :
                 items[chosen[a]].url = items[chosen[b]].url => a = b
            /\ \A a \in 1..Len(chosen) :
                 /\ chosen[a] \in 1..Len(items) /\ items[chosen[a]] \in Items
                 /\ chosen[a] = Min({k \in 1..Len(items) : items[k].url = items[chosen[a]].url})
<1> DEFINE chosen == SelectArticles(items, pageUrls)
           n == Len(chosen)
<1>1. /\ chosen \in Seq(1..Len(items)) /\ IsInjective(chosen)
      /\ \A i : i \in ToSet(chosen) <=> OfPublisher(items, pageUrls, i) /\ First(items, i)
  BY SelectIs
<1> HIDE DEF chosen
<1>2. \A i : i \in ToSet(chosen) <=> \E a \in 1..n : i = chosen[a]
  BY <1>1, SeqElements
<1>3. \A x : x \in ToSet(items) <=> \E i \in 1..Len(items) : x = items[i]
  BY SeqElements
<1>4. \A a \in 1..n : /\ chosen[a] \in 1..Len(items) /\ items[chosen[a]] \in Items
                      /\ OfPublisher(items, pageUrls, chosen[a]) /\ First(items, chosen[a])
  <2>1. \A a \in 1..n : chosen[a] \in 1..Len(items)
    BY <1>1, SeqElements
  <2>2. \A i \in 1..Len(items) : items[i] \in Items
    BY SeqElements
  <2> QED BY <1>1, <1>2, <2>1, <2>2
<1>5. \A a, b \in 1..n : chosen[a] = chosen[b] => a = b
  <2>1. DOMAIN chosen = 1..n
    BY <1>1, SeqElements
  <2> QED BY <1>1, <2>1 DEF IsInjective
<1>6. ASSUME NEW a \in 1..n, NEW b \in 1..n, items[chosen[a]].url = items[chosen[b]].url
      PROVE  a = b
  <2> DEFINE i == chosen[a]
             m == chosen[b]
  <2>1. i \in 1..Len(items) /\ m \in 1..Len(items) /\ First(items, i) /\ First(items, m)
    BY <1>4
  <2>2. items[m].url = items[i].url
    BY <1>6
  <2> HIDE DEF i, m
  <2>3. m = i
    BY <2>1, <2>2, FirstIs
  <2> QED BY <1>5, <2>3 DEF i, m
<1>7. ASSUME NEW a \in 1..n
      PROVE  chosen[a] = Min({k \in 1..Len(items) : items[k].url = items[chosen[a]].url})
  BY <1>4, FirstIs
<1>8. ASSUME NEW u
      PROVE  u \in Articles(items, pageUrls)
               <=> \E i \in 1..Len(items) : OfPublisher(items, pageUrls, i) /\ u = items[i].url
  BY <1>3 DEF Articles, OfPublisher, Domain
<1>9. ASSUME NEW u
      PROVE  u \in Articles(items, pageUrls) <=> \E a \in 1..n : u = items[chosen[a]].url
  <2>1. ASSUME NEW i \in 1..Len(items), OfPublisher(items, pageUrls, i), u = items[i].url
        PROVE  \E a \in 1..n : u = items[chosen[a]].url
    <3>1. PICK m \in 1..Len(items) : items[m].url = items[i].url /\ First(items, m)
      BY FirstIs
    <3>2. OfPublisher(items, pageUrls, m)
      BY <2>1, <3>1 DEF OfPublisher
    <3> QED BY <1>1, <1>2, <2>1, <3>1, <3>2
  <2> QED BY <1>4, <1>8, <2>1
<1> QED BY <1>4, <1>6, <1>7, <1>9 DEF chosen
-----------------------------------------------------------------------------
(* The events of a crawl: one for each pair of an article and a context. *)
PairsOf(chosen) == (1..Len(chosen)) \X (1..Len(page.contexts))

LEMMA PairsIs ==
  ASSUME NEW X, NEW chosen \in Seq(X), NEW Y, page.contexts \in Seq(Y)
  PROVE  /\ Cardinality(PairsOf(chosen)) \in Nat
         /\ Arranged([p \in PairsOf(chosen) |-> p])
              \in Bijection(1..Cardinality(PairsOf(chosen)), PairsOf(chosen))
         /\ \A p \in PairsOf(chosen) : p[1] \in 1..Len(chosen) /\ p[2] \in 1..Len(page.contexts)
         /\ \A p, q \in PairsOf(chosen) : p[1] = q[1] /\ p[2] = q[2] => p = q
         /\ \A a \in 1..Len(chosen) : \A b \in 1..Len(page.contexts) : <<a, b>> \in PairsOf(chosen)
<1> DEFINE P == PairsOf(chosen)
           n == Len(chosen)
           m == Len(page.contexts)
<1>1. n \in Nat /\ m \in Nat
  BY SeqElements
<1>2. P = (1..n) \X (1..m)
  BY DEF PairsOf
<1> HIDE DEF P, n, m
<1>3. IsFiniteSet(1..n) /\ IsFiniteSet(1..m)
  BY <1>1, FS_Interval
<1>4. IsFiniteSet(P)
  BY <1>2, <1>3, FS_Product
<1>5. \A p \in P : p[1] \in 1..n /\ p[2] \in 1..m /\ p = <<p[1], p[2]>>
  BY <1>2
<1>6. \A p \in P : p \in Tuples(2)
  BY <1>1, <1>5, PairLess
<1>7. \A p, q \in P : p[1] = q[1] /\ p[2] = q[2] => p = q
  BY <1>5
<1>8. \A a \in 1..n : \A b \in 1..m : <<a, b>> \in P
  BY <1>2
<1>9. Cardinality(P) \in Nat /\ Arranged([p \in P |-> p]) \in Bijection(1..Cardinality(P), P)
  BY <1>4, <1>6, ArrangedPairs
<1> QED BY <1>5, <1>7, <1>8, <1>9 DEF P, n, m

CoveredBy(events) ==
  {<<e.url, [surface |-> e.surface, topic |-> e.topic]>> : e \in ToSet(events)}

EventOf(items, chosen, e) ==
  \E a \in 1..Len(chosen), b \in 1..Len(page.contexts) :
    e = DiscoveryEvent(items, chosen[a], page.contexts[b])

LEMMA EventsIs ==
  ASSUME NEW items \in Seq(Items), NEW resolved,
         page.contexts \in Seq(ContextsType), IsInjective(page.contexts)
  PROVE  LET events == CrawlOf(items, resolved).events
             chosen == SelectArticles(items, {page.url, resolved})
             of == CoveredBy(events)
         IN /\ of = Articles(items, {page.url, resolved}) \X ToSet(page.contexts)
            /\ Len(events) = Cardinality(of) /\ Len(events) \in Nat /\ DOMAIN events = 1..Len(events)
            /\ \A k \in 1..Len(events) : EventOf(items, chosen, events[k])
<1> DEFINE events == CrawlOf(items, resolved).events
           pageUrls == {page.url, resolved}
           chosen == SelectArticles(items, pageUrls)
           C == page.contexts
           P == PairsOf(chosen)
           c == Cardinality(P)
           o == Arranged([p \in P |-> p])
           g == [p \in P |-> DiscoveryEvent(items, chosen[p[1]], C[p[2]])]
           h == [p \in P |-> <<items[chosen[p[1]]].url, C[p[2]]>>]
           pairs == Along(o, h)
           Pair(e) == <<e.url, [surface |-> e.surface, topic |-> e.topic]>>
           of == {Pair(e) : e \in ToSet(events)}
<1>1. events = Along(o, g)
  BY DEF CrawlOf, PairsOf
<1>2. chosen \in Seq(1..Len(items))
  BY SelectIs
<1>3. /\ \A u : u \in Articles(items, pageUrls) <=> \E a \in 1..Len(chosen) : u = items[chosen[a]].url
      /\ \A a, b \in 1..Len(chosen) : items[chosen[a]].url = items[chosen[b]].url => a = b
  BY ArticlesIs
<1>4. /\ \A b \in 1..Len(C) : C[b] \in ContextsType
      /\ \A a, b \in 1..Len(C) : C[a] = C[b] => a = b
      /\ \A x : x \in ToSet(C) <=> \E b \in 1..Len(C) : x = C[b]
  BY SeqElements DEF IsInjective
<1>5. \A p \in P : g[p] = DiscoveryEvent(items, chosen[p[1]], C[p[2]])
  OBVIOUS
<1>6. \A p \in P : h[p] = <<items[chosen[p[1]]].url, C[p[2]]>>
  OBVIOUS
<1> HIDE DEF chosen, P, pageUrls, C
<1>7. /\ c \in Nat /\ o \in Bijection(1..c, P)
      /\ \A p \in P : p[1] \in 1..Len(chosen) /\ p[2] \in 1..Len(C)
      /\ \A p, q \in P : p[1] = q[1] /\ p[2] = q[2] => p = q
      /\ \A a \in 1..Len(chosen) : \A b \in 1..Len(C) : <<a, b>> \in P
  BY <1>2, PairsIs DEF P, C
<1> HIDE DEF c, o, g, h
<1> DEFINE Url(p) == items[chosen[p[1]]].url
           Context(p) == C[p[2]]
<1>8. \A p, q \in P : h[p] = h[q] => p = q
  <2> SUFFICES ASSUME NEW p \in P, NEW q \in P, h[p] = h[q]
               PROVE  p = q
    OBVIOUS
  <2>1. h[p] = <<Url(p), Context(p)>> /\ h[q] = <<Url(q), Context(q)>>
    BY <1>6
  <2> DEFINE a == Url(p)
             b == Context(p)
             a_1 == Url(q)
             b_1 == Context(q)
  <2> HIDE DEF a, b, a_1, b_1
  <2>2. <<a, b>> = <<a_1, b_1>>
    BY <2>1 DEF a, b, a_1, b_1
  <2>3. a = a_1 /\ b = b_1
    BY <2>2
  <2>4. Url(p) = Url(q) /\ Context(p) = Context(q)
    BY <2>3 DEF a, b, a_1, b_1
  <2>5. /\ p[1] \in 1..Len(chosen) /\ q[1] \in 1..Len(chosen)
        /\ p[2] \in 1..Len(C) /\ q[2] \in 1..Len(C)
    BY <1>7
  <2>6. p[1] = q[1]
    BY <1>3, <2>4, <2>5
  <2>7. p[2] = q[2]
    BY <1>4, <2>4, <2>5
  <2> QED BY <1>7, <2>6, <2>7
<1>9. /\ Len(pairs) = c /\ DOMAIN pairs = 1..c
      /\ \A k \in 1..c : o[k] \in P /\ pairs[k] = h[o[k]]
  BY <1>7, AlongIs
<1>10. /\ Len(events) = c /\ DOMAIN events = 1..c
       /\ \A k \in 1..c : o[k] \in P /\ events[k] = g[o[k]]
  BY <1>1, <1>7, AlongIs
<1>11. IsInjective(pairs)
  BY <1>7, <1>8, AlongInjective
<1>12. pairs \in Seq({h[p] : p \in P})
  BY <1>7, AlongType
<1>13. \A x : x \in ToSet(pairs) <=> \E p \in P : x = h[p]
  BY <1>7, AlongElements
<1>14. \A x : x \in ToSet(events) <=> \E p \in P : x = g[p]
  BY <1>1, <1>7, AlongElements
<1>15. Cardinality(ToSet(pairs)) = c
  BY <1>9, <1>11, <1>12, InjectiveIs
<1>16. \A p \in P : Pair(g[p]) = h[p]
  <2> SUFFICES ASSUME NEW p \in P PROVE Pair(g[p]) = h[p]
    OBVIOUS
  <2> DEFINE x == C[p[2]]
  <2>1. x \in ContextsType
    BY <1>4, <1>7
  <2>2. [surface |-> x.surface, topic |-> x.topic] = x
    BY <2>1 DEF ContextsType
  <2> DEFINE i == chosen[p[1]]
  <2>3. g[p] = DiscoveryEvent(items, i, x)
    BY <1>5
  <2> HIDE DEF x, i
  <2>5. g[p].url = items[i].url /\ g[p].surface = x.surface /\ g[p].topic = x.topic
    BY <2>3 DEF DiscoveryEvent
  <2>4. Pair(g[p]) = <<items[i].url, x>>
    BY <2>2, <2>5
  <2> QED BY <1>6, <2>4 DEF x, i
<1> HIDE DEF Pair
<1>17. \A x : x \in of <=> \E p \in P : x = h[p]
  <2>1. \A x : x \in of <=> \E e \in ToSet(events) : x = Pair(e)
    OBVIOUS
  <2> HIDE DEF of, events
  <2>2. ASSUME NEW e \in ToSet(events) PROVE \E p \in P : Pair(e) = h[p]
    <3>1. PICK p \in P : e = g[p]
      BY <1>14
    <3>2. Pair(e) = Pair(g[p])
      BY <3>1
    <3> QED BY <1>16, <3>2
  <2>3. ASSUME NEW p \in P PROVE \E e \in ToSet(events) : h[p] = Pair(e)
    <3>1. g[p] \in ToSet(events)
      BY <1>14
    <3> QED BY <1>16, <3>1
  <2> QED BY <2>1, <2>2, <2>3
<1> HIDE DEF of, pairs, events
<1>18. of = ToSet(pairs)
  BY <1>13, <1>17
<1>19. of = Articles(items, pageUrls) \X ToSet(C)
  <2>1. ASSUME NEW p \in P PROVE h[p] \in Articles(items, pageUrls) \X ToSet(C)
    <3>1. h[p] = <<Url(p), Context(p)>>
      BY <1>6
    <3>2. p[1] \in 1..Len(chosen) /\ p[2] \in 1..Len(C)
      BY <1>7
    <3>3. Url(p) \in Articles(items, pageUrls)
      BY <1>3, <3>2
    <3>4. Context(p) \in ToSet(C)
      BY <1>4, <3>2
    <3> HIDE DEF Url, Context
    <3> QED BY <3>1, <3>3, <3>4
  <2>2. ASSUME NEW u \in Articles(items, pageUrls), NEW x \in ToSet(C)
        PROVE  <<u, x>> \in of
    <3>1. PICK a \in 1..Len(chosen) : u = items[chosen[a]].url
      BY <1>3
    <3>2. PICK b \in 1..Len(C) : x = C[b]
      BY <1>4
    <3>3. <<a, b>> \in P /\ h[<<a, b>>] = <<u, x>>
      BY <1>6, <1>7, <3>1, <3>2
    <3> QED BY <1>17, <3>3
  <2> QED BY <1>17, <2>1, <2>2
<1>20. \A k \in 1..c : \E a \in 1..Len(chosen), b \in 1..Len(C) :
         events[k] = DiscoveryEvent(items, chosen[a], C[b])
  <2> SUFFICES ASSUME NEW k \in 1..c
               PROVE  \E a \in 1..Len(chosen), b \in 1..Len(C) :
                        events[k] = DiscoveryEvent(items, chosen[a], C[b])
    OBVIOUS
  <2> DEFINE p == o[k]
  <2>1. p \in P /\ events[k] = g[p]
    BY <1>10
  <2> HIDE DEF p
  <2>2. p[1] \in 1..Len(chosen) /\ p[2] \in 1..Len(C)
    BY <1>7, <2>1
  <2>3. events[k] = DiscoveryEvent(items, chosen[p[1]], C[p[2]])
    BY <1>5, <2>1
  <2> QED BY <2>2, <2>3
<1>21. /\ of = Articles(items, pageUrls) \X ToSet(C)
       /\ Len(events) = Cardinality(of) /\ Len(events) \in Nat /\ DOMAIN events = 1..Len(events)
       /\ \A k \in 1..Len(events) : EventOf(items, chosen, events[k])
  BY <1>7, <1>10, <1>15, <1>18, <1>19, <1>20 DEF EventOf, C
<1>22. of = CoveredBy(events)
  BY DEF of, Pair, CoveredBy
<1> HIDE DEF of
<1> QED BY <1>21, <1>22 DEF events, pageUrls, chosen, C

(* An event names its authors, and its date can be parsed. *)
LEMMA AuthorsIs ==
  ASSUME NEW authors \in Seq(STRING)
  PROVE  "" \notin ToSet(ToEventAuthors(authors))
<1> DEFINE P == {i \in 1..Len(authors) : authors[i] # ""}
<1>1. P \in SUBSET (1..Len(authors)) /\ \A i \in P : authors[i] # ""
  OBVIOUS
<1>2. ToEventAuthors(authors) = AtPlaces(authors, P)
  BY DEF ToEventAuthors
<1> HIDE DEF P
<1>3. ToSet(AtPlaces(authors, P)) = {authors[i] : i \in P}
  BY <1>1, AtPlacesIs
<1> QED BY <1>1, <1>2, <1>3
-----------------------------------------------------------------------------
(* The inductive invariant: each part of the state is made from the parts   *)
(* it was made from, so long as they are there.                             *)
FlowInv ==
  /\ spreadsheet \in Spreadsheets \cup {Nothing}
  /\ json # Nothing =>
       /\ spreadsheet \in Spreadsheets /\ spreadsheet # Nothing
       /\ json = PublishersJson(spreadsheet.sources, spreadsheet.topics)
  /\ python # Nothing =>
       /\ spreadsheet \in Spreadsheets /\ spreadsheet # Nothing
       /\ python = PythonList(spreadsheet.sources, spreadsheet.topics)
  /\ page # Nothing =>
       /\ spreadsheet = Nothing /\ page.url \in Urls
       /\ page.contexts \in Seq(ContextsType) /\ IsInjective(page.contexts)
       /\ ToSet(page.contexts) = approved
  /\ \A c \in approved : c \in ContextsType /\ c.topic # NoId
  /\ crawl # Nothing =>
       /\ page # Nothing /\ crawl.items \in ItemLists
       /\ crawl = CrawlOf(crawl.items, crawl.resolved)

LEMMA FlowInit == Init => FlowInv
BY DEF Init, FlowInv

LEMMA FlowStep == FlowInv /\ [Next]_vars => FlowInv'
<1> SUFFICES ASSUME FlowInv, [Next]_vars PROVE FlowInv'
  OBVIOUS
<1>1. CASE GenerateJson
  <2>1. page = Nothing /\ crawl = Nothing /\ spreadsheet \in Spreadsheets
    BY <1>1 DEF FlowInv, GenerateJson
  <2> QED BY <1>1, <2>1 DEF FlowInv, GenerateJson
<1>2. CASE GeneratePython
  <2>1. page = Nothing /\ crawl = Nothing /\ spreadsheet \in Spreadsheets
    BY <1>2 DEF FlowInv, GeneratePython
  <2> QED BY <1>2, <2>1 DEF FlowInv, GeneratePython
<1>3. ASSUME NEW i \in 1..Len(json.pages), EnqueuePage(i) PROVE FlowInv'
  <2>1. /\ json # Nothing /\ spreadsheet \in Spreadsheets /\ spreadsheet # Nothing
        /\ json = PublishersJson(spreadsheet.sources, spreadsheet.topics)
        /\ page = Nothing /\ crawl = Nothing
    BY <1>3 DEF FlowInv, EnqueuePage
  <2>2. spreadsheet.sources \in Seq(SourceSheets) /\ spreadsheet.topics \in TopicSheets
    BY <2>1, FlowAssumption
  <2>3. json.ok /\ json.pages \in Seq([url: Urls, contexts: Seq(ContextsType)])
    <3>1. json.pages # <<>>
      OBVIOUS
    <3> QED BY <2>1, <2>2, <3>1, JsonIs
  <2> DEFINE p == json.pages[i]
  <2>4. p \in ToSet(json.pages)
    BY <2>3, SeqElements
  <2>5. /\ page' = p /\ approved' = ApprovedContexts(p.url, spreadsheet)
        /\ spreadsheet' = Nothing /\ json' = Nothing /\ python' = Nothing /\ crawl' = Nothing
    BY <1>3, <2>1 DEF EnqueuePage
  <2> HIDE DEF p
  <2>6. /\ p.url \in Urls /\ p.contexts \in Seq(ContextsType) /\ IsInjective(p.contexts)
        /\ ToSet(p.contexts) = ApprovedContexts(p.url, spreadsheet)
        /\ \A c \in ApprovedContexts(p.url, spreadsheet) : c \in ContextsType /\ c.topic # NoId
    BY <2>1, <2>3, <2>4, JsonPage
  <2> QED BY <2>5, <2>6 DEF FlowInv
<1>4. ASSUME NEW items \in ItemLists, NEW resolved, Crawl(items, resolved) PROVE FlowInv'
  <2>1. /\ crawl' = CrawlOf(items, resolved) /\ page # Nothing
        /\ UNCHANGED <<spreadsheet, json, python, page, approved>>
    BY <1>4 DEF Crawl
  <2>2. CrawlOf(items, resolved).items = items /\ CrawlOf(items, resolved).resolved = resolved
    BY DEF CrawlOf
  <2>3. crawl'.items = items /\ crawl'.resolved = resolved
    BY <2>1, <2>2
  <2>4. CrawlOf(crawl.items, crawl.resolved)' = CrawlOf(items, resolved)
    BY <2>1, <2>3 DEF CrawlOf, DiscoveryEvent
  <2>5. crawl' = CrawlOf(crawl.items, crawl.resolved)'
    BY <2>1, <2>4
  <2>6. (crawl # Nothing => /\ page # Nothing /\ crawl.items \in ItemLists
                            /\ crawl = CrawlOf(crawl.items, crawl.resolved))'
    BY <2>1, <2>3, <2>5
  <2> QED BY <2>1, <2>6 DEF FlowInv
<1>5. CASE UNCHANGED vars
  <2>1. CrawlOf(crawl.items, crawl.resolved)' = CrawlOf(crawl.items, crawl.resolved)
    BY <1>5 DEF CrawlOf, DiscoveryEvent, vars
  <2> QED BY <1>5, <2>1 DEF FlowInv, vars
<1> QED BY <1>1, <1>2, <1>3, <1>4, <1>5 DEF Next

(* The model holds to its inductive invariant. *)
THEOREM FlowHolds == Spec => []FlowInv
<1> QED BY FlowInit, FlowStep, PTL DEF Spec

(* A crawl holds what its operators give. *)
LEMMA CrawlIs ==
  ASSUME FlowInv, crawl # Nothing
  PROVE  LET items == crawl.items
             pageUrls == {page.url, crawl.resolved}
             chosen == SelectArticles(items, pageUrls)
         IN /\ items \in Seq(Items)
            /\ page.contexts \in Seq(ContextsType) /\ IsInjective(page.contexts)
            /\ ToSet(page.contexts) = approved
            /\ crawl = CrawlOf(items, crawl.resolved)
            /\ crawl.articleUrls = [a \in 1..Len(chosen) |-> items[chosen[a]].url]
<1>1. /\ crawl.items \in Seq(Items) /\ crawl = CrawlOf(crawl.items, crawl.resolved)
      /\ page.contexts \in Seq(ContextsType) /\ IsInjective(page.contexts)
      /\ ToSet(page.contexts) = approved
  BY FlowAssumption DEF FlowInv
<1>2. CrawlOf(crawl.items, crawl.resolved).articleUrls
        = [a \in 1..Len(SelectArticles(crawl.items, {page.url, crawl.resolved})) |->
             crawl.items[SelectArticles(crawl.items, {page.url, crawl.resolved})[a]].url]
  BY DEF CrawlOf
<1> QED BY <1>1, <1>2
LEMMA CrawlEvents ==
  ASSUME FlowInv, crawl # Nothing
  PROVE  LET items == crawl.items
             pageUrls == {page.url, crawl.resolved}
             chosen == SelectArticles(items, pageUrls)
             events == crawl.events
             of == CoveredBy(events)
         IN /\ of = Articles(items, pageUrls) \X ToSet(page.contexts)
            /\ Len(events) = Cardinality(of)
            /\ DOMAIN events = 1..Len(events)
            /\ \A k \in 1..Len(events) : EventOf(items, chosen, events[k])
<1> DEFINE items == crawl.items
           resolved == crawl.resolved
           pageUrls == {page.url, resolved}
           chosen == SelectArticles(items, pageUrls)
           events == crawl.events
           made == CrawlOf(items, resolved).events
<1>1. items \in Seq(Items) /\ page.contexts \in Seq(ContextsType) /\ IsInjective(page.contexts)
  BY CrawlIs
<1>2. events = made
  BY CrawlIs
<1> HIDE DEF events, items, resolved
<1>3. CoveredBy(made) = Articles(items, pageUrls) \X ToSet(page.contexts)
  BY <1>1, EventsIs
<1>4. Len(made) = Cardinality(CoveredBy(made)) /\ DOMAIN made = 1..Len(made)
  BY <1>1, EventsIs
<1>5. \A k \in 1..Len(made) : EventOf(items, chosen, made[k])
  BY <1>1, EventsIs
<1> HIDE DEF made, chosen, pageUrls
<1> QED BY <1>2, <1>3, <1>4, <1>5 DEF events, chosen, pageUrls, items, resolved

(* The type of the state: an export succeeds or fails, a page has a URL,    *)
(* its contexts have a locale and a topic, and an event's date can be       *)
(* parsed and its authors have names.                                       *)
LEMMA FlowInvTyped == FlowInv => TypeOK
<1> SUFFICES ASSUME FlowInv PROVE TypeOK
  OBVIOUS
<1>1. ASSUME json # Nothing PROVE json.ok \in BOOLEAN
  <2>1. /\ json = PublishersJson(spreadsheet.sources, spreadsheet.topics)
        /\ spreadsheet.sources \in Seq(SourceSheets) /\ spreadsheet.topics \in TopicSheets
    BY <1>1, FlowAssumption DEF FlowInv
  <2> QED BY <2>1, JsonIs
<1>2. ASSUME python # Nothing PROVE python.ok \in BOOLEAN
  <2>1. /\ python = PythonList(spreadsheet.sources, spreadsheet.topics)
        /\ spreadsheet.sources \in Seq(SourceSheets)
    BY <1>2, FlowAssumption DEF FlowInv
  <2> QED BY <2>1, PythonIs
<1>3. \A c \in approved : c.surface \in Nat \ {0} /\ c.topic \in Nat \ {NoId}
  BY DEF FlowInv, ContextsType
<1>4. ASSUME crawl # Nothing, NEW k \in 1..Len(crawl.events)
      PROVE  /\ crawl.events[k].published_at \in {"iso", Nothing}
             /\ "" \notin ToSet(crawl.events[k].authors)
  <2> DEFINE items == crawl.items
             events == crawl.events
             chosen == SelectArticles(items, {page.url, crawl.resolved})
  <2>1. items \in Seq(Items)
    BY <1>4, CrawlIs
  <2>2. PICK a \in 1..Len(chosen), b \in 1..Len(page.contexts) :
          events[k] = DiscoveryEvent(items, chosen[a], page.contexts[b])
    BY <1>4, CrawlEvents DEF EventOf
  <2> HIDE DEF items, chosen
  <2> DEFINE i == chosen[a]
             c == page.contexts[b]
  <2>3. items[i] \in Items
    BY <2>1, ArticlesIs DEF chosen
  <2> HIDE DEF i, c
  <2>4. events[k] = DiscoveryEvent(items, i, c)
    BY <2>2 DEF i, c
  <2>5. /\ events[k].published_at = ToEventTimestamp(items[i].date)
        /\ events[k].authors = ToEventAuthors(items[i].authors)
    BY <2>4 DEF DiscoveryEvent
  <2>6. items[i].authors \in Seq(STRING)
    BY <2>3 DEF Items
  <2>7. "" \notin ToSet(events[k].authors)
    BY <2>5, <2>6, AuthorsIs
  <2> QED BY <2>1, <2>5, <2>7 DEF ToEventTimestamp
<1>5. spreadsheet \in Spreadsheets \cup {Nothing} /\ (page = Nothing \/ page.url \in Urls)
  BY DEF FlowInv
<1> QED BY <1>1, <1>2, <1>3, <1>4, <1>5 DEF TypeOK

(* The type of the state, of every spreadsheet and article list. *)
THEOREM FlowTyped == Spec => []TypeOK
<1> QED BY FlowHolds, FlowInvTyped, PTL

(* publishers.json is a function of the approved rows: each URL once, each  *)
(* of its contexts once, sorted, and a failure exactly for sheets and       *)
(* topics that cannot be used.                                              *)
THEOREM JsonIsOfRows == Spec => []JsonMatchesRows
<1>1. FlowInv => JsonMatchesRows
  <2>1. CASE json # Nothing
    BY <2>1, JsonMatches DEF FlowInv
  <2>2. CASE json = Nothing
    BY <2>2 DEF JsonMatchesRows
  <2> QED BY <2>1, <2>2
<1> QED BY <1>1, FlowHolds, PTL

(* The two exports list the same pages and locales, by one sort key, and    *)
(* name the same missing sheets, whenever both succeed.                     *)
THEOREM ExportersAgree == Spec => []ExportsAgree
<1>1. FlowInv => ExportsAgree
  <2>1. CASE json # Nothing /\ python # Nothing
    BY <2>1, BothAgree DEF FlowInv
  <2>2. CASE ~(json # Nothing /\ python # Nothing)
    BY <2>2 DEF ExportsAgree
  <2> QED BY <2>1, <2>2
<1> QED BY <1>1, FlowHolds, PTL

(* A crawl covers exactly the pairs of an article of the publisher and an   *)
(* approved context, with one event each, and each article with one job.    *)
LEMMA FlowInvCovers == FlowInv => CrawlCoversContexts
<1> SUFFICES ASSUME FlowInv, crawl # Nothing PROVE CrawlCoversContexts
  BY DEF CrawlCoversContexts
<1> DEFINE items == crawl.items
           resolved == crawl.resolved
           pageUrls == {page.url, resolved}
           chosen == SelectArticles(items, pageUrls)
           events == crawl.events
           own == {Domain(page.url), Domain(resolved)} \ {NoDomain}
           articles == {item.url : item \in {x \in ToSet(items) : x.url # NoUrl /\ x.url.site \in own}}
           of == {<<e.url, [surface |-> e.surface, topic |-> e.topic]>> : e \in ToSet(events)}
<1>1. /\ items \in Seq(Items) /\ page.contexts \in Seq(ContextsType) /\ IsInjective(page.contexts)
      /\ ToSet(page.contexts) = approved /\ events = CrawlOf(items, resolved).events
      /\ crawl.articleUrls = [a \in 1..Len(chosen) |-> items[chosen[a]].url]
  BY CrawlIs
<1>2. articles = Articles(items, pageUrls)
  <2>1. own = Own(pageUrls)
    BY DEF Own
  <2> HIDE DEF own
  <2> QED BY <2>1 DEF Articles
<1>3. /\ \A u : u \in Articles(items, pageUrls) <=> \E a \in 1..Len(chosen) : u = items[chosen[a]].url
      /\ \A a, b \in 1..Len(chosen) : items[chosen[a]].url = items[chosen[b]].url => a = b
      /\ \A a \in 1..Len(chosen) :
           /\ chosen[a] \in 1..Len(items) /\ items[chosen[a]] \in Items
           /\ chosen[a] = Min({k \in 1..Len(items) : items[k].url = items[chosen[a]].url})
  BY <1>1, ArticlesIs
<1>4. /\ of = Articles(items, pageUrls) \X ToSet(page.contexts) /\ Len(events) = Cardinality(of)
      /\ DOMAIN events = 1..Len(events)
      /\ \A k \in 1..Len(events) : EventOf(items, chosen, events[k])
  BY CrawlEvents DEF CoveredBy
<1>5. Len(chosen) \in Nat
  BY <1>1, SelectIs, SeqElements
<1> HIDE DEF items, resolved, pageUrls, chosen, events, articles, of
<1>6. ToSet(crawl.articleUrls) = articles /\ Len(crawl.articleUrls) = Cardinality(articles)
  <2> DEFINE m == Len(chosen)
             X == {items[chosen[a]].url : a \in 1..m}
             urls == [a \in 1..m |-> items[chosen[a]].url]
  <2>1. /\ urls \in [1..m -> X] /\ \A a \in 1..m : urls[a] = items[chosen[a]].url
        /\ m \in Nat
    BY <1>5
  <2>2. \A u : u \in X <=> \E a \in 1..m : u = items[chosen[a]].url
    OBVIOUS
  <2>3. X = articles
    <3> HIDE DEF X
    <3> QED BY <1>2, <1>3, <2>2
  <2> HIDE DEF X, urls, m
  <2>4. /\ urls \in Seq(X) /\ Len(urls) = m /\ DOMAIN urls = 1..m
        /\ ToSet(urls) = {urls[a] : a \in 1..m}
    BY <2>1, SeqIs
  <2>5. ToSet(urls) = X
    BY <2>1, <2>2, <2>4
  <2>6. IsInjective(urls)
    BY <1>3, <2>1, <2>4 DEF IsInjective, m
  <2>7. Cardinality(ToSet(urls)) = Len(urls)
    BY <2>4, <2>6, InjectiveIs
  <2> QED BY <1>1, <2>3, <2>5, <2>7 DEF urls, m
<1>7. ASSUME NEW e \in ToSet(events)
      PROVE  e.page_position = Min({i \in 1..Len(items) : items[i].url = e.url})
  <2>1. PICK k \in DOMAIN events : e = events[k]
    BY DEF ToSet
  <2>2. PICK a \in 1..Len(chosen), b \in 1..Len(page.contexts) :
          e = DiscoveryEvent(items, chosen[a], page.contexts[b])
    BY <1>4, <2>1 DEF EventOf
  <2>3. e.page_position = chosen[a] /\ e.url = items[chosen[a]].url
    BY <2>2 DEF DiscoveryEvent
  <2> QED BY <1>3, <2>3
<1>8. of = articles \X approved
  BY <1>1, <1>2, <1>4
<1> QED BY <1>4, <1>6, <1>7, <1>8
        DEF CrawlCoversContexts, items, resolved, articles, of, events, own

(* Each article of the publisher is an event in every approved context, and *)
(* nothing else is, whatever the list repeats and wherever it redirects.    *)
THEOREM CrawlCovers == Spec => []CrawlCoversContexts
<1> QED BY FlowHolds, FlowInvCovers, PTL
=============================================================================
