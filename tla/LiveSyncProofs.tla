---------------------------- MODULE LiveSyncProofs ----------------------------
(***************************************************************************)
(* Proofs about LiveSync, for any jobs, any texts closed under trimming,   *)
(* and any number of edits, revisions and failures.                        *)
(***************************************************************************)
EXTENDS LiveSync, SequenceTheorems, FiniteSetTheorems, TLAPS

USE SyncAssumption

-----------------------------------------------------------------------------
(* A set of indices has a first and a last one. *)
LEMMA FirstOf ==
  ASSUME NEW n \in Nat, NEW T \in SUBSET (1..n), T # {}
  PROVE  \E i \in T : \A k \in T : i <= k
<1> DEFINE A == {i \in 1..n : \A k \in 1..i : k \notin T}
           c == Cardinality(A)
<1>1. IsFiniteSet(1..n) /\ Cardinality(1..n) = n
  BY FS_Interval
<1>2. IsFiniteSet(A) /\ c \in Nat
  BY <1>1, FS_Subset, FS_CardinalityType
<1>3. \A i \in A : i <= c
  <2> SUFFICES ASSUME NEW i \in A PROVE i <= c
    OBVIOUS
  <2>1. 1..i \subseteq A
    OBVIOUS
  <2>2. Cardinality(1..i) = i
    BY FS_Interval
  <2>3. Cardinality(1..i) <= c
    BY <1>2, <2>1, FS_Subset
  <2> QED BY <2>2, <2>3
<1>4. A = 1..c
  <2>1. A \subseteq 1..c
    BY <1>2, <1>3
  <2>2. IsFiniteSet(1..c) /\ Cardinality(1..c) = c
    BY <1>2, FS_Interval
  <2> QED BY <2>1, <2>2, FS_Subset
<1> HIDE DEF A, c
<1>5. PICK j \in T : TRUE
  OBVIOUS
<1>6. j \notin A
  BY DEF A
<1>7. c + 1 \in 1..n /\ c + 1 \notin A
  BY <1>2, <1>4, <1>5, <1>6
<1>8. PICK k \in 1..(c + 1) : k \in T
  BY <1>7 DEF A
<1>9. \A i \in 1..c : i \notin T
  <2> SUFFICES ASSUME NEW i \in 1..c PROVE i \notin T
    OBVIOUS
  <2>1. i \in A /\ i \in Int /\ 1 <= i
    BY <1>2, <1>4
  <2> QED BY <2>1 DEF A
<1>10. k = c + 1
  BY <1>2, <1>8, <1>9
<1> QED BY <1>2, <1>8, <1>9, <1>10

LEMMA LastOf ==
  ASSUME NEW n \in Nat, NEW T \in SUBSET (1..n), T # {}
  PROVE  \E i \in T : \A k \in T : i >= k
<1> DEFINE M == {n + 1 - i : i \in T}
<1>1. M \in SUBSET (1..n) /\ M # {}
  <2>1. \A i \in T : n + 1 - i \in 1..n
    OBVIOUS
  <2> QED BY <2>1
<1>2. PICK m \in M : \A k \in M : m <= k
  BY <1>1, FirstOf
<1>3. PICK i \in T : m = n + 1 - i
  OBVIOUS
<1>4. \A k \in T : n + 1 - k \in M
  OBVIOUS
<1> HIDE DEF M
<1> QED BY <1>2, <1>3, <1>4

-----------------------------------------------------------------------------
(* Trimming cuts a text to its first and last character that is not blank,  *)
(* and trimming again changes nothing.                                      *)
Kept(t) == {i \in 1..Len(t) : t[i] # " "}

LEMMA TrimOfInked ==
  ASSUME NEW t \in Seq(Chars), NEW i \in Kept(t), NEW k \in Kept(t),
         \A j \in Kept(t) : i <= j /\ j <= k
  PROVE  Trim(t) = SubSeq(t, i, k)
<1>1. Len(t) \in Nat
  BY LenProperties
<1> DEFINE first == CHOOSE x \in Kept(t) : \A j \in Kept(t) : x <= j
           last == CHOOSE x \in Kept(t) : \A j \in Kept(t) : x >= j
<1>2. Kept(t) \subseteq Int
  <2>1. Kept(t) \subseteq 1..Len(t)
    BY DEF Kept
  <2>2. 1..Len(t) \subseteq Int
    BY <1>1
  <2> QED BY <2>1, <2>2
<1>3. first \in Kept(t) /\ \A j \in Kept(t) : first <= j
  <2>1. \E x \in Kept(t) : \A j \in Kept(t) : x <= j
    OBVIOUS
  <2> QED BY <2>1
<1>4. last \in Kept(t) /\ \A j \in Kept(t) : last >= j
  <2>1. \E x \in Kept(t) : \A j \in Kept(t) : x >= j
    BY <1>2
  <2> QED BY <2>1
<1>5. Trim(t) = SubSeq(t, first, last)
  BY DEF Trim, Kept
<1> HIDE DEF first, last
<1>6. first = i /\ last = k
  BY <1>2, <1>3, <1>4
<1> QED BY <1>5, <1>6

LEMMA TrimIdempotent ==
  ASSUME NEW t \in Seq(Chars)
  PROVE  Trim(Trim(t)) = Trim(t)
<1>1. Len(t) \in Nat /\ Kept(t) \in SUBSET (1..Len(t))
  BY LenProperties DEF Kept
<1>2. CASE Kept(t) = {}
  <2>1. Trim(t) = <<>>
    BY <1>2 DEF Trim, Kept
  <2>2. Len(<<>>) = 0
    OBVIOUS
  <2>3. Kept(<<>>) = {}
    BY <2>2 DEF Kept
  <2>4. Trim(<<>>) = <<>>
    BY <2>3 DEF Trim, Kept
  <2> QED BY <2>1, <2>4
<1>3. CASE Kept(t) # {}
  <2>1. PICK i \in Kept(t) : \A j \in Kept(t) : i <= j
    BY <1>1, <1>3, FirstOf
  <2>2. PICK k \in Kept(t) : \A j \in Kept(t) : k >= j
    BY <1>1, <1>3, LastOf
  <2> DEFINE s == SubSeq(t, i, k)
  <2>3. i \in 1..Len(t) /\ k \in 1..Len(t) /\ i \in Nat /\ k \in Nat /\ i <= k
    <3>1. i \in 1..Len(t) /\ k \in 1..Len(t)
      BY DEF Kept
    <3>2. i <= k
      BY <2>1
    <3> QED BY <1>1, <3>1, <3>2
  <2>4. Trim(t) = s
    BY <2>1, <2>2, TrimOfInked, <1>1
  <2>5. \A j \in i..k : t[j] \in Chars
    <3> SUFFICES ASSUME NEW j \in i..k PROVE t[j] \in Chars
      OBVIOUS
    <3>1. j \in 1..Len(t)
      BY <1>1, <2>3
    <3> QED BY <3>1, ElementOfSeq
  <2>6. /\ s \in Seq(Chars) /\ Len(s) = k - i + 1
        /\ \A j \in 1..(k - i + 1) : s[j] = t[i + j - 1]
    BY <1>1, <2>3, <2>5, SubSeqProperties
  <2> HIDE DEF s
  <2>7. Len(s) \in Nat /\ Len(s) >= 1 /\ 1 \in 1..Len(s) /\ Len(s) \in 1..Len(s)
    BY <2>3, <2>6
  <2>8. s[1] = t[i] /\ s[Len(s)] = t[k]
    <3>1. s[1] = t[i + 1 - 1] /\ s[Len(s)] = t[i + Len(s) - 1]
      BY <2>6, <2>7
    <3>2. i + 1 - 1 = i /\ i + Len(s) - 1 = k
      BY <2>3, <2>6
    <3> QED BY <3>1, <3>2
  <2>9. 1 \in Kept(s) /\ Len(s) \in Kept(s)
    <3>1. t[i] # " " /\ t[k] # " "
      BY DEF Kept
    <3> QED BY <2>7, <2>8, <3>1 DEF Kept
  <2>10. \A j \in Kept(s) : 1 <= j /\ j <= Len(s)
    <3>1. Kept(s) \subseteq 1..Len(s)
      BY DEF Kept
    <3>2. \A j \in 1..Len(s) : 1 <= j /\ j <= Len(s)
      BY <2>7
    <3> QED BY <3>1, <3>2
  <2>11. Trim(s) = SubSeq(s, 1, Len(s))
    BY <2>6, <2>9, <2>10, TrimOfInked
  <2>12. SubSeq(s, 1, Len(s)) = s
    BY <2>6, SubSeqFull
  <2> QED BY <2>4, <2>11, <2>12
<1> QED BY <1>2, <1>3

(* So text that is synced reads like the text it was extracted from. *)
LEMMA NormalOfTrimmed ==
  ASSUME NEW f \in Fields, NEW t \in Texts
  PROVE  Normal[f][Trim(t)] = Normal[f][t]
<1>1. Trim(t) \in Texts \cup {<<>>} /\ t \in Seq(Chars)
  OBVIOUS
<1>2. NormalizeText(f, Trim(t)) = NormalizeText(f, t)
  BY <1>1, TrimIdempotent DEF NormalizeText
<1>3. \A s \in Texts \cup {<<>>} : Normal[f][s] = NormalizeText(f, s)
  BY DEF Normal
<1> QED BY <1>1, <1>2, <1>3
-----------------------------------------------------------------------------
(* Types.  Only text that trims to something is synced, so what an update   *)
(* writes is text a curator could have written.                             *)
Kinds == {"own", "elsewhere"}
JobStates == [at: {"idle", "queued", "update"}, snap: Metadata, input: Metadata,
              from: Kinds, changed: SUBSET Fields]
Lates == [input: Metadata, from: Kinds, changed: SUBSET Fields]

LEMMA IdleType ==
  ASSUME NEW text \in Metadata
  PROVE  /\ Idle(text) \in JobStates /\ Idle(text).at = "idle"
         /\ [Idle(text) EXCEPT !.at = "queued"] \in JobStates
         /\ [Idle(text) EXCEPT !.at = "queued"].at = "queued"
         /\ [Idle(text) EXCEPT !.at = "queued"].snap = text
BY DEF Idle, JobStates, Kinds

LEMMA InputType ==
  ASSUME NEW text \in Metadata, NEW snap \in Metadata
  PROVE  /\ Changed(text, snap) \in SUBSET Fields
         /\ BuildUpdateInput(text, snap, Changed(text, snap)) \in Metadata
<1> DEFINE input == BuildUpdateInput(text, snap, Changed(text, snap))
<1>1. \A f \in Fields : text[f] \in Texts /\ snap[f] \in Texts
  BY DEF Metadata
<1>2. \A f \in Changed(text, snap) : Trim(text[f]) \in Texts
  BY <1>1 DEF Changed
<1>3. input = [f \in Fields |-> IF f \in Changed(text, snap) THEN Trim(text[f]) ELSE snap[f]]
  BY DEF BuildUpdateInput
<1> HIDE DEF input
<1>4. input \in Metadata
  BY <1>1, <1>2, <1>3 DEF Metadata
<1> QED BY <1>4 DEF Changed, input

\* The same invariant with the sets named.
TypeInv ==
  /\ item \in Metadata
  /\ page \in [text: Metadata, kind: Kinds]
  /\ job \in [Jobs -> JobStates]
  /\ late \subseteq Lates
  /\ disturbances \in 0..MaxDisturbances
  /\ written \in [Jobs -> SUBSET Fields]
  /\ source \in [Fields -> {"curator", "own", "elsewhere"}]

LEMMA TypeInvIsTypeOK == TypeInv <=> TypeOK
BY DEF TypeInv, TypeOK, JobStates, Lates, Kinds

LEMMA InitTyped == Init => TypeInv
<1> SUFFICES ASSUME Init PROVE TypeInv
  OBVIOUS
<1>1. PICK text \in Metadata :
        /\ item = text /\ page = [text |-> text, kind |-> "own"]
        /\ job = [j \in Jobs |-> Idle(text)]
  BY DEF Init
<1>2. job \in [Jobs -> JobStates]
  BY <1>1, IdleType
<1>3. page \in [text: Metadata, kind: Kinds]
  BY <1>1 DEF Kinds
<1> QED BY <1>1, <1>2, <1>3 DEF Init, TypeInv

\* What a write leaves: an item, and the fields it changed noted for every job.
LEMMA WriteTyped ==
  ASSUME TypeInv, NEW input \in Metadata, NEW from \in Kinds,
         NEW changed \in SUBSET Fields, Write(input, from, changed), NoteWrite
  PROVE  /\ item' = input /\ item' \in Metadata
         /\ source' \in [Fields -> {"curator", "own", "elsewhere"}]
         /\ written' \in [Jobs -> SUBSET Fields]
BY DEF TypeInv, Write, NoteWrite, Kinds

LEMMA NextTyped ==
  ASSUME TypeInv, [Next]_vars
  PROVE  TypeInv'
<1> USE DEF TypeInv
<1>0. \A j \in Jobs : job[j] \in JobStates
  OBVIOUS
<1>1. ASSUME NEW j \in Jobs, Enqueue(j) PROVE TypeInv'
  <2>1. job' \in [Jobs -> JobStates]
    BY <1>1, IdleType DEF Enqueue
  <2> QED BY <1>1, <2>1 DEF Enqueue
<1>2. ASSUME NEW j \in Jobs, Extract(j) PROVE TypeInv'
  <2> DEFINE changed == Changed(page.text, job[j].snap)
             input == BuildUpdateInput(page.text, job[j].snap, changed)
             next == [job[j] EXCEPT !.at = "update", !.from = page.kind,
                                    !.changed = changed, !.input = input]
  <2>1. page.text \in Metadata /\ page.kind \in Kinds /\ job[j].snap \in Metadata
    BY <1>0 DEF JobStates
  <2>2. changed \in SUBSET Fields /\ input \in Metadata
    BY <2>1, InputType
  <2>3. job' = [job EXCEPT ![j] = IF changed = {} THEN Idle(item) ELSE next]
    BY <1>2 DEF Extract
  <2> HIDE DEF changed, input
  <2>4. next \in JobStates
    BY <1>0, <2>1, <2>2 DEF JobStates
  <2>5. job' \in [Jobs -> JobStates]
    BY <2>3, <2>4, IdleType
  <2> QED BY <1>2, <2>5 DEF Extract
<1>3. ASSUME NEW j \in Jobs, Update(j) PROVE TypeInv'
  <2>1. job[j].input \in Metadata /\ job[j].from \in Kinds /\ job[j].changed \in SUBSET Fields
    BY <1>0 DEF JobStates
  <2>2. /\ item' \in Metadata /\ written' \in [Jobs -> SUBSET Fields]
        /\ source' \in [Fields -> {"curator", "own", "elsewhere"}]
    BY <1>3, <2>1, WriteTyped DEF Update
  <2>3. Idle(item') \in JobStates
    BY <2>2, IdleType
  <2>4. job' \in [Jobs -> JobStates]
    BY <1>3, <2>3 DEF Update
  <2> QED BY <1>3, <2>2, <2>4 DEF Update
<1>4. ASSUME NEW j \in Jobs, UpdateFails(j) PROVE TypeInv'
  <2>1. [job[j] EXCEPT !.at = "queued"] \in JobStates
    BY <1>0 DEF JobStates
  <2>2. job' \in [Jobs -> JobStates]
    BY <1>4, <2>1 DEF UpdateFails
  <2>3. [input |-> job[j].input, from |-> job[j].from, changed |-> job[j].changed] \in Lates
    BY <1>0 DEF JobStates, Lates
  <2>4. late' \subseteq Lates
    BY <1>4, <2>3 DEF UpdateFails
  <2> QED BY <1>4, <2>2, <2>4 DEF UpdateFails, Disturb
<1>5. ASSUME NEW u \in late, ApplyLate(u) PROVE TypeInv'
  <2>1. u.input \in Metadata /\ u.from \in Kinds /\ u.changed \in SUBSET Fields
    BY DEF Lates
  <2>2. /\ item' \in Metadata /\ written' \in [Jobs -> SUBSET Fields]
        /\ source' \in [Fields -> {"curator", "own", "elsewhere"}]
    BY <1>5, <2>1, WriteTyped DEF ApplyLate
  <2> QED BY <1>5, <2>2 DEF ApplyLate
<1>6. ASSUME NEW j \in Jobs, Drop(j) PROVE TypeInv'
  <2>1. job' \in [Jobs -> JobStates]
    BY <1>6, IdleType DEF Drop
  <2> QED BY <1>6, <2>1 DEF Drop, Disturb
<1>7. ASSUME NEW f \in Fields, NEW t \in Texts, CuratorEdits(f, t) PROVE TypeInv'
  <2>1. item' \in Metadata
    BY <1>7 DEF CuratorEdits, Metadata
  <2>2. written' \in [Jobs -> SUBSET Fields]
    BY <1>7 DEF CuratorEdits, NoteWrite
  <2> QED BY <1>7, <2>1, <2>2 DEF CuratorEdits, Disturb
<1>8. ASSUME NEW f \in Fields, NEW t \in Texts, NEW kind \in {"own", "elsewhere"},
             PublisherRevises(f, t, kind)
      PROVE  TypeInv'
  <2>1. page.text \in Metadata
    OBVIOUS
  <2>2. [page.text EXCEPT ![f] = t] \in Metadata
    BY <2>1 DEF Metadata
  <2>3. page' \in [text: Metadata, kind: Kinds]
    BY <1>8, <2>2 DEF PublisherRevises, Kinds
  <2> QED BY <1>8, <2>3 DEF PublisherRevises, Disturb
<1>9. CASE UNCHANGED vars
  BY <1>9 DEF vars
<1> QED BY <1>1, <1>2, <1>3, <1>4, <1>5, <1>6, <1>7, <1>8, <1>9 DEF Next

(* Every state of the specification is of the declared types: the item, the *)
(* snapshots and the inputs stay texts, whatever is trimmed and applied.    *)
THEOREM TypeCorrect == Spec => []TypeOK
<1>1. Spec => []TypeInv
  BY InitTyped, NextTyped, PTL DEF Spec
<1> QED BY <1>1, TypeInvIsTypeOK, PTL

-----------------------------------------------------------------------------
(* A job's snapshot is the item in all fields not written since, and the    *)
(* input of its update is the one that some page's text calls for.          *)
SnapInv ==
  \A j \in Jobs : job[j].at # "idle" =>
    \A f \in Fields : f \in written[j] \/ item[f] = job[j].snap[f]

InputInv ==
  \A j \in Jobs : job[j].at = "update" =>
    \E text \in Metadata :
      /\ job[j].changed = Changed(text, job[j].snap)
      /\ job[j].input = BuildUpdateInput(text, job[j].snap, job[j].changed)

StyleInv == SnapInv /\ InputInv

\* Of a job that a step leaves where it is, both hold after a noted write.
LEMMA OthersKept ==
  ASSUME TypeInv, SnapInv, NEW j \in Jobs, job[j].at # "idle", NoteWrite
  PROVE  \A f \in Fields : f \in written'[j] \/ item'[f] = job[j].snap[f]
BY DEF SnapInv, NoteWrite, TypeInv

LEMMA InitStyled == Init => StyleInv
<1> SUFFICES ASSUME Init PROVE StyleInv
  OBVIOUS
<1>1. PICK text \in Metadata : job = [j \in Jobs |-> Idle(text)]
  BY DEF Init
<1>2. \A j \in Jobs : job[j].at = "idle"
  BY <1>1, IdleType
<1> QED BY <1>2 DEF StyleInv, SnapInv, InputInv

LEMMA NextStyled ==
  ASSUME TypeInv, StyleInv, [Next]_vars
  PROVE  StyleInv'
<1>0. \A j \in Jobs : job[j] \in JobStates
  BY DEF TypeInv
<1>j. job \in [Jobs -> JobStates] /\ written \in [Jobs -> SUBSET Fields] /\ item \in Metadata
  BY DEF TypeInv
\* Where nothing is written, jobs that stay or go idle are as they were.
<1>a. ASSUME UNCHANGED <<item, written>>,
             \A j \in Jobs : job'[j] = job[j] \/ job'[j].at = "idle"
      PROVE  StyleInv'
  BY <1>a DEF StyleInv, SnapInv, InputInv
<1>b. ASSUME NoteWrite, \A j \in Jobs : job'[j] = job[j] \/ job'[j].at = "idle"
      PROVE  StyleInv'
  <2>1. SnapInv'
    BY <1>b, OthersKept DEF StyleInv, SnapInv
  <2>2. InputInv'
    BY <1>b DEF StyleInv, InputInv
  <2> QED BY <2>1, <2>2 DEF StyleInv
<1>1. ASSUME NEW j \in Jobs, Enqueue(j) PROVE StyleInv'
  <2>1. job'[j].at = "queued" /\ job'[j].snap = item
    BY <1>1, <1>j, IdleType DEF Enqueue
  <2>2. \A k \in Jobs \ {j} : job'[k] = job[k] /\ written'[k] = written[k]
    BY <1>1, <1>j DEF Enqueue
  <2>3. SnapInv'
    BY <1>1, <2>1, <2>2 DEF Enqueue, StyleInv, SnapInv
  <2>4. InputInv'
    BY <2>1, <2>2 DEF StyleInv, InputInv
  <2> QED BY <2>3, <2>4 DEF StyleInv
<1>2. ASSUME NEW j \in Jobs, Extract(j) PROVE StyleInv'
  <2> DEFINE changed == Changed(page.text, job[j].snap)
             input == BuildUpdateInput(page.text, job[j].snap, changed)
             next == [job[j] EXCEPT !.at = "update", !.from = page.kind,
                                    !.changed = changed, !.input = input]
  <2>1. job' = [job EXCEPT ![j] = IF changed = {} THEN Idle(item) ELSE next]
    BY <1>2 DEF Extract
  <2>2. UNCHANGED <<item, written>> /\ job[j].at = "queued" /\ page.text \in Metadata
    BY <1>2 DEF Extract, TypeInv
  <2>3. \A k \in Jobs \ {j} : job'[k] = job[k]
    BY <2>1, <1>j
  <2>4. CASE changed = {}
    <3>1. job'[j].at = "idle"
      BY <1>j, <2>1, <2>4, IdleType
    <3> QED BY <1>a, <2>2, <2>3, <3>1
  <2>5. CASE changed # {}
    <3>1. job'[j] = next
      BY <1>j, <2>1, <2>5
    <3> HIDE DEF changed, input
    <3>2. /\ next.at = "update" /\ next.snap = job[j].snap
          /\ next.changed = changed /\ next.input = input
      BY <1>0 DEF JobStates
    <3> HIDE DEF next
    <3>3. SnapInv'
      BY <2>2, <2>3, <3>1, <3>2 DEF StyleInv, SnapInv
    <3>4. job'[j].changed = Changed(page.text, job'[j].snap)
      BY <3>1, <3>2 DEF changed
    <3>5. job'[j].input = BuildUpdateInput(page.text, job'[j].snap, job'[j].changed)
      BY <3>1, <3>2 DEF changed, input
    <3>6. InputInv'
      BY <2>2, <2>3, <3>4, <3>5 DEF StyleInv, InputInv
    <3> QED BY <3>3, <3>6 DEF StyleInv
  <2> QED BY <2>4, <2>5
<1>3. ASSUME NEW j \in Jobs, Update(j) PROVE StyleInv'
  <2>1. job[j].input \in Metadata /\ item' = job[j].input
    BY <1>0, <1>3 DEF Update, Write, JobStates
  <2>2. Idle(item').at = "idle"
    BY <2>1, IdleType
  <2>3. \A k \in Jobs : job'[k] = job[k] \/ job'[k].at = "idle"
    BY <1>3, <1>j, <2>2 DEF Update
  <2> QED BY <1>3, <1>b, <2>3 DEF Update
<1>4. ASSUME NEW j \in Jobs, UpdateFails(j) PROVE StyleInv'
  <2>1. UNCHANGED <<item, written>> /\ job[j].at = "update"
    BY <1>4 DEF UpdateFails
  <2>2. job'[j].at = "queued" /\ job'[j].snap = job[j].snap
    BY <1>4, <1>0, <1>j DEF UpdateFails, JobStates
  <2>3. \A k \in Jobs \ {j} : job'[k] = job[k]
    BY <1>4, <1>j DEF UpdateFails
  <2>4. SnapInv'
    BY <2>1, <2>2, <2>3 DEF StyleInv, SnapInv
  <2>5. InputInv'
    BY <2>2, <2>3 DEF StyleInv, InputInv
  <2> QED BY <2>4, <2>5 DEF StyleInv
<1>5. ASSUME NEW u \in late, ApplyLate(u) PROVE StyleInv'
  BY <1>5, <1>b DEF ApplyLate
<1>6. ASSUME NEW j \in Jobs, Drop(j) PROVE StyleInv'
  <2>1. \A k \in Jobs : job'[k] = job[k] \/ job'[k].at = "idle"
    BY <1>6, <1>j, IdleType DEF Drop
  <2> QED BY <1>6, <1>a, <2>1 DEF Drop
<1>7. ASSUME NEW f \in Fields, NEW t \in Texts, CuratorEdits(f, t) PROVE StyleInv'
  BY <1>7, <1>b DEF CuratorEdits
<1>8. ASSUME NEW f \in Fields, NEW t \in Texts, NEW kind \in {"own", "elsewhere"},
             PublisherRevises(f, t, kind)
      PROVE  StyleInv'
  BY <1>8, <1>a DEF PublisherRevises
<1>9. CASE UNCHANGED vars
  BY <1>9, <1>a DEF vars
<1> QED BY <1>1, <1>2, <1>3, <1>4, <1>5, <1>6, <1>7, <1>8, <1>9 DEF Next

(* A field that an update writes and nobody wrote since the snapshot was    *)
(* changed on the page by more than its style; it is written trimmed, which *)
(* does not undo the difference.                                            *)
LEMMA UpdateStyled ==
  ASSUME TypeInv, StyleInv, NEW j \in Jobs, job[j].at = "update", item' = job[j].input,
         NEW f \in Fields, item'[f] # item[f], f \notin written[j]
  PROVE  Normal[f][item'[f]] # Normal[f][item[f]]
<1>1. item[f] = job[j].snap[f]
  BY DEF StyleInv, SnapInv
<1>2. PICK text \in Metadata :
        /\ job[j].changed = Changed(text, job[j].snap)
        /\ job[j].input = BuildUpdateInput(text, job[j].snap, job[j].changed)
  BY DEF StyleInv, InputInv
<1>3. item'[f] = IF f \in job[j].changed THEN Trim(text[f]) ELSE job[j].snap[f]
  BY <1>2 DEF BuildUpdateInput
<1>4. f \in job[j].changed /\ item'[f] = Trim(text[f])
  BY <1>1, <1>3
<1>5. Normal[f][text[f]] # Normal[f][job[j].snap[f]]
  BY <1>2, <1>4 DEF Changed
<1>6. text[f] \in Texts
  BY DEF Metadata
<1> QED BY <1>1, <1>4, <1>5, <1>6, NormalOfTrimmed

(* Only an update that was applied ends a job that was to update. *)
LEMMA OnlyUpdateEnds ==
  ASSUME TypeInv, [Next]_vars, NEW j \in Jobs,
         job[j].at = "update", job'[j].at = "idle"
  PROVE  item' = job[j].input
<1>0. job \in [Jobs -> JobStates]
  BY DEF TypeInv
<1>1. \A k \in Jobs : Enqueue(k) => FALSE
  BY <1>0 DEF Enqueue
<1>2. \A k \in Jobs : Extract(k) => FALSE
  BY DEF Extract
<1>3. \A k \in Jobs : Update(k) => k = j /\ item' = job[j].input
  BY <1>0 DEF Update, Write
<1>4. \A k \in Jobs : UpdateFails(k) => FALSE
  BY <1>0 DEF UpdateFails, JobStates
<1>5. \A k \in Jobs : Drop(k) => FALSE
  BY <1>0 DEF Drop
<1>6. \A u \in late : ApplyLate(u) => FALSE
  BY DEF ApplyLate
<1>7. \A f \in Fields, t \in Texts : CuratorEdits(f, t) => FALSE
  BY DEF CuratorEdits
<1>8. \A f \in Fields, t \in Texts, kind \in {"own", "elsewhere"} :
        PublisherRevises(f, t, kind) => FALSE
  BY DEF PublisherRevises
<1>9. UNCHANGED vars => FALSE
  BY DEF vars
<1> QED BY <1>1, <1>2, <1>3, <1>4, <1>5, <1>6, <1>7, <1>8, <1>9 DEF Next

(* detectAndSyncChanges leaves alone a field that differs only in style     *)
(* from the page, in every run of any jobs: it never replaces a curator's   *)
(* text by the same words in other quotes, case or spacing.                 *)
THEOREM StyleIsKept == Spec => StyleKept
<1> DEFINE Styled ==
      \A j \in Jobs : job[j].at = "update" /\ job'[j].at = "idle" =>
        \A f \in Fields : item'[f] # item[f] =>
          f \in written[j] \/ Normal[f][item'[f]] # Normal[f][item[f]]
<1>1. TypeInv /\ StyleInv /\ [Next]_vars => Styled
  BY OnlyUpdateEnds, UpdateStyled
<1>2. TypeInv /\ StyleInv /\ [Next]_vars => [Styled]_vars
  BY <1>1
<1>3. Init => TypeInv /\ StyleInv
  BY InitTyped, InitStyled
<1>4. TypeInv /\ StyleInv /\ [Next]_vars => TypeInv' /\ StyleInv'
  BY NextTyped, NextStyled
<1> QED BY <1>2, <1>3, <1>4, PTL DEF Spec, StyleKept
=============================================================================
