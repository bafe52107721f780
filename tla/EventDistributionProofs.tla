----------------------- MODULE EventDistributionProofs -----------------------
(***************************************************************************)
(* Proofs for EventLog and EventDistribution.  The log: numbers are never  *)
(* reused, what is missing is covered by a verified baseline, readReplay   *)
(* is exact.  Its distribution: a reactor gets every event once and in     *)
(* order, an ordered stream has no hole, and the log keeps its promises    *)
(* while it is followed.  For every set of threads, reactors and clients,  *)
(* every page size, batch size and capacity.                               *)
(***************************************************************************)
EXTENDS EventDistribution, FiniteSetTheorems, SequenceTheorems, TLAPS

-----------------------------------------------------------------------------
(* Least and greatest elements                                             *)

\* A set of natural numbers that is not empty has a least element.
LEMMA LeastExists ==
  ASSUME NEW S \in SUBSET Nat, S # {}
  PROVE  \E x \in S : \A y \in S : x <= y
<1> DEFINE R == OpToRel(<, Nat)
<1>1. IsWellFoundedOn(R, Nat)
  BY NatLessThanWellFounded
<1>2. PICK x \in S : \A y \in S : ~(<<y, x>> \in R)
  <2> HIDE DEF R
  <2> QED
    BY <1>1, WFMin
<1>3. ASSUME NEW y \in S PROVE x <= y
  <2>1. ~(<<y, x>> \in R)
    BY <1>2
  <2>2. <<y, x>> \in Nat \X Nat
    OBVIOUS
  <2>3. ~(y < x)
    BY <2>1, <2>2 DEF OpToRel
  <2> QED
    BY <2>3
<1> QED
  BY <1>2, <1>3

\* Min(S) is that element.
LEMMA MinProperties ==
  ASSUME NEW S \in SUBSET Nat, S # {}
  PROVE  Min(S) \in S /\ \A y \in S : Min(S) <= y
  BY LeastExists DEF Min

\* A set of natural numbers with an upper bound that is not empty has a greatest element.
LEMMA GreatestExists ==
  ASSUME NEW S \in SUBSET Nat, S # {}, NEW n \in Nat, \A s \in S : s <= n
  PROVE  \E x \in S : \A y \in S : x >= y
<1> DEFINE D == {n - s : s \in S}
<1>1. D \in SUBSET Nat /\ D # {}
  <2>1. \A s \in S : n - s \in Nat
    OBVIOUS
  <2>2. PICK s \in S : TRUE
    OBVIOUS
  <2> QED
    BY <2>1, <2>2
<1>2. PICK d \in D : \A e \in D : d <= e
  BY <1>1, LeastExists
<1>3. PICK x \in S : d = n - x
  OBVIOUS
<1>4. ASSUME NEW y \in S PROVE x >= y
  <2>1. n - x <= n - y
    BY <1>2, <1>3
  <2> QED
    BY <2>1
<1> QED
  BY <1>4

\* Max(S) is that element.
LEMMA MaxProperties ==
  ASSUME NEW S \in SUBSET Nat, S # {}, NEW n \in Nat, \A s \in S : s <= n
  PROVE  Max(S) \in S /\ \A y \in S : Max(S) >= y
  BY GreatestExists DEF Max

-----------------------------------------------------------------------------
(* The operators of the log                                                *)

\* The frontier computed from rows, gaps and the compacted prefix is the number of events
\* ever appended.
LEMMA FrontierIsLength == LogInv => Frontier = Len(assigned)
<1> SUFFICES ASSUME LogInv PROVE Frontier = Len(assigned)
  OBVIOUS
<1> DEFINE n == Len(assigned)
           S == {0, retained} \cup rows \cup gaps
<1>1. n \in Nat /\ retained \in Nat /\ verified \in Nat /\ compactThrough \in Nat
  BY DEF LogInv, LogTypeOK
<1>2. rows \subseteq (retained + 1)..n /\ gaps \subseteq 1..n /\ retained <= n
  BY <1>1 DEF LogInv, Accounted
<1>3. 1..n \subseteq rows \cup gaps \cup 1..retained
  BY DEF LogInv, Accounted
<1> HIDE DEF n
<1>4. S \in SUBSET Nat /\ S # {} /\ \A s \in S : s <= n
  BY <1>1, <1>2
<1>5. n \in S
  <2>1. CASE n = 0
    BY <2>1
  <2>2. CASE n # 0
    <3>1. n \in rows \cup gaps \cup 1..retained
      BY <1>1, <1>3, <2>2
    <3>2. n \in 1..retained => n = retained
      BY <1>1, <1>2
    <3> QED
      BY <3>1, <3>2
  <2> QED
    BY <2>1, <2>2
<1> HIDE DEF S
<1>6. Max(S) \in S /\ Max(S) >= n
  BY <1>1, <1>4, <1>5, MaxProperties
<1>7. Max(S) = n
  <2>1. PICK m \in S : m = Max(S)
    BY <1>6
  <2>2. m \in Nat /\ m <= n /\ m >= n
    BY <1>4, <1>6, <2>1
  <2> QED
    BY <1>1, <2>1, <2>2
<1> QED
  BY <1>7 DEF Frontier, S, n

\* The first element of a set is among its first k.
LEMMA FirstOfNotEmpty ==
  ASSUME NEW S \in SUBSET Nat, S # {}, NEW k \in Nat \ {0}
  PROVE  FirstOf(S, k) # {} /\ FirstOf(S, k) \subseteq S
<1> DEFINE m == Min(S)
<1>1. m \in S /\ \A y \in S : m <= y
  BY MinProperties
<1> HIDE DEF m
<1>2. {r \in S : r <= m} = {m}
  <2>1. ASSUME NEW r \in S, r <= m PROVE r = m
    <3>1. m <= r /\ r \in Nat /\ m \in Nat
      BY <1>1
    <3> QED
      BY <2>1, <3>1
  <2> QED
    BY <1>1, <2>1
<1>3. Cardinality({m}) = 1
  BY FS_Singleton
<1>4. Cardinality({r \in S : r <= m}) <= k
  BY <1>2, <1>3
<1> QED
  BY <1>1, <1>4 DEF FirstOf

\* The first k elements of an interval are an interval.
LEMMA FirstOfInterval ==
  ASSUME NEW a \in Nat, NEW n \in Nat, NEW k \in Nat
  PROVE  FirstOf((a + 1)..n, k) = (a + 1)..(IF a + k <= n THEN a + k ELSE n)
<1> DEFINE I == (a + 1)..n
<1>1. ASSUME NEW s \in I PROVE Cardinality({r \in I : r <= s}) = s - a
  <2>1. {r \in I : r <= s} = (a + 1)..s
    OBVIOUS
  <2>2. a + 1 \in Int /\ s \in Int /\ ~(a + 1 > s)
    OBVIOUS
  <2>3. Cardinality((a + 1)..s) = s - (a + 1) + 1
    BY <2>2, FS_Interval
  <2>4. s - (a + 1) + 1 = s - a
    BY <2>2
  <2> QED
    BY <2>1, <2>3, <2>4, Zenon
<1>2. FirstOf(I, k) = {s \in I : s - a <= k}
  BY <1>1 DEF FirstOf
<1>3. {s \in I : s - a <= k} = (a + 1)..(IF a + k <= n THEN a + k ELSE n)
  OBVIOUS
<1> QED
  BY <1>2, <1>3

-----------------------------------------------------------------------------
(* The inductive invariant                                                 *)

\* The empty log satisfies the invariant.
LEMMA LogInvInit == LogInit => LogInv
<1> SUFFICES ASSUME LogInit PROVE LogInv
  OBVIOUS
<1>1. Len(assigned) = 0 /\ assigned \in Seq([seq : Nat, thread : Threads])
  BY DEF LogInit
<1>2. LogTypeOK
  BY <1>1 DEF LogInit, LogTypeOK
<1>3. NumbersNeverReused
  BY <1>1 DEF LogInit, NumbersNeverReused
<1>4. Accounted
  BY <1>1 DEF LogInit, Accounted
<1> QED
  BY <1>2, <1>3, <1>4 DEF LogInv

\* Appending keeps the invariant: the new rows are the numbers after the frontier.
LEMMA AppendStep ==
  ASSUME LogInv, NEW t \in Threads, NEW k \in 1..MaxAppend, NEW D \in SUBSET Threads,
         AppendEvents(t, k, D)
  PROVE  LogInv'
<1> DEFINE n == Len(assigned)
           w == [j \in 1..k |-> [seq |-> n + j, thread |-> t]]
<1>1. n \in Nat /\ k \in Nat /\ Frontier = n
  BY FrontierIsLength, SizesAssumption DEF LogInv, LogTypeOK
<1>2. assigned \in Seq([seq : Nat, thread : Threads])
  BY DEF LogInv, LogTypeOK
<1>3. w \in Seq([seq : Nat, thread : Threads]) /\ Len(w) = k
  <2>1. \A j \in 1..k : [seq |-> n + j, thread |-> t] \in [seq : Nat, thread : Threads]
    BY <1>1
  <2> QED
    BY <1>1, <2>1
<1>4. assigned' = assigned \o w
  BY <1>1 DEF AppendEvents
<1>5. assigned' \in Seq([seq : Nat, thread : Threads]) /\ Len(assigned') = n + k
  BY <1>2, <1>3, <1>4
<1>6. rows' = rows \cup (n + 1)..(n + k)
  BY <1>1 DEF AppendEvents
<1>7. /\ deletedAt' = [u \in Threads |-> IF u \in D THEN n + k ELSE deletedAt[u]]
      /\ coveredBy' = [u \in Threads |-> IF u \in D THEN 0 ELSE coveredBy[u]]
  BY <1>1 DEF AppendEvents
<1>8. UNCHANGED <<gaps, retained, compactThrough, verified>>
  BY DEF AppendEvents
<1>9. LogTypeOK'
  <2>1. rows' \in SUBSET Nat
    <3>1. (n + 1)..(n + k) \subseteq Nat
      BY <1>1
    <3>2. rows \subseteq Nat
      BY DEF LogInv, LogTypeOK
    <3> QED
      BY <1>6, <3>1, <3>2, Zenon
  <2>2. deletedAt' \in [Threads -> Nat] /\ coveredBy' \in [Threads -> Nat]
    BY <1>1, <1>7 DEF LogInv, LogTypeOK
  <2>3. \A u \in Threads : deletedAt'[u] = 0 => coveredBy'[u] = 0
    BY <1>1, <1>7 DEF LogInv, LogTypeOK
  <2> QED
    BY <1>5, <1>8, <2>1, <2>2, <2>3 DEF LogInv, LogTypeOK
<1>10. NumbersNeverReused'
  <2> SUFFICES ASSUME NEW j \in 1..(n + k) PROVE assigned'[j].seq = j
    BY <1>5 DEF NumbersNeverReused
  <2>1. CASE j <= n
    <3>1. assigned'[j] = assigned[j] /\ j \in DOMAIN assigned
      BY <1>1, <1>2, <1>3, <1>4, <2>1
    <3> QED
      BY <3>1 DEF LogInv, NumbersNeverReused
  <2>2. CASE j > n
    <3>1. j - n \in 1..k /\ n + (j - n) = j
      BY <1>1, <2>2
    <3>2. assigned'[j] = w[j - n]
      BY <1>1, <1>2, <1>3, <1>4, <2>2
    <3>3. w[j - n].seq = n + (j - n)
      BY <3>1
    <3> QED
      BY <3>1, <3>2, <3>3
  <2> QED
    BY <1>1, <2>1, <2>2
<1>11. Accounted'
  <2>1. /\ retained \in Nat /\ compactThrough \in Nat /\ verified \in Nat
        /\ rows \subseteq (retained + 1)..n /\ gaps \subseteq 1..n /\ rows \cap gaps = {}
        /\ 1..n \subseteq rows \cup gaps \cup 1..retained
        /\ retained <= compactThrough /\ compactThrough <= verified /\ verified <= n
        /\ gaps \subseteq 1..verified
    BY DEF LogInv, LogTypeOK, Accounted
  <2> HIDE DEF n
  <2> DEFINE R == rows \cup (n + 1)..(n + k)
  <2>2. R \subseteq (retained + 1)..(n + k) /\ gaps \subseteq 1..(n + k) /\ R \cap gaps = {}
    BY <1>1, <2>1
  <2>3. 1..(n + k) \subseteq R \cup gaps \cup 1..retained /\ verified <= n + k
    BY <1>1, <2>1
  <2> QED
    BY <1>5, <1>6, <1>8, <2>1, <2>2, <2>3 DEF Accounted
<1> QED
  BY <1>9, <1>10, <1>11 DEF LogInv

\* Verifying a baseline keeps the invariant: it lies at or before the frontier.
LEMMA MarkVerifiedStep ==
  ASSUME LogInv, NEW s \in 1..MaxLog, MarkVerified(s)
  PROVE  LogInv'
<1>1. s \in Nat /\ s <= Len(assigned) /\ verified < s
  BY FrontierIsLength, SizesAssumption DEF MarkVerified
<1>2. compactThrough' = s /\ verified' = s
  <2>1. compactThrough \in Nat /\ verified \in Nat /\ compactThrough <= verified
    BY DEF LogInv, LogTypeOK, Accounted
  <2> QED
    BY <1>1, <2>1 DEF MarkVerified, Larger
<1>3. UNCHANGED <<assigned, rows, gaps, retained, deletedAt>>
  BY DEF MarkVerified
<1>4. coveredBy' \in [Threads -> Nat] /\ \A u \in Threads : deletedAt[u] = 0 => coveredBy'[u] = 0
  BY <1>1 DEF MarkVerified, LogInv, LogTypeOK
<1>5. LogTypeOK'
  BY <1>1, <1>2, <1>3, <1>4 DEF LogInv, LogTypeOK
<1>6. Accounted'
  <2>1. /\ Len(assigned) \in Nat /\ retained \in Nat /\ verified \in Nat
        /\ retained <= verified /\ gaps \subseteq 1..verified
    BY DEF LogInv, LogTypeOK, Accounted
  <2>2. retained <= s /\ gaps \subseteq 1..s
    BY <1>1, <2>1
  <2> QED
    BY <1>1, <1>2, <1>3, <2>1, <2>2 DEF LogInv, Accounted
<1> QED
  BY <1>3, <1>5, <1>6 DEF LogInv, NumbersNeverReused

\* Pruning keeps the invariant: the proof covers every row that becomes a gap.
LEMMA PruneStep ==
  ASSUME LogInv, NEW t \in Threads, PruneThread(t)
  PROVE  LogInv'
<1> DEFINE G == RowsOf(Subtree(t))
<1>1. G \subseteq rows
  BY DEF RowsOf
<1>2. \A s \in G : s <= verified
  <2>1. t \in Subtree(t)
    BY DEF Subtree
  <2> QED
    BY <2>1 DEF PruneThread, PurgeProof
<1>3. gaps' = gaps \cup G /\ rows' = rows \ G /\ UNCHANGED <<assigned, retained, compactThrough, verified>>
  BY DEF PruneThread
<1>4. /\ deletedAt' \in [Threads -> Nat] /\ coveredBy' \in [Threads -> Nat]
      /\ \A u \in Threads : deletedAt'[u] = 0 => coveredBy'[u] = 0
  BY DEF PruneThread, LogInv, LogTypeOK
<1> HIDE DEF G
<1>5. LogTypeOK'
  BY <1>1, <1>3, <1>4 DEF LogInv, LogTypeOK
<1>6. Accounted'
  <2>1. /\ Len(assigned) \in Nat /\ retained \in Nat /\ verified \in Nat
        /\ rows \subseteq (retained + 1)..Len(assigned)
    BY DEF LogInv, LogTypeOK, Accounted
  <2>2. G \subseteq 1..verified /\ G \subseteq 1..Len(assigned)
    BY <1>1, <1>2, <2>1
  <2> QED
    BY <1>1, <1>3, <2>2 DEF LogInv, Accounted
<1> QED
  BY <1>3, <1>5, <1>6 DEF LogInv, NumbersNeverReused

\* Every number is a row, a gap or retained, and what is verified was assigned.
LEMMA AccountOfTheLog ==
    ASSUME LogInv
    PROVE  /\ Len(assigned) \in Nat /\ retained \in Nat /\ verified \in Nat /\ compactThrough \in Nat
           /\ rows \subseteq (retained + 1)..Len(assigned) /\ gaps \subseteq 1..Len(assigned)
           /\ rows \cap gaps = {} /\ 1..Len(assigned) \subseteq rows \cup gaps \cup 1..retained
           /\ compactThrough <= verified /\ verified <= Len(assigned) /\ gaps \subseteq 1..verified
<1>1. /\ Len(assigned) \in Nat /\ retained \in Nat /\ verified \in Nat /\ compactThrough \in Nat
      /\ gaps \in SUBSET Nat
  BY DEF LogInv, LogTypeOK
<1> QED
  BY <1>1, Zenon DEF LogInv, Accounted

\* Compacting a batch keeps the invariant: the deleted rows are the ones up to last.
LEMMA CompactPrefixStep == LogInv /\ CompactPrefix => LogInv'
<1> SUFFICES ASSUME LogInv, CompactPrefix PROVE LogInv'
  OBVIOUS
<1> DEFINE F == FirstOf(Compactable, CompactBatch)
<1>1. /\ Len(assigned) \in Nat /\ retained \in Nat /\ verified \in Nat /\ compactThrough \in Nat
      /\ rows \subseteq (retained + 1)..Len(assigned) /\ gaps \subseteq 1..Len(assigned)
      /\ rows \cap gaps = {} /\ 1..Len(assigned) \subseteq rows \cup gaps \cup 1..retained
      /\ compactThrough <= verified /\ verified <= Len(assigned) /\ gaps \subseteq 1..verified
  BY AccountOfTheLog
<1>2. Compactable \in SUBSET Nat /\ Compactable # {}
  BY DEF CompactPrefix, Compactable, LogInv, LogTypeOK
<1>3. F # {} /\ F \subseteq Compactable
  BY <1>2, SizesAssumption, FirstOfNotEmpty
<1>4. F \in SUBSET Nat /\ \A s \in F : s <= verified
  BY <1>2, <1>3 DEF Compactable
<1> HIDE DEF F
<1>5. Max(F) \in F
  BY <1>1, <1>3, <1>4, MaxProperties
<1>6. PICK last \in F : last = Max(F)
  BY <1>5
<1>7. last \in Nat /\ retained < last /\ last <= compactThrough
  BY <1>3, <1>4 DEF Compactable
<1>8. /\ rows' = {s \in rows : s <= retained \/ s > last} /\ retained' = last
      /\ UNCHANGED <<assigned, gaps, compactThrough, verified, deletedAt, coveredBy>>
  BY <1>6 DEF CompactPrefix, F
<1>9. LogTypeOK'
  BY <1>7, <1>8 DEF LogInv, LogTypeOK
<1>10. Accounted'
  <2> DEFINE R == {s \in rows : s <= retained \/ s > last}
  <2>1. R \subseteq (last + 1)..Len(assigned) /\ R \cap gaps = {}
    <3>1. ASSUME NEW s \in R PROVE s \in (last + 1)..Len(assigned)
      <4>1. s \in (retained + 1)..Len(assigned) /\ (s <= retained \/ s > last)
        BY <1>1
      <4> QED
        BY <1>1, <1>7, <4>1
    <3> QED
      BY <1>1, <3>1
  <2>2. 1..Len(assigned) \subseteq R \cup gaps \cup 1..last
    <3> SUFFICES ASSUME NEW s \in 1..Len(assigned), s \notin gaps, s > last PROVE s \in R
      BY <1>1, <1>7
    <3>1. s \notin 1..retained
      BY <1>1, <1>7
    <3> QED
      BY <1>1, <3>1
  <2> QED
    BY <1>1, <1>7, <1>8, <2>1, <2>2 DEF Accounted
<1> QED
  BY <1>8, <1>9, <1>10 DEF LogInv, NumbersNeverReused

\* Ending a compaction keeps the invariant: no row is left up to compactThrough.
LEMMA CompactDoneStep == LogInv /\ CompactDone => LogInv'
<1> SUFFICES ASSUME LogInv, CompactDone PROVE LogInv'
  OBVIOUS
<1>1. /\ Len(assigned) \in Nat /\ retained \in Nat /\ verified \in Nat /\ compactThrough \in Nat
      /\ rows \subseteq (retained + 1)..Len(assigned) /\ gaps \subseteq 1..Len(assigned)
      /\ rows \cap gaps = {} /\ 1..Len(assigned) \subseteq rows \cup gaps \cup 1..retained
      /\ compactThrough <= verified /\ verified <= Len(assigned) /\ gaps \subseteq 1..verified
  BY AccountOfTheLog
<1>2. /\ retained < compactThrough /\ retained' = compactThrough
      /\ gaps' = {g \in gaps : g > compactThrough}
      /\ UNCHANGED <<assigned, rows, compactThrough, verified, deletedAt, coveredBy>>
  BY DEF CompactDone
<1>3. rows \subseteq (compactThrough + 1)..Len(assigned)
  <2> SUFFICES ASSUME NEW s \in rows PROVE s > compactThrough
    BY <1>1
  <2>1. s \notin Compactable /\ retained < s
    BY <1>1 DEF CompactDone
  <2> QED
    BY <1>1, <2>1 DEF Compactable
<1>4. LogTypeOK'
  BY <1>1, <1>2 DEF LogInv, LogTypeOK
<1>5. Accounted'
  <2> DEFINE G == {g \in gaps : g > compactThrough}
  <2>1. 1..Len(assigned) \subseteq rows \cup G \cup 1..compactThrough
    BY <1>1, <1>2
  <2>2. G \subseteq 1..Len(assigned) /\ G \subseteq 1..verified /\ rows \cap G = {}
    BY <1>1
  <2>3. compactThrough <= compactThrough
    BY <1>1
  <2> QED
    BY <1>1, <1>2, <1>3, <2>1, <2>2, <2>3 DEF Accounted
<1> QED
  BY <1>2, <1>4, <1>5 DEF LogInv, NumbersNeverReused

\* Every step of the log keeps the invariant.
LEMMA LogInvStep == LogInv /\ [LogNext]_logVars => LogInv'
<1> SUFFICES ASSUME LogInv, [LogNext]_logVars PROVE LogInv'
  OBVIOUS
<1>1. CASE UNCHANGED logVars
  BY <1>1 DEF logVars, LogInv, LogTypeOK, NumbersNeverReused, Accounted
<1>2. CASE LogNext
  BY <1>2, AppendStep, MarkVerifiedStep, PruneStep, CompactPrefixStep, CompactDoneStep
     DEF LogNext, Maintain
<1> QED
  BY <1>1, <1>2

\* Every state of the log satisfies the invariant.
THEOREM LogInvariant == LogSpec => []LogInv
  BY LogInvInit, LogInvStep, PTL DEF LogSpec

\* The log keeps its types, and a marker's columns come and go together.
THEOREM LogTypeCorrect == LogSpec => []LogTypeOK
<1>1. LogInv => LogTypeOK
  BY DEF LogInv
<1> QED
  BY <1>1, LogInvariant, PTL

\* A sequence number is given out once, however the log was pruned and compacted.
THEOREM NumbersAreNeverReused == LogSpec => []NumbersNeverReused
<1>1. LogInv => NumbersNeverReused
  BY DEF LogInv
<1> QED
  BY <1>1, LogInvariant, PTL

\* What left the log is covered by the verified baseline.
THEOREM MissingEventsAreCovered == LogSpec => []MissingIsCovered
<1>1. LogInv => MissingIsCovered
  <2> SUFFICES ASSUME LogInv, NEW s \in 1..Len(assigned), s \notin rows
               PROVE  s \in 1..verified
    BY DEF MissingIsCovered
  <2>1. retained \in Nat /\ verified \in Nat /\ compactThrough \in Nat
    BY DEF LogInv, LogTypeOK
  <2>2. retained <= verified /\ gaps \subseteq 1..verified
    BY <2>1 DEF LogInv, Accounted
  <2>3. s \in gaps \cup 1..retained
    BY DEF LogInv, Accounted
  <2> QED
    BY <2>1, <2>2, <2>3
<1> QED
  BY <1>1, LogInvariant, PTL

-----------------------------------------------------------------------------
(* readReplay                                                              *)

\* The facts about the log that readReplay's answer rests on.
LEMMA LogFacts ==
  ASSUME LogInv
  PROVE  /\ Len(assigned) \in Nat /\ retained \in Nat /\ retained <= Len(assigned)
         /\ rows \in SUBSET Nat /\ gaps \in SUBSET Nat
         /\ rows \subseteq (retained + 1)..Len(assigned) /\ rows \cap gaps = {}
         /\ 1..Len(assigned) \subseteq rows \cup gaps \cup 1..retained
         /\ Frontier = Len(assigned)
<1>1. /\ Len(assigned) \in Nat /\ retained \in Nat /\ verified \in Nat /\ compactThrough \in Nat
      /\ rows \in SUBSET Nat /\ gaps \in SUBSET Nat
  BY DEF LogInv, LogTypeOK
<1>2. /\ retained <= compactThrough /\ compactThrough <= verified /\ verified <= Len(assigned)
      /\ rows \subseteq (retained + 1)..Len(assigned) /\ rows \cap gaps = {}
      /\ 1..Len(assigned) \subseteq rows \cup gaps \cup 1..retained
  BY DEF LogInv, Accounted
<1> QED
  BY <1>1, <1>2, FrontierIsLength

\* The inferred start of the log is at or after the compacted prefix and before every row.
LEMMA InferredRetainedBounds ==
  ASSUME LogInv
  PROVE  /\ InferredRetained \in Nat /\ retained <= InferredRetained
         /\ InferredRetained <= Len(assigned) /\ \A s \in rows : InferredRetained < s
<1>1. CASE rows = {}
  BY <1>1, LogFacts DEF InferredRetained
<1>2. CASE rows # {}
  <2>1. PICK m \in rows : m = Min(rows) /\ \A y \in rows : m <= y
    BY <1>2, LogFacts, MinProperties
  <2>2. m \in Nat /\ retained < m /\ m <= Len(assigned)
    BY LogFacts
  <2>3. InferredRetained = Larger(retained, m - 1)
    BY <1>2, <2>1 DEF InferredRetained
  <2>4. InferredRetained = m - 1
    BY <2>2, <2>3, LogFacts DEF Larger
  <2>5. \A s \in rows : m - 1 < s
    BY <2>1, <2>2, LogFacts
  <2> QED
    BY <2>2, <2>4, <2>5, LogFacts
<1> QED
  BY <1>1, <1>2

\* Where every later event is still there, readReplay sees no gap; its rows are the next
\* PageSize events.
LEMMA NoGapMeansAvailable ==
  ASSUME LogInv, NEW from \in 0..Len(assigned), (from + 1)..Len(assigned) \subseteq rows
  PROVE  /\ Available(from)
         /\ RowsAfter(from) = (from + 1)..(IF from + PageSize <= Len(assigned)
                                           THEN from + PageSize ELSE Len(assigned))
<1> DEFINE n == Len(assigned)
           end == IF from + PageSize <= n THEN from + PageSize ELSE n
<1>1. n \in Nat /\ from \in Nat /\ from <= n /\ PageSize \in Nat
  BY LogFacts, SizesAssumption
<1>2. GapsAfter(from) = {}
  <2> SUFFICES ASSUME NEW g \in GapsAfter(from) PROVE FALSE
    OBVIOUS
  <2>1. g \in gaps /\ g \in Nat /\ g > Larger(from, retained) /\ g <= n
    BY LogFacts DEF GapsAfter
  <2>2. g > from
    BY <1>1, <2>1, LogFacts DEF Larger
  <2>3. g \in rows
    BY <1>1, <2>1, <2>2
  <2> QED
    BY <2>1, <2>3, LogFacts
<1>3. InferredRetained \in Nat /\ InferredRetained <= from
  <2>1. CASE from = n
    BY <2>1, InferredRetainedBounds
  <2>2. CASE from < n
    <3>1. from + 1 \in rows
      BY <1>1, <2>2
    <3>2. InferredRetained \in Nat /\ InferredRetained < from + 1
      BY <3>1, InferredRetainedBounds
    <3> QED
      BY <1>1, <3>2
  <2> QED
    BY <1>1, <2>1, <2>2
<1>4. RetainedFrom(from) = InferredRetained
  <2>1. {InferredRetained} \in SUBSET Nat /\ \A s \in {InferredRetained} : s <= from
    BY <1>3
  <2>2. Max({InferredRetained}) \in {InferredRetained}
    BY <1>1, <2>1, MaxProperties
  <2> QED
    BY <1>2, <2>2 DEF RetainedFrom
<1>5. {s \in rows : s > from} = (from + 1)..n
  <2>1. \A s \in rows : s \in Nat /\ s <= n
    BY LogFacts
  <2> QED
    BY <1>1, <2>1
<1>6. RowsAfter(from) = (from + 1)..end
  BY <1>1, <1>5, FirstOfInterval DEF RowsAfter
<1>7. Larger(from, RetainedFrom(from)) = from
  BY <1>1, <1>3, <1>4 DEF Larger
<1>8. ~HasInternalGap(from)
  <2>1. end \in Nat
    BY <1>1
  <2> HIDE DEF end
  <2>2. \A s \in (from + 1)..end : s - 1 \in (from + 1)..end \cup {from}
    BY <1>1, <2>1
  <2> QED
    BY <1>6, <1>7, <2>2 DEF HasInternalGap
<1> QED
  BY <1>1, <1>2, <1>3, <1>4, <1>6, <1>8 DEF Available

\* Where readReplay sees no gap, every later event is still there.
LEMMA AvailableMeansNoGap ==
  ASSUME LogInv, NEW from \in 0..Len(assigned), Available(from)
  PROVE  (from + 1)..Len(assigned) \subseteq rows
<1>1. from \in Nat /\ GapsAfter(from) = {} /\ from >= RetainedFrom(from)
  BY LogFacts DEF Available
<1>2. RetainedFrom(from) = InferredRetained
  <2>1. {InferredRetained} \in SUBSET Nat /\ \A s \in {InferredRetained} : s <= Len(assigned)
    BY InferredRetainedBounds
  <2>2. Max({InferredRetained}) \in {InferredRetained}
    BY <2>1, LogFacts, MaxProperties
  <2> QED
    BY <1>1, <2>2 DEF RetainedFrom
<1>3. retained <= from
  BY <1>1, <1>2, LogFacts, InferredRetainedBounds
<1> SUFFICES ASSUME NEW s \in (from + 1)..Len(assigned), s \in gaps PROVE FALSE
  BY <1>1, <1>3, LogFacts
<1>4. s \in Nat /\ s > Larger(from, retained) /\ s <= Len(assigned)
  BY <1>1, <1>3, LogFacts DEF Larger
<1> QED
  BY <1>1, <1>4, LogFacts DEF GapsAfter

\* readReplay answers "available" exactly when nothing after the cursor is missing, with
\* the next events and the truth about whether they are all.
THEOREM ReplayAnswersAreExact == LogSpec => []ReplayIsExact
<1>1. LogInv => ReplayIsExact
  <2> SUFFICES ASSUME LogInv, NEW from \in 0..Len(assigned)
               PROVE  LET n == Len(assigned) IN
                      /\ Available(from) <=> (from + 1)..n \subseteq rows
                      /\ Available(from) =>
                           /\ Page(from) = (from + 1)..(IF from + PageSize <= n
                                                       THEN from + PageSize ELSE n)
                           /\ Complete(from) <=> from + PageSize >= n
    BY DEF ReplayIsExact
  <2> DEFINE n == Len(assigned)
             end == IF from + PageSize <= n THEN from + PageSize ELSE n
  <2>1. Available(from) <=> (from + 1)..n \subseteq rows
    BY NoGapMeansAvailable, AvailableMeansNoGap
  <2>2. ASSUME Available(from)
        PROVE  Page(from) = (from + 1)..end /\ (Complete(from) <=> from + PageSize >= n)
    <3>1. Page(from) = (from + 1)..end
      BY <2>1, <2>2, NoGapMeansAvailable DEF Page
    <3>2. from \in Nat /\ n \in Nat /\ from <= n /\ PageSize \in Nat /\ PageSize > 0 /\ Frontier = n
      BY LogFacts, SizesAssumption
    <3>3. end \in Nat /\ from <= end /\ end <= n /\ (end = n <=> from + PageSize >= n)
      BY <3>2
    <3> HIDE DEF end
    <3> DEFINE S == (from + 1)..end \cup {from}
    <3>4. S \in SUBSET Nat /\ S # {} /\ end \in S /\ \A s \in S : s <= end
      BY <3>2, <3>3
    <3> HIDE DEF S
    <3>5. Max(S) = end
      <4>1. PICK m \in S : m = Max(S) /\ m >= end
        BY <3>3, <3>4, MaxProperties
      <4> QED
        BY <3>3, <3>4, <4>1
    <3>6. Complete(from) <=> end >= n
      BY <2>2, <3>1, <3>2, <3>5 DEF Complete, S
    <3> QED
      BY <3>1, <3>2, <3>3, <3>6
  <2> QED
    BY <2>1, <2>2
<1> QED
  BY <1>1, LogInvariant, PTL
-----------------------------------------------------------------------------
(* The operators of the streams                                            *)

\* The events of a queue.
InQueue(q) == {q[k] : k \in DOMAIN q}

\* An event that is offered to a queue is in it, with all that was.
LEMMA OfferedIsInQueue ==
    ASSUME NEW q \in Seq(Nat), NEW e \in Nat
    PROVE  Append(q, e) \in Seq(Nat) /\ InQueue(q) \cup {e} \subseteq InQueue(Append(q, e))
<1>1. /\ Append(q, e) \in Seq(Nat) /\ Len(Append(q, e)) = Len(q) + 1
      /\ \A k \in 1..Len(q) : Append(q, e)[k] = q[k]
      /\ Append(q, e)[Len(q) + 1] = e
  OBVIOUS
<1>2. DOMAIN q = 1..Len(q) /\ DOMAIN Append(q, e) = 1..(Len(q) + 1) /\ Len(q) \in Nat
  BY <1>1
<1>3. Len(q) + 1 \in DOMAIN Append(q, e) /\ \A k \in DOMAIN q : k \in DOMAIN Append(q, e)
  BY <1>2
<1> QED
  BY <1>1, <1>2, <1>3 DEF InQueue

\* A queue holds its head and its tail.
LEMMA TakenFromQueue ==
    ASSUME NEW q \in Seq(Nat), q # << >>
    PROVE  /\ Head(q) \in Nat /\ Tail(q) \in Seq(Nat)
           /\ InQueue(q) \subseteq InQueue(Tail(q)) \cup {Head(q)}
<1>1. /\ Head(q) \in Nat /\ Tail(q) \in Seq(Nat) /\ Len(Tail(q)) = Len(q) - 1
      /\ \A i \in 1..Len(Tail(q)) : Tail(q)[i] = q[i + 1]
  BY HeadTailProperties
<1>2. ASSUME NEW k \in DOMAIN q PROVE q[k] \in InQueue(Tail(q)) \cup {Head(q)}
  <2>1. k \in 1..Len(q) /\ Len(q) \in Nat
    OBVIOUS
  <2>2. CASE k = 1
    BY <2>2
  <2>3. CASE k # 1
    <3>1. k - 1 \in 1..Len(Tail(q)) /\ (k - 1) + 1 = k
      BY <2>1, <2>3, <1>1
    <3>2. k - 1 \in DOMAIN Tail(q) /\ Tail(q)[k - 1] = q[k]
      BY <3>1, <1>1
    <3> QED
      BY <3>2 DEF InQueue
  <2> QED
    BY <2>2, <2>3
<1> QED
  BY <1>1, <1>2 DEF InQueue

\* The first number that a finite set does not hold exists.
LEMMA FirstMissingIs ==
    ASSUME NEW S \in SUBSET Nat, IsFiniteSet(S), NEW n \in Nat
    PROVE  /\ FirstMissing(S, n) \in Nat /\ FirstMissing(S, n) >= n
           /\ FirstMissing(S, n) \notin S /\ n..(FirstMissing(S, n) - 1) \subseteq S
<1> DEFINE M == {k \in Nat : k >= n /\ k \notin S}
<1>1. Cardinality(S) \in Nat
  BY FS_CardinalityType
<1>2. M # {}
  <2> SUFFICES ASSUME M = {} PROVE FALSE
    OBVIOUS
  <2>1. n..(n + Cardinality(S)) \subseteq S
    BY <1>1
  <2>2. Cardinality(n..(n + Cardinality(S))) <= Cardinality(S)
    BY <2>1, FS_Subset
  <2>3. Cardinality(n..(n + Cardinality(S))) = Cardinality(S) + 1
    <3> DEFINE b == n + Cardinality(S)
    <3>1. n \in Int /\ b \in Int /\ ~(n > b) /\ b - n + 1 = Cardinality(S) + 1
      BY <1>1
    <3> HIDE DEF b
    <3>2. Cardinality(n..b) = Cardinality(S) + 1
      BY <3>1, FS_Interval
    <3> QED
      BY <3>2 DEF b
  <2> QED
    BY <1>1, <2>2, <2>3
<1>3. PICK m \in M : \A k \in M : m <= k
  BY <1>2, LeastExists
<1>4. n..(m - 1) \subseteq S
  <2> SUFFICES ASSUME NEW k \in n..(m - 1), k \notin S PROVE FALSE
    OBVIOUS
  <2>1. k \in M
    OBVIOUS
  <2> QED
    BY <1>3, <2>1
<1>5. m <= n + Cardinality(S)
  <2>1. Cardinality(n..(m - 1)) <= Cardinality(S)
    BY <1>4, FS_Subset
  <2>2. CASE n = m
    BY <1>1, <2>2
  <2>3. CASE n < m
    <3>1. n \in Int /\ m - 1 \in Int /\ ~(n > m - 1)
      BY <1>3, <2>3
    <3>2. Cardinality(n..(m - 1)) = m - 1 - n + 1
      BY <3>1, FS_Interval
    <3> QED
      BY <1>1, <1>3, <2>1, <3>2
  <2> QED
    BY <1>3, <2>2, <2>3
<1>6. m \in n..(n + Cardinality(S)) /\ m \notin S
  BY <1>1, <1>3, <1>5
<1>7. \E k \in n..(n + Cardinality(S)) : k \notin S /\ n..(k - 1) \subseteq S
  BY <1>4, <1>6
<1>8. /\ FirstMissing(S, n) \in n..(n + Cardinality(S))
      /\ FirstMissing(S, n) \notin S /\ n..(FirstMissing(S, n) - 1) \subseteq S
  BY <1>7 DEF FirstMissing
<1> QED
  BY <1>1, <1>8

\* A page leads from the cursor to the page's last event, and the cursor follows.
LEMMA PageLeads ==
    ASSUME LogInv, NEW from \in 0..Len(assigned), Available(from)
    PROVE  /\ Max(Page(from) \cup {from}) \in from..Len(assigned)
           /\ Page(from) = (from + 1)..Max(Page(from) \cup {from})
<1> DEFINE n == Len(assigned)
           end == IF from + PageSize <= n THEN from + PageSize ELSE n
<1>1. Page(from) = (from + 1)..end
  BY AvailableMeansNoGap, NoGapMeansAvailable DEF Page
<1>2. from \in Nat /\ n \in Nat /\ from <= n /\ PageSize \in Nat
  BY LogFacts, SizesAssumption
<1>3. end \in Nat /\ from <= end /\ end <= n
  BY <1>2
<1> HIDE DEF end, n
<1> DEFINE S == Page(from) \cup {from}
<1>4. S \in SUBSET Nat /\ S # {} /\ \A s \in S : s <= end
  BY <1>1, <1>2, <1>3
<1>5. end \in S
  BY <1>1, <1>2, <1>3
<1> HIDE DEF S
<1>6. Max(S) \in S /\ \A y \in S : Max(S) >= y
  BY <1>3, <1>4, MaxProperties
<1>7. Max(S) = end
  <2>1. Max(S) \in Nat /\ Max(S) <= end
    BY <1>4, <1>6
  <2>2. Max(S) >= end
    BY <1>5, <1>6
  <2> QED
    BY <1>3, <2>1, <2>2
<1> QED
  BY <1>1, <1>2, <1>3, <1>7 DEF S, n

-----------------------------------------------------------------------------
(* The log under its followers                                             *)

\* Only the worker's commit and the maintenance write the log.
LEMMA LogFrame ==
    ASSUME [Next]_vars
    PROVE  \/ UNCHANGED logVars
           \/ \E t \in Threads, n \in 1..MaxAppend, D \in SUBSET Threads : Commit(t, n, D)
           \/ Maintenance
<1>1. CASE UNCHANGED vars
  BY <1>1 DEF vars
<1>2. CASE Install \/ Publish
  BY <1>2 DEF Install, Publish
<1>3. ASSUME NEW r \in Streams, OpenStream(r) \/ Reader(r) PROVE UNCHANGED logVars
  BY <1>3 DEF OpenStream, Reader, Subscribe, TakeWake, ReadPage, Emit, PageDone
<1>4. ASSUME NEW c \in Clients, OpenLive(c) \/ Client(c) \/ Disconnect(c) PROVE UNCHANGED logVars
  BY <1>4 DEF OpenLive, Client, Disconnect, Snapshot, ReadEvents, MergeReplay, MergeLive,
     DieOverflowed, End
<1> QED
  BY <1>1, <1>2, <1>3, <1>4 DEF Next, Worker

\* The log keeps its invariant, and no event is ever taken back.
LEMMA LogStep ==
    ASSUME LogInv, [Next]_vars
    PROVE  LogInv' /\ Len(assigned)' >= Len(assigned)
<1>1. CASE UNCHANGED logVars
  <2>1. LogInv'
    BY <1>1, LogInvStep
  <2>2. Len(assigned)' = Len(assigned) /\ Len(assigned) \in Nat
    BY <1>1, LogFacts DEF logVars
  <2> QED
    BY <2>1, <2>2
<1>2. ASSUME NEW t \in Threads, NEW n \in 1..MaxAppend, NEW D \in SUBSET Threads, Commit(t, n, D)
      PROVE  LogInv' /\ Len(assigned)' >= Len(assigned)
  <2>1. AppendEvents(t, n, D)
    BY <1>2 DEF Commit
  <2>2. LogInv'
    BY <2>1, AppendStep
  <2>3. assigned' = assigned \o [k \in 1..n |-> [seq |-> Frontier + k, thread |-> t]]
    BY <2>1 DEF AppendEvents
  <2> DEFINE w == [k \in 1..n |-> [seq |-> Frontier + k, thread |-> t]]
  <2>4. w \in Seq([seq : Nat, thread : Threads]) /\ Len(w) = n /\ n \in Nat
    <3>1. n \in Nat /\ Frontier \in Nat
      BY SizesAssumption, LogFacts
    <3>2. \A k \in 1..n : [seq |-> Frontier + k, thread |-> t] \in [seq : Nat, thread : Threads]
      BY <3>1
    <3> QED
      BY <3>1, <3>2
  <2>5. assigned \in Seq([seq : Nat, thread : Threads]) /\ Len(assigned) \in Nat
    BY DEF LogInv, LogTypeOK
  <2> HIDE DEF w
  <2>6. Len(assigned \o w) = Len(assigned) + n
    BY <2>4, <2>5, ConcatProperties
  <2>7. assigned' = assigned \o w
    BY <2>3 DEF w
  <2>8. Len(assigned)' = Len(assigned) + n
    BY <2>6, <2>7
  <2>9. n \in Nat /\ Len(assigned) \in Nat
    BY <2>4, <2>5
  <2> QED
    BY <2>2, <2>8, <2>9
<1>3. CASE Maintenance
  <2>1. LogInv'
    BY <1>3, MarkVerifiedStep, PruneStep, CompactPrefixStep, CompactDoneStep DEF Maintenance
  <2>2. Len(assigned)' = Len(assigned) /\ Len(assigned) \in Nat
    BY <1>3, LogFacts
       DEF Maintenance, MarkVerified, PruneThread, CompactPrefix, CompactDone
  <2> QED
    BY <2>1, <2>2
<1> QED
  BY <1>1, <1>2, <1>3, LogFrame

\* What is published is installed, and what is installed was committed.
InOrder == published <= installed /\ installed <= Len(assigned)

LEMMA InOrderStep ==
    ASSUME TypeOK, LogInv, InOrder, [Next]_vars
    PROVE  /\ installed' \in Nat /\ published' \in Nat /\ InOrder'
           /\ installed' >= installed /\ published' >= published
<1>1. /\ installed \in Nat /\ published \in Nat /\ Len(assigned) \in Nat
      /\ LogInv' /\ Len(assigned)' >= Len(assigned) /\ Len(assigned)' \in Nat
      /\ published <= installed /\ installed <= Len(assigned)
  <2>1. LogInv' /\ Len(assigned)' >= Len(assigned)
    BY LogStep
  <2>2. Len(assigned)' \in Nat
    BY <2>1 DEF LogInv, LogTypeOK
  <2> QED
    BY <2>1, <2>2, LogFacts DEF TypeOK, InOrder
<1>2. CASE UNCHANGED worker
  BY <1>1, <1>2 DEF worker, InOrder
<1>3. CASE Install
  <2>1. installed' = Len(assigned) /\ published' = published
    BY <1>3 DEF Install
  <2> QED
    BY <1>1, <2>1 DEF InOrder
<1>4. CASE Publish
  <2>1. published < installed /\ published' = published + 1 /\ installed' = installed
    BY <1>4 DEF Publish
  <2> QED
    BY <1>1, <2>1 DEF InOrder
<1>5. CASE UNCHANGED vars
  BY <1>5, <1>2 DEF vars
<1>6. ASSUME NEW r \in Streams, OpenStream(r) \/ Reader(r) PROVE UNCHANGED worker
  BY <1>6 DEF OpenStream, Reader, Subscribe, TakeWake, ReadPage, Emit, PageDone
<1>7. ASSUME NEW c \in Clients, OpenLive(c) \/ Client(c) \/ Disconnect(c) PROVE UNCHANGED worker
  BY <1>7 DEF OpenLive, Client, Disconnect, Snapshot, ReadEvents, MergeReplay, MergeLive,
     DieOverflowed, End
<1>8. ASSUME NEW t \in Threads, NEW n \in 1..MaxAppend, NEW D \in SUBSET Threads, Commit(t, n, D)
      PROVE  UNCHANGED worker
  BY <1>8 DEF Commit
<1>9. CASE Maintenance
  BY <1>9, <1>2 DEF Maintenance
<1> QED
  BY <1>2, <1>3, <1>4, <1>5, <1>6, <1>7, <1>8, <1>9 DEF Next, Worker

-----------------------------------------------------------------------------
(* General streams                                                         *)

ReadersTypeOK ==
    /\ rpc \in [Streams -> {"off", "opened", "waiting", "reading", "emitting", "dead"}]
    /\ cursor \in [Streams -> Nat] /\ wake \in [Streams -> BOOLEAN]
    /\ page \in [Streams -> SUBSET Nat] /\ more \in [Streams -> BOOLEAN]
    /\ got \in [Streams -> Nat] /\ openedAt \in [Streams -> Nat]

\* A general stream moves by its own steps, and stops when its client's scope closes.
LEMMA ReadersFrame ==
    ASSUME [Next]_vars
    PROVE  \/ UNCHANGED <<rpc, cursor, page, more, got, openedAt>> /\ (wake' = wake \/ Publish)
           \/ \E r \in Streams : OpenStream(r) \/ Reader(r)
           \/ \E c \in Clients : End(c)
<1>1. CASE UNCHANGED vars
  BY <1>1 DEF vars, readers
<1>2. CASE Maintenance
  BY <1>2 DEF Maintenance, readers
<1>3. CASE Worker
  BY <1>3 DEF Worker, Commit, Install, Publish, readers
<1>4. ASSUME NEW c \in Clients, OpenLive(c) \/ Client(c) \/ Disconnect(c)
      PROVE  End(c) \/ UNCHANGED readers
  BY <1>4 DEF OpenLive, Client, Disconnect, Snapshot, ReadEvents, MergeReplay, MergeLive,
     DieOverflowed
<1> QED
  BY <1>1, <1>2, <1>3, <1>4 DEF Next, readers

\* What one stream's step says of all streams.
LEMMA OneReader ==
    ASSUME LogInv, LogInv', Len(assigned)' >= Len(assigned),
           rpc \in [Streams -> {"off", "opened", "waiting", "reading", "emitting", "dead"}],
           cursor \in [Streams -> Nat], got \in [Streams -> Nat],
           \A s \in Streams : PageFollowsCursor(s),
           NEW r \in Streams, PageFollowsCursor(r)',
           \A s \in Streams : s # r =>
              rpc'[s] = rpc[s] /\ cursor'[s] = cursor[s] /\ page'[s] = page[s] /\ got'[s] = got[s]
    PROVE  \A s \in Streams : PageFollowsCursor(s)'
<1> SUFFICES ASSUME NEW s \in Streams, s # r PROVE PageFollowsCursor(s)'
  OBVIOUS
<1>1. Len(assigned) \in Nat /\ Len(assigned)' \in Nat
  BY DEF LogInv, LogTypeOK
<1> QED
  BY <1>1 DEF PageFollowsCursor

\* A stream opens at the installed sequence, reads on from its cursor and hands out one
\* event after the other.
LEMMA ReaderMoves ==
    ASSUME TypeOK, LogInv, InOrder, \A s \in Streams : PageFollowsCursor(s),
           LogInv', Len(assigned)' >= Len(assigned),
           NEW r \in Streams, OpenStream(r) \/ Reader(r)
    PROVE  /\ ReadersTypeOK' /\ PageFollowsCursor(r)'
           /\ \A s \in Streams : s # r =>
                 rpc'[s] = rpc[s] /\ cursor'[s] = cursor[s] /\ page'[s] = page[s] /\ got'[s] = got[s]
           /\ rpc[r] # "off" => got'[r] \in {got[r], got[r] + 1}
<1>1. /\ ReadersTypeOK /\ installed \in Nat /\ installed <= Len(assigned) /\ Len(assigned) \in Nat
      /\ cursor[r] \in Nat /\ got[r] \in Nat
      /\ got[r] <= cursor[r] /\ cursor[r] <= Len(assigned)
      /\ page[r] = IF rpc[r] = "emitting" THEN (got[r] + 1)..cursor[r] ELSE {}
      /\ rpc[r] \notin {"emitting", "dead"} => got[r] = cursor[r]
  BY LogFacts DEF TypeOK, ReadersTypeOK, InOrder, PageFollowsCursor
<1>2. Len(assigned)' \in Nat
  BY DEF LogInv, LogTypeOK
<1>3. CASE OpenStream(r)
  <2>1. /\ rpc[r] = "off" /\ rpc' = [rpc EXCEPT ![r] = "opened"]
        /\ cursor' = [cursor EXCEPT ![r] = installed] /\ got' = [got EXCEPT ![r] = installed]
        /\ openedAt' = [openedAt EXCEPT ![r] = installed]
        /\ wake' = wake /\ page' = page /\ more' = more
    BY <1>3 DEF OpenStream
  <2> QED
    BY <1>1, <1>2, <2>1 DEF ReadersTypeOK, PageFollowsCursor
<1>4. CASE Subscribe(r) \/ TakeWake(r)
  <2>1. /\ rpc[r] \in {"opened", "waiting"}
        /\ \E p \in {"waiting", "reading"} : rpc' = [rpc EXCEPT ![r] = p]
        /\ \E b \in BOOLEAN : wake' = [wake EXCEPT ![r] = b]
        /\ UNCHANGED <<assigned, cursor, page, more, got, openedAt>>
    <3>1. ReplayedWake \in BOOLEAN /\ FALSE \in BOOLEAN
      BY DEF ReplayedWake
    <3>2. CASE Subscribe(r)
      BY <3>1, <3>2 DEF Subscribe, logVars
    <3>3. CASE TakeWake(r)
      BY <3>1, <3>3 DEF TakeWake, logVars
    <3> QED
      BY <1>4, <3>2, <3>3
  <2> QED
    BY <1>1, <1>2, <2>1 DEF ReadersTypeOK, PageFollowsCursor
<1>5. CASE ReadPage(r)
  <2>1. rpc[r] = "reading" /\ UNCHANGED <<assigned, wake, got, openedAt>>
    BY <1>5 DEF ReadPage, logVars
  <2>2. CASE /\ Available(cursor[r])
             /\ rpc' = [rpc EXCEPT ![r] = "emitting"]
             /\ page' = [page EXCEPT ![r] = Page(cursor[r])]
             /\ more' = [more EXCEPT ![r] = ~Complete(cursor[r]) /\ Page(cursor[r]) # {}]
             /\ cursor' = [cursor EXCEPT ![r] = Max(Page(cursor[r]) \cup {cursor[r]})]
    <3> DEFINE m == Max(Page(cursor[r]) \cup {cursor[r]})
    <3>1. m \in cursor[r]..Len(assigned) /\ Page(cursor[r]) = (cursor[r] + 1)..m
      <4>1. cursor[r] \in 0..Len(assigned)
        BY <1>1
      <4> QED
        BY <4>1, <2>2, PageLeads
    <3> HIDE DEF m
    <3>2. m \in Nat /\ got[r] = cursor[r] /\ Page(cursor[r]) = (got[r] + 1)..m
          /\ Page(cursor[r]) \in SUBSET Nat /\ got[r] <= m /\ m <= Len(assigned)
      BY <1>1, <2>1, <3>1
    <3>3. cursor' = [cursor EXCEPT ![r] = m]
      BY <2>2 DEF m
    <3>4. \E b \in BOOLEAN : more' = [more EXCEPT ![r] = b]
      BY <2>2
    <3>5. ReadersTypeOK'
      BY <1>1, <2>1, <2>2, <3>2, <3>3, <3>4 DEF ReadersTypeOK
    <3>6. PageFollowsCursor(r)'
      BY <1>1, <1>2, <2>1, <2>2, <3>2, <3>3 DEF ReadersTypeOK, PageFollowsCursor
    <3> QED
      BY <1>1, <2>1, <2>2, <3>3, <3>5, <3>6 DEF ReadersTypeOK
  <2>3. CASE rpc' = [rpc EXCEPT ![r] = "dead"] /\ UNCHANGED <<page, more, cursor>>
    BY <1>1, <1>2, <2>1, <2>3 DEF ReadersTypeOK, PageFollowsCursor
  <2> QED
    BY <1>5, <2>2, <2>3 DEF ReadPage
<1>6. CASE Emit(r)
  <2> DEFINE e == Min(page[r])
  <2>1. /\ rpc[r] = "emitting" /\ page[r] # {}
        /\ got' = [got EXCEPT ![r] = e] /\ page' = [page EXCEPT ![r] = @ \ {e}]
        /\ UNCHANGED <<assigned, rpc, cursor, wake, more, openedAt>>
    BY <1>6 DEF Emit, logVars
  <2>2. e = got[r] + 1 /\ got[r] + 1 <= cursor[r]
    <3>1. page[r] = (got[r] + 1)..cursor[r] /\ page[r] \in SUBSET Nat
      BY <1>1, <2>1
    <3>2. e \in page[r] /\ \A y \in page[r] : e <= y
      BY <2>1, <3>1, MinProperties
    <3>3. got[r] + 1 \in page[r]
      BY <1>1, <2>1, <3>1
    <3> HIDE DEF e
    <3>4. e \in (got[r] + 1)..cursor[r] /\ e <= got[r] + 1
      BY <3>1, <3>2, <3>3
    <3>5. got[r] \in Nat /\ cursor[r] \in Nat
      BY <1>1
    <3> QED
      BY <3>4, <3>5
  <2> HIDE DEF e
  <2>3. page[r] \ {e} = (got[r] + 2)..cursor[r] /\ page[r] \ {e} \in SUBSET Nat
    BY <1>1, <2>1, <2>2
  <2>4. ReadersTypeOK'
    BY <1>1, <2>1, <2>2, <2>3 DEF ReadersTypeOK
  <2>5. PageFollowsCursor(r)'
    <3>1. got'[r] = got[r] + 1 /\ page'[r] = (got[r] + 2)..cursor[r] /\ got'[r] + 1 = got[r] + 2
      BY <1>1, <2>1, <2>2, <2>3 DEF ReadersTypeOK
    <3> QED
      BY <1>1, <1>2, <2>1, <2>2, <3>1 DEF PageFollowsCursor
  <2> QED
    BY <1>1, <2>1, <2>2, <2>4, <2>5 DEF ReadersTypeOK
<1>7. CASE PageDone(r)
  <2>1. /\ rpc[r] = "emitting" /\ page[r] = {}
        /\ \E p \in {"waiting", "reading"} : rpc' = [rpc EXCEPT ![r] = p]
        /\ UNCHANGED <<assigned, cursor, wake, page, more, got, openedAt>>
    BY <1>7 DEF PageDone, logVars
  <2>2. got[r] = cursor[r]
    <3>1. cursor[r] \notin (got[r] + 1)..cursor[r]
      BY <1>1, <2>1
    <3> QED
      BY <1>1, <3>1
  <2> QED
    BY <1>1, <1>2, <2>1, <2>2 DEF ReadersTypeOK, PageFollowsCursor
<1> QED
  BY <1>3, <1>4, <1>5, <1>6, <1>7 DEF Reader

LEMMA ReadersStep ==
    ASSUME TypeOK, LogInv, InOrder, \A r \in Streams : PageFollowsCursor(r), [Next]_vars
    PROVE  /\ ReadersTypeOK' /\ \A r \in Streams : PageFollowsCursor(r)'
           /\ \A r \in Streams : rpc[r] # "off" => got'[r] \in {got[r], got[r] + 1}
<1>1. LogInv' /\ Len(assigned)' >= Len(assigned) /\ Len(assigned) \in Nat /\ Len(assigned)' \in Nat
  BY LogStep DEF LogInv, LogTypeOK
<1>2. ReadersTypeOK
  BY DEF TypeOK, ReadersTypeOK
<1>3. CASE UNCHANGED <<rpc, cursor, page, more, got, openedAt>> /\ (wake' = wake \/ Publish)
  <2>1. wake' \in [Streams -> BOOLEAN]
    BY <1>2, <1>3 DEF ReadersTypeOK, Publish
  <2>2. \A r \in Streams : PageFollowsCursor(r)'
    BY <1>1, <1>2, <1>3 DEF ReadersTypeOK, PageFollowsCursor
  <2> QED
    BY <1>2, <1>3, <2>1, <2>2 DEF ReadersTypeOK
<1>4. ASSUME NEW r \in Streams, OpenStream(r) \/ Reader(r)
      PROVE  /\ ReadersTypeOK' /\ \A s \in Streams : PageFollowsCursor(s)'
             /\ \A s \in Streams : rpc[s] # "off" => got'[s] \in {got[s], got[s] + 1}
  <2>1. /\ ReadersTypeOK' /\ PageFollowsCursor(r)'
        /\ \A s \in Streams : s # r =>
              rpc'[s] = rpc[s] /\ cursor'[s] = cursor[s] /\ page'[s] = page[s] /\ got'[s] = got[s]
        /\ rpc[r] # "off" => got'[r] \in {got[r], got[r] + 1}
    BY <1>1, <1>4, ReaderMoves
  <2>2. \A s \in Streams : PageFollowsCursor(s)'
    BY <1>1, <1>2, <2>1, OneReader DEF ReadersTypeOK
  <2> QED
    BY <2>1, <2>2
<1>5. ASSUME NEW c \in Clients, End(c)
      PROVE  /\ ReadersTypeOK' /\ \A s \in Streams : PageFollowsCursor(s)'
             /\ \A s \in Streams : rpc[s] # "off" => got'[s] \in {got[s], got[s] + 1}
  <2>1. /\ rpc' = [s \in Streams |-> IF s = c THEN "dead" ELSE rpc[s]]
        /\ page' = [s \in Streams |-> IF s = c THEN {} ELSE page[s]]
        /\ UNCHANGED <<assigned, cursor, wake, more, got, openedAt>>
    BY <1>5 DEF End, logVars
  <2>2. ReadersTypeOK'
    BY <1>2, <2>1 DEF ReadersTypeOK
  <2>3. \A s \in Streams : PageFollowsCursor(s)'
    BY <1>1, <1>2, <2>1 DEF ReadersTypeOK, PageFollowsCursor
  <2> QED
    BY <2>1, <2>2, <2>3
<1> QED
  BY <1>3, <1>4, <1>5, ReadersFrame

-----------------------------------------------------------------------------
(* Ordered streams                                                         *)

ClientsTypeOK ==
    /\ cpc \in [Clients -> {"off", "captured", "snapshotted", "streaming", "dead"}]
    /\ live \in [Clients -> Seq(Nat)] /\ overflowed \in [Clients -> BOOLEAN]
    /\ next \in [Clients -> Nat]
    /\ replay \in [Clients -> SUBSET Nat] /\ pending \in [Clients -> SUBSET Nat]

LEMMA HeldIs == \A c : Held(c) = replay[c] \cup InQueue(live[c]) \cup pending[c]
  BY DEF Held, InQueue

\* A merged event is emitted or waits, and what waits is out of turn.
LEMMA MergeEffect ==
    ASSUME ClientsTypeOK, NEW c \in Clients, NEW e \in Nat, MergesInTurn(c), Merge(c, e)
    PROVE  \E m \in Nat, P \in SUBSET Nat :
              /\ next' = [next EXCEPT ![c] = m] /\ pending' = [pending EXCEPT ![c] = P]
              /\ IsFiniteSet(P) /\ m \notin P /\ next[c] <= m
              /\ \A s \in pending[c] \cup {e} : s >= m => s \in P
<1>1. next[c] \in Nat /\ pending[c] \in SUBSET Nat
  BY DEF ClientsTypeOK
<1>2. IsFiniteSet(pending[c]) /\ next[c] \notin pending[c]
  BY DEF MergesInTurn
<1>3. CASE e < next[c] \/ e \in pending[c]
  <2>1. next' = [next EXCEPT ![c] = next[c]] /\ pending' = [pending EXCEPT ![c] = pending[c]]
    BY <1>3 DEF Merge, ClientsTypeOK
  <2>2. \A s \in pending[c] \cup {e} : s >= next[c] => s \in pending[c]
    BY <1>1, <1>3
  <2>3. next[c] <= next[c]
    BY <1>1
  <2> USE <1>1
  <2> WITNESS next[c] \in Nat, pending[c] \in SUBSET Nat
  <2> QED
    BY <1>2, <2>1, <2>2, <2>3
<1>4. CASE ~(e < next[c] \/ e \in pending[c])
  <2> DEFINE waiting == pending[c] \cup {e}
             m == FirstMissing(waiting, next[c])
             P == {s \in waiting : s > m}
  <2>1. next' = [next EXCEPT ![c] = m] /\ pending' = [pending EXCEPT ![c] = P]
    BY <1>4 DEF Merge
  <2>2. waiting \in SUBSET Nat /\ IsFiniteSet(waiting)
    BY <1>1, <1>2, FS_AddElement
  <2> HIDE DEF waiting
  <2>3. m \in Nat /\ m >= next[c] /\ m \notin waiting
    BY <1>1, <2>2, FirstMissingIs
  <2> HIDE DEF m
  <2>4. P \in SUBSET waiting
    OBVIOUS
  <2>5. IsFiniteSet(P)
    BY <2>2, <2>4, FS_Subset
  <2>6. P \in SUBSET Nat /\ m \notin P
    BY <2>2, <2>3
  <2>7. next[c] <= m
    BY <1>1, <2>3
  <2>8. ASSUME NEW s \in pending[c] \cup {e}, s >= m PROVE s \in P
    <3>1. s \in waiting /\ s \in Nat /\ s # m
      BY <2>2, <2>3, <2>8 DEF waiting
    <3> QED
      BY <2>3, <2>8, <3>1
  <2> HIDE DEF P
  <2> USE <2>3, <2>6
  <2> WITNESS m \in Nat, P \in SUBSET Nat
  <2> QED
    BY <2>1, <2>5, <2>6, <2>7, <2>8
<1> QED
  BY <1>3, <1>4

\* The stream c moves its frontier to m, and P, Q and L are what it then holds.
MergesTo(c, m, P, Q, L) ==
    /\ next' = [next EXCEPT ![c] = m] /\ pending' = [pending EXCEPT ![c] = P]
    /\ replay' = [replay EXCEPT ![c] = Q] /\ live' = [live EXCEPT ![c] = L]
    /\ IsFiniteSet(P) /\ m \notin P /\ next[c] <= m
    /\ \A s \in Held(c) : s >= m => s \in Q \cup InQueue(L) \cup P
    /\ cpc[c] = "streaming" /\ UNCHANGED <<logVars, worker, readers, cpc, overflowed>>

\* Merging the next event of either source loses nothing that is still to come.
LEMMA MergeMoves ==
    ASSUME ClientsTypeOK, NEW c \in Clients, MergesInTurn(c), MergeReplay(c) \/ MergeLive(c), ~End(c)
    PROVE  \E m \in Nat, P \in SUBSET Nat, Q \in SUBSET Nat, L \in Seq(Nat) :
              MergesTo(c, m, P, Q, L)
<1>1. live[c] \in Seq(Nat) /\ replay[c] \in SUBSET Nat
  BY DEF ClientsTypeOK
<1>2. CASE MergeReplay(c)
  <2> DEFINE e == Min(replay[c])
  <2>1. /\ cpc[c] = "streaming" /\ replay[c] # {} /\ Merge(c, e)
        /\ replay' = [replay EXCEPT ![c] = replay[c] \ {e}]
        /\ live' = live /\ UNCHANGED <<logVars, worker, readers, cpc, overflowed>>
    BY <1>2 DEF MergeReplay
  <2>2. e \in replay[c] /\ e \in Nat
    BY <1>1, <2>1, MinProperties
  <2> HIDE DEF e
  <2>3. PICK m \in Nat, P \in SUBSET Nat :
              /\ next' = [next EXCEPT ![c] = m] /\ pending' = [pending EXCEPT ![c] = P]
              /\ IsFiniteSet(P) /\ m \notin P /\ next[c] <= m
              /\ \A s \in pending[c] \cup {e} : s >= m => s \in P
    BY <2>1, <2>2, MergeEffect
  <2> DEFINE Q == replay[c] \ {e}
  <2>4. Q \in SUBSET Nat /\ live' = [live EXCEPT ![c] = live[c]]
    BY <1>1, <2>1 DEF ClientsTypeOK
  <2>5. ASSUME NEW s \in Held(c), s >= m PROVE s \in Q \cup InQueue(live[c]) \cup P
    <3>1. s \in replay[c] \cup InQueue(live[c]) \cup pending[c]
      BY HeldIs
    <3>2. s \in Q \cup InQueue(live[c]) \/ s \in pending[c] \cup {e}
      BY <3>1
    <3>3. s \in pending[c] \cup {e} => s \in P
      BY <2>3, <2>5
    <3> QED
      BY <3>2, <3>3
  <2>6. replay' = [replay EXCEPT ![c] = Q]
    BY <2>1
  <2> HIDE DEF Q
  <2>7. MergesTo(c, m, P, Q, live[c])
    BY <2>1, <2>3, <2>4, <2>5, <2>6 DEF MergesTo
  <2> QED
    BY <1>1, <2>4, <2>7, Zenon
<1>3. CASE MergeLive(c)
  <2> DEFINE e == Head(live[c])
  <2>1. /\ cpc[c] = "streaming" /\ live[c] # << >> /\ Merge(c, e)
        /\ live' = [live EXCEPT ![c] = Tail(live[c])]
        /\ replay' = replay /\ UNCHANGED <<logVars, worker, readers, cpc, overflowed>>
    BY <1>3 DEF MergeLive
  <2>2. e \in Nat /\ Tail(live[c]) \in Seq(Nat)
        /\ InQueue(live[c]) \subseteq InQueue(Tail(live[c])) \cup {e}
    BY <1>1, <2>1, TakenFromQueue
  <2> HIDE DEF e
  <2>3. PICK m \in Nat, P \in SUBSET Nat :
              /\ next' = [next EXCEPT ![c] = m] /\ pending' = [pending EXCEPT ![c] = P]
              /\ IsFiniteSet(P) /\ m \notin P /\ next[c] <= m
              /\ \A s \in pending[c] \cup {e} : s >= m => s \in P
    BY <2>1, <2>2, MergeEffect
  <2>4. PICK Q \in SUBSET Nat, L \in Seq(Nat) : Q = replay[c] /\ L = Tail(live[c])
    BY <1>1, <2>2
  <2>5. replay' = [replay EXCEPT ![c] = Q] /\ live' = [live EXCEPT ![c] = L]
    BY <2>1, <2>4 DEF ClientsTypeOK
  <2>6. ASSUME NEW s \in Held(c), s >= m PROVE s \in Q \cup InQueue(L) \cup P
    <3>1. s \in replay[c] \cup InQueue(live[c]) \cup pending[c]
      BY HeldIs
    <3>2. s \in Q \cup InQueue(L) \/ s \in pending[c] \cup {e}
      BY <2>2, <2>4, <3>1
    <3>3. s \in pending[c] \cup {e} => s \in P
      BY <2>3, <2>6
    <3> QED
      BY <3>2, <3>3
  <2>7. MergesTo(c, m, P, Q, L)
    BY <2>1, <2>3, <2>5, <2>6 DEF MergesTo
  <2> QED
    BY <2>7, Zenon
<1> QED
  BY <1>2, <1>3

\* An ordered stream moves by its own steps, by what is published and by what its fork reads.
LEMMA ClientsFrame ==
    ASSUME [Next]_vars
    PROVE  \/ UNCHANGED clients /\ published' = published
           \/ Publish
           \/ \E r \in Streams : Emit(r)
           \/ \E c \in Clients : OpenLive(c) \/ Client(c) \/ Disconnect(c)
<1>1. CASE UNCHANGED vars
  BY <1>1 DEF vars, worker
<1>2. CASE Maintenance
  BY <1>2 DEF Maintenance, worker
<1>3. CASE Worker
  BY <1>3 DEF Worker, Commit, Install, worker
<1>4. ASSUME NEW r \in Streams, OpenStream(r) \/ Reader(r)
      PROVE  Emit(r) \/ (UNCHANGED clients /\ published' = published)
  BY <1>4 DEF OpenStream, Reader, Subscribe, TakeWake, ReadPage, PageDone, worker
<1> QED
  BY <1>1, <1>2, <1>3, <1>4 DEF Next

SameClient(c) ==
    /\ cpc'[c] = cpc[c] /\ live'[c] = live[c] /\ overflowed'[c] = overflowed[c]
    /\ next'[c] = next[c] /\ replay'[c] = replay[c] /\ pending'[c] = pending[c]

LEMMA SameIsKept ==
    ASSUME published' = published, NEW c \in Clients, SameClient(c)
    PROVE  /\ MergesInTurn(c) => MergesInTurn(c)'
           /\ CaptureCovers(c) => CaptureCovers(c)'
  BY DEF SameClient, MergesInTurn, CaptureCovers, Held

\* What a step of one ordered stream does to it.
LEMMA ClientMoves ==
    ASSUME TypeOK, InOrder, NEW c \in Clients, MergesInTurn(c),
           OpenLive(c) \/ Client(c) \/ Disconnect(c)
    PROVE  /\ ClientsTypeOK' /\ published' = published
           /\ \A d \in Clients : d # c => SameClient(d)
           /\ MergesInTurn(c)' /\ (CaptureCovers(c) => CaptureCovers(c)')
<1>1. ClientsTypeOK /\ installed \in Nat /\ published \in Nat /\ published <= installed
  BY DEF TypeOK, ClientsTypeOK, InOrder
<1>2. IsFiniteSet(pending[c]) /\ next[c] \notin pending[c]
      /\ (cpc[c] # "streaming" => replay[c] = {} /\ pending[c] = {})
  BY DEF MergesInTurn
<1>3. CASE OpenLive(c)
  <2>1. /\ cpc[c] = "off" /\ cpc' = [cpc EXCEPT ![c] = "captured"]
        /\ UNCHANGED <<published, live, overflowed, next, replay, pending>>
    BY <1>3 DEF OpenLive, worker
  <2> QED
    BY <1>1, <1>2, <2>1 DEF ClientsTypeOK, SameClient, MergesInTurn, CaptureCovers
<1>4. CASE Snapshot(c)
  <2>1. /\ cpc[c] = "captured" /\ cpc' = [cpc EXCEPT ![c] = "snapshotted"]
        /\ next' = [next EXCEPT ![c] = installed + 1]
        /\ UNCHANGED <<published, live, overflowed, replay, pending>>
    BY <1>4 DEF Snapshot, worker
  <2>2. next'[c] = installed + 1 /\ replay'[c] = {} /\ pending'[c] = {}
    BY <1>1, <1>2, <2>1 DEF ClientsTypeOK
  <2>3. next'[c]..published' = {}
    BY <1>1, <2>1, <2>2
  <2>4. MergesInTurn(c)' /\ CaptureCovers(c)'
    BY <1>1, <2>2, <2>3, FS_EmptySet DEF MergesInTurn, CaptureCovers
  <2> QED
    BY <1>1, <2>1, <2>4 DEF ClientsTypeOK, SameClient
<1>5. CASE End(c)
  <2>1. /\ cpc' = [cpc EXCEPT ![c] = "dead"] /\ live' = [live EXCEPT ![c] = << >>]
        /\ replay' = [replay EXCEPT ![c] = {}] /\ pending' = [pending EXCEPT ![c] = {}]
        /\ UNCHANGED <<published, overflowed, next>>
    BY <1>5 DEF End, worker
  <2>2. cpc'[c] = "dead" /\ replay'[c] = {} /\ pending'[c] = {}
    BY <1>1, <2>1 DEF ClientsTypeOK
  <2>3. MergesInTurn(c)' /\ CaptureCovers(c)'
    BY <2>2, FS_EmptySet DEF MergesInTurn, CaptureCovers
  <2> QED
    BY <1>1, <2>1, <2>3 DEF ClientsTypeOK, SameClient
<1>6. CASE ReadEvents(c) /\ ~End(c)
  <2>1. /\ cpc[c] = "snapshotted" /\ cpc' = [cpc EXCEPT ![c] = "streaming"]
        /\ replay' = [replay EXCEPT ![c] = {s \in rows : s >= next[c]}]
        /\ UNCHANGED <<published, live, overflowed, next, pending>>
    BY <1>6 DEF ReadEvents, worker
  <2>2. {s \in rows : s >= next[c]} \in SUBSET Nat
    BY DEF TypeOK, LogTypeOK
  <2>3. cpc'[c] = "streaming" /\ replay[c] = {}
    BY <1>1, <1>2, <2>1 DEF ClientsTypeOK
  <2>4. Held(c) \subseteq Held(c)'
    BY <2>1, <2>3 DEF Held
  <2>5. MergesInTurn(c)' /\ (CaptureCovers(c) => CaptureCovers(c)')
    BY <1>2, <2>1, <2>3, <2>4 DEF MergesInTurn, CaptureCovers
  <2> QED
    BY <1>1, <2>1, <2>2, <2>5 DEF ClientsTypeOK, SameClient
<1>7. CASE (MergeReplay(c) \/ MergeLive(c)) /\ ~End(c)
  <2>0. PICK m \in Nat, P \in SUBSET Nat, Q \in SUBSET Nat, L \in Seq(Nat) :
              MergesTo(c, m, P, Q, L)
    BY <1>1, <1>7, MergeMoves
  <2>1. /\ next' = [next EXCEPT ![c] = m] /\ pending' = [pending EXCEPT ![c] = P]
        /\ replay' = [replay EXCEPT ![c] = Q] /\ live' = [live EXCEPT ![c] = L]
        /\ IsFiniteSet(P) /\ m \notin P /\ next[c] <= m
        /\ \A s \in Held(c) : s >= m => s \in Q \cup InQueue(L) \cup P
        /\ cpc[c] = "streaming" /\ UNCHANGED <<logVars, worker, readers, cpc, overflowed>>
    BY <2>0 DEF MergesTo
  <2>2. /\ next'[c] = m /\ pending'[c] = P /\ replay'[c] = Q /\ live'[c] = L
        /\ cpc' = cpc /\ overflowed' = overflowed /\ published' = published
    BY <1>1, <2>1 DEF ClientsTypeOK, worker
  <2>3. Held(c)' = Q \cup InQueue(L) \cup P
    BY <2>2 DEF Held, InQueue
  <2>4. MergesInTurn(c)'
    BY <2>1, <2>2 DEF MergesInTurn
  <2>5. CaptureCovers(c) => CaptureCovers(c)'
    <3> SUFFICES ASSUME next[c]..published \subseteq Held(c), NEW s \in m..published
                 PROVE  s \in Held(c)'
      BY <2>1, <2>2 DEF CaptureCovers
    <3>1. s \in next[c]..published /\ s >= m
      BY <1>1, <2>1 DEF ClientsTypeOK
    <3> QED
      BY <2>1, <2>3, <3>1
  <2> QED
    BY <1>1, <2>1, <2>2, <2>4, <2>5 DEF ClientsTypeOK, SameClient
<1>8. CASE DieOverflowed(c) \/ Disconnect(c)
  BY <1>5, <1>8 DEF DieOverflowed, Disconnect
<1> QED
  BY <1>3, <1>4, <1>5, <1>6, <1>7, <1>8 DEF Client

\* A published event is in the capture of every stream whose capture still holds.
LEMMA PublishMoves ==
    ASSUME TypeOK, Publish
    PROVE  /\ ClientsTypeOK'
           /\ \A c \in Clients : MergesInTurn(c) => MergesInTurn(c)'
           /\ \A c \in Desktop : CaptureCovers(c) => CaptureCovers(c)'
           /\ \A c \in Mobile : SameClient(c)
<1> DEFINE e == published + 1
<1>1. /\ ClientsTypeOK /\ published \in Nat /\ e \in Nat /\ CaptureCapacity \in Nat
  BY CapacityAssumption DEF TypeOK, ClientsTypeOK
<1>2. /\ published' = e /\ UNCHANGED <<cpc, next, replay, pending>>
      /\ live' = [c \in Clients |->
                     IF ~Captured(c) THEN live[c]
                     ELSE IF Overflows(c) THEN << >>
                     ELSE IF Len(live[c]) < CaptureCapacity THEN Append(live[c], e) ELSE live[c]]
      /\ overflowed' = [c \in Clients |-> overflowed[c] \/ (Captured(c) /\ Overflows(c))]
  BY DEF Publish
<1>3. \A c \in Clients : /\ live[c] \in Seq(Nat) /\ Append(live[c], e) \in Seq(Nat)
                         /\ InQueue(live[c]) \cup {e} \subseteq InQueue(Append(live[c], e))
  BY <1>1, OfferedIsInQueue DEF ClientsTypeOK
<1> HIDE DEF e
<1>4. ClientsTypeOK'
  <2>1. live' \in [Clients -> Seq(Nat)]
    BY <1>2, <1>3
  <2>2. overflowed' \in [Clients -> BOOLEAN]
    BY <1>1, <1>2 DEF ClientsTypeOK, Captured, Overflows
  <2> QED
    BY <1>1, <1>2, <2>1, <2>2 DEF ClientsTypeOK
<1>5. \A c \in Clients : MergesInTurn(c) => MergesInTurn(c)'
  BY <1>2 DEF MergesInTurn
<1>6. ASSUME NEW c \in Desktop, CaptureCovers(c), cpc[c] \in {"snapshotted", "streaming"},
             ~overflowed'[c]
      PROVE  next[c]..published' \subseteq Held(c)'
  <2>1. c \in Clients /\ ~overflowed[c] /\ ~(Captured(c) /\ Overflows(c))
    BY <1>2, <1>6 DEF Clients
  <2>2. Captured(c) /\ Len(live[c]) < CaptureCapacity
    BY <1>1, <1>3, <1>6, <2>1 DEF Captured, Overflows
  <2>3. live'[c] = Append(live[c], e)
    BY <1>2, <2>1, <2>2
  <2>4. Held(c) \cup {e} \subseteq Held(c)'
    <3>1. Held(c)' = replay[c] \cup InQueue(Append(live[c], e)) \cup pending[c]
      BY <1>2, <2>3 DEF Held, InQueue
    <3> QED
      BY <1>3, <2>1, <3>1, HeldIs
  <2>5. next[c]..published \subseteq Held(c)
    BY <1>6, <2>1 DEF CaptureCovers
  <2>6. ASSUME NEW s \in next[c]..published' PROVE s \in next[c]..published \cup {e}
    BY <1>1, <1>2, <2>1 DEF ClientsTypeOK, e
  <2> QED
    BY <2>4, <2>5, <2>6
<1>7. \A c \in Desktop : CaptureCovers(c) => CaptureCovers(c)'
  BY <1>2, <1>6 DEF CaptureCovers
<1>8. ASSUME NEW c \in Mobile PROVE SameClient(c)
  <2>1. c \in Clients /\ c \notin Desktop
    BY FollowersAssumption DEF Clients, Streams
  <2>2. ~Captured(c)
    BY <2>1 DEF Captured
  <2> QED
    BY <1>1, <1>2, <2>1, <2>2 DEF SameClient, ClientsTypeOK
<1> QED
  BY <1>4, <1>5, <1>7, <1>8

\* An event that a fork hands out is in the queue of its stream.
LEMMA EmitMoves ==
    ASSUME TypeOK, NEW r \in Streams, Emit(r)
    PROVE  /\ ClientsTypeOK' /\ published' = published
           /\ \A c \in Clients : MergesInTurn(c) => MergesInTurn(c)'
           /\ \A c \in Clients : c # r \/ c \notin Mobile => SameClient(c)
           /\ r \in Mobile => Held(r) \cup page[r] \subseteq Held(r)' \cup page'[r]
<1> DEFINE e == Min(page[r])
<1>1. ClientsTypeOK /\ ReadersTypeOK
  BY DEF TypeOK, ClientsTypeOK, ReadersTypeOK
<1>2. /\ page[r] # {} /\ page' = [page EXCEPT ![r] = @ \ {e}]
      /\ IF r \in Mobile THEN live' = [live EXCEPT ![r] = Append(live[r], e)] ELSE live' = live
      /\ UNCHANGED <<published, cpc, overflowed, next, replay, pending>>
  BY DEF Emit, worker
<1>3. page[r] \in SUBSET Nat /\ e \in Nat
  <2>1. page[r] \in SUBSET Nat
    BY <1>1 DEF ReadersTypeOK
  <2> QED
    BY <1>2, <2>1, MinProperties
<1> HIDE DEF e
<1>4. \A c \in Clients : MergesInTurn(c) => MergesInTurn(c)'
  BY <1>2 DEF MergesInTurn
<1>5. CASE r \notin Mobile
  BY <1>1, <1>2, <1>4, <1>5 DEF SameClient, ClientsTypeOK
<1>6. CASE r \in Mobile
  <2>1. r \in Clients /\ live[r] \in Seq(Nat)
    BY <1>1, <1>6 DEF Clients, ClientsTypeOK
  <2>2. /\ Append(live[r], e) \in Seq(Nat)
        /\ InQueue(live[r]) \cup {e} \subseteq InQueue(Append(live[r], e))
    BY <1>3, <2>1, OfferedIsInQueue
  <2>3. live'[r] = Append(live[r], e) /\ \A c \in Clients : c # r => live'[c] = live[c]
    BY <1>1, <1>2, <1>6, <2>1 DEF ClientsTypeOK
  <2>4. ClientsTypeOK'
    BY <1>1, <1>2, <1>6, <2>2 DEF ClientsTypeOK
  <2>5. \A c \in Clients : c # r => SameClient(c)
    BY <1>2, <2>3 DEF SameClient
  <2>6. page'[r] = page[r] \ {e}
    BY <1>1, <1>2 DEF ReadersTypeOK
  <2>7. Held(r)' = replay[r] \cup InQueue(Append(live[r], e)) \cup pending[r]
    BY <1>2, <2>3 DEF Held, InQueue
  <2>8. Held(r) \cup page[r] \subseteq Held(r)' \cup page'[r]
    BY <2>2, <2>6, <2>7, HeldIs
  <2> QED
    BY <1>2, <1>4, <1>6, <2>4, <2>5, <2>8
<1> QED
  BY <1>5, <1>6

LEMMA ClientsStep ==
    ASSUME TypeOK, InOrder, \A c \in Clients : MergesInTurn(c),
           \A c \in Desktop : CaptureCovers(c), [Next]_vars
    PROVE  /\ ClientsTypeOK' /\ \A c \in Clients : MergesInTurn(c)'
           /\ \A c \in Desktop : CaptureCovers(c)'
<1>1. ClientsTypeOK /\ Desktop \subseteq Clients
  BY DEF TypeOK, ClientsTypeOK, Clients
<1>2. CASE UNCHANGED clients /\ published' = published
  <2>1. \A c \in Clients : SameClient(c)
    BY <1>2 DEF clients, SameClient
  <2>2. ClientsTypeOK'
    BY <1>1, <1>2 DEF clients, ClientsTypeOK
  <2> QED
    BY <1>1, <1>2, <2>1, <2>2, SameIsKept
<1>3. CASE Publish
  BY <1>1, <1>3, PublishMoves
<1>4. ASSUME NEW r \in Streams, Emit(r)
      PROVE  /\ ClientsTypeOK' /\ \A c \in Clients : MergesInTurn(c)'
             /\ \A c \in Desktop : CaptureCovers(c)'
  <2>1. \A c \in Desktop : c \notin Mobile
    BY FollowersAssumption DEF Streams
  <2> QED
    BY <1>1, <1>4, <2>1, EmitMoves, SameIsKept
<1>5. ASSUME NEW c \in Clients, OpenLive(c) \/ Client(c) \/ Disconnect(c)
      PROVE  /\ ClientsTypeOK' /\ \A d \in Clients : MergesInTurn(d)'
             /\ \A d \in Desktop : CaptureCovers(d)'
  <2>1. /\ ClientsTypeOK' /\ published' = published
        /\ \A d \in Clients : d # c => SameClient(d)
        /\ MergesInTurn(c)' /\ (CaptureCovers(c) => CaptureCovers(c)')
    BY <1>5, ClientMoves
  <2>2. \A d \in Clients : MergesInTurn(d)'
    BY <2>1, SameIsKept
  <2>3. \A d \in Desktop : CaptureCovers(d)'
    BY <1>1, <2>1, SameIsKept
  <2> QED
    BY <2>1, <2>2, <2>3
<1> QED
  BY <1>2, <1>3, <1>4, <1>5, ClientsFrame

-----------------------------------------------------------------------------
(* A mobile stream and the general stream it forks                         *)

SameReader(r) ==
    /\ rpc'[r] = rpc[r] /\ cursor'[r] = cursor[r]
    /\ page'[r] = page[r] /\ openedAt'[r] = openedAt[r]

LEMMA SameForkIsKept ==
    ASSUME NEW c \in Mobile, SameClient(c), SameReader(c), ForkCovers(c),
           openedAt[c] \in Nat, installed \in Nat, installed' \in Nat, installed' >= installed
    PROVE  ForkCovers(c)'
<1>1. Held(c)' = Held(c) /\ FirstNeeded(c)' = FirstNeeded(c)
  BY DEF SameClient, SameReader, Held, FirstNeeded
<1>2. openedAt'[c] <= installed'
  BY DEF SameReader, ForkCovers
<1> QED
  BY <1>1, <1>2 DEF SameClient, SameReader, ForkCovers

\* A fork's own step: what it reads is in its page, what it hands out is in the queue.
LEMMA ForkReads ==
    ASSUME TypeOK, LogInv, InOrder, NEW c \in Mobile, PageFollowsCursor(c), ForkCovers(c),
           OpenStream(c) \/ Reader(c)
    PROVE  ForkCovers(c)'
<1>1. /\ ReadersTypeOK /\ ClientsTypeOK /\ c \in Streams /\ c \in Clients
      /\ installed \in Nat /\ Len(assigned) \in Nat
      /\ cursor[c] \in Nat /\ got[c] \in Nat /\ openedAt[c] \in Nat /\ next[c] \in Nat
  BY LogFacts DEF TypeOK, ReadersTypeOK, ClientsTypeOK, Streams, Clients
<1>2. /\ got[c] <= cursor[c] /\ cursor[c] <= Len(assigned)
      /\ page[c] = IF rpc[c] = "emitting" THEN (got[c] + 1)..cursor[c] ELSE {}
  BY DEF PageFollowsCursor
<1>3. /\ cpc[c] = "off" => rpc[c] = "off"
      /\ cpc[c] \in {"snapshotted", "streaming"} => rpc[c] # "off" /\ openedAt[c] < next[c]
      /\ openedAt[c] <= installed
      /\ cpc[c] \notin {"off", "dead"} /\ rpc[c] \notin {"off", "dead"} =>
            FirstNeeded(c)..cursor[c] \subseteq Held(c) \cup page[c]
  BY DEF ForkCovers
<1>4. CASE OpenStream(c)
  <2>1. /\ rpc[c] = "off" /\ cpc[c] # "off" /\ rpc' = [rpc EXCEPT ![c] = "opened"]
        /\ cursor' = [cursor EXCEPT ![c] = installed]
        /\ openedAt' = [openedAt EXCEPT ![c] = installed]
        /\ UNCHANGED <<installed, cpc, live, overflowed, next, replay, pending>>
    BY <1>4 DEF OpenStream, worker, clients
  <2>2. cpc[c] \notin {"snapshotted", "streaming"} /\ cpc' = cpc
    BY <1>3, <2>1
  <2>3. openedAt'[c] = installed /\ cursor'[c] = installed /\ installed' = installed
    BY <1>1, <2>1 DEF ReadersTypeOK
  <2>4. FirstNeeded(c)' = installed + 1 /\ (installed + 1)..installed = {}
    BY <1>1, <2>2, <2>3 DEF FirstNeeded
  <2> QED
    BY <1>1, <2>1, <2>2, <2>3, <2>4 DEF ForkCovers
<1>5. CASE Subscribe(c) \/ TakeWake(c) \/ PageDone(c)
  <2>1. /\ rpc[c] # "off" /\ rpc[c] # "dead"
        /\ \E p \in {"waiting", "reading"} : rpc' = [rpc EXCEPT ![c] = p]
        /\ UNCHANGED <<installed, cursor, page, openedAt, cpc, live, overflowed, next, replay,
                       pending>>
    BY <1>5 DEF Subscribe, TakeWake, PageDone, worker, clients
  <2>2. rpc'[c] \notin {"off", "dead"}
    BY <1>1, <2>1 DEF ReadersTypeOK
  <2>3. Held(c)' = Held(c) /\ FirstNeeded(c)' = FirstNeeded(c)
    BY <2>1 DEF Held, FirstNeeded
  <2> QED
    BY <1>3, <2>1, <2>2, <2>3 DEF ForkCovers
<1>6. CASE ReadPage(c)
  <2>1. /\ rpc[c] = "reading"
        /\ UNCHANGED <<installed, openedAt, cpc, live, overflowed, next, replay, pending>>
    BY <1>6 DEF ReadPage, worker, clients
  <2>2. page[c] = {} /\ cpc[c] # "off" /\ Held(c)' = Held(c) /\ FirstNeeded(c)' = FirstNeeded(c)
    BY <1>2, <1>3, <2>1 DEF Held, FirstNeeded
  <2>3. CASE rpc' = [rpc EXCEPT ![c] = "dead"]
    <3>1. rpc'[c] = "dead"
      BY <1>1, <2>3 DEF ReadersTypeOK
    <3> QED
      BY <1>3, <2>1, <2>2, <3>1 DEF ForkCovers
  <2>4. CASE /\ Available(cursor[c])
             /\ rpc' = [rpc EXCEPT ![c] = "emitting"]
             /\ page' = [page EXCEPT ![c] = Page(cursor[c])]
             /\ cursor' = [cursor EXCEPT ![c] = Max(Page(cursor[c]) \cup {cursor[c]})]
    <3> DEFINE m == Max(Page(cursor[c]) \cup {cursor[c]})
    <3>1. m \in cursor[c]..Len(assigned) /\ Page(cursor[c]) = (cursor[c] + 1)..m
      <4>1. cursor[c] \in 0..Len(assigned)
        BY <1>1, <1>2
      <4> QED
        BY <4>1, <2>4, PageLeads
    <3>2. rpc'[c] = "emitting" /\ page'[c] = (cursor[c] + 1)..m /\ cursor'[c] = m
      BY <1>1, <2>4, <3>1 DEF ReadersTypeOK
    <3> HIDE DEF m
    <3>3. ASSUME cpc[c] # "dead", NEW s \in FirstNeeded(c)..m
          PROVE  s \in Held(c) \cup page'[c]
      <4>1. FirstNeeded(c) \in Nat
        BY <1>1 DEF FirstNeeded
      <4>2. s \in FirstNeeded(c)..cursor[c] \/ s \in (cursor[c] + 1)..m
        BY <1>1, <3>1, <4>1
      <4> QED
        BY <1>3, <2>1, <2>2, <3>2, <3>3, <4>2
    <3> QED
      BY <1>3, <2>1, <2>2, <3>2, <3>3 DEF ForkCovers
  <2> QED
    BY <1>6, <2>3, <2>4 DEF ReadPage
<1>7. CASE Emit(c)
  <2>1. rpc[c] = "emitting" /\ UNCHANGED <<installed, rpc, cursor, openedAt, cpc, next>>
    BY <1>7 DEF Emit, worker
  <2>2. Held(c) \cup page[c] \subseteq Held(c)' \cup page'[c]
    BY <1>1, <1>7, EmitMoves
  <2>3. FirstNeeded(c)' = FirstNeeded(c)
    BY <2>1 DEF FirstNeeded
  <2> QED
    BY <1>3, <2>1, <2>2, <2>3 DEF ForkCovers
<1> QED
  BY <1>4, <1>5, <1>6, <1>7 DEF Reader

\* The stream's own step: its snapshot is not before its fork's cursor.
LEMMA ForkIsMerged ==
    ASSUME TypeOK, NEW c \in Mobile, MergesInTurn(c), ForkCovers(c),
           OpenLive(c) \/ Client(c) \/ Disconnect(c)
    PROVE  ForkCovers(c)'
<1>1. /\ ReadersTypeOK /\ ClientsTypeOK /\ c \in Streams /\ c \in Clients
      /\ installed \in Nat /\ cursor[c] \in Nat /\ openedAt[c] \in Nat /\ next[c] \in Nat
  BY DEF TypeOK, ReadersTypeOK, ClientsTypeOK, Streams, Clients
<1>2. cpc[c] # "streaming" => replay[c] = {} /\ pending[c] = {}
  BY DEF MergesInTurn
<1>3. /\ cpc[c] = "off" => rpc[c] = "off"
      /\ cpc[c] \in {"snapshotted", "streaming"} => rpc[c] # "off" /\ openedAt[c] < next[c]
      /\ openedAt[c] <= installed
      /\ cpc[c] \notin {"off", "dead"} /\ rpc[c] \notin {"off", "dead"} =>
            FirstNeeded(c)..cursor[c] \subseteq Held(c) \cup page[c]
  BY DEF ForkCovers
<1>4. CASE OpenLive(c)
  <2>1. /\ cpc[c] = "off" /\ cpc' = [cpc EXCEPT ![c] = "captured"]
        /\ UNCHANGED <<installed, rpc, openedAt>>
    BY <1>4 DEF OpenLive, worker, readers
  <2> QED
    BY <1>1, <1>3, <2>1 DEF ForkCovers, ClientsTypeOK
<1>5. CASE Snapshot(c)
  <2>1. /\ cpc[c] = "captured" /\ rpc[c] # "off" /\ cpc' = [cpc EXCEPT ![c] = "snapshotted"]
        /\ next' = [next EXCEPT ![c] = installed + 1]
        /\ UNCHANGED <<installed, rpc, cursor, page, openedAt, live, replay, pending>>
    BY <1>5 DEF Snapshot, worker, readers
  <2>2. cpc'[c] = "snapshotted" /\ next'[c] = installed + 1
    BY <1>1, <2>1 DEF ClientsTypeOK
  <2>3. Held(c)' = Held(c) /\ FirstNeeded(c)' = FirstNeeded(c)
    BY <2>1, <2>2 DEF Held, FirstNeeded
  <2> QED
    BY <1>1, <1>3, <2>1, <2>2, <2>3 DEF ForkCovers
<1>6. CASE End(c)
  <2>1. /\ cpc' = [cpc EXCEPT ![c] = "dead"]
        /\ rpc' = [r \in Streams |-> IF r = c THEN "dead" ELSE rpc[r]]
        /\ UNCHANGED <<installed, openedAt>>
    BY <1>6 DEF End, worker
  <2>2. cpc'[c] = "dead"
    BY <1>1, <2>1 DEF ClientsTypeOK
  <2> QED
    BY <1>3, <2>1, <2>2 DEF ForkCovers
<1>7. CASE ReadEvents(c) /\ ~End(c)
  <2>1. /\ cpc[c] = "snapshotted" /\ cpc' = [cpc EXCEPT ![c] = "streaming"]
        /\ UNCHANGED <<installed, rpc, cursor, page, openedAt, live, next, pending>>
    BY <1>7 DEF ReadEvents, worker, readers
  <2>2. cpc'[c] = "streaming" /\ replay[c] = {}
    BY <1>1, <1>2, <2>1 DEF ClientsTypeOK
  <2>3. Held(c) \subseteq Held(c)'
    BY <2>1, <2>2 DEF Held
  <2>4. FirstNeeded(c)' = next[c] /\ FirstNeeded(c) = openedAt[c] + 1
    BY <2>1, <2>2 DEF FirstNeeded
  <2>5. next[c]..cursor[c] \subseteq (openedAt[c] + 1)..cursor[c]
    BY <1>1, <1>3, <2>1
  <2> QED
    BY <1>3, <2>1, <2>2, <2>3, <2>4, <2>5 DEF ForkCovers
<1>8. CASE (MergeReplay(c) \/ MergeLive(c)) /\ ~End(c)
  <2>0. PICK m \in Nat, P \in SUBSET Nat, Q \in SUBSET Nat, L \in Seq(Nat) :
              MergesTo(c, m, P, Q, L)
    BY <1>1, <1>8, MergeMoves
  <2>1. /\ next' = [next EXCEPT ![c] = m] /\ pending' = [pending EXCEPT ![c] = P]
        /\ replay' = [replay EXCEPT ![c] = Q] /\ live' = [live EXCEPT ![c] = L]
        /\ IsFiniteSet(P) /\ m \notin P /\ next[c] <= m
        /\ \A s \in Held(c) : s >= m => s \in Q \cup InQueue(L) \cup P
        /\ cpc[c] = "streaming" /\ UNCHANGED <<logVars, worker, readers, cpc, overflowed>>
    BY <2>0 DEF MergesTo
  <2>2. /\ next'[c] = m /\ pending'[c] = P /\ replay'[c] = Q /\ live'[c] = L
        /\ UNCHANGED <<cpc, installed, rpc, cursor, page, openedAt>> /\ cpc[c] = "streaming"
    BY <1>1, <2>1 DEF ClientsTypeOK, worker, readers
  <2>3. Held(c)' = Q \cup InQueue(L) \cup P
    BY <2>2 DEF Held, InQueue
  <2>4. FirstNeeded(c)' = m /\ FirstNeeded(c) = next[c]
    BY <2>2 DEF FirstNeeded
  <2>5. ASSUME rpc[c] # "dead", NEW s \in m..cursor[c] PROVE s \in Held(c)' \cup page[c]
    <3>1. s \in next[c]..cursor[c] /\ s >= m
      BY <1>1, <2>1
    <3>2. s \in Held(c) \cup page[c]
      BY <1>3, <2>2, <2>4, <2>5, <3>1
    <3> QED
      BY <2>1, <2>3, <3>1, <3>2
  <2>6. openedAt[c] < m
    BY <1>1, <1>3, <2>1, <2>2
  <2> QED
    BY <1>3, <2>2, <2>4, <2>5, <2>6 DEF ForkCovers
<1>9. CASE DieOverflowed(c) \/ Disconnect(c)
  BY <1>6, <1>9 DEF DieOverflowed, Disconnect
<1> QED
  BY <1>4, <1>5, <1>6, <1>7, <1>8, <1>9 DEF Client

LEMMA ForksStep ==
    ASSUME DistributionInv, [Next]_vars
    PROVE  \A c \in Mobile : ForkCovers(c)'
<1> SUFFICES ASSUME NEW c \in Mobile PROVE ForkCovers(c)'
  OBVIOUS
<1>1. /\ TypeOK /\ LogInv /\ InOrder /\ ReadersTypeOK /\ ClientsTypeOK
      /\ c \in Streams /\ c \in Clients /\ openedAt[c] \in Nat
      /\ PageFollowsCursor(c) /\ MergesInTurn(c) /\ ForkCovers(c)
  BY DEF DistributionInv, InOrder, TypeOK, ReadersTypeOK, ClientsTypeOK, Streams, Clients
<1>2. installed \in Nat /\ installed' \in Nat /\ installed' >= installed
  BY <1>1, InOrderStep DEF TypeOK
<1>3. ASSUME SameClient(c), SameReader(c) PROVE ForkCovers(c)'
  BY <1>1, <1>2, <1>3, SameForkIsKept
<1>4. CASE UNCHANGED vars
  BY <1>3, <1>4 DEF vars, readers, clients, SameClient, SameReader
<1>5. CASE Maintenance
  BY <1>3, <1>5 DEF Maintenance, readers, clients, SameClient, SameReader
<1>6. CASE Worker
  <2>1. CASE Publish
    <3>1. SameReader(c)
      BY <2>1 DEF Publish, SameReader
    <3> QED
      BY <1>1, <1>3, <2>1, <3>1, PublishMoves
  <2>2. CASE ~Publish
    BY <1>3, <1>6, <2>2 DEF Worker, Commit, Install, readers, clients, SameClient, SameReader
  <2> QED
    BY <2>1, <2>2
<1>7. ASSUME NEW r \in Streams, OpenStream(r) \/ Reader(r) PROVE ForkCovers(c)'
  <2>1. CASE r = c
    BY <1>1, <1>7, <2>1, ForkReads
  <2>2. CASE r # c
    <3>1. SameReader(c)
      BY <1>1, <1>7, <2>2 DEF OpenStream, Reader, Subscribe, TakeWake, ReadPage, Emit, PageDone,
         SameReader, ReadersTypeOK
    <3>2. CASE Emit(r)
      BY <1>1, <1>3, <2>2, <3>1, <3>2, EmitMoves
    <3>3. CASE ~Emit(r)
      BY <1>3, <1>7, <3>1, <3>3 DEF OpenStream, Reader, Subscribe, TakeWake, ReadPage, PageDone,
         clients, SameClient
    <3> QED
      BY <3>2, <3>3
  <2> QED
    BY <2>1, <2>2
<1>8. ASSUME NEW d \in Clients, OpenLive(d) \/ Client(d) \/ Disconnect(d) PROVE ForkCovers(c)'
  <2>1. CASE d = c
    BY <1>1, <1>8, <2>1, ForkIsMerged
  <2>2. CASE d # c
    <3>1. SameClient(c)
      BY <1>1, <1>8, <2>2, ClientMoves DEF DistributionInv
    <3>2. UNCHANGED readers \/ End(d)
      BY <1>8 DEF OpenLive, Client, Disconnect, Snapshot, ReadEvents, MergeReplay, MergeLive,
         DieOverflowed
    <3>3. CASE UNCHANGED readers
      BY <1>3, <3>1, <3>3 DEF readers, SameReader
    <3>4. CASE End(d)
      BY <1>1, <1>3, <2>2, <3>1, <3>4 DEF End, SameReader, ReadersTypeOK
    <3> QED
      BY <3>2, <3>3, <3>4
  <2> QED
    BY <2>1, <2>2
<1> QED
  BY <1>4, <1>5, <1>6, <1>7, <1>8 DEF Next

-----------------------------------------------------------------------------
(* The invariant and what follows from it                                  *)

LEMMA DistributionInit == Init => DistributionInv
<1> SUFFICES ASSUME Init PROVE DistributionInv
  OBVIOUS
<1>1. LogInv /\ Len(assigned) = 0
  BY LogInvInit DEF Init, LogInit
<1>2. TypeOK
  BY <1>1 DEF Init, TypeOK, LogInv
<1>3. \A r \in Streams : PageFollowsCursor(r)
  BY <1>1 DEF Init, PageFollowsCursor
<1>4. \A c \in Clients : MergesInTurn(c)
  BY FS_EmptySet DEF Init, MergesInTurn
<1>5. \A c \in Desktop : CaptureCovers(c)
  BY DEF Init, CaptureCovers, Clients
<1>6. \A c \in Mobile : ForkCovers(c)
  BY DEF Init, ForkCovers, Clients, Streams
<1> QED
  BY <1>1, <1>2, <1>3, <1>4, <1>5, <1>6 DEF Init, DistributionInv

LEMMA DistributionStep == DistributionInv /\ [Next]_vars => DistributionInv'
<1> SUFFICES ASSUME DistributionInv, [Next]_vars PROVE DistributionInv'
  OBVIOUS
<1>1. /\ TypeOK /\ LogInv /\ InOrder /\ \A r \in Streams : PageFollowsCursor(r)
      /\ \A c \in Clients : MergesInTurn(c) /\ \A d \in Desktop : CaptureCovers(d)
  BY DEF DistributionInv, InOrder
<1>2. LogInv' /\ LogTypeOK'
  BY <1>1, LogStep DEF LogInv
<1>3. installed' \in Nat /\ published' \in Nat /\ InOrder'
  BY <1>1, InOrderStep
<1>4. ReadersTypeOK' /\ \A r \in Streams : PageFollowsCursor(r)'
  BY <1>1, ReadersStep
<1>5. /\ ClientsTypeOK' /\ \A c \in Clients : MergesInTurn(c)'
      /\ \A c \in Desktop : CaptureCovers(c)'
  BY <1>1, ClientsStep DEF DistributionInv
<1>6. TypeOK'
  BY <1>2, <1>3, <1>4, <1>5 DEF TypeOK, ReadersTypeOK, ClientsTypeOK
<1> QED
  BY <1>2, <1>3, <1>4, <1>5, <1>6, ForksStep DEF DistributionInv, InOrder

LEMMA DistributionHolds == Spec => []DistributionInv
  BY DistributionInit, DistributionStep, PTL DEF Spec

\* Followers, captures and disconnections change nothing of what the log does by itself ...
THEOREM FollowersKeepTheLog == Spec => LogSpec
<1>1. Init => LogInit
  BY DEF Init
<1>2. [Next]_vars => [LogNext]_logVars
  <2> SUFFICES ASSUME [Next]_vars PROVE LogNext \/ UNCHANGED logVars
    OBVIOUS
  <2>1. ASSUME NEW t \in Threads, NEW n \in 1..MaxAppend, NEW D \in SUBSET Threads, Commit(t, n, D)
        PROVE  LogNext
    BY <2>1 DEF Commit, LogNext
  <2>2. CASE Maintenance
    BY <2>2 DEF Maintenance, LogNext, Maintain
  <2> QED
    BY <2>1, <2>2, LogFrame
<1> QED
  BY <1>1, <1>2, PTL DEF Spec, LogSpec

\* ... so every promise of the log holds while it is followed: numbers are given out once,
\* readReplay is exact and what is missing is covered by a baseline.
THEOREM FollowedLogKeepsItsPromises ==
    Spec => []NumbersNeverReused /\ []ReplayIsExact /\ []MissingIsCovered
  BY FollowersKeepTheLog, NumbersAreNeverReused, ReplayAnswersAreExact, MissingEventsAreCovered, PTL

\* A general stream hands its consumer every event after its cursor, once and in order: a
\* page starts where the last one ended, and a stream that cannot be sure of that dies.
THEOREM ReactorsGoStepByStep == Spec => StepByStep
<1>1. DistributionInv /\ [Next]_vars =>
        [\A r \in Streams : rpc[r] # "off" => got'[r] \in {got[r], got[r] + 1}]_vars
  <2> SUFFICES ASSUME DistributionInv, [Next]_vars
               PROVE  \A r \in Streams : rpc[r] # "off" => got'[r] \in {got[r], got[r] + 1}
    OBVIOUS
  <2> QED
    BY ReadersStep DEF DistributionInv, InOrder
<1> QED
  BY <1>1, DistributionHolds, PTL DEF Spec, StepByStep

\* An ordered stream, over a capture or over a fork, has no hole: what it has not emitted
\* is in its hands or on its way, and what waits is out of turn.
THEOREM StreamsHaveNoHoles == Spec => []StreamInv
<1>1. DistributionInv => StreamInv
  <2> SUFFICES ASSUME DistributionInv PROVE NothingMissing
    BY DEF DistributionInv, StreamInv
  <2> SUFFICES ASSUME NEW c \in Clients,
                      cpc[c] = "streaming", ~overflowed[c], c \in Mobile => rpc[c] # "dead",
                      NEW s \in next[c]..published
               PROVE  s \in Reachable(c)
    BY DEF DistributionInv, MergesInTurn, NothingMissing
  <2>1. CASE c \in Desktop
    BY <2>1 DEF DistributionInv, CaptureCovers, Reachable
  <2>2. CASE c \in Mobile
    <3>1. /\ next[c] \in Nat /\ cursor[c] \in Nat /\ published \in Nat
      BY <2>2 DEF DistributionInv, TypeOK, Streams
    <3>2. next[c]..cursor[c] \subseteq Held(c) \cup page[c]
      BY <2>2 DEF DistributionInv, ForkCovers, FirstNeeded
    <3>3. CASE s <= cursor[c]
      BY <2>2, <3>1, <3>2, <3>3 DEF Reachable
    <3>4. CASE s > cursor[c]
      <4>1. s # 0
        BY <3>1, <3>4
      <4> QED
        BY <2>2, <3>1, <3>4, <4>1 DEF Reachable
    <3> QED
      BY <3>1, <3>3, <3>4
  <2> QED
    BY <2>1, <2>2 DEF Clients
<1> QED
  BY <1>1, DistributionHolds, PTL
=============================================================================
