------------------------------ MODULE EventLog ------------------------------
(***************************************************************************)
(* The canonical event log in SQLite and what shortens it: projection      *)
(* baselines are verified, the history of deleted threads is pruned and    *)
(* leaves gaps, and the covered prefix is compacted batch by batch.        *)
(* readReplay tells a reader either exactly what follows its cursor or     *)
(* that the answer has a gap.                                              *)
(*                                                                         *)
(* An event is its sequence number; its payload plays no part.             *)
(***************************************************************************)
EXTENDS FiniteSetsExt, Sequences

CONSTANTS
    Threads,
    PageSize,      \* the limit of one readReplay
    CompactBatch,  \* rows one compaction deletes at most
    MaxLog,        \* bound: events ever appended
    MaxAppend      \* bound: events of one command

ASSUME ThreadsAssumption == Threads # {}
ASSUME SizesAssumption ==
    /\ PageSize \in Nat \ {0} /\ CompactBatch \in Nat \ {0}
    /\ MaxLog \in Nat /\ MaxAppend \in Nat

VARIABLES
    assigned,       \* history: number and thread of every event ever appended
    rows,           \* orchestration_events: the numbers present
    gaps,           \* orchestration_event_gaps
    retained,       \* retained_through_sequence
    compactThrough, \* compact_through_sequence
    verified,       \* sequence of the latest verified baseline; 0 before the first
    deletedAt,      \* orchestration_deletion_markers.deletion_sequence; 0 without a row
    coveredBy       \* covered_by_baseline_sequence; 0 for NULL

logVars == <<assigned, rows, gaps, retained, compactThrough, verified, deletedAt, coveredBy>>

LogTypeOK ==
    /\ assigned \in Seq([seq : Nat, thread : Threads])
    /\ rows \in SUBSET Nat /\ gaps \in SUBSET Nat
    /\ retained \in Nat /\ compactThrough \in Nat /\ verified \in Nat
    /\ deletedAt \in [Threads -> Nat] /\ coveredBy \in [Threads -> Nat]
    /\ \A u \in Threads : deletedAt[u] = 0 => coveredBy[u] = 0   \* columns of one row

LogInit ==
    /\ assigned = << >> /\ rows = {} /\ gaps = {}
    /\ retained = 0 /\ compactThrough = 0 /\ verified = 0
    /\ deletedAt = [t \in Threads |-> 0] /\ coveredBy = [t \in Threads |-> 0]

-----------------------------------------------------------------------------
(* Reading                                                                 *)

Larger(a, b) == IF a >= b THEN a ELSE b

\* Mutant: the numbers of pruned events are forgotten.
FrontierOfRows == Max({0, retained} \cup rows)

\* orchestrationSequenceFrontierSql: the highest number ever given out.
Frontier == Max({0, retained} \cup rows \cup gaps)

\* The first k elements of a set of numbers (ORDER BY sequence ASC LIMIT k).
FirstOf(S, k) == {s \in S : Cardinality({r \in S : r <= s}) <= k}

RowsAfter(from) == FirstOf({s \in rows : s > from}, PageSize)

GapsAfter(from) == {g \in gaps : g > Larger(from, retained) /\ g <= Frontier}

\* inferredRetainedThrough
InferredRetained == IF rows = {} THEN retained ELSE Larger(retained, Min(rows) - 1)

\* retainedFromSequenceExclusive
RetainedFrom(from) == Max({InferredRetained} \cup GapsAfter(from))

HasInternalGap(from) ==
    \E s \in RowsAfter(from) :
       s - 1 \notin RowsAfter(from) \cup {Larger(from, RetainedFrom(from))}

\* Mutant: gaps are only noticed inside the page.
AvailableWithinPage(from) == from >= InferredRetained /\ ~HasInternalGap(from)

\* readReplay: availability = "available".
Available(from) ==
    from >= RetainedFrom(from) /\ GapsAfter(from) = {} /\ ~HasInternalGap(from)

\* readReplay: the events of the answer and whether it reaches the frontier.
Page(from) == IF Available(from) THEN RowsAfter(from) ELSE {}
Complete(from) == Available(from) /\ Max(Page(from) \cup {from}) >= Frontier

-----------------------------------------------------------------------------
(* Writing: each action is one transaction                                 *)

\* append, n times for thread t; the last event deletes the threads D (thread.deleted).
AppendEvents(t, n, D) ==
    /\ Len(assigned) + n <= MaxLog
    /\ D # {} => t \in D
    /\ LET new == (Frontier + 1)..(Frontier + n) IN
       /\ assigned' = assigned \o [k \in 1..n |-> [seq |-> Frontier + k, thread |-> t]]
       /\ rows' = rows \cup new
       /\ deletedAt' = [u \in Threads |-> IF u \in D THEN Frontier + n ELSE deletedAt[u]]
       /\ coveredBy' = [u \in Threads |-> IF u \in D THEN 0 ELSE coveredBy[u]]
    /\ UNCHANGED <<gaps, retained, compactThrough, verified>>

\* markVerified: a candidate taken when the frontier was s has passed verification.
MarkVerified(s) ==
    /\ verified < s /\ s <= Frontier
    /\ verified' = s
    /\ coveredBy' = [u \in Threads |->
                        IF deletedAt[u] # 0 /\ deletedAt[u] <= s /\ coveredBy[u] < s
                        THEN s ELSE coveredBy[u]]
    /\ compactThrough' = Larger(compactThrough, s)
    /\ UNCHANGED <<assigned, rows, gaps, retained, deletedAt>>

\* The threads deleted by the same event as t.
Subtree(t) == {u \in Threads : deletedAt[u] = deletedAt[t]}

RowsOf(T) == {s \in rows : \E k \in DOMAIN assigned :
                              assigned[k].seq = s /\ assigned[k].thread \in T}

\* Mutant: only the deletion itself has to be covered.
PurgeProofOfDeletion(t) ==
    /\ deletedAt[t] # 0
    /\ \A u \in Subtree(t) : coveredBy[u] # 0 /\ coveredBy[u] = verified
    /\ deletedAt[t] <= coveredBy[t]

\* verifyCanonicalPurgeProof: the whole subtree is covered by the verified baseline,
\* later events of a thread created again under a deleted ID included.  (A receipt with a
\* later result can make the code wait longer; receipts are not part of this module.)
PurgeProof(t) ==
    /\ deletedAt[t] # 0
    /\ \A u \in Subtree(t) : coveredBy[u] # 0 /\ coveredBy[u] = verified
    /\ deletedAt[t] <= coveredBy[t]
    /\ \A s \in RowsOf(Subtree(t)) : s <= coveredBy[t]

\* deleteProvenThreadCanonical: the subtree's rows become gaps, its markers go.
PruneThread(t) ==
    /\ PurgeProof(t)
    /\ gaps' = gaps \cup RowsOf(Subtree(t))
    /\ rows' = rows \ RowsOf(Subtree(t))
    /\ deletedAt' = [u \in Threads |-> IF u \in Subtree(t) THEN 0 ELSE deletedAt[u]]
    /\ coveredBy' = [u \in Threads |-> IF u \in Subtree(t) THEN 0 ELSE coveredBy[u]]
    /\ UNCHANGED <<assigned, retained, compactThrough, verified>>

Compactable == {s \in rows : retained < s /\ s <= compactThrough /\ s <= verified}

\* compactVerifiedPrefix: the oldest covered rows are deleted, a batch at a time.
CompactPrefix ==
    /\ Compactable # {}
    /\ LET last == Max(FirstOf(Compactable, CompactBatch)) IN
       /\ rows' = {s \in rows : s <= retained \/ s > last}
       /\ retained' = last
    /\ UNCHANGED <<assigned, gaps, compactThrough, verified, deletedAt, coveredBy>>

\* compactVerifiedPrefix with nothing left to delete: the gaps of the prefix go too.
CompactDone ==
    /\ Compactable = {} /\ retained < compactThrough
    /\ retained' = compactThrough
    /\ gaps' = {g \in gaps : g > compactThrough}
    /\ UNCHANGED <<assigned, rows, compactThrough, verified, deletedAt, coveredBy>>

-----------------------------------------------------------------------------
Maintain ==
    \/ \E s \in 1..MaxLog : MarkVerified(s)
    \/ \E t \in Threads : PruneThread(t)
    \/ CompactPrefix \/ CompactDone

LogNext ==
    \/ \E t \in Threads, n \in 1..MaxAppend, D \in SUBSET Threads : AppendEvents(t, n, D)
    \/ Maintain

LogSpec == LogInit /\ [][LogNext]_logVars

-----------------------------------------------------------------------------
(* Properties                                                              *)

\* A sequence number is given out once: neither pruning the newest events nor compacting
\* everything makes the frontier fall back, so cursors of clients never alias new events.
NumbersNeverReused == \A k \in DOMAIN assigned : assigned[k].seq = k

\* readReplay tells the truth about the rest of the log for every cursor: it answers
\* "available" exactly when nothing after the cursor is missing, and then with the next
\* events without a hole; an empty page means the cursor is at the end.
ReplayIsExact ==
    \A from \in 0..Len(assigned) :
       LET n == Len(assigned) IN
       /\ Available(from) <=> (from + 1)..n \subseteq rows
       /\ Available(from) =>
             /\ Page(from) = (from + 1)..(IF from + PageSize <= n THEN from + PageSize ELSE n)
             /\ Complete(from) <=> from + PageSize >= n

\* Nothing leaves the log before a verified projection baseline covers it, whatever
\* deletions, re-creations under the same ID and compactions overlap.
MissingIsCovered == (1..Len(assigned)) \ rows \subseteq 1..verified

-----------------------------------------------------------------------------
(* The inductive invariant                                                 *)

\* Every number given out is a row, a gap or in the compacted prefix.
Accounted ==
    /\ rows \subseteq (retained + 1)..Len(assigned)
    /\ gaps \subseteq 1..Len(assigned)
    /\ rows \cap gaps = {}
    /\ 1..Len(assigned) \subseteq rows \cup gaps \cup 1..retained
    /\ retained <= compactThrough /\ compactThrough <= verified /\ verified <= Len(assigned)
    /\ gaps \subseteq 1..verified

LogInv == LogTypeOK /\ NumbersNeverReused /\ Accounted
=============================================================================
