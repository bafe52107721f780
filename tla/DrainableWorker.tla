-------------------------- MODULE DrainableWorker --------------------------
(***************************************************************************)
(* The drainable worker behind the command reactor, runtime ingestion and  *)
(* the checkpoint reactor: an unbounded queue, one loop that processes an  *)
(* item at a time, a count of the items not yet finished, and drain, which *)
(* waits for that count to be 0.  Queue and count are transactional; an    *)
(* enqueue is one transaction, while taking an item and counting it down   *)
(* are two.  An item whose processing fails is counted down and ends the   *)
(* loop; the workers of the server are given processes that cannot fail.   *)
(***************************************************************************)
EXTENDS Integers, Sequences, FiniteSets

CONSTANTS
    Items,    \* the items enqueued, each once
    Failing,  \* those whose processing fails
    Drains,   \* the calls of drain
    NoItem

ASSUME WorkerAssumption ==
    /\ Failing \subseteq Items
    /\ NoItem \notin Items

VARIABLES
    queue,        \* TxQueue
    outstanding,  \* TxRef
    busy,         \* the item in process
    alive,        \* the loop is running
    enqueued,     \* items enqueued so far
    finished,     \* items whose processing has ended
    drain,        \* where each call of drain stands
    before        \* what was enqueued when it was called

vars == <<queue, outstanding, busy, alive, enqueued, finished, drain, before>>

Init ==
    /\ queue = <<>>
    /\ outstanding = 0
    /\ busy = NoItem
    /\ alive = TRUE
    /\ enqueued = {}
    /\ finished = {}
    /\ drain = [d \in Drains |-> "idle"]
    /\ before = [d \in Drains |-> {}]

Enqueue(i) ==
    /\ i \notin enqueued
    /\ queue' = Append(queue, i)
    /\ outstanding' = outstanding + 1
    /\ enqueued' = enqueued \cup {i}
    /\ UNCHANGED <<busy, alive, finished, drain, before>>

Take ==
    /\ alive /\ busy = NoItem /\ queue # <<>>
    /\ busy' = Head(queue)
    /\ queue' = Tail(queue)
    /\ UNCHANGED <<outstanding, alive, enqueued, finished, drain, before>>

\* Mutant: a finished item stays counted.
FinishUncounted ==
    /\ busy # NoItem
    /\ busy' = NoItem
    /\ finished' = finished \cup {busy}
    /\ alive' = (busy \notin Failing)
    /\ UNCHANGED <<queue, outstanding, enqueued, drain, before>>

\* process, and the count that is ensured whatever its outcome.
Finish ==
    /\ busy # NoItem
    /\ busy' = NoItem
    /\ finished' = finished \cup {busy}
    /\ outstanding' = outstanding - 1
    /\ alive' = (busy \notin Failing)
    /\ UNCHANGED <<queue, enqueued, drain, before>>

CallDrain(d) ==
    /\ drain[d] = "idle"
    /\ drain' = [drain EXCEPT ![d] = "waiting"]
    /\ before' = [before EXCEPT ![d] = enqueued]
    /\ UNCHANGED <<queue, outstanding, busy, alive, enqueued, finished>>

\* Mutant: a drain looks at the queue instead of the count.
DrainReturnsEmpty(d) ==
    /\ drain[d] = "waiting" /\ queue = <<>>
    /\ drain' = [drain EXCEPT ![d] = "returned"]
    /\ UNCHANGED <<queue, outstanding, busy, alive, enqueued, finished, before>>

DrainReturns(d) ==
    /\ drain[d] = "waiting" /\ outstanding <= 0
    /\ drain' = [drain EXCEPT ![d] = "returned"]
    /\ UNCHANGED <<queue, outstanding, busy, alive, enqueued, finished, before>>

Next ==
    \/ \E i \in Items : Enqueue(i)
    \/ Take \/ Finish
    \/ \E d \in Drains : CallDrain(d) \/ DrainReturns(d)

Spec == Init /\ [][Next]_vars

FairSpec ==
    /\ Spec
    /\ WF_vars(Take \/ Finish)
    /\ \A d \in Drains : WF_vars(DrainReturns(d))

-----------------------------------------------------------------------------
InQueue(i) == \E n \in DOMAIN queue : queue[n] = i

\* Every value is of its kind; the count never goes below 0.
TypeOK ==
    /\ queue \in Seq(Items)
    /\ outstanding \in Nat
    /\ busy \in Items \cup {NoItem}
    /\ alive \in BOOLEAN
    /\ enqueued \subseteq Items /\ finished \subseteq Items
    /\ drain \in [Drains -> {"idle", "waiting", "returned"}]
    /\ before \in [Drains -> SUBSET Items]

\* The count is the number of items in the queue and in process, between
\* the steps of the worker and after a failure has ended it.
CountIsExact ==
    outstanding = Len(queue) + (IF busy = NoItem THEN 0 ELSE 1)

\* A drain returns only when everything enqueued before it was called has
\* been processed: "the queue is empty and the current item has finished".
DrainSeesAll ==
    \A d \in Drains : drain[d] = "returned" => before[d] \subseteq finished

\* Every drain returns when the enqueues come to an end, unless an item has failed: a
\* failure ends the loop, and what is left in the queue then keeps drains waiting.
DrainEnds ==
    \A d \in Drains : drain[d] = "waiting" ~> (drain[d] = "returned" \/ ~alive)
=============================================================================
