----------------------- MODULE KeyedCoalescingWorker -----------------------
(***************************************************************************)
(* The keyed coalescing worker of packages/shared, behind terminal output, *)
(* terminal history files and remote-agent maintenance: one fiber processes*)
(* the latest merged value of a key at a time, enqueues for a queued or    *)
(* active key are merged into the value that waits, and drainKey waits     *)
(* until a key has nothing queued, waiting or active.                      *)
(*                                                                         *)
(* The n-th value enqueued for a key is the ticket n; a merged value is    *)
(* the set of the tickets merged into it.                                  *)
(***************************************************************************)
EXTENDS Integers, Sequences

CONSTANTS
    Keys,
    Drainers,      \* callers of drainKey
    MaxEnqueues    \* bound: values enqueued for one key

ASSUME KeysAssumption == Keys # {}
ASSUME EnqueuesAssumption == MaxEnqueues \in Nat

VARIABLES
    latestByKey,   \* key -> the value that waits; {} when the map has no entry
    queuedKeys,
    activeKeys,
    queue,         \* the TxQueue of keys
    pc,            \* where the worker fiber is
    key,           \* the key it works on
    value,         \* the value it is processing
    enqueued,      \* key -> values enqueued so far
    attempted,     \* key -> tickets whose processing has ended, well or not
    drain          \* what each drainer asked for

state == <<latestByKey, queuedKeys, activeKeys>>
fiber == <<pc, key, value>>
vars == <<state, queue, fiber, enqueued, attempted, drain>>

SomeKey == CHOOSE k \in Keys : TRUE
NoDrain == [status |-> "none", key |-> SomeKey, upTo |-> 0]

TypeOK ==
    /\ latestByKey \in [Keys -> SUBSET Nat]
    /\ queuedKeys \in SUBSET Keys
    /\ activeKeys \in SUBSET Keys
    /\ queue \in Seq(Keys)
    /\ pc \in {"take", "claim", "process", "settle", "cleanup", "requeue"}
    /\ key \in Keys
    /\ value \in SUBSET Nat
    /\ pc = "process" => value # {}     \* process is called with a value
    /\ enqueued \in [Keys -> Nat]
    /\ attempted \in [Keys -> SUBSET Nat]
    /\ drain \in [Drainers -> [status : {"none", "waiting", "done"}, key : Keys, upTo : Nat]]

Init ==
    /\ latestByKey = [k \in Keys |-> {}]
    /\ queuedKeys = {} /\ activeKeys = {}
    /\ queue = << >>
    /\ pc = "take" /\ key = SomeKey /\ value = {}
    /\ enqueued = [k \in Keys |-> 0]
    /\ attempted = [k \in Keys |-> {}]
    /\ drain = [d \in Drainers |-> NoDrain]

-----------------------------------------------------------------------------
(* Callers                                                                 *)

\* enqueue: merge, and queue the key unless it is queued or active; one transaction.
Enqueue(k) ==
    /\ enqueued[k] < MaxEnqueues
    /\ enqueued' = [enqueued EXCEPT ![k] = @ + 1]
    /\ latestByKey' = [latestByKey EXCEPT ![k] = @ \cup {enqueued[k] + 1}]
    /\ IF k \in queuedKeys \cup activeKeys
       THEN UNCHANGED <<queuedKeys, queue>>
       ELSE queuedKeys' = queuedKeys \cup {k} /\ queue' = Append(queue, k)
    /\ UNCHANGED <<activeKeys, fiber, attempted, drain>>

\* drainKey is called: it may have to wait.
DrainKey(d, k) ==
    /\ drain[d].status = "none"
    /\ drain' = [drain EXCEPT ![d] = [status |-> "waiting", key |-> k, upTo |-> enqueued[k]]]
    /\ UNCHANGED <<state, queue, fiber, enqueued, attempted>>

\* Mutant: a key that is only active does not hold the drainer back.
DrainedIgnoringActive(k) == latestByKey[k] = {} /\ k \notin queuedKeys

Drained(k) == latestByKey[k] = {} /\ k \notin queuedKeys /\ k \notin activeKeys

\* Its transaction finds nothing queued, waiting or active, and it returns.
DrainResolves(d) ==
    /\ drain[d].status = "waiting" /\ Drained(drain[d].key)
    /\ drain' = [drain EXCEPT ![d].status = "done"]
    /\ UNCHANGED <<state, queue, fiber, enqueued, attempted>>

-----------------------------------------------------------------------------
(* The fiber                                                               *)

TakeKey ==
    /\ pc = "take" /\ queue # << >>
    /\ key' = Head(queue) /\ queue' = Tail(queue) /\ pc' = "claim"
    /\ UNCHANGED <<state, value, enqueued, attempted, drain>>

\* Mutant: the claimed value is not removed from the map.
ClaimKeyKeepsValue ==
    /\ pc = "claim" /\ latestByKey[key] # {}
    /\ queuedKeys' = queuedKeys \ {key}
    /\ value' = latestByKey[key]
    /\ pc' = "process" /\ activeKeys' = activeKeys \cup {key}
    /\ UNCHANGED <<latestByKey, queue, key, enqueued, attempted, drain>>

\* The transaction after take: the waiting value, if any, becomes the active one.
ClaimKey ==
    /\ pc = "claim"
    /\ queuedKeys' = queuedKeys \ {key}
    /\ value' = latestByKey[key]
    /\ latestByKey' = [latestByKey EXCEPT ![key] = {}]
    /\ IF latestByKey[key] = {}
       THEN pc' = "take" /\ UNCHANGED activeKeys
       ELSE pc' = "process" /\ activeKeys' = activeKeys \cup {key}
    /\ UNCHANGED <<queue, key, enqueued, attempted, drain>>

\* options.process ends.
ProcessEnds(next) ==
    /\ pc = "process" /\ pc' = next
    /\ attempted' = [attempted EXCEPT ![key] = @ \cup value] /\ value' = {}
    /\ UNCHANGED <<state, queue, key, enqueued, drain>>

ProcessSucceeds == ProcessEnds("settle")
ProcessFails == ProcessEnds("cleanup")

\* Mutant: what was merged during the processing is not looked at.
SettleKeyAlways ==
    /\ pc = "settle"
    /\ pc' = "take" /\ activeKeys' = activeKeys \ {key}
    /\ UNCHANGED <<latestByKey, queuedKeys, queue, key, value, enqueued, attempted, drain>>

\* processKey after success: go on with what was merged meanwhile, or deactivate.
SettleKey ==
    /\ pc = "settle"
    /\ IF latestByKey[key] = {}
       THEN /\ pc' = "take" /\ activeKeys' = activeKeys \ {key}
            /\ UNCHANGED <<latestByKey, value>>
       ELSE /\ pc' = "process" /\ value' = latestByKey[key]
            /\ latestByKey' = [latestByKey EXCEPT ![key] = {}]
            /\ UNCHANGED activeKeys
    /\ UNCHANGED <<queuedKeys, queue, key, enqueued, attempted, drain>>

\* Mutant: a failed key is deactivated and its newer value left behind.
CleanupFailedKeyForgets ==
    /\ pc = "cleanup" /\ pc' = "take"
    /\ activeKeys' = activeKeys \ {key}
    /\ UNCHANGED <<latestByKey, queuedKeys, queue, key, value, enqueued, attempted, drain>>

\* cleanupFailedKey: deactivate; a newer value puts the key back on the queue, but the
\* offer is a transaction of its own.
CleanupFailedKey ==
    /\ pc = "cleanup"
    /\ activeKeys' = activeKeys \ {key}
    /\ IF latestByKey[key] # {} /\ key \notin queuedKeys
       THEN pc' = "requeue" /\ queuedKeys' = queuedKeys \cup {key}
       ELSE pc' = "take" /\ UNCHANGED queuedKeys
    /\ UNCHANGED <<latestByKey, queue, key, value, enqueued, attempted, drain>>

Requeue ==
    /\ pc = "requeue" /\ pc' = "take"
    /\ queue' = Append(queue, key)
    /\ UNCHANGED <<state, key, value, enqueued, attempted, drain>>

-----------------------------------------------------------------------------
Fiber ==
    \/ TakeKey \/ ClaimKey \/ ProcessSucceeds \/ ProcessFails
    \/ SettleKey \/ CleanupFailedKey \/ Requeue

Next ==
    \/ \E k \in Keys : Enqueue(k)
    \/ \E d \in Drainers, k \in Keys : DrainKey(d, k)
    \/ \E d \in Drainers : DrainResolves(d)
    \/ Fiber

\* The forked fiber keeps running and process ends; a retried transaction is woken up.
Fairness == WF_vars(Fiber) /\ \A d \in Drainers : WF_vars(DrainResolves(d))

Spec == Init /\ [][Next]_vars
FairSpec == Spec /\ Fairness

-----------------------------------------------------------------------------
(* Properties                                                              *)

\* What the fiber holds of a key.
InHand(k) == IF pc = "process" /\ key = k THEN value ELSE {}

\* Nothing is lost, repeated or reordered: the values of a key are exactly those attempted,
\* then those in hand, then those that wait, each enqueued before the next.
Conserved ==
    \A k \in Keys :
       /\ attempted[k] \cup InHand(k) \cup latestByKey[k] = 1..enqueued[k]
       /\ \A a \in attempted[k], b \in InHand(k) : a < b
       /\ \A a \in attempted[k] \cup InHand(k), b \in latestByKey[k] : a < b

\* Coalescing: a key is on the queue at most once, and never while it is being processed.
QueuedOnce ==
    /\ \A m, n \in 1..Len(queue) : queue[m] = queue[n] => m = n
    /\ \A n \in 1..Len(queue) : queue[n] \in queuedKeys \ activeKeys

\* When drainKey returns, every value enqueued for the key before the call has been
\* attempted: a history file is written before the terminal is closed.
DrainMeansDone ==
    \A d \in Drainers :
       drain[d].status = "done" => 1..drain[d].upTo \subseteq attempted[drain[d].key]

\* Every enqueued value is attempted, also when the processing before it fails.
EveryValueAttempted ==
    \A k \in Keys : \A n \in 1..MaxEnqueues : enqueued[k] >= n ~> n \in attempted[k]

\* drainKey returns once callers stop enqueueing.
DrainReturns == \A d \in Drainers : drain[d].status = "waiting" ~> drain[d].status = "done"

-----------------------------------------------------------------------------
(* The inductive invariant                                                 *)

\* Where the fiber stands with its key.
FiberHolds ==
    /\ activeKeys = IF pc \in {"process", "settle", "cleanup"} THEN {key} ELSE {}
    /\ pc \in {"claim", "requeue"} => key \in queuedKeys
    /\ pc \in {"claim", "requeue"} => \A n \in 1..Len(queue) : queue[n] # key

\* A queued key is on the queue or on its way between the fiber and the queue.
QueuedIsReachable ==
    \A k \in queuedKeys :
       (\E n \in 1..Len(queue) : queue[n] = k) \/ (pc \in {"claim", "requeue"} /\ key = k)

\* A key waits for the fiber exactly when it has a value and is not active.
WaitingIsQueued ==
    \A k \in Keys : k \in queuedKeys <=> (latestByKey[k] # {} /\ k \notin activeKeys)

\* A drainer asked for values that had been enqueued.
DrainAsked == \A d \in Drainers : drain[d].upTo <= enqueued[drain[d].key]

IndInv ==
    /\ TypeOK /\ Conserved /\ QueuedOnce /\ FiberHolds /\ QueuedIsReachable
    /\ WaitingIsQueued /\ DrainAsked /\ DrainMeansDone
=============================================================================
