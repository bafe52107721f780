-------------------- MODULE KeyedCoalescingWorkerProofs --------------------
(***************************************************************************)
(* Proofs for KeyedCoalescingWorker: values are conserved in order, a key  *)
(* is queued at most once, and a drained key is done, for every set of     *)
(* keys, drainers and number of enqueues.                                  *)
(***************************************************************************)
EXTENDS KeyedCoalescingWorker, SequenceTheorems, TLAPS

\* SomeKey, the fiber's key before it has taken one, is a key.
LEMMA SomeKeyType == SomeKey \in Keys
  BY KeysAssumption DEF SomeKey

\* The initial state satisfies the inductive invariant.
LEMMA IndInit == Init => IndInv
<1> SUFFICES ASSUME Init PROVE IndInv
  OBVIOUS
<1>1. TypeOK
  BY SomeKeyType DEF Init, TypeOK, NoDrain
<1>2. Conserved
  <2>1. 1..0 = {}
    OBVIOUS
  <2>2. \A k \in Keys : attempted[k] = {} /\ InHand(k) = {} /\ latestByKey[k] = {} /\ enqueued[k] = 0
    BY DEF Init, InHand
  <2> QED
    BY <2>1, <2>2 DEF Conserved
<1>3. QueuedOnce /\ FiberHolds /\ QueuedIsReachable /\ WaitingIsQueued
  BY DEF Init, QueuedOnce, FiberHolds, QueuedIsReachable, WaitingIsQueued
<1>4. DrainAsked /\ DrainMeansDone
  BY SomeKeyType DEF Init, DrainAsked, DrainMeansDone, NoDrain
<1> QED
  BY <1>1, <1>2, <1>3, <1>4 DEF IndInv

\* Every step keeps the types.
LEMMA TypeStep == TypeOK /\ [Next]_vars => TypeOK'
<1> SUFFICES ASSUME TypeOK, [Next]_vars PROVE TypeOK'
  OBVIOUS
<1> USE DEF TypeOK
<1>1. ASSUME NEW k \in Keys, Enqueue(k) PROVE TypeOK'
  <2>1. enqueued[k] \in Nat /\ enqueued[k] + 1 \in Nat
    OBVIOUS
  <2>2. enqueued' \in [Keys -> Nat]
    BY <1>1, <2>1 DEF Enqueue
  <2>3. latestByKey[k] \cup {enqueued[k] + 1} \in SUBSET Nat
    BY <2>1
  <2>4. latestByKey' \in [Keys -> SUBSET Nat]
    BY <1>1, <2>3 DEF Enqueue
  <2>5. queuedKeys' \in SUBSET Keys /\ queue' \in Seq(Keys)
    <3>1. Append(queue, k) \in Seq(Keys) /\ queuedKeys \cup {k} \in SUBSET Keys
      OBVIOUS
    <3> QED
      BY <1>1, <3>1 DEF Enqueue
  <2>6. UNCHANGED <<activeKeys, pc, key, value, attempted, drain>>
    BY <1>1 DEF Enqueue, fiber
  <2> QED
    BY <2>2, <2>4, <2>5, <2>6
<1>2. ASSUME NEW d \in Drainers, NEW k \in Keys, DrainKey(d, k) PROVE TypeOK'
  BY <1>2 DEF DrainKey, fiber, state
<1>3. ASSUME NEW d \in Drainers, DrainResolves(d) PROVE TypeOK'
  BY <1>3 DEF DrainResolves, fiber, state
<1>4. CASE TakeKey
  <2>1. Head(queue) \in Keys /\ Tail(queue) \in Seq(Keys)
    BY <1>4 DEF TakeKey
  <2> QED
    BY <1>4, <2>1 DEF TakeKey, state
<1>5. CASE ClaimKey
  BY <1>5 DEF ClaimKey
<1>6. CASE ProcessSucceeds \/ ProcessFails
  <2>1. /\ pc' \in {"settle", "cleanup"} /\ value' = {}
        /\ attempted' = [attempted EXCEPT ![key] = @ \cup value]
        /\ UNCHANGED <<latestByKey, queuedKeys, activeKeys, queue, key, enqueued, drain>>
    BY <1>6 DEF ProcessSucceeds, ProcessFails, ProcessEnds, state
  <2>2. attempted[key] \cup value \in SUBSET Nat
    OBVIOUS
  <2>3. attempted' \in [Keys -> SUBSET Nat]
    BY <2>1, <2>2
  <2> QED
    BY <2>1, <2>3
<1>7. CASE SettleKey
  <2>1. CASE latestByKey[key] = {}
    BY <1>7, <2>1 DEF SettleKey
  <2>2. CASE latestByKey[key] # {}
    <3>1. latestByKey' \in [Keys -> SUBSET Nat] /\ value' \in SUBSET Nat /\ value' # {}
      BY <1>7, <2>2 DEF SettleKey
    <3>2. pc' = "process" /\ UNCHANGED <<queuedKeys, activeKeys, queue, key, enqueued, attempted, drain>>
      BY <1>7, <2>2 DEF SettleKey
    <3> QED
      BY <3>1, <3>2
  <2> QED
    BY <2>1, <2>2
<1>8. CASE CleanupFailedKey
  BY <1>8 DEF CleanupFailedKey
<1>9. CASE Requeue
  BY <1>9 DEF Requeue, state
<1>10. CASE UNCHANGED vars
  BY <1>10 DEF vars, state, fiber
<1> QED
  BY <1>1, <1>2, <1>3, <1>4, <1>5, <1>6, <1>7, <1>8, <1>9, <1>10 DEF Next, Fiber

\* Every variable keeps its type, and process is never called without a value, for every
\* set of keys, drainers and number of enqueues.
THEOREM TypeCorrect == Spec => []TypeOK
<1>1. Init => TypeOK
  BY IndInit DEF IndInv
<1> QED
  BY <1>1, TypeStep, PTL DEF Spec

\* A key appended to a duplicate-free queue it is not on leaves it duplicate-free.
LEMMA AppendKey ==
  ASSUME NEW q \in Seq(Keys), NEW k \in Keys
  PROVE  /\ Append(q, k) \in Seq(Keys)
         /\ Len(Append(q, k)) = Len(q) + 1
         /\ \A n \in 1..Len(q) : Append(q, k)[n] = q[n]
         /\ Append(q, k)[Len(q) + 1] = k
  OBVIOUS

\* What taking the head of the queue leaves.
LEMMA TailKey ==
  ASSUME NEW q \in Seq(Keys), q # << >>
  PROVE  /\ Head(q) = q[1]
         /\ Len(q) \in Nat \ {0}
         /\ Len(Tail(q)) = Len(q) - 1
         /\ \A n \in 1..(Len(q) - 1) : Tail(q)[n] = q[n + 1]
  OBVIOUS

Waiting == QueuedOnce /\ FiberHolds /\ QueuedIsReachable /\ WaitingIsQueued

\* Every step keeps the queue, the key sets and the fiber in agreement.
LEMMA WaitingStep == TypeOK /\ Waiting /\ [Next]_vars => Waiting'
<1> SUFFICES ASSUME TypeOK, Waiting, [Next]_vars PROVE Waiting'
  OBVIOUS
<1> USE DEF TypeOK, Waiting, QueuedOnce, FiberHolds, QueuedIsReachable, WaitingIsQueued
<1>1. ASSUME NEW k \in Keys, Enqueue(k) PROVE Waiting'
  <2> latestByKey'[k] # {} /\ \A j \in Keys \ {k} : latestByKey'[j] = latestByKey[j]
    BY <1>1 DEF Enqueue
  <2>1. CASE k \in queuedKeys \cup activeKeys
    BY <1>1, <2>1 DEF Enqueue, fiber
  <2>2. CASE k \notin queuedKeys \cup activeKeys
    <3>1. /\ queue' = Append(queue, k) /\ queuedKeys' = queuedKeys \cup {k}
          /\ UNCHANGED <<activeKeys, pc, key>>
      BY <1>1, <2>2 DEF Enqueue, fiber
    <3>2. /\ Len(queue') = Len(queue) + 1 /\ queue'[Len(queue) + 1] = k
          /\ \A n \in 1..Len(queue) : queue'[n] = queue[n]
      BY <3>1, AppendKey
    <3>3. \A n \in 1..Len(queue) : queue[n] # k
      BY <2>2
    <3>4. QueuedOnce'
      BY <2>2, <3>1, <3>2, <3>3
    <3>5. FiberHolds'
      BY <2>2, <3>1, <3>2
    <3>6. QueuedIsReachable'
      <4> SUFFICES ASSUME NEW j \in queuedKeys'
                   PROVE  (\E n \in 1..Len(queue') : queue'[n] = j) \/
                          (pc' \in {"claim", "requeue"} /\ key' = j)
        OBVIOUS
      <4>1. CASE j = k
        <5>1. Len(queue) + 1 \in 1..Len(queue')
          BY <3>2
        <5> QED
          BY <3>2, <4>1, <5>1
      <4>2. CASE j \in queuedKeys
        BY <3>1, <3>2, <4>2
      <4> QED
        BY <3>1, <4>1, <4>2
    <3>7. WaitingIsQueued'
      BY <2>2, <3>1
    <3> QED
      BY <3>4, <3>5, <3>6, <3>7
  <2> QED
    BY <2>1, <2>2
<1>2. ASSUME NEW d \in Drainers, NEW k \in Keys, DrainKey(d, k) PROVE Waiting'
  BY <1>2 DEF DrainKey, fiber, state
<1>3. ASSUME NEW d \in Drainers, DrainResolves(d) PROVE Waiting'
  BY <1>3 DEF DrainResolves, fiber, state
<1>4. CASE TakeKey
  <2>1. /\ key' = queue[1] /\ pc = "take" /\ pc' = "claim"
        /\ Len(queue) \in Nat \ {0} /\ Len(queue') = Len(queue) - 1
        /\ \A n \in 1..(Len(queue) - 1) : queue'[n] = queue[n + 1]
        /\ UNCHANGED <<latestByKey, queuedKeys, activeKeys>>
    BY <1>4, TailKey DEF TakeKey, state
  <2>2. \A n \in 1..Len(queue') : n + 1 \in 1..Len(queue) /\ queue'[n] = queue[n + 1]
    <3>1. Len(queue) \in Nat /\ 1..Len(queue') = 1..(Len(queue) - 1)
      BY <2>1
    <3>2. \A n \in 1..(Len(queue) - 1) : n + 1 \in 1..Len(queue)
      BY <3>1
    <3> QED
      BY <2>1, <3>1, <3>2
  <2>3. QueuedOnce'
    <3>1. ASSUME NEW m \in 1..Len(queue'), NEW n \in 1..Len(queue'), queue'[m] = queue'[n]
          PROVE  m = n
      <4>1. m + 1 \in 1..Len(queue) /\ n + 1 \in 1..Len(queue) /\ queue[m + 1] = queue[n + 1]
        BY <2>2, <3>1
      <4>2. m + 1 = n + 1
        BY <4>1
      <4>3. m \in Int /\ n \in Int
        OBVIOUS
      <4> QED
        BY <4>2, <4>3
    <3>2. \A n \in 1..Len(queue') : queue'[n] \in queuedKeys' \ activeKeys'
      BY <2>1, <2>2
    <3> QED
      BY <3>1, <3>2
  <2>4. FiberHolds'
    BY <2>1, <2>2
  <2>5. QueuedIsReachable'
    <3> SUFFICES ASSUME NEW j \in queuedKeys, j # key'
                 PROVE  \E n \in 1..Len(queue') : queue'[n] = j
      BY <2>1
    <3>1. PICK n \in 1..Len(queue) : queue[n] = j
      BY <2>1
    <3>2. n # 1
      BY <2>1, <3>1
    <3>3. n - 1 \in 1..Len(queue') /\ queue'[n - 1] = j
      BY <2>1, <3>1, <3>2
    <3> QED
      BY <3>3
  <2> QED
    BY <2>1, <2>3, <2>4, <2>5
<1>5. CASE ClaimKey
  BY <1>5 DEF ClaimKey
<1>6. CASE ProcessSucceeds \/ ProcessFails
  BY <1>6 DEF ProcessSucceeds, ProcessFails, ProcessEnds, state
<1>7. CASE SettleKey
  BY <1>7 DEF SettleKey
<1>8. CASE CleanupFailedKey
  <2>1. /\ queue' = queue /\ key' = key /\ latestByKey' = latestByKey
        /\ pc = "cleanup" /\ activeKeys = {key} /\ activeKeys' = {}
    BY <1>8 DEF CleanupFailedKey
  <2>2. CASE latestByKey[key] # {} /\ key \notin queuedKeys
    <3>1. pc' = "requeue" /\ queuedKeys' = queuedKeys \cup {key}
      BY <1>8, <2>2 DEF CleanupFailedKey
    <3>2. QueuedOnce' /\ FiberHolds'
      BY <2>1, <2>2, <3>1
    <3>3. QueuedIsReachable' /\ WaitingIsQueued'
      BY <2>1, <2>2, <3>1
    <3> QED
      BY <3>2, <3>3
  <2>3. CASE ~(latestByKey[key] # {} /\ key \notin queuedKeys)
    <3>1. pc' = "take" /\ queuedKeys' = queuedKeys
      BY <1>8, <2>3 DEF CleanupFailedKey
    <3>2. QueuedOnce' /\ FiberHolds'
      BY <2>1, <3>1
    <3>3. QueuedIsReachable' /\ WaitingIsQueued'
      BY <2>1, <2>3, <3>1
    <3> QED
      BY <3>2, <3>3
  <2> QED
    BY <2>2, <2>3
<1>9. CASE Requeue
  <2>1. /\ queue' = Append(queue, key) /\ pc = "requeue" /\ pc' = "take"
        /\ UNCHANGED <<latestByKey, queuedKeys, activeKeys, key>>
    BY <1>9 DEF Requeue, state
  <2>2. /\ Len(queue') = Len(queue) + 1 /\ queue'[Len(queue) + 1] = key
        /\ \A n \in 1..Len(queue) : queue'[n] = queue[n]
    BY <2>1, AppendKey
  <2>3. QueuedOnce'
    BY <2>1, <2>2
  <2>4. QueuedIsReachable'
    BY <2>1, <2>2
  <2> QED
    BY <2>1, <2>2, <2>3, <2>4
<1>10. CASE UNCHANGED vars
  BY <1>10 DEF vars, state, fiber
<1> QED
  BY <1>1, <1>2, <1>3, <1>4, <1>5, <1>6, <1>7, <1>8, <1>9, <1>10 DEF Next, Fiber

\* Every step conserves the values of every key and their order.
LEMMA ConservedStep == TypeOK /\ Waiting /\ Conserved /\ [Next]_vars => Conserved'
<1> SUFFICES ASSUME TypeOK, Waiting, Conserved, [Next]_vars PROVE Conserved'
  OBVIOUS
<1> USE DEF TypeOK, Conserved, InHand
<1>1. ASSUME NEW k \in Keys, Enqueue(k) PROVE Conserved'
  <2> SUFFICES ASSUME NEW j \in Keys
               PROVE  /\ attempted'[j] \cup InHand(j)' \cup latestByKey'[j] = 1..enqueued'[j]
                      /\ \A a \in attempted'[j], b \in InHand(j)' : a < b
                      /\ \A a \in attempted'[j] \cup InHand(j)', b \in latestByKey'[j] : a < b
    OBVIOUS
  <2>1. attempted'[j] = attempted[j] /\ InHand(j)' = InHand(j)
    BY <1>1 DEF Enqueue, fiber
  <2>2. CASE j # k
    BY <1>1, <2>1, <2>2 DEF Enqueue
  <2>3. CASE j = k
    <3>1. /\ enqueued'[j] = enqueued[j] + 1
          /\ latestByKey'[j] = latestByKey[j] \cup {enqueued[j] + 1}
      BY <1>1, <2>3 DEF Enqueue
    <3> QED
      BY <2>1, <3>1
  <2> QED
    BY <2>2, <2>3
<1>2. ASSUME NEW d \in Drainers, NEW k \in Keys, DrainKey(d, k) PROVE Conserved'
  BY <1>2 DEF DrainKey, fiber, state
<1>3. ASSUME NEW d \in Drainers, DrainResolves(d) PROVE Conserved'
  BY <1>3 DEF DrainResolves, fiber, state
<1>4. CASE TakeKey
  BY <1>4 DEF TakeKey, state
<1>5. CASE ClaimKey
  BY <1>5 DEF ClaimKey
<1>6. CASE ProcessSucceeds \/ ProcessFails
  BY <1>6 DEF ProcessSucceeds, ProcessFails, ProcessEnds, state
<1>7. CASE SettleKey
  BY <1>7 DEF SettleKey
<1>8. CASE CleanupFailedKey
  BY <1>8 DEF CleanupFailedKey
<1>9. CASE Requeue
  BY <1>9 DEF Requeue, state
<1>10. CASE UNCHANGED vars
  BY <1>10 DEF vars, state, fiber
<1> QED
  BY <1>1, <1>2, <1>3, <1>4, <1>5, <1>6, <1>7, <1>8, <1>9, <1>10 DEF Next, Fiber


\* What has been attempted stays attempted and what was enqueued stays enqueued.
LEMMA Monotone ==
  TypeOK /\ [Next]_vars =>
     \A k \in Keys : attempted[k] \subseteq attempted'[k] /\ enqueued[k] <= enqueued'[k]
<1> SUFFICES ASSUME TypeOK, [Next]_vars, NEW k \in Keys
             PROVE  attempted[k] \subseteq attempted'[k] /\ enqueued[k] <= enqueued'[k]
  OBVIOUS
<1>1. CASE \E j \in Keys : Enqueue(j)
  <2>1. enqueued[k] \in Nat /\ (enqueued'[k] = enqueued[k] \/ enqueued'[k] = enqueued[k] + 1)
    BY <1>1 DEF TypeOK, Enqueue
  <2>2. PICK m : m = enqueued'[k] /\ (m = enqueued[k] \/ m = enqueued[k] + 1)
    BY <2>1
  <2>3. enqueued[k] <= m
    BY <2>1, <2>2
  <2>4. attempted' = attempted
    BY <1>1 DEF Enqueue
  <2> QED
    BY <2>2, <2>3, <2>4
<1>2. CASE ProcessSucceeds \/ ProcessFails
  <2>1. attempted[k] \subseteq attempted'[k] /\ enqueued' = enqueued
    <3>1. /\ attempted' = [attempted EXCEPT ![key] = attempted[key] \cup value]
          /\ enqueued' = enqueued
      BY <1>2 DEF ProcessSucceeds, ProcessFails, ProcessEnds
    <3>2. attempted'[k] = attempted[k] \/ attempted'[k] = attempted[k] \cup value
      BY <3>1 DEF TypeOK
    <3> QED
      BY <3>1, <3>2
  <2>2. enqueued[k] <= enqueued[k]
    BY DEF TypeOK
  <2> QED
    BY <2>1, <2>2
<1>3. CASE UNCHANGED <<attempted, enqueued>>
  <2>1. enqueued[k] <= enqueued[k]
    BY DEF TypeOK
  <2> QED
    BY <1>3, <2>1
<1> QED
  BY <1>1, <1>2, <1>3 DEF Next, Fiber, DrainKey, DrainResolves, TakeKey, ClaimKey, SettleKey,
     CleanupFailedKey, Requeue, vars

\* A drainer returns only when nothing it asked for is left.
LEMMA DrainStep ==
  /\ TypeOK /\ Waiting /\ Conserved /\ DrainAsked /\ DrainMeansDone
  /\ [Next]_vars
  => DrainAsked' /\ DrainMeansDone'
<1> SUFFICES ASSUME TypeOK, Waiting, Conserved, DrainAsked, DrainMeansDone, [Next]_vars
             PROVE  DrainAsked' /\ DrainMeansDone'
  OBVIOUS
<1> USE DEF TypeOK
<1>1. CASE UNCHANGED drain
  <2>1. ASSUME NEW d \in Drainers PROVE drain'[d].upTo <= enqueued'[drain'[d].key]
    <3> DEFINE k == drain[d].key
    <3>1. k \in Keys /\ drain[d].upTo \in Nat /\ drain[d].upTo <= enqueued[k] /\ enqueued[k] \in Nat
      BY DEF DrainAsked
    <3>2. enqueued[k] <= enqueued'[k] /\ enqueued'[k] \in Nat
      BY <3>1, Monotone, TypeStep
    <3>3. PICK m \in Nat : m = enqueued'[k]
      BY <3>2
    <3>4. drain[d].upTo <= m
      BY <3>1, <3>2, <3>3
    <3> QED
      BY <1>1, <3>3, <3>4
  <2> QED
    BY <1>1, <2>1, Monotone DEF DrainAsked, DrainMeansDone
<1>2. ASSUME NEW d \in Drainers, NEW k \in Keys, DrainKey(d, k)
      PROVE  DrainAsked' /\ DrainMeansDone'
  BY <1>2 DEF DrainKey, DrainAsked, DrainMeansDone
<1>3. ASSUME NEW d \in Drainers, DrainResolves(d) PROVE DrainAsked' /\ DrainMeansDone'
  <2> DEFINE k == drain[d].key
  <2>1. k \in Keys /\ latestByKey[k] = {} /\ k \notin activeKeys
    BY <1>3 DEF DrainResolves, Drained
  <2>2. InHand(k) = {}
    BY <2>1 DEF InHand, Waiting, FiberHolds
  <2>3. attempted[k] = 1..enqueued[k]
    BY <2>1, <2>2 DEF Conserved
  <2>4. drain[d].upTo \in Nat /\ enqueued[k] \in Nat /\ drain[d].upTo <= enqueued[k]
    BY <2>1 DEF DrainAsked
  <2>5. 1..drain[d].upTo \subseteq attempted[k]
    BY <2>3, <2>4
  <2> QED
    BY <1>3, <2>5 DEF DrainResolves, DrainAsked, DrainMeansDone
<1> QED
  BY <1>1, <1>2, <1>3 DEF Next, Fiber, Enqueue, TakeKey, ClaimKey, ProcessSucceeds,
     ProcessFails, ProcessEnds, SettleKey, CleanupFailedKey, Requeue, vars

\* The inductive invariant holds in every reachable state.
LEMMA Inductive == Spec => []IndInv
<1>1. IndInv /\ [Next]_vars => IndInv'
  BY TypeStep, WaitingStep, ConservedStep, DrainStep DEF IndInv, Waiting
<1> QED
  BY IndInit, <1>1, PTL DEF Spec

\* Values of a key are conserved in order whatever interleaves and fails: Conserved, for
\* any number of keys, drainers and enqueues.
THEOREM ValuesConserved == Spec => []Conserved
<1>1. IndInv => Conserved
  BY DEF IndInv
<1> QED
  BY Inductive, <1>1, PTL

\* A key is on the queue at most once and never while active: QueuedOnce in general.
THEOREM KeysQueuedOnce == Spec => []QueuedOnce
<1>1. IndInv => QueuedOnce
  BY DEF IndInv
<1> QED
  BY Inductive, <1>1, PTL

\* drainKey returns only when all it waits for has been attempted: DrainMeansDone.
THEOREM DrainedIsDone == Spec => []DrainMeansDone
<1>1. IndInv => DrainMeansDone
  BY DEF IndInv
<1> QED
  BY Inductive, <1>1, PTL
=============================================================================
