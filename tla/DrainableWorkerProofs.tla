----------------------- MODULE DrainableWorkerProofs -----------------------
(***************************************************************************)
(* The count of the drainable worker is exact and a drain that returned    *)
(* has seen everything enqueued before it, for any items, failing or not,  *)
(* and any number of drains.                                               *)
(***************************************************************************)
EXTENDS DrainableWorker, TLAPS

\* An enqueued item is in the queue, in process or finished.
Accounted ==
    \A i \in enqueued : i \in finished \/ i = busy \/ InQueue(i)

\* What a drain has to wait for was enqueued.
BeforeEnqueued == \A d \in Drains : before[d] \subseteq enqueued

IndInv == TypeOK /\ CountIsExact /\ Accounted /\ BeforeEnqueued /\ DrainSeesAll

-----------------------------------------------------------------------------
\* An item appended to a queue is in it, and so is what was there before.
LEMMA AppendKeeps ==
    ASSUME NEW S, NEW s \in Seq(S), NEW e \in S
    PROVE  /\ Append(s, e) \in Seq(S)
           /\ Len(Append(s, e)) = Len(s) + 1
           /\ \A n \in DOMAIN s : n \in DOMAIN Append(s, e) /\ Append(s, e)[n] = s[n]
           /\ Len(s) + 1 \in DOMAIN Append(s, e)
           /\ Append(s, e)[Len(s) + 1] = e
    OBVIOUS

\* What was in a queue is its head or in its tail.
LEMMA TailKeeps ==
    ASSUME NEW S, NEW s \in Seq(S), s # <<>>
    PROVE  /\ Head(s) \in S
           /\ Tail(s) \in Seq(S)
           /\ Len(Tail(s)) = Len(s) - 1
           /\ Len(s) >= 1
           /\ \A n \in DOMAIN s : n = 1 \/ (n - 1 \in DOMAIN Tail(s) /\ Tail(s)[n - 1] = s[n])
    OBVIOUS

LEMMA InitIndInv == Init => IndInv
  <1> SUFFICES ASSUME Init PROVE IndInv
    OBVIOUS
  <1>1. << >> \in Seq(Items) /\ Len(<< >>) = 0
    OBVIOUS
  <1>2. TypeOK
    BY <1>1 DEF Init, TypeOK
  <1>3. CountIsExact
    BY <1>1 DEF Init, CountIsExact
  <1>4. Accounted /\ BeforeEnqueued /\ DrainSeesAll
    BY DEF Init, Accounted, BeforeEnqueued, DrainSeesAll
  <1> QED
    BY <1>2, <1>3, <1>4 DEF IndInv

LEMMA EnqueueIndInv ==
    ASSUME IndInv, NEW i \in Items, Enqueue(i) PROVE IndInv'
  <1> USE DEF Enqueue
  <1>0. queue \in Seq(Items) /\ outstanding \in Nat
    BY DEF IndInv, TypeOK
  <1>1. /\ queue' \in Seq(Items)
        /\ Len(queue') = Len(queue) + 1
        /\ \A n \in DOMAIN queue : n \in DOMAIN queue' /\ queue'[n] = queue[n]
        /\ Len(queue) + 1 \in DOMAIN queue'
        /\ queue'[Len(queue) + 1] = i
    BY <1>0, AppendKeeps
  <1>2. TypeOK'
    BY <1>0, <1>1 DEF IndInv, TypeOK
  <1>3. CountIsExact'
    BY <1>0, <1>1 DEF IndInv, CountIsExact
  <1>4. Accounted'
    <2> SUFFICES ASSUME NEW j \in enqueued'
                 PROVE  j \in finished' \/ j = busy' \/ InQueue(j)'
      BY DEF Accounted
    <2>1. CASE j = i
      BY <2>1, <1>1 DEF InQueue
    <2>2. CASE j # i
      <3>1. j \in enqueued
        BY <2>2
      <3>2. j \in finished \/ j = busy \/ InQueue(j)
        BY <3>1 DEF IndInv, Accounted
      <3>3. CASE InQueue(j)
        BY <3>3, <1>1 DEF InQueue
      <3> QED
        BY <3>2, <3>3
    <2> QED
      BY <2>1, <2>2
  <1>5. BeforeEnqueued' /\ DrainSeesAll'
    BY DEF IndInv, BeforeEnqueued, DrainSeesAll
  <1> QED
    BY <1>2, <1>3, <1>4, <1>5 DEF IndInv

LEMMA TakeIndInv ==
    ASSUME IndInv, Take PROVE IndInv'
  <1> USE DEF Take
  <1>0. queue \in Seq(Items) /\ outstanding \in Nat
    BY DEF IndInv, TypeOK
  <1>1. /\ busy' \in Items
        /\ queue' \in Seq(Items)
        /\ Len(queue') = Len(queue) - 1
        /\ Len(queue) >= 1
        /\ \A n \in DOMAIN queue :
              n = 1 \/ (n - 1 \in DOMAIN queue' /\ queue'[n - 1] = queue[n])
    BY <1>0, TailKeeps
  <1>2. TypeOK'
    BY <1>0, <1>1 DEF IndInv, TypeOK
  <1>3. CountIsExact'
    <2>1. busy' # NoItem /\ Len(queue) \in Nat
      BY <1>0, <1>1, WorkerAssumption
    <2> QED
      BY <2>1, <1>0, <1>1 DEF IndInv, CountIsExact
  <1>4. Accounted'
    <2> SUFFICES ASSUME NEW j \in enqueued
                 PROVE  j \in finished \/ j = busy' \/ InQueue(j)'
      BY DEF Accounted
    <2>1. j \in finished \/ j = busy \/ InQueue(j)
      BY DEF IndInv, Accounted
    <2>2. busy = NoItem /\ j \in Items
      BY DEF IndInv, TypeOK
    <2>3. CASE InQueue(j)
      <3>1. PICK n \in DOMAIN queue : queue[n] = j
        BY <2>3 DEF InQueue
      <3>2. CASE n = 1
        BY <3>1, <3>2, <1>0 DEF InQueue
      <3>3. CASE n # 1
        BY <3>1, <3>3, <1>1 DEF InQueue
      <3> QED
        BY <3>2, <3>3
    <2> QED
      BY <2>1, <2>2, <2>3, WorkerAssumption
  <1>5. BeforeEnqueued' /\ DrainSeesAll'
    BY DEF IndInv, BeforeEnqueued, DrainSeesAll
  <1> QED
    BY <1>2, <1>3, <1>4, <1>5 DEF IndInv

LEMMA FinishIndInv ==
    ASSUME IndInv, Finish PROVE IndInv'
  <1> USE DEF Finish
  <1>0. /\ queue \in Seq(Items) /\ outstanding \in Nat
        /\ busy \in Items
        /\ Len(queue) \in Nat
        /\ outstanding = Len(queue) + 1
    BY DEF IndInv, TypeOK, CountIsExact
  <1>1. TypeOK'
    BY <1>0 DEF IndInv, TypeOK
  <1>2. CountIsExact'
    BY <1>0 DEF CountIsExact
  <1>3. Accounted'
    BY DEF IndInv, Accounted, InQueue
  <1>4. BeforeEnqueued' /\ DrainSeesAll'
    BY DEF IndInv, BeforeEnqueued, DrainSeesAll
  <1> QED
    BY <1>1, <1>2, <1>3, <1>4 DEF IndInv

LEMMA DrainIndInv ==
    ASSUME IndInv, NEW d \in Drains, CallDrain(d) \/ DrainReturns(d) PROVE IndInv'
  <1>0. UNCHANGED <<queue, outstanding, busy, alive, enqueued, finished>>
    BY DEF CallDrain, DrainReturns
  <1>1. TypeOK'
    BY <1>0 DEF IndInv, TypeOK, CallDrain, DrainReturns
  <1>2. CountIsExact' /\ Accounted'
    BY <1>0 DEF IndInv, CountIsExact, Accounted, InQueue
  <1>3. BeforeEnqueued'
    BY <1>0 DEF IndInv, TypeOK, BeforeEnqueued, CallDrain, DrainReturns
  <1>4. DrainSeesAll'
    <2>1. CASE CallDrain(d)
      BY <2>1, <1>0 DEF IndInv, TypeOK, DrainSeesAll, CallDrain
    <2>2. CASE DrainReturns(d)
      <3>1. queue \in Seq(Items) /\ Len(queue) \in Nat /\ outstanding \in Nat
        BY DEF IndInv, TypeOK
      <3>2. outstanding = 0
        BY <2>2, <3>1 DEF DrainReturns
      <3>3. busy = NoItem /\ Len(queue) = 0
        BY <3>1, <3>2 DEF IndInv, CountIsExact
      <3>4. \A j \in enqueued : ~InQueue(j) /\ j # NoItem
        BY <3>1, <3>3, WorkerAssumption DEF InQueue, IndInv, TypeOK
      <3>5. enqueued \subseteq finished
        BY <3>3, <3>4 DEF IndInv, Accounted
      <3>6. \A e \in Drains : before[e] \subseteq finished
        BY <3>5 DEF IndInv, BeforeEnqueued
      <3> QED
        BY <2>2, <3>6, <1>0 DEF DrainSeesAll, DrainReturns
    <2> QED
      BY <2>1, <2>2
  <1> QED
    BY <1>1, <1>2, <1>3, <1>4 DEF IndInv

\* The induction: every step of the worker, its callers and the drains keeps
\* the invariant.
THEOREM Invariance == Spec => []IndInv
  <1>1. IndInv /\ [Next]_vars => IndInv'
    <2> SUFFICES ASSUME IndInv, [Next]_vars PROVE IndInv'
      OBVIOUS
    <2>1. CASE \E i \in Items : Enqueue(i)
      BY <2>1, EnqueueIndInv
    <2>2. CASE Take
      BY <2>2, TakeIndInv
    <2>3. CASE Finish
      BY <2>3, FinishIndInv
    <2>4. CASE \E d \in Drains : CallDrain(d) \/ DrainReturns(d)
      BY <2>4, DrainIndInv
    <2>5. CASE UNCHANGED vars
      BY <2>5 DEF vars, IndInv, TypeOK, CountIsExact, Accounted, BeforeEnqueued,
                  DrainSeesAll, InQueue
    <2> QED
      BY <2>1, <2>2, <2>3, <2>4, <2>5 DEF Next
  <1> QED
    BY InitIndInv, <1>1, PTL DEF Spec

\* The values keep their kinds and the count is never negative.
THEOREM TypeCorrect == Spec => []TypeOK
  BY Invariance, PTL DEF IndInv

\* outstanding counts exactly the items in the queue and in process, in spite
\* of the two transactions of the worker and of failing items.
THEOREM ExactCount == Spec => []CountIsExact
  BY Invariance, PTL DEF IndInv

\* A drain that has returned has seen the end of everything enqueued before.
THEOREM DrainComplete == Spec => []DrainSeesAll
  BY Invariance, PTL DEF IndInv
=============================================================================
