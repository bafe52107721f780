---------------------- MODULE DesktopSupervisorProofs ----------------------
(***************************************************************************)
(* Proofs for DesktopSupervisor: for any set of consumers, any limits and  *)
(* any log, what a consumer holds is one gapless run after its cursor, its *)
(* fence is of its generation and never ahead of it, no frame takes a      *)
(* cursor or a generation back, and the supervisor implements              *)
(* DeliveryCursor.                                                         *)
(***************************************************************************)
EXTENDS DesktopSupervisor, FiniteSetTheorems, WellFoundedInduction, TLAPS

-----------------------------------------------------------------------------
(***************************************************************************)
(* What the helpers do to the record of one consumer.                      *)
(***************************************************************************)

\* A new consumer has its type and holds nothing.
LEMMA NewConsumerOK ==
    ASSUME NEW g \in 0 .. MaxGeneration, NEW a \in Sequences
    PROVE  /\ NewConsumer(g, a) \in Consumer
           /\ Gapless(NewConsumer(g, a)) /\ Settled(NewConsumer(g, a))
<1>1. None \in Batch
  BY SupervisorAssumption DEF None, Batch, Sequences
<1>2. NewConsumer(g, a) \in Consumer
  BY <1>1 DEF NewConsumer, Consumer, States
<1>3. NewConsumer(g, a).queue = << >> /\ NewConsumer(g, a).in_flight = None
  BY DEF NewConsumer
<1> QED
  BY <1>2, <1>3 DEF Gapless, Settled

\* next_delivery keeps the run gapless and leaves no queue without a batch in
\* flight.
LEMMA DeliveredOK ==
    ASSUME NEW r \in Consumer, Gapless(r)
    PROVE  /\ Delivered(r) \in Consumer
           /\ Gapless(Delivered(r)) /\ Settled(Delivered(r))
           /\ Delivered(r).acknowledged_sequence = r.acknowledged_sequence
           /\ Delivered(r).generation = r.generation
<1>1. CASE r.in_flight # None \/ r.queue = << >>
  BY <1>1 DEF Delivered, Settled
<1>2. CASE ~(r.in_flight # None \/ r.queue = << >>)
  <2> DEFINE d == [Popped(r) EXCEPT !.in_flight = Head(r.queue),
                                    !.sent_sequence = Head(r.queue).last,
                                    !.state = "AwaitingAcknowledgement"]
  <2>1. Delivered(r) = d
    BY <1>2 DEF Delivered
  <2>2. r.queue \in Seq(Batch) /\ r.queue # << >> /\ r.acknowledged_sequence \in Nat
    BY <1>2, SupervisorAssumption DEF Consumer, Sequences
  <2>3. PICK h \in Batch : h = Head(r.queue) /\ h = r.queue[1]
    BY <2>2
  <2>4. h.first = r.acknowledged_sequence + 1 /\ h.first <= h.last /\ h.last \in Sequences
    BY <1>2, <2>2, <2>3 DEF Gapless, Base, Batch
  <2>5. d.in_flight = h /\ d.queue = Tail(r.queue) /\ d.sent_sequence = h.last
        /\ d.acknowledged_sequence = r.acknowledged_sequence /\ d.generation = r.generation
    BY <2>3 DEF Consumer, Popped
  <2>6. Tail(r.queue) \in Seq(Batch) /\ r.events - Events(h) \in Int
    <3>1. h.first \in Nat /\ h.last \in Nat /\ r.events \in Int
      BY DEF Batch, Sequences, Consumer
    <3>2. Tail(r.queue) \in Seq(Batch)
      BY <2>2
    <3> QED
      BY <3>1, <3>2 DEF Events
  <2>7. d \in Consumer
    BY <2>3, <2>4, <2>6 DEF Consumer, States, Popped
  <2> HIDE DEF d
  <2>8. h # None
    BY <2>2, <2>4 DEF None
  <2>9. ASSUME NEW i \in DOMAIN d.queue
        PROVE  /\ d.queue[i].first = 1 + IF i = 1 THEN Base(d) ELSE d.queue[i - 1].last
               /\ d.queue[i].first <= d.queue[i].last
    <3>1. i \in 1 .. Len(r.queue) - 1 /\ d.queue[i] = r.queue[i + 1]
          /\ (i # 1 => d.queue[i - 1] = r.queue[i])
      BY <2>2, <2>5
    <3>2. i + 1 \in DOMAIN r.queue /\ i + 1 # 1 /\ (i + 1) - 1 = i
      BY <2>2, <3>1
    <3>3. r.queue[i + 1].first = 1 + r.queue[i].last /\ r.queue[i + 1].first <= r.queue[i + 1].last
      BY <3>2 DEF Gapless
    <3>4. i = 1 => Base(d) = r.queue[i].last
      BY <2>3, <2>5, <2>8 DEF Base
    <3> QED
      BY <3>1, <3>3, <3>4
  <2>10. Gapless(d)
    BY <2>4, <2>5, <2>8, <2>9 DEF Gapless
  <2>11. Settled(d)
    BY <2>5, <2>8 DEF Settled
  <2> QED
    BY <2>1, <2>5, <2>7, <2>10, <2>11
<1> QED
  BY <1>1, <1>2

\* The run is extended by a batch that starts where it ends.
LEMMA AppendedOK ==
    ASSUME NEW r \in Consumer, Gapless(r), NEW b \in Batch,
           b.first <= b.last, b.first = NextExpected(r)
    PROVE  /\ Pushed(r, b) \in Consumer
           /\ Gapless(Pushed(r, b))
<1> DEFINE q == r.queue
           e == Pushed(r, b)
<1>1. q \in Seq(Batch)
  BY DEF Consumer
<1>2. e.queue = Append(q, b) /\ e.in_flight = r.in_flight /\ e.sent_sequence = r.sent_sequence
      /\ e.acknowledged_sequence = r.acknowledged_sequence
  BY DEF Consumer, Pushed
<1>3. Append(q, b) \in Seq(Batch) /\ Len(Append(q, b)) = Len(q) + 1
      /\ DOMAIN Append(q, b) = 1 .. Len(q) + 1 /\ Len(q) \in Nat
  BY <1>1
<1>4. e \in Consumer
  <2>1. r.events + Events(b) \in Int
    BY DEF Consumer, Batch, Sequences, Events
  <2> QED
    BY <1>3, <2>1 DEF Consumer, Pushed
<1> HIDE DEF e
<1>5. Base(e) = Base(r)
  BY <1>2 DEF Base
<1>6. ASSUME NEW i \in DOMAIN e.queue
      PROVE  /\ e.queue[i].first = 1 + IF i = 1 THEN Base(e) ELSE e.queue[i - 1].last
             /\ e.queue[i].first <= e.queue[i].last
  <2>1. i \in 1 .. Len(q) + 1
    BY <1>2, <1>3
  <2>2. CASE i \in 1 .. Len(q)
    <3>1. i \in DOMAIN q /\ e.queue[i] = q[i] /\ (i # 1 => e.queue[i - 1] = q[i - 1])
      BY <1>1, <1>2, <2>2
    <3> QED
      BY <3>1, <1>5 DEF Gapless
  <2>3. CASE i = Len(q) + 1
    <3>1. e.queue[i] = b
      BY <1>1, <1>2, <2>3
    <3>2. CASE q = << >>
      <4>1. i = 1
        BY <2>3, <3>2
      <4>2. NextExpected(r) = 1 + Base(r)
        BY <3>2 DEF NextExpected, Base
      <4> QED
        BY <3>1, <4>1, <4>2, <1>5
    <3>3. CASE q # << >>
      <4>1. i # 1 /\ e.queue[i - 1] = q[Len(q)]
        BY <1>1, <1>2, <2>3, <3>3
      <4>2. NextExpected(r) = 1 + q[Len(q)].last
        BY <3>3 DEF NextExpected, Last
      <4> QED
        BY <3>1, <4>1, <4>2
    <3> QED
      BY <3>2, <3>3
  <2> QED
    BY <1>3, <2>1, <2>2, <2>3
<1>7. Gapless(e)
  BY <1>2, <1>5, <1>6 DEF Gapless
<1> QED
  BY <1>4, <1>7 DEF e

\* enqueue and next_delivery together, the overload of the queue included.
LEMMA EnqueuedOK ==
    ASSUME NEW r \in Consumer, Gapless(r), NEW b \in Batch,
           b.first <= b.last, b.first = NextExpected(r)
    PROVE  /\ Enqueued(r, b) \in Consumer
           /\ Gapless(Enqueued(r, b)) /\ Settled(Enqueued(r, b))
           /\ Enqueued(r, b).acknowledged_sequence = r.acknowledged_sequence
           /\ Enqueued(r, b).generation = r.generation
<1>1. CASE r.events + Events(b) > max_queue_events
  <2> DEFINE o == [EmptyQueue(r) EXCEPT !.state = "Overloaded", !.in_flight = None]
  <2>1. Enqueued(r, b) = o
    BY <1>1 DEF Enqueued
  <2>2. None \in Batch
    BY SupervisorAssumption DEF None, Batch, Sequences
  <2>3. o \in Consumer
    <3>0. << >> \in Seq(Batch)
      OBVIOUS
    <3>1. PICK q : q \in Seq(Batch) /\ q = << >>
      BY <3>0, Zenon
    <3>2. EmptyQueue(r) = [r EXCEPT !.queue = q, !.events = 0]
      BY <3>1, Zenon DEF EmptyQueue
    <3>3. ASSUME NEW s \in Seq(Batch), NEW n \in Int
          PROVE  [r EXCEPT !.queue = s, !.events = n] \in Consumer
      BY DEF Consumer
    <3>4. 0 \in Int
      OBVIOUS
    <3>5. PICK e \in Consumer : e = EmptyQueue(r)
      BY <3>1, <3>2, <3>3, <3>4, Zenon
    <3>6. [e EXCEPT !.state = "Overloaded", !.in_flight = None] \in Consumer
      BY <2>2 DEF Consumer, States
    <3> QED
      BY <3>5, <3>6, Zenon
  <2>4. o.queue = << >> /\ o.in_flight = None /\ o.generation = r.generation
        /\ o.acknowledged_sequence = r.acknowledged_sequence
    BY DEF Consumer, EmptyQueue
  <2> HIDE DEF o
  <2> QED
    BY <2>1, <2>3, <2>4 DEF Gapless, Settled
<1>2. CASE ~(r.events + Events(b) > max_queue_events)
  <2> DEFINE e == Pushed(r, b)
  <2>1. Enqueued(r, b) = Delivered(e)
    BY <1>2 DEF Enqueued
  <2>2. e \in Consumer /\ Gapless(e)
    BY AppendedOK
  <2>3. e.generation = r.generation /\ e.acknowledged_sequence = r.acknowledged_sequence
    BY DEF Consumer, Pushed
  <2> HIDE DEF e
  <2> QED
    BY <2>1, <2>2, <2>3, DeliveredOK
<1> QED
  BY <1>1, <1>2

\* Acknowledging the batch in flight leaves the queue to follow the cursor.
LEMMA ClearedOK ==
    ASSUME NEW r \in Consumer, Gapless(r), r.in_flight # None
    PROVE  /\ Cleared(r, r.sent_sequence) \in Consumer
           /\ Gapless(Cleared(r, r.sent_sequence))
           /\ Cleared(r, r.sent_sequence).acknowledged_sequence = r.sent_sequence
           /\ Cleared(r, r.sent_sequence).generation = r.generation
           /\ Cleared(r, r.sent_sequence).queue = r.queue
           /\ Cleared(r, r.sent_sequence).in_flight = None
           /\ r.sent_sequence > r.acknowledged_sequence
<1> DEFINE a == Cleared(r, r.sent_sequence)
<1>1. None \in Batch
  BY SupervisorAssumption DEF None, Batch, Sequences
<1>2. a \in Consumer
  BY <1>1 DEF Consumer, States, Cleared
<1>3. a.queue = r.queue /\ a.in_flight = None /\ a.generation = r.generation
      /\ a.acknowledged_sequence = r.sent_sequence
  BY DEF Consumer, Cleared
<1>4. r.sent_sequence = r.in_flight.last /\ r.sent_sequence > r.acknowledged_sequence
  <2>1. r.acknowledged_sequence \in Nat /\ r.in_flight \in Batch
    BY DEF Consumer, Sequences
  <2>2. r.in_flight.first \in Nat /\ r.in_flight.last \in Nat
    BY <2>1 DEF Batch, Sequences
  <2> QED
    BY <2>1, <2>2 DEF Gapless
<1>5. Base(a) = Base(r)
  BY <1>3, <1>4 DEF Base
<1> HIDE DEF a
<1>6. Gapless(a)
  BY <1>3, <1>5 DEF Gapless
<1> QED
  BY <1>2, <1>3, <1>4, <1>6 DEF a

\* A baseline over an empty consumer leaves it empty, at the new cursor.
LEMMA RebasedOK ==
    ASSUME NEW r \in Consumer, NEW id \in RecoveryIds, NEW a \in Sequences,
           r.in_flight = None, r.queue = << >>
    PROVE  /\ Rebased(r, id, a) \in Consumer
           /\ Gapless(Rebased(r, id, a)) /\ Settled(Rebased(r, id, a))
           /\ Rebased(r, id, a).acknowledged_sequence = a
           /\ Rebased(r, id, a).generation = r.generation
           /\ Rebased(r, id, a).in_flight = None
<1> DEFINE x == Rebased(r, id, a)
<1>1. [recovery_id |-> id, sequence |-> a] \in [recovery_id : RecoveryIds, sequence : Sequences]
  OBVIOUS
<1>2. r.baseline_identities \cup {[recovery_id |-> id, sequence |-> a]}
        \in SUBSET [recovery_id : RecoveryIds, sequence : Sequences]
  <2>1. r.baseline_identities \in SUBSET [recovery_id : RecoveryIds, sequence : Sequences]
    BY DEF Consumer
  <2> QED
    BY <1>1, <2>1
<1>3. x \in Consumer
  BY <1>2 DEF Consumer, States, Rebased
<1>4. x.queue = << >> /\ x.in_flight = None /\ x.generation = r.generation
      /\ x.acknowledged_sequence = a
  BY DEF Consumer, Rebased
<1> HIDE DEF x
<1>5. Gapless(x) /\ Settled(x)
  BY <1>4 DEF Gapless, Settled
<1> QED
  BY <1>3, <1>4, <1>5 DEF x

-----------------------------------------------------------------------------
(***************************************************************************)
(* The inductive invariant.                                                *)
(***************************************************************************)

\* The process starts with nothing, and so does every process after it.
LEMMA IndEmpty ==
    ASSUME attached = {}, consumer = [c \in Consumers |-> NoConsumer],
           fenced = {}, fence = [c \in Consumers |-> NoFence], older = {}
    PROVE  IndInv
<1>1. NoConsumer \in Consumer /\ Gapless(NoConsumer) /\ Settled(NoConsumer)
  <2>1. 0 \in 0 .. MaxGeneration /\ 0 \in Sequences
    BY SupervisorAssumption DEF Sequences
  <2> QED
    BY <2>1, NewConsumerOK DEF NoConsumer
<1>2. NoFence \in Fence
  BY SupervisorAssumption DEF NoFence, Fence, Sequences
<1>3. TypeOK
  BY <1>1, <1>2 DEF TypeOK
<1> QED
  BY <1>1, <1>3 DEF IndInv, FenceBehindConsumer, OlderIsStrict

\* A step that only replaces the record of an attached consumer, without
\* changing its generation or taking its cursor back.
LEMMA RecordStep ==
    ASSUME IndInv, NEW c \in attached, NEW r \in Consumer,
           Gapless(r), Settled(r), r.generation = consumer[c].generation,
           r.acknowledged_sequence >= consumer[c].acknowledged_sequence,
           consumer' = [consumer EXCEPT ![c] = r],
           UNCHANGED <<attached, fenced, fence, older>>
    PROVE  IndInv'
<1>1. c \in Consumers /\ consumer \in [Consumers -> Consumer]
  BY DEF IndInv, TypeOK
<1>2. consumer'[c] = r /\ \A d \in Consumers : d # c => consumer'[d] = consumer[d]
  BY <1>1
<1>3. TypeOK'
  BY <1>1 DEF IndInv, TypeOK
<1>4. \A d \in Consumers : Gapless(consumer'[d]) /\ Settled(consumer'[d])
  BY <1>2 DEF IndInv
<1>5. \A d \in Consumers \ attached' : consumer'[d] = NoConsumer
  BY <1>2 DEF IndInv
<1>6. FenceBehindConsumer'
  <2> SUFFICES ASSUME NEW d \in attached
               PROVE  /\ d \in fenced
                      /\ fence[d].generation = consumer'[d].generation
                      /\ fence[d].acknowledged_sequence <= consumer'[d].acknowledged_sequence
    BY DEF FenceBehindConsumer
  <2>1. /\ d \in fenced /\ d \in Consumers
        /\ fence[d].generation = consumer[d].generation
        /\ fence[d].acknowledged_sequence <= consumer[d].acknowledged_sequence
    BY DEF IndInv, FenceBehindConsumer, TypeOK
  <2>2. CASE d # c
    BY <1>2, <2>1, <2>2
  <2>3. CASE d = c
    <3>1. fence[d].acknowledged_sequence \in Nat /\ consumer[d].acknowledged_sequence \in Nat
          /\ r.acknowledged_sequence \in Nat
      BY <1>1, <2>1 DEF IndInv, TypeOK, Fence, Consumer, Sequences
    <3> QED
      BY <1>2, <2>1, <2>3, <3>1
  <2> QED
    BY <2>2, <2>3
<1>7. OlderIsStrict' /\ \A d \in Consumers \ fenced' : fence'[d] = NoFence
  BY DEF IndInv, OlderIsStrict
<1> QED
  BY <1>3, <1>4, <1>5, <1>6, <1>7 DEF IndInv

\* Touching a fence keeps the order strict.
LEMMA TouchStrict ==
    ASSUME TypeOK, OlderIsStrict, NEW c \in Consumers, NEW gone, older' = Touch(c, gone)
    PROVE  OlderIsStrict' /\ older' \in SUBSET (Consumers \X Consumers)
<1>1. older' \in SUBSET (Consumers \X Consumers)
  BY DEF TypeOK, Touch
<1>2. OlderIsStrict'
  <2> SUFFICES ASSUME NEW d \in Consumers, NEW e \in Consumers, d # e,
                      <<d, e>> \in older', <<e, d>> \in older'
               PROVE  FALSE
    BY DEF OlderIsStrict
  <2>1. d # c
    BY DEF Touch
  <2>2. e # c
    BY DEF Touch
  <2>3. <<d, e>> \in older /\ <<e, d>> \in older
    BY <2>1, <2>2 DEF Touch
  <2> QED
    BY <2>3 DEF OlderIsStrict
<1> QED
  BY <1>1, <1>2

\* attach keeps the inductive invariant.
LEMMA IndAttach ==
    ASSUME IndInv, NEW c \in Consumers, NEW g \in Generations, NEW a \in Sequences,
           attach(c, g, a)
    PROVE  IndInv'
<1> DEFINE n == NewConsumer(g, a)
           f == [generation |-> g, acknowledged_sequence |-> a]
<1>1. n \in Consumer /\ Gapless(n) /\ Settled(n)
      /\ n.generation = g /\ n.acknowledged_sequence = a
  <2>1. g \in 0 .. MaxGeneration
    BY SupervisorAssumption DEF Generations
  <2>2. n.generation = g /\ n.acknowledged_sequence = a
    BY DEF NewConsumer
  <2> QED
    BY <2>1, <2>2, NewConsumerOK
<1>2. f \in Fence /\ NoFence \in Fence /\ f.generation = g /\ f.acknowledged_sequence = a
  BY SupervisorAssumption DEF Fence, NoFence, Generations, Sequences
<1>3. consumer \in [Consumers -> Consumer] /\ fence \in [Consumers -> Fence]
      /\ attached \subseteq Consumers /\ fenced \subseteq Consumers
  BY DEF IndInv, TypeOK
<1>4. attached' = attached \cup {c} /\ fenced' = (fenced \ Evicted(c)) \cup {c}
      /\ consumer' = [consumer EXCEPT ![c] = n] /\ older' = Touch(c, Evicted(c))
      /\ fence' = [d \in Consumers |-> IF d = c THEN f
                                       ELSE IF d \in Evicted(c) THEN NoFence ELSE fence[d]]
  BY DEF attach
<1>5. Evicted(c) \cap attached = {}
  BY DEF Evicted, Idle
<1> HIDE DEF n, f
<1>6. OlderIsStrict' /\ older' \in SUBSET (Consumers \X Consumers)
  BY <1>4, TouchStrict DEF IndInv
<1>7. fence' \in [Consumers -> Fence]
  BY <1>2, <1>3, <1>4
<1>8. consumer' \in [Consumers -> Consumer]
  BY <1>1, <1>3, <1>4
<1>9. TypeOK'
  BY <1>3, <1>4, <1>6, <1>7, <1>8 DEF TypeOK
<1>10. consumer'[c] = n /\ \A d \in Consumers : d # c => consumer'[d] = consumer[d]
  BY <1>3, <1>4
<1>11. fence'[c] = f /\ \A d \in Consumers \ {c} :
            fence'[d] = IF d \in Evicted(c) THEN NoFence ELSE fence[d]
  BY <1>4
<1>12. \A d \in Consumers : Gapless(consumer'[d]) /\ Settled(consumer'[d])
  BY <1>1, <1>10 DEF IndInv
<1>13. \A d \in Consumers \ attached' : consumer'[d] = NoConsumer
  BY <1>4, <1>10 DEF IndInv
<1>14. \A d \in Consumers \ fenced' : fence'[d] = NoFence
  BY <1>4, <1>11 DEF IndInv
<1>15. FenceBehindConsumer'
  <2> SUFFICES ASSUME NEW d \in attached'
               PROVE  /\ d \in fenced'
                      /\ fence'[d].generation = consumer'[d].generation
                      /\ fence'[d].acknowledged_sequence <= consumer'[d].acknowledged_sequence
    BY DEF FenceBehindConsumer
  <2>1. CASE d = c
    <3>1. a <= a
      BY SupervisorAssumption DEF Sequences
    <3> QED
      BY <1>1, <1>2, <1>4, <1>10, <1>11, <2>1, <3>1
  <2>2. CASE d # c
    <3>1. d \in attached /\ d \notin Evicted(c) /\ d \in Consumers
      BY <1>3, <1>4, <1>5, <2>2
    <3>2. fence'[d] = fence[d] /\ consumer'[d] = consumer[d]
      BY <1>10, <1>11, <2>2, <3>1
    <3> QED
      BY <1>4, <3>1, <3>2 DEF IndInv, FenceBehindConsumer
  <2> QED
    BY <2>1, <2>2
<1> QED
  BY <1>6, <1>9, <1>12, <1>13, <1>14, <1>15 DEF IndInv

\* detach keeps the inductive invariant.
LEMMA IndDetach ==
    ASSUME IndInv, NEW c \in Consumers, NEW g \in Generations, detach(c, g)
    PROVE  IndInv'
<1> DEFINE f == [generation |-> g, acknowledged_sequence |-> consumer[c].acknowledged_sequence]
<1>1. consumer \in [Consumers -> Consumer] /\ fence \in [Consumers -> Fence]
      /\ attached \subseteq Consumers /\ fenced \subseteq Consumers
  BY DEF IndInv, TypeOK
<1>2. NoConsumer \in Consumer /\ Gapless(NoConsumer) /\ Settled(NoConsumer)
  <2>1. 0 \in 0 .. MaxGeneration /\ 0 \in Sequences
    BY SupervisorAssumption DEF Sequences
  <2> QED
    BY <2>1, NewConsumerOK DEF NoConsumer
<1>3. f \in Fence
  <2>1. g \in 0 .. MaxGeneration
    BY SupervisorAssumption DEF Generations
  <2>2. consumer[c].acknowledged_sequence \in Sequences
    BY <1>1 DEF Consumer
  <2> QED
    BY <2>1, <2>2 DEF Fence
<1>4. attached' = attached \ {c} /\ fenced' = fenced \cup {c}
      /\ consumer' = [consumer EXCEPT ![c] = NoConsumer] /\ older' = Touch(c, {})
      /\ fence' = [fence EXCEPT ![c] = f]
  BY DEF detach
<1> HIDE DEF f
<1>5. OlderIsStrict' /\ older' \in SUBSET (Consumers \X Consumers)
  BY <1>4, TouchStrict DEF IndInv
<1>6. TypeOK'
  BY <1>1, <1>2, <1>3, <1>4, <1>5 DEF TypeOK
<1>7. consumer'[c] = NoConsumer /\ \A d \in Consumers : d # c => consumer'[d] = consumer[d]
  BY <1>1, <1>4
<1>8. \A d \in Consumers : d # c => fence'[d] = fence[d]
  BY <1>1, <1>4
<1>9. \A d \in Consumers : Gapless(consumer'[d]) /\ Settled(consumer'[d])
  BY <1>2, <1>7 DEF IndInv
<1>10. \A d \in Consumers \ attached' : consumer'[d] = NoConsumer
  BY <1>4, <1>7 DEF IndInv
<1>11. \A d \in Consumers \ fenced' : fence'[d] = NoFence
  BY <1>4, <1>8 DEF IndInv
<1>12. FenceBehindConsumer'
  BY <1>1, <1>4, <1>7, <1>8 DEF IndInv, FenceBehindConsumer
<1> QED
  BY <1>5, <1>6, <1>9, <1>10, <1>11, <1>12 DEF IndInv

\* An EventBatch frame keeps the inductive invariant.
LEMMA IndEventBatch ==
    ASSUME IndInv, NEW c \in Consumers, NEW g \in Generations, NEW b \in Batch,
           EventBatch(c, g, b)
    PROVE  IndInv'
<1> DEFINE r == consumer[c]
<1>1. c \in attached /\ r \in Consumer /\ Gapless(r) /\ consumer \in [Consumers -> Consumer]
  BY DEF EventBatch, Current, IndInv, TypeOK
<1>2. b.first <= b.last /\ b.first = NextExpected(r)
      /\ consumer' = [consumer EXCEPT ![c] = Enqueued(r, b)]
      /\ UNCHANGED <<attached, fenced, fence, older>>
  BY DEF EventBatch
<1> HIDE DEF r
<1>3. Enqueued(r, b) \in Consumer /\ Gapless(Enqueued(r, b)) /\ Settled(Enqueued(r, b))
      /\ Enqueued(r, b).acknowledged_sequence = r.acknowledged_sequence
      /\ Enqueued(r, b).generation = r.generation
  BY <1>1, <1>2, EnqueuedOK
<1>4. r.acknowledged_sequence >= r.acknowledged_sequence
  BY <1>1 DEF Consumer, Sequences
<1> QED
  BY <1>1, <1>2, <1>3, <1>4, RecordStep DEF r

\* An ApplicationAck frame moves the cursor of the record to what was sent.
LEMMA AckRecord ==
    ASSUME IndInv, NEW c \in Consumers, NEW g \in Generations, NEW b \in Batch,
           NEW received \in Sequences, NEW applied \in Sequences,
           ApplicationAck(c, g, b, received, applied)
    PROVE  LET r == consumer[c]
               d == Delivered(Cleared(r, r.sent_sequence))
           IN  /\ c \in attached /\ r \in Consumer /\ r.in_flight # None
               /\ d \in Consumer /\ Gapless(d) /\ Settled(d)
               /\ d.generation = r.generation
               /\ d.acknowledged_sequence = r.sent_sequence
               /\ r.sent_sequence > r.acknowledged_sequence
               /\ consumer' = [consumer EXCEPT ![c] = d]
               /\ UNCHANGED <<attached, fenced, fence, older>>
<1> DEFINE r == consumer[c]
           d == Delivered(Cleared(r, r.sent_sequence))
<1>1. c \in attached /\ r \in Consumer /\ Gapless(r) /\ r.in_flight # None
  BY DEF ApplicationAck, Current, IndInv, TypeOK
<1>2. consumer' = [consumer EXCEPT ![c] = d] /\ UNCHANGED <<attached, fenced, fence, older>>
  <2>1. applied = r.sent_sequence
    BY DEF ApplicationAck
  <2> QED
    BY <2>1 DEF ApplicationAck
<1> HIDE DEF r
<1>3. PICK k \in Consumer : /\ k = Cleared(r, r.sent_sequence) /\ Gapless(k)
                            /\ k.acknowledged_sequence = r.sent_sequence
                            /\ k.generation = r.generation
                            /\ r.sent_sequence > r.acknowledged_sequence
  BY <1>1, ClearedOK
<1>4. d \in Consumer /\ Gapless(d) /\ Settled(d) /\ d.generation = r.generation
      /\ d.acknowledged_sequence = r.sent_sequence
  BY <1>3, DeliveredOK
<1> HIDE DEF d
<1> QED
  BY <1>1, <1>2, <1>3, <1>4 DEF r, d

\* An ApplicationAck frame keeps the inductive invariant.
LEMMA IndApplicationAck ==
    ASSUME IndInv, NEW c \in Consumers, NEW g \in Generations, NEW b \in Batch,
           NEW received \in Sequences, NEW applied \in Sequences,
           ApplicationAck(c, g, b, received, applied)
    PROVE  IndInv'
<1>1. PICK d \in Consumer :
        /\ c \in attached /\ Gapless(d) /\ Settled(d)
        /\ d.generation = consumer[c].generation
        /\ d.acknowledged_sequence = consumer[c].sent_sequence
        /\ consumer[c].sent_sequence > consumer[c].acknowledged_sequence
        /\ consumer[c] \in Consumer
        /\ consumer' = [consumer EXCEPT ![c] = d]
        /\ UNCHANGED <<attached, fenced, fence, older>>
  BY AckRecord, Zenon
<1>2. d.acknowledged_sequence >= consumer[c].acknowledged_sequence
  BY <1>1 DEF Consumer, Sequences
<1> QED
  BY <1>1, <1>2, RecordStep

\* install_baseline keeps the inductive invariant.
LEMMA IndBaseline ==
    ASSUME IndInv, NEW c \in Consumers, NEW g \in Generations,
           NEW id \in RecoveryIds, NEW a \in Sequences, install_baseline(c, g, id, a)
    PROVE  IndInv'
<1> DEFINE r == consumer[c]
<1>1. c \in attached /\ r \in Consumer /\ r.in_flight = None /\ r.queue = << >>
      /\ a >= r.acknowledged_sequence
  BY DEF install_baseline, Current, IndInv, TypeOK, Settled
<1>2. consumer' = [consumer EXCEPT ![c] = Rebased(r, id, a)]
      /\ UNCHANGED <<attached, fenced, fence, older>>
  BY DEF install_baseline
<1> HIDE DEF r
<1>3. PICK x \in Consumer : /\ x = Rebased(r, id, a) /\ Gapless(x) /\ Settled(x)
                            /\ x.generation = r.generation /\ x.acknowledged_sequence = a
  BY <1>1, RebasedOK
<1> QED
  BY <1>1, <1>2, <1>3, RecordStep DEF r

\* The watchdog keeps the inductive invariant.
LEMMA IndTimeouts ==
    ASSUME IndInv, NEW c \in Consumers, check_timeouts(c)
    PROVE  IndInv'
<1> DEFINE r == consumer[c]
           x == [r EXCEPT !.state = "Stalled"]
<1>1. c \in attached /\ r \in Consumer /\ Gapless(r) /\ Settled(r)
      /\ consumer \in [Consumers -> Consumer]
  BY DEF check_timeouts, IndInv, TypeOK
<1>2. consumer' = [consumer EXCEPT ![c] = x] /\ UNCHANGED <<attached, fenced, fence, older>>
  BY DEF check_timeouts
<1> HIDE DEF r
<1>3. x \in Consumer /\ x.queue = r.queue /\ x.in_flight = r.in_flight
      /\ x.generation = r.generation /\ x.sent_sequence = r.sent_sequence
      /\ x.acknowledged_sequence = r.acknowledged_sequence
  BY <1>1 DEF Consumer, States
<1> HIDE DEF x
<1>4. Gapless(x) /\ Settled(x)
  BY <1>1, <1>3 DEF Gapless, Settled, Base
<1>5. x.acknowledged_sequence >= r.acknowledged_sequence
  BY <1>1, <1>3 DEF Consumer, Sequences
<1> QED
  BY <1>1, <1>2, <1>3, <1>4, <1>5, RecordStep DEF r

\* Every step keeps the inductive invariant.
LEMMA IndStep == IndInv /\ [Next]_vars => IndInv'
<1> SUFFICES ASSUME IndInv, [Next]_vars PROVE IndInv'
  OBVIOUS
<1>1. ASSUME NEW c \in Consumers, NEW g \in Generations,
             \/ \E a \in Sequences : attach(c, g, a)
             \/ detach(c, g)
             \/ \E b \in Batch : EventBatch(c, g, b)
             \/ \E b \in Batch, r, a \in Sequences : ApplicationAck(c, g, b, r, a)
             \/ \E id \in RecoveryIds, a \in Sequences :
                  install_baseline(c, g, id, a)
      PROVE  IndInv'
  BY <1>1, IndAttach, IndDetach, IndEventBatch, IndApplicationAck, IndBaseline
<1>2. ASSUME Restart PROVE IndInv'
  <2>1. NoConsumer \in Consumer /\ Gapless(NoConsumer) /\ Settled(NoConsumer)
    <3>1. 0 \in 0 .. MaxGeneration /\ 0 \in Sequences
      BY SupervisorAssumption DEF Sequences
    <3> QED
      BY <3>1, NewConsumerOK DEF NoConsumer
  <2>2. NoFence \in Fence
    BY SupervisorAssumption DEF NoFence, Fence, Sequences
  <2>3. TypeOK'
    BY <1>2, <2>1, <2>2 DEF Restart, TypeOK
  <2> QED
    BY <1>2, <2>1, <2>3 DEF Restart, IndInv, FenceBehindConsumer, OlderIsStrict
<1>3. ASSUME NEW c \in Consumers, check_timeouts(c) PROVE IndInv'
  BY <1>3, IndTimeouts
<1>4. CASE UNCHANGED vars
  BY <1>4 DEF vars, IndInv, TypeOK, FenceBehindConsumer, OlderIsStrict
<1> QED
  BY <1>1, <1>2, <1>3, <1>4 DEF Next

\* The inductive invariant holds of every reachable state.
THEOREM Invariance == Spec => []IndInv
<1>1. Init => IndInv
  BY IndEmpty DEF Init
<1> QED
  BY <1>1, IndStep, PTL DEF Spec

\* Type correctness of the supervisor's state.
THEOREM TypeCorrect == Spec => []TypeOK
<1>1. IndInv => TypeOK
  BY DEF IndInv
<1> QED
  BY <1>1, Invariance, PTL

\* What a consumer holds is one gapless run of events after its cursor, and a
\* queue is only behind a batch in flight (enqueue, next_delivery and
\* acknowledge of state.rs).
THEOREM GaplessDelivery == Spec => []InFlightThenQueue
<1>1. IndInv => InFlightThenQueue
  <2> SUFFICES ASSUME IndInv, NEW c \in attached
               PROVE  LET r == consumer[c] IN
                      /\ r.queue # << >> => r.in_flight # None
                      /\ r.in_flight # None => /\ r.in_flight.first = r.acknowledged_sequence + 1
                                               /\ r.in_flight.last = r.sent_sequence
                      /\ \A i \in DOMAIN r.queue :
                           r.queue[i].first = 1 + IF i = 1 THEN r.in_flight.last
                                                           ELSE r.queue[i - 1].last
    BY DEF InFlightThenQueue
  <2> DEFINE r == consumer[c]
  <2>1. r \in Consumer /\ Gapless(r) /\ Settled(r)
    BY DEF IndInv, TypeOK
  <2> HIDE DEF r
  <2>2. ASSUME NEW i \in DOMAIN r.queue
        PROVE  r.queue[i].first = 1 + IF i = 1 THEN r.in_flight.last ELSE r.queue[i - 1].last
    <3>1. r.in_flight # None
      BY <2>1, <2>2 DEF Settled, Consumer
    <3> QED
      BY <2>1, <2>2, <3>1 DEF Gapless, Base
  <2> QED
    BY <2>1, <2>2 DEF r, Gapless, Settled
<1> QED
  BY <1>1, Invariance, PTL

\* The fence of an attached consumer is of its generation and never ahead of
\* its cursor (attach.rs).
THEOREM FenceFollows == Spec => []FenceBehindConsumer
<1>1. IndInv => FenceBehindConsumer
  BY DEF IndInv
<1> QED
  BY <1>1, Invariance, PTL

-----------------------------------------------------------------------------
(***************************************************************************)
(* The supervisor implements DeliveryCursor.                               *)
(***************************************************************************)

\* What is offered is the cursor, or ends after it.
LEMMA BaseRange ==
    ASSUME NEW r \in Consumer, Gapless(r)
    PROVE  /\ Base(r) \in Sequences /\ r.acknowledged_sequence \in Sequences
           /\ r.in_flight = None => Base(r) = r.acknowledged_sequence
           /\ r.in_flight # None => Base(r) > r.acknowledged_sequence /\ Base(r) = r.sent_sequence
<1>1. r.in_flight \in Batch /\ r.acknowledged_sequence \in Sequences
  BY DEF Consumer
<1>2. r.in_flight.first \in Nat /\ r.in_flight.last \in Nat /\ r.in_flight.last \in Sequences
      /\ r.acknowledged_sequence \in Nat
  BY <1>1 DEF Batch, Sequences
<1>3. CASE r.in_flight = None
  BY <1>1, <1>3 DEF Base
<1>4. CASE r.in_flight # None
  BY <1>1, <1>2, <1>4 DEF Base, Gapless
<1> QED
  BY <1>3, <1>4

\* The abstract state after a step that only replaces an attached record.
LEMMA RecordAbstract ==
    ASSUME IndInv, NEW c \in attached, NEW r \in Consumer,
           r.generation = consumer[c].generation,
           consumer' = [consumer EXCEPT ![c] = r],
           UNCHANGED <<attached, fenced, fence, older>>
    PROVE  /\ c \in fenced /\ fenced' = fenced
           /\ cursors[c] = consumer[c].acknowledged_sequence /\ offers[c] = Base(consumer[c])
           /\ generations' = generations
           /\ cursors' = [cursors EXCEPT ![c] = r.acknowledged_sequence]
           /\ offers' = [offers EXCEPT ![c] = Base(r)]
<1>1. c \in Consumers /\ c \in fenced /\ consumer \in [Consumers -> Consumer]
  BY DEF IndInv, TypeOK, FenceBehindConsumer
<1>2. consumer'[c] = r /\ \A d \in Consumers : d # c => consumer'[d] = consumer[d]
  BY <1>1
<1>3. cursors[c] = consumer[c].acknowledged_sequence /\ offers[c] = Base(consumer[c])
  BY <1>1 DEF cursors, offers, Cursor, Offered, Base
<1>4. \A d \in Consumers : Generation(d)' = Generation(d)
  BY <1>2 DEF Generation
<1>5. Cursor(c)' = r.acknowledged_sequence /\ \A d \in Consumers : d # c => Cursor(d)' = Cursor(d)
  BY <1>2 DEF Cursor
<1>6. Offered(c)' = Base(r) /\ \A d \in Consumers : d # c => Offered(d)' = Offered(d)
  BY <1>2, <1>5 DEF Offered, Base, Cursor
<1>7. generations' = generations
  BY <1>4 DEF generations
<1>8. cursors' = [cursors EXCEPT ![c] = r.acknowledged_sequence]
  BY <1>1, <1>5 DEF cursors
<1>9. offers' = [offers EXCEPT ![c] = Base(r)]
  BY <1>1, <1>6 DEF offers
<1> QED
  BY <1>1, <1>3, <1>7, <1>8, <1>9

\* An EventBatch frame offers, or withdraws what was offered.
LEMMA RefineEventBatch ==
    ASSUME IndInv, NEW c \in Consumers, NEW g \in Generations, NEW b \in Batch,
           EventBatch(c, g, b)
    PROVE  Abstract!Withdraw(c) \/ \E n \in Sequences : Abstract!Offer(c, n)
<1>1. c \in attached /\ consumer[c] \in Consumer /\ Gapless(consumer[c])
      /\ b.first <= b.last /\ b.first = NextExpected(consumer[c])
  BY DEF EventBatch, Current, IndInv, TypeOK
<1>2. PICK r \in Consumer :
        /\ r = Enqueued(consumer[c], b) /\ Gapless(r)
        /\ r.acknowledged_sequence = consumer[c].acknowledged_sequence
        /\ r.generation = consumer[c].generation
  BY <1>1, EnqueuedOK
<1>3. consumer' = [consumer EXCEPT ![c] = r] /\ UNCHANGED <<attached, fenced, fence, older>>
  BY <1>2 DEF EventBatch
<1>4. /\ c \in fenced /\ fenced' = fenced
      /\ cursors[c] = r.acknowledged_sequence
      /\ generations' = generations
      /\ cursors' = [cursors EXCEPT ![c] = cursors[c]]
      /\ offers' = [offers EXCEPT ![c] = Base(r)]
  <2>1. /\ c \in fenced /\ fenced' = fenced
        /\ cursors[c] = consumer[c].acknowledged_sequence /\ offers[c] = Base(consumer[c])
        /\ generations' = generations
        /\ cursors' = [cursors EXCEPT ![c] = r.acknowledged_sequence]
        /\ offers' = [offers EXCEPT ![c] = Base(r)]
    BY <1>1, <1>2, <1>3, RecordAbstract
  <2> QED
    BY <1>1, <1>2, <1>3, <2>1, Zenon
<1>5. cursors' = cursors
  BY <1>4 DEF cursors
<1>6. CASE r.in_flight = None
  <2>1. Base(r) = cursors[c]
    BY <1>2, <1>4, <1>6, BaseRange
  <2> QED
    BY <1>4, <1>5, <2>1 DEF Abstract!Withdraw
<1>7. CASE r.in_flight # None
  <2>1. Base(r) > cursors[c] /\ Base(r) \in Sequences
    BY <1>2, <1>4, <1>7, BaseRange
  <2>2. Abstract!Offer(c, Base(r))
    BY <1>4, <1>5, <2>1 DEF Abstract!Offer
  <2> QED
    BY <2>1, <2>2
<1> QED
  BY <1>6, <1>7

\* An ApplicationAck frame acknowledges what was offered.
LEMMA RefineAck ==
    ASSUME IndInv, NEW c \in Consumers, NEW g \in Generations, NEW b \in Batch,
           NEW received \in Sequences, NEW applied \in Sequences,
           ApplicationAck(c, g, b, received, applied)
    PROVE  \E n \in Sequences : Abstract!Acknowledge(c, n)
<1>1. PICK d \in Consumer :
        /\ c \in attached /\ Gapless(d)
        /\ d.generation = consumer[c].generation
        /\ d.acknowledged_sequence = consumer[c].sent_sequence
        /\ consumer[c].sent_sequence > consumer[c].acknowledged_sequence
        /\ consumer[c] \in Consumer /\ consumer[c].in_flight # None
        /\ consumer' = [consumer EXCEPT ![c] = d]
        /\ UNCHANGED <<attached, fenced, fence, older>>
  BY AckRecord, Zenon
<1>2. Gapless(consumer[c])
  BY DEF IndInv
<1>3. Base(consumer[c]) = consumer[c].sent_sequence
  BY <1>1, <1>2, BaseRange
<1>4. /\ c \in fenced /\ fenced' = fenced
      /\ cursors[c] = consumer[c].acknowledged_sequence /\ offers[c] = consumer[c].sent_sequence
      /\ generations' = generations
      /\ cursors' = [cursors EXCEPT ![c] = offers[c]]
      /\ offers' = [offers EXCEPT ![c] = Base(d)]
  <2>1. /\ c \in fenced /\ fenced' = fenced
        /\ cursors[c] = consumer[c].acknowledged_sequence /\ offers[c] = Base(consumer[c])
        /\ generations' = generations
        /\ cursors' = [cursors EXCEPT ![c] = d.acknowledged_sequence]
        /\ offers' = [offers EXCEPT ![c] = Base(d)]
    BY <1>1, RecordAbstract
  <2> QED
    BY <1>1, <1>3, <2>1, Zenon
<1>5. Base(d) \in Sequences /\ Base(d) >= offers[c]
  <2>1. d.acknowledged_sequence \in Nat /\ Base(d) \in Sequences /\ Base(d) \in Nat
    BY <1>1, BaseRange DEF Sequences
  <2> QED
    BY <1>1, <1>4, <2>1, BaseRange
<1>6. Abstract!Acknowledge(c, Base(d))
  BY <1>1, <1>4, <1>5 DEF Abstract!Acknowledge
<1> QED
  BY <1>5, <1>6

\* install_baseline moves the cursor while nothing is offered.
LEMMA RefineBaseline ==
    ASSUME IndInv, NEW c \in Consumers, NEW g \in Generations,
           NEW id \in RecoveryIds, NEW a \in Sequences, install_baseline(c, g, id, a)
    PROVE  Abstract!Baseline(c, a)
<1>1. c \in attached /\ consumer[c] \in Consumer /\ Gapless(consumer[c])
      /\ consumer[c].in_flight = None /\ consumer[c].queue = << >>
      /\ a >= consumer[c].acknowledged_sequence
  BY DEF install_baseline, Current, IndInv, TypeOK, Settled
<1>2. PICK x \in Consumer :
        /\ x = Rebased(consumer[c], id, a) /\ Gapless(x) /\ x.in_flight = None
        /\ x.generation = consumer[c].generation /\ x.acknowledged_sequence = a
  BY <1>1, RebasedOK
<1>3. consumer' = [consumer EXCEPT ![c] = x] /\ UNCHANGED <<attached, fenced, fence, older>>
  BY <1>2 DEF install_baseline
<1>4. Base(consumer[c]) = consumer[c].acknowledged_sequence /\ Base(x) = a
  BY <1>1, <1>2, BaseRange
<1>5. /\ c \in fenced /\ fenced' = fenced
      /\ cursors[c] = consumer[c].acknowledged_sequence /\ offers[c] = cursors[c]
      /\ generations' = generations
      /\ cursors' = [cursors EXCEPT ![c] = a]
      /\ offers' = [offers EXCEPT ![c] = a]
  <2>1. /\ c \in fenced /\ fenced' = fenced
        /\ cursors[c] = consumer[c].acknowledged_sequence /\ offers[c] = Base(consumer[c])
        /\ generations' = generations
        /\ cursors' = [cursors EXCEPT ![c] = x.acknowledged_sequence]
        /\ offers' = [offers EXCEPT ![c] = Base(x)]
    BY <1>1, <1>2, <1>3, RecordAbstract
  <2> QED
    BY <1>1, <1>2, <1>3, <1>4, <2>1, Zenon
<1> QED
  BY <1>1, <1>5 DEF Abstract!Baseline

\* The watchdog changes nothing a consumer is promised.
LEMMA RefineTimeouts ==
    ASSUME IndInv, NEW c \in Consumers, check_timeouts(c)
    PROVE  UNCHANGED Abstract!vars
<1> DEFINE x == [consumer[c] EXCEPT !.state = "Stalled"]
<1>1. c \in attached /\ consumer[c] \in Consumer /\ consumer \in [Consumers -> Consumer]
      /\ consumer' = [consumer EXCEPT ![c] = x] /\ UNCHANGED <<attached, fenced, fence, older>>
  BY DEF check_timeouts, IndInv, TypeOK
<1>2. x \in Consumer /\ x.in_flight = consumer[c].in_flight
      /\ x.generation = consumer[c].generation
      /\ x.acknowledged_sequence = consumer[c].acknowledged_sequence
  BY <1>1 DEF Consumer, States
<1> HIDE DEF x
<1>3. Base(x) = Base(consumer[c])
  BY <1>2 DEF Base
<1>4. /\ fenced' = fenced /\ generations' = generations
      /\ cursors' = [cursors EXCEPT ![c] = cursors[c]]
      /\ offers' = [offers EXCEPT ![c] = offers[c]]
  <2>1. /\ c \in fenced /\ fenced' = fenced
        /\ cursors[c] = consumer[c].acknowledged_sequence /\ offers[c] = Base(consumer[c])
        /\ generations' = generations
        /\ cursors' = [cursors EXCEPT ![c] = x.acknowledged_sequence]
        /\ offers' = [offers EXCEPT ![c] = Base(x)]
    BY <1>1, <1>2, RecordAbstract
  <2> QED
    BY <1>1, <1>2, <1>3, <2>1, Zenon
<1>5. cursors' = cursors /\ offers' = offers
  BY <1>4 DEF cursors, offers
<1> QED
  BY <1>4, <1>5 DEF Abstract!vars

\* detach withdraws what was offered and keeps generation and cursor.
LEMMA RefineDetach ==
    ASSUME IndInv, NEW c \in Consumers, NEW g \in Generations, detach(c, g)
    PROVE  Abstract!Withdraw(c)
<1>1. c \in attached /\ c \in fenced /\ consumer[c].generation = g
      /\ fence \in [Consumers -> Fence]
  BY DEF detach, IndInv, FenceBehindConsumer, TypeOK
<1>2. attached' = attached \ {c} /\ fenced' = fenced
      /\ consumer' = [consumer EXCEPT ![c] = NoConsumer]
      /\ fence' = [fence EXCEPT ![c] = [generation |-> g,
                        acknowledged_sequence |-> consumer[c].acknowledged_sequence]]
  BY <1>1 DEF detach
<1>3. fence'[c].generation = g
      /\ fence'[c].acknowledged_sequence = consumer[c].acknowledged_sequence
      /\ \A d \in Consumers : d # c => fence'[d] = fence[d]
  BY <1>1, <1>2
<1>4. \A d \in Consumers : d # c => consumer'[d] = consumer[d]
  BY <1>2 DEF IndInv, TypeOK
<1>5. \A d \in Consumers : Generation(d)' = Generation(d)
  BY <1>1, <1>2, <1>3, <1>4 DEF Generation
<1>6. \A d \in Consumers : Cursor(d)' = Cursor(d)
  BY <1>1, <1>2, <1>3, <1>4 DEF Cursor
<1>7. Offered(c)' = Cursor(c) /\ \A d \in Consumers : d # c => Offered(d)' = Offered(d)
  BY <1>2, <1>4, <1>6 DEF Offered
<1>8. generations' = generations /\ cursors' = cursors
  BY <1>5, <1>6 DEF generations, cursors
<1>9. offers' = [offers EXCEPT ![c] = cursors[c]]
  BY <1>7 DEF offers, cursors
<1> QED
  BY <1>1, <1>2, <1>8, <1>9 DEF Abstract!Withdraw

\* At most one fence is forgotten for a new one.
LEMMA EvictedOne ==
    ASSUME IndInv, NEW c \in Consumers
    PROVE  Evicted(c) \in {{}} \cup {{d} : d \in fenced \ {c}}
<1>1. CASE Evicted(c) = {}
  BY <1>1
<1>2. CASE Evicted(c) # {}
  <2>1. c \notin fenced
        /\ Evicted(c) = {d \in Idle : \A e \in Idle \ {d} : <<d, e>> \in older}
    BY <1>2 DEF Evicted
  <2>2. PICK d \in Evicted(c) : TRUE
    BY <1>2
  <2>3. \A e \in Evicted(c) : e = d
    BY <2>1, <2>2 DEF IndInv, OlderIsStrict, TypeOK, Idle
  <2>4. Evicted(c) = {d} /\ d \in fenced \ {c}
    BY <2>1, <2>2, <2>3 DEF Idle
  <2> QED
    BY <2>4
<1> QED
  BY <1>1, <1>2

\* attach is of a newer generation and at no older cursor.
LEMMA RefineAttach ==
    ASSUME IndInv, NEW c \in Consumers, NEW g \in Generations, NEW a \in Sequences,
           attach(c, g, a)
    PROVE  Abstract!Attach(c, g, a)
<1> DEFINE gone == Evicted(c)
<1>1. attached' = attached \cup {c} /\ fenced' = (fenced \ gone) \cup {c}
      /\ consumer' = [consumer EXCEPT ![c] = NewConsumer(g, a)]
      /\ fence' = [d \in Consumers |->
            IF d = c THEN [generation |-> g, acknowledged_sequence |-> a]
            ELSE IF d \in gone THEN NoFence ELSE fence[d]]
  BY DEF attach
<1>2. c \in fenced => g > generations[c] /\ a >= cursors[c]
  <2> SUFFICES ASSUME c \in fenced PROVE g > generations[c] /\ a >= cursors[c]
    OBVIOUS
  <2>1. CASE c \in attached
    <3>1. generations[c] = consumer[c].generation /\ cursors[c] = consumer[c].acknowledged_sequence
      BY <2>1 DEF generations, cursors, Generation, Cursor
    <3> QED
      BY <2>1, <3>1 DEF attach, AttachAllowed
  <2>2. CASE c \notin attached
    <3>1. generations[c] = fence[c].generation /\ cursors[c] = fence[c].acknowledged_sequence
      BY <2>2 DEF generations, cursors, Generation, Cursor
    <3>2. g > fence[c].generation /\ a = fence[c].acknowledged_sequence
      BY <2>2 DEF attach, AttachAllowed
    <3>3. a >= a
      BY SupervisorAssumption DEF Sequences
    <3> QED
      BY <3>1, <3>2, <3>3
  <2> QED
    BY <2>1, <2>2
<1>3. gone \in {{}} \cup {{d} : d \in fenced \ {c}} /\ gone \cap attached = {}
  BY EvictedOne DEF Evicted, Idle
<1> HIDE DEF gone
<1>4. consumer'[c] = NewConsumer(g, a) /\ \A d \in Consumers : d # c => consumer'[d] = consumer[d]
  BY <1>1 DEF IndInv, TypeOK
<1>5. \A d \in Consumers : d # c =>
        fence'[d] = IF d \in gone THEN NoFence ELSE fence[d]
  BY <1>1
<1>6. ASSUME NEW d \in Consumers
      PROVE  /\ Generation(d)' = IF d = c THEN g ELSE IF d \in gone THEN 0 ELSE Generation(d)
             /\ Cursor(d)' = IF d = c THEN a ELSE IF d \in gone THEN 0 ELSE Cursor(d)
             /\ Offered(d)' = IF d = c THEN a ELSE IF d \in gone THEN 0 ELSE Offered(d)
  <2>1. CASE d = c
    <3>1. c \in attached' /\ consumer'[c].generation = g
          /\ consumer'[c].acknowledged_sequence = a /\ consumer'[c].in_flight = None
      BY <1>1, <1>4 DEF NewConsumer
    <3> QED
      BY <2>1, <3>1 DEF Generation, Cursor, Offered
  <2>2. CASE d # c /\ d \in gone
    <3>1. d \notin attached' /\ fence'[d] = NoFence
      BY <1>1, <1>3, <1>5, <2>2
    <3> QED
      BY <2>2, <3>1 DEF Generation, Cursor, Offered, NoFence
  <2>3. CASE d # c /\ d \notin gone
    <3>1. (d \in attached' <=> d \in attached) /\ fence'[d] = fence[d] /\ consumer'[d] = consumer[d]
      BY <1>1, <1>4, <1>5, <2>3
    <3> QED
      BY <2>3, <3>1 DEF Generation, Cursor, Offered
  <2> QED
    BY <2>1, <2>2, <2>3
<1>7. generations' = [d \in Consumers |->
                        IF d = c THEN g ELSE IF d \in gone THEN 0 ELSE generations[d]]
  BY <1>6 DEF generations
<1>8. cursors' = [d \in Consumers |->
                    IF d = c THEN a ELSE IF d \in gone THEN 0 ELSE cursors[d]]
  BY <1>6 DEF cursors
<1>9. offers' = [d \in Consumers |->
                   IF d = c THEN a ELSE IF d \in gone THEN 0 ELSE offers[d]]
  BY <1>6 DEF offers
<1>10. /\ fenced' = (fenced \ gone) \cup {c}
       /\ generations' = Abstract!Assign(generations, c, g, gone)
       /\ cursors' = Abstract!Assign(cursors, c, a, gone)
       /\ offers' = Abstract!Assign(offers, c, a, gone)
  BY <1>1, <1>7, <1>8, <1>9, Zenon DEF Abstract!Assign
<1> QED
  BY <1>2, <1>3, <1>10, Zenon DEF Abstract!Attach

\* A new process has forgotten everything.
LEMMA RefineRestart == Restart => Abstract!Forget
<1> SUFFICES ASSUME Restart PROVE Abstract!Forget
  OBVIOUS
<1>1. \A d \in Consumers : d \notin attached' /\ fence'[d] = NoFence
  BY DEF Restart
<1>2. \A d \in Consumers : Generation(d)' = 0 /\ Cursor(d)' = 0 /\ Offered(d)' = 0
  BY <1>1 DEF Generation, Cursor, Offered, NoFence
<1>3. generations' = [d \in Consumers |-> 0] /\ cursors' = [d \in Consumers |-> 0]
      /\ offers' = [d \in Consumers |-> 0]
  BY <1>2 DEF generations, cursors, offers
<1>4. fenced' = {}
  BY DEF Restart
<1> QED
  BY <1>3, <1>4 DEF Abstract!Forget, Abstract!Zero

\* Every step of the supervisor is a step of the delivery cursor or changes
\* nothing of it.
LEMMA RefineStep == IndInv /\ [Next]_vars => [Abstract!Next]_(Abstract!vars)
<1> SUFFICES ASSUME IndInv, [Next]_vars PROVE [Abstract!Next]_(Abstract!vars)
  OBVIOUS
<1>1. ASSUME NEW c \in Consumers, NEW g \in Generations, NEW a \in Sequences, attach(c, g, a)
      PROVE  Abstract!Next
  BY <1>1, RefineAttach DEF Abstract!Next
<1>2. ASSUME NEW c \in Consumers, NEW g \in Generations, detach(c, g) PROVE Abstract!Next
  BY <1>2, RefineDetach DEF Abstract!Next
<1>3. ASSUME NEW c \in Consumers, NEW g \in Generations, NEW b \in Batch, EventBatch(c, g, b)
      PROVE  Abstract!Next
  BY <1>3, RefineEventBatch DEF Abstract!Next
<1>4. ASSUME NEW c \in Consumers, NEW g \in Generations, NEW b \in Batch,
             NEW r \in Sequences, NEW a \in Sequences, ApplicationAck(c, g, b, r, a)
      PROVE  Abstract!Next
  BY <1>4, RefineAck DEF Abstract!Next
<1>5. ASSUME NEW c \in Consumers, NEW g \in Generations, NEW id \in RecoveryIds,
             NEW a \in Sequences, install_baseline(c, g, id, a)
      PROVE  Abstract!Next
  BY <1>5, RefineBaseline DEF Abstract!Next
<1>6. ASSUME Restart PROVE Abstract!Next
  BY <1>6, RefineRestart DEF Abstract!Next
<1>7. ASSUME NEW c \in Consumers, check_timeouts(c) PROVE UNCHANGED Abstract!vars
  BY <1>7, RefineTimeouts
<1>8. CASE UNCHANGED vars
  BY <1>8 DEF vars, Abstract!vars, generations, cursors, offers, Generation, Cursor, Offered
<1> QED
  BY <1>1, <1>2, <1>3, <1>4, <1>5, <1>6, <1>7, <1>8 DEF Next

\* The supervisor process keeps the promises of DeliveryCursor.
THEOREM Refinement == Spec => ImplementsCursor
<1>1. Init => Abstract!Init
  <2> SUFFICES ASSUME Init PROVE Abstract!Init
    OBVIOUS
  <2>1. \A d \in Consumers : Generation(d) = 0 /\ Cursor(d) = 0 /\ Offered(d) = 0
    BY DEF Init, Generation, Cursor, Offered, NoFence
  <2> QED
    BY <2>1 DEF Init, Abstract!Init, Abstract!Zero, generations, cursors, offers
<1>2. IndInv /\ [Next]_vars => [Abstract!Next]_(Abstract!vars)
  BY RefineStep
<1> QED
  BY <1>1, <1>2, Invariance, PTL DEF Spec, Abstract!Spec, ImplementsCursor

\* Generations and cursors of attached and of remembered consumers are numbers.
LEMMA CursorType ==
    ASSUME IndInv, NEW c \in Consumers
    PROVE  Generation(c) \in Nat /\ Cursor(c) \in Nat
<1>1. consumer[c] \in Consumer /\ fence[c] \in Fence
  BY DEF IndInv, TypeOK
<1>2. /\ consumer[c].generation \in Nat /\ consumer[c].acknowledged_sequence \in Nat
      /\ fence[c].generation \in Nat /\ fence[c].acknowledged_sequence \in Nat
  BY <1>1 DEF Consumer, Fence, Sequences
<1> QED
  BY <1>2 DEF Generation, Cursor

\* No frame, of whatever generation, takes the cursor or the generation of a
\* consumer back as long as the process remembers it (attach.rs, state.rs).
THEOREM NoRollback == Spec => NeverBack
<1>1. IndInv /\ IndInv' /\ [Next]_vars =>
        [\A c \in fenced \cap fenced' :
            /\ Generation(c)' >= Generation(c)
            /\ Cursor(c)' >= Cursor(c)]_vars
  <2> SUFFICES ASSUME IndInv, IndInv', [Next]_vars, NEW c \in fenced \cap fenced'
               PROVE  Generation(c)' >= Generation(c) /\ Cursor(c)' >= Cursor(c)
    OBVIOUS
  <2>1. c \in Consumers /\ Generation(c) \in Nat /\ Cursor(c) \in Nat
    BY CursorType DEF IndInv, TypeOK
  <2>2. /\ generations[c] = Generation(c) /\ cursors[c] = Cursor(c)
        /\ generations'[c] = Generation(c)' /\ cursors'[c] = Cursor(c)'
    BY <2>1 DEF generations, cursors
  <2>3. generations'[c] >= generations[c] /\ cursors'[c] >= cursors[c]
    <3>1. CASE UNCHANGED Abstract!vars
      BY <2>1, <2>2, <3>1 DEF Abstract!vars
    <3>2. ASSUME NEW d \in Consumers, NEW g \in Generations, NEW n \in Sequences,
                 Abstract!Attach(d, g, n)
          PROVE  generations'[c] >= generations[c] /\ cursors'[c] >= cursors[c]
      <4>1. PICK gone \in {{}} \cup {{e} : e \in fenced \ {d}} :
              /\ fenced' = (fenced \ gone) \cup {d}
              /\ generations' = Abstract!Assign(generations, d, g, gone)
              /\ cursors' = Abstract!Assign(cursors, d, n, gone)
        BY <3>2, Zenon DEF Abstract!Attach
      <4>2. generations'[c] = (IF c = d THEN g ELSE IF c \in gone THEN 0 ELSE generations[c])
            /\ cursors'[c] = (IF c = d THEN n ELSE IF c \in gone THEN 0 ELSE cursors[c])
        BY <2>1, <4>1 DEF Abstract!Assign
      <4>3. CASE c = d
        <5>1. g > generations[c] /\ n >= cursors[c]
          BY <3>2, <4>3 DEF Abstract!Attach
        <5>2. g \in Nat /\ n \in Nat
          BY DEF Generations, Sequences
        <5> QED
          BY <2>1, <2>2, <4>2, <4>3, <5>1, <5>2
      <4>4. CASE c # d
        <5>1. c \notin gone
          BY <4>1, <4>4
        <5> QED
          BY <2>1, <2>2, <4>2, <4>4, <5>1
      <4> QED
        BY <4>3, <4>4
    <3>3. ASSUME NEW d \in Consumers, NEW n \in Sequences,
                 \/ Abstract!Offer(d, n) \/ Abstract!Withdraw(d)
          PROVE  generations'[c] >= generations[c] /\ cursors'[c] >= cursors[c]
      <4>1. generations' = generations /\ cursors' = cursors
        BY <3>3 DEF Abstract!Offer, Abstract!Withdraw
      <4> QED
        BY <2>1, <2>2, <4>1
    <3>4. ASSUME NEW d \in Consumers, NEW n \in Sequences, NEW up \in Nat, NEW low \in Nat,
                 generations' = generations, cursors' = [cursors EXCEPT ![d] = up],
                 cursors[d] = low, up >= low
          PROVE  generations'[c] >= generations[c] /\ cursors'[c] >= cursors[c]
      <4>1. cursors'[d] = up /\ (c # d => cursors'[c] = cursors[c])
        BY <2>1, <3>4 DEF cursors
      <4>2. CASE c = d
        BY <2>1, <2>2, <3>4, <4>1, <4>2
      <4>3. CASE c # d
        BY <2>1, <2>2, <3>4, <4>1, <4>3
      <4> QED
        BY <4>2, <4>3
    <3>5. ASSUME NEW d \in Consumers, NEW n \in Sequences, Abstract!Acknowledge(d, n)
          PROVE  generations'[c] >= generations[c] /\ cursors'[c] >= cursors[c]
      <4>1. cursors[d] \in Nat /\ offers[d] \in Nat
        <5>1. cursors[d] = Cursor(d) /\ offers[d] = Offered(d) /\ Cursor(d) \in Nat
          BY CursorType DEF cursors, offers
        <5>2. consumer[d].in_flight.last \in Nat
          <6>1. consumer[d].in_flight \in Batch
            BY DEF IndInv, TypeOK, Consumer
          <6> QED
            BY <6>1 DEF Batch, Sequences
        <5> QED
          BY <5>1, <5>2 DEF Offered
      <4>2. offers[d] >= cursors[d]
        BY <3>5, <4>1 DEF Abstract!Acknowledge
      <4> QED
        BY <3>4, <3>5, <4>1, <4>2 DEF Abstract!Acknowledge
    <3>6. ASSUME NEW d \in Consumers, NEW n \in Sequences, Abstract!Baseline(d, n)
          PROVE  generations'[c] >= generations[c] /\ cursors'[c] >= cursors[c]
      <4>1. cursors[d] \in Nat /\ n \in Nat
        BY CursorType DEF cursors, Sequences
      <4> QED
        BY <3>4, <3>6, <4>1 DEF Abstract!Baseline
    <3>7. ~Abstract!Forget
      BY DEF Abstract!Forget
    <3>8. 0 \in Sequences
      BY SupervisorAssumption DEF Sequences
    <3> QED
      BY RefineStep, <3>1, <3>2, <3>3, <3>5, <3>6, <3>7, <3>8 DEF Abstract!Next
  <2> QED
    BY <2>2, <2>3
<1> QED
  BY <1>1, Invariance, PTL DEF Spec, NeverBack

-----------------------------------------------------------------------------
(***************************************************************************)
(* The limits: what waits is counted, and room is made for an identity.    *)
(***************************************************************************)

\* The last batch of a queue that is not empty.
LEMMA LastBatch ==
    ASSUME NEW q \in Seq(Batch), q # << >>
    PROVE  /\ Len(q) \in Nat \ {0} /\ Last(q) = q[Len(q)] /\ Last(q) \in Batch
           /\ 1 \in DOMAIN q /\ Len(q) \in DOMAIN q
           /\ \A i \in DOMAIN q : i \in Nat /\ 1 <= i /\ i <= Len(q) /\ q[i] \in Batch
BY DEF Last

\* Sequence numbers are numbers.
LEMMA BatchNumbers == \A b \in Batch : b.first \in Nat /\ b.last \in Nat
BY DEF Batch, Sequences

\* The number up to which a consumer has been served, in flight included, is a number.
LEMMA BaseNumber == ASSUME NEW r \in Consumer PROVE Base(r) \in Nat
<1>1. r.in_flight \in Batch /\ r.acknowledged_sequence \in Nat
  BY DEF Consumer, Sequences
<1> QED
  BY <1>1, BatchNumbers DEF Base

\* The queue of a consumer ends after what is in flight or acknowledged, and
\* none of its batches ends after its last one.
LEMMA QueueEnds ==
    ASSUME NEW r \in Consumer, Gapless(r), Counted(r), r.queue # << >>
    PROVE  /\ Last(r.queue).last > Base(r)
           /\ \A i \in DOMAIN r.queue : r.queue[i].last <= Last(r.queue).last
<1> DEFINE q == r.queue
           n == Len(r.queue)
<1>1. q \in Seq(Batch)
  BY DEF Consumer
<1>2. /\ n \in Nat \ {0} /\ Last(q) = q[n] /\ 1 \in DOMAIN q /\ n \in DOMAIN q
      /\ \A i \in DOMAIN q : i \in Nat /\ 1 <= i /\ i <= n /\ q[i] \in Batch
  BY <1>1, LastBatch
<1>3. \A i \in DOMAIN q : q[i].first \in Nat /\ q[i].last \in Nat
  BY <1>2, BatchNumbers
<1>4. \A i, j \in DOMAIN q : i < j => q[i].last < q[j].last
  BY DEF Counted
<1>5. q[1].first = 1 + Base(r) /\ q[1].first <= q[1].last
  BY <1>2 DEF Gapless
<1> HIDE DEF q, n
<1>6. \A i \in DOMAIN q : q[i].last <= q[n].last
  <2> SUFFICES ASSUME NEW i \in DOMAIN q PROVE q[i].last <= q[n].last
    OBVIOUS
  <2>1. i = n \/ i < n
    BY <1>2
  <2> QED
    BY <1>2, <1>3, <1>4, <2>1
<1>7. q[n].last > Base(r)
  BY <1>2, <1>3, <1>5, <1>6, BaseNumber
<1> QED
  BY <1>2, <1>6, <1>7 DEF q

\* A consumer that holds no queue counts nothing.
LEMMA EmptyCounted ==
    ASSUME NEW r, r.queue = << >>, r.events = 0
    PROVE  Counted(r)
BY SupervisorAssumption DEF Counted, Waiting

\* The batch that next_delivery takes from the queue is taken from the count.
LEMMA DeliveredCounted ==
    ASSUME NEW r \in Consumer, Gapless(r), Counted(r)
    PROVE  Counted(Delivered(r))
<1>1. CASE r.in_flight # None \/ r.queue = << >>
  BY <1>1 DEF Delivered
<1>2. CASE r.in_flight = None /\ r.queue # << >>
  <2> DEFINE q == r.queue
             n == Len(r.queue)
             d == Delivered(r)
  <2>1. q \in Seq(Batch) /\ q # << >> /\ Base(r) \in Nat /\ r.events \in Int
    BY <1>2, BaseNumber DEF Consumer
  <2>2. /\ n \in Nat \ {0} /\ Last(q) = q[n] /\ 1 \in DOMAIN q /\ n \in DOMAIN q
        /\ DOMAIN q = 1..n /\ \A i \in DOMAIN q : q[i] \in Batch
    BY <2>1, LastBatch
  <2>3. \A i \in DOMAIN q : q[i].first \in Nat /\ q[i].last \in Nat
    BY <2>2, BatchNumbers
  <2>4. Head(q) = q[1] /\ q[1].first = 1 + Base(r) /\ q[1].first <= q[1].last
    BY <2>1, <2>2 DEF Gapless
  <2>5. \A i, j \in DOMAIN q : i < j => q[i].last < q[j].last
    BY DEF Counted
  <2>6. r.events = q[n].last - Base(r) /\ r.events <= max_queue_events
    BY <1>2, <2>2 DEF Counted, Waiting
  <2>7. d.queue = Tail(q) /\ d.events = r.events - Events(q[1]) /\ d.in_flight = q[1]
    BY <1>2, <2>4 DEF Delivered, Popped, Consumer
  <2>8. q[1] # None
    BY <2>1, <2>4 DEF None
  <2>9. Base(d) = q[1].last
    BY <2>7, <2>8 DEF Base
  <2>10. /\ Tail(q) \in Seq(Batch) /\ Len(Tail(q)) = n - 1 /\ DOMAIN Tail(q) = 1..(n - 1)
         /\ \A i \in 1..(n - 1) : Tail(q)[i] = q[i + 1]
    BY <2>1
  <2> HIDE DEF d, q, n
  <2>11. d.events = q[n].last - q[1].last
    <3>1. Events(q[1]) = q[1].last - q[1].first + 1
      BY DEF Events
    <3>2. q[1].first \in Nat /\ q[1].last \in Nat /\ q[n].last \in Nat
      BY <2>2, <2>3
    <3>3. d.events = (q[n].last - Base(r)) - (q[1].last - (1 + Base(r)) + 1)
      BY <2>4, <2>6, <2>7, <3>1
    <3>4. Base(r) \in Nat
      BY <2>1
    <3> QED
      BY <3>2, <3>3, <3>4
  <2>12. d.events = Waiting(d)
    <3>1. CASE n = 1
      <4>1. Tail(q) = << >>
        BY <2>10, <3>1
      <4>2. d.events = 0
        BY <2>2, <2>3, <2>11, <3>1
      <4> QED
        BY <2>7, <4>1, <4>2 DEF Waiting
    <3>2. CASE n # 1
      <4>1. n - 1 \in 1..(n - 1) /\ (n - 1) + 1 = n
        BY <2>2, <3>2
      <4>2. Tail(q) # << >> /\ Tail(q)[n - 1] = q[n]
        BY <2>10, <4>1
      <4>3. Last(Tail(q)) = q[n]
        BY <2>10, <4>2 DEF Last
      <4> QED
        BY <2>7, <2>9, <2>11, <4>2, <4>3 DEF Waiting
    <3> QED
      BY <3>1, <3>2
  <2>13. d.events <= max_queue_events
    BY <2>1, <2>2, <2>3, <2>4, <2>6, <2>11, SupervisorAssumption
  <2>14. ASSUME NEW i \in DOMAIN d.queue, NEW j \in DOMAIN d.queue, i < j
         PROVE  d.queue[i].last < d.queue[j].last
    <3>1. i \in 1..(n - 1) /\ j \in 1..(n - 1)
      BY <2>7, <2>10, <2>14
    <3>2. i + 1 \in DOMAIN q /\ j + 1 \in DOMAIN q /\ i + 1 < j + 1
      BY <2>2, <2>14, <3>1
    <3> QED
      BY <2>5, <2>7, <2>10, <3>1, <3>2
  <2> QED
    BY <2>12, <2>13, <2>14 DEF Counted, d
<1> QED
  BY <1>1, <1>2

\* The batch that enqueue adds to the queue is added to the count.
LEMMA PushedCounted ==
    ASSUME NEW r \in Consumer, Gapless(r), Counted(r), NEW b \in Batch,
           b.first <= b.last, b.first = NextExpected(r),
           r.events + Events(b) <= max_queue_events
    PROVE  Counted(Pushed(r, b))
<1> DEFINE q == r.queue
           n == Len(r.queue)
           e == Pushed(r, b)
<1>1. q \in Seq(Batch) /\ Base(r) \in Nat /\ n \in Nat /\ b.first \in Nat /\ b.last \in Nat
  BY BaseNumber, BatchNumbers DEF Consumer
<1>2. /\ e.queue = Append(q, b) /\ e.events = r.events + Events(b)
      /\ e.in_flight = r.in_flight /\ e.acknowledged_sequence = r.acknowledged_sequence
  BY DEF Pushed, Consumer
<1>3. Base(e) = Base(r)
  BY <1>2 DEF Base
<1>4. /\ Append(q, b) # << >> /\ Len(Append(q, b)) = n + 1 /\ DOMAIN Append(q, b) = 1..(n + 1)
      /\ Append(q, b)[n + 1] = b /\ \A i \in 1..n : Append(q, b)[i] = q[i]
  BY <1>1
<1>5. Waiting(e) = b.last - Base(r)
  BY <1>2, <1>3, <1>4 DEF Waiting, Last
<1>6. r.events = Waiting(r) /\ \A i, j \in DOMAIN q : i < j => q[i].last < q[j].last
  BY DEF Counted
<1>7. e.events = b.last - Base(r) /\ \A i \in 1..n : q[i].last \in Nat /\ q[i].last < b.last
  <2>1. CASE q = << >>
    <3>1. r.events = 0 /\ b.first = 1 + Base(r)
      BY <1>6, <2>1 DEF Waiting, NextExpected, Base
    <3>2. n = 0
      BY <2>1
    <3> QED
      BY <1>1, <1>2, <3>1, <3>2 DEF Events
  <2>2. CASE q # << >>
    <3>1. r.events = Last(q).last - Base(r) /\ b.first = 1 + Last(q).last
      BY <1>6, <2>2 DEF Waiting, NextExpected
    <3>2. /\ Last(q).last \in Nat
          /\ \A i \in 1..n : q[i].last \in Nat /\ q[i].last <= Last(q).last
      BY <1>1, <2>2, LastBatch, BatchNumbers, QueueEnds
    <3>3. e.events = (Last(q).last - Base(r)) + (b.last - (1 + Last(q).last) + 1)
      BY <1>2, <3>1 DEF Events
    <3>4. e.events = b.last - Base(r)
      <4>1. Base(r) \in Nat /\ b.last \in Nat /\ Last(q).last \in Nat
        BY <1>1, <3>2
      <4> HIDE DEF e, q
      <4> QED
        BY <3>3, <4>1
    <3>5. \A i \in 1..n : q[i].last < b.last
      BY <1>1, <3>1, <3>2
    <3> QED
      BY <3>2, <3>4, <3>5
  <2> QED
    BY <2>1, <2>2
<1> HIDE DEF e, q, n
<1>8. ASSUME NEW i \in DOMAIN e.queue, NEW j \in DOMAIN e.queue, i < j
      PROVE  e.queue[i].last < e.queue[j].last
  <2>1. i \in 1..n /\ (j \in 1..n \/ j = n + 1)
    BY <1>1, <1>2, <1>4, <1>8
  <2>2. CASE j \in 1..n
    <3>1. DOMAIN q = 1..n
      BY <1>1 DEF n, q
    <3> QED
      BY <1>2, <1>4, <1>6, <1>8, <2>1, <2>2, <3>1
  <2>3. CASE j = n + 1
    BY <1>2, <1>4, <1>7, <2>1, <2>3
  <2> QED
    BY <2>1, <2>2, <2>3
<1>9. e.events <= max_queue_events
  BY <1>2
<1> QED
  BY <1>5, <1>7, <1>8, <1>9 DEF Counted, e

\* enqueue and next_delivery keep the count, and an overload clears it.
LEMMA EnqueuedCounted ==
    ASSUME NEW r \in Consumer, Gapless(r), Counted(r), NEW b \in Batch,
           b.first <= b.last, b.first = NextExpected(r)
    PROVE  Counted(Enqueued(r, b))
<1>1. CASE r.events + Events(b) > max_queue_events
  <2>1. Enqueued(r, b).queue = << >> /\ Enqueued(r, b).events = 0
    BY <1>1 DEF Enqueued, EmptyQueue, Consumer
  <2> QED
    BY <2>1, EmptyCounted
<1>2. CASE ~(r.events + Events(b) > max_queue_events)
  <2>1. r.events + Events(b) <= max_queue_events
    BY <1>2, BatchNumbers, SupervisorAssumption DEF Events, Consumer
  <2>2. Pushed(r, b) \in Consumer /\ Gapless(Pushed(r, b))
    BY AppendedOK
  <2>3. Counted(Delivered(Pushed(r, b)))
    BY <2>1, <2>2, PushedCounted, DeliveredCounted
  <2> QED
    BY <1>2, <2>3 DEF Enqueued
<1> QED
  BY <1>1, <1>2

\* An acknowledgement and the delivery after it keep the count.
LEMMA AckCounted ==
    ASSUME NEW r \in Consumer, Gapless(r), Counted(r), r.in_flight # None
    PROVE  Counted(Delivered(Cleared(r, r.sent_sequence)))
<1> DEFINE k == Cleared(r, r.sent_sequence)
<1>1. k \in Consumer /\ Gapless(k) /\ k.queue = r.queue
  BY ClearedOK
<1>2. k.events = r.events /\ k.in_flight = None /\ k.acknowledged_sequence = r.in_flight.last
  BY DEF Cleared, Consumer, Gapless
<1>3. Base(k) = Base(r)
  BY <1>2 DEF Base
<1> HIDE DEF k
<1>4. Counted(k)
  BY <1>1, <1>2, <1>3 DEF Counted, Waiting
<1> QED
  BY <1>1, <1>4, DeliveredCounted DEF k

\* A step that replaces the record of an attached consumer keeps the limits.
LEMMA RecordLimits ==
    ASSUME LimitsInv, IndInv', NEW c \in attached, NEW r, Counted(r),
           consumer' = [consumer EXCEPT ![c] = r],
           UNCHANGED <<attached, fenced, fence, older>>
    PROVE  LimitsInv'
<1>1. c \in Consumers /\ consumer \in [Consumers -> Consumer]
  BY DEF LimitsInv, IndInv, TypeOK
<1>2. \A d \in Consumers : consumer'[d] = IF d = c THEN r ELSE consumer[d]
  BY <1>1
<1>3. \A d \in Consumers : Counted(consumer'[d])
  BY <1>2 DEF LimitsInv
<1> QED
  BY <1>3 DEF LimitsInv, OlderIsTotal

\* Touching a fence makes it the newest and keeps the order of the others.
LEMMA TouchTotal ==
    ASSUME IndInv, OlderIsTotal, NEW c \in Consumers, NEW gone,
           older' = Touch(c, gone), fenced' = (fenced \ gone) \cup {c}
    PROVE  OlderIsTotal'
<1> DEFINE stay == fenced \ (gone \cup {c})
<1>1. fenced' = stay \cup {c} /\ stay \subseteq fenced /\ c \notin stay
  OBVIOUS
<1>2. \A d, e : <<d, e>> \in older' <=> \/ <<d, e>> \in older /\ d \in stay /\ e \in stay
                                        \/ d \in stay /\ e = c
  <2> SUFFICES ASSUME NEW d, NEW e
               PROVE  <<d, e>> \in older' <=> \/ <<d, e>> \in older /\ d \in stay /\ e \in stay
                                              \/ d \in stay /\ e = c
    OBVIOUS
  <2> QED
    BY DEF Touch
<1> HIDE DEF stay
<1>3. ASSUME NEW d \in fenced', NEW e \in fenced', d # e
      PROVE  <<d, e>> \in older' \/ <<e, d>> \in older'
  <2>1. CASE d = c \/ e = c
    BY <1>1, <1>2, <1>3, <2>1
  <2>2. CASE d # c /\ e # c
    <3>1. d \in stay /\ e \in stay /\ (<<d, e>> \in older \/ <<e, d>> \in older)
      BY <1>1, <1>3, <2>2 DEF OlderIsTotal
    <3> QED
      BY <1>2, <3>1
  <2> QED
    BY <2>1, <2>2
<1>4. ASSUME NEW d \in fenced', NEW e \in fenced', NEW f \in fenced',
             <<d, e>> \in older', <<e, f>> \in older'
      PROVE  <<d, f>> \in older'
  <2>1. d \in stay /\ e \in stay /\ <<d, e>> \in older
    BY <1>1, <1>2, <1>4
  <2>2. CASE f = c
    BY <1>2, <2>1, <2>2
  <2>3. CASE f # c
    <3>1. f \in stay /\ <<e, f>> \in older
      BY <1>2, <1>4, <2>3
    <3>2. <<d, f>> \in older
      BY <1>1, <2>1, <3>1 DEF OlderIsTotal
    <3> QED
      BY <1>2, <2>1, <3>1, <3>2
  <2> QED
    BY <2>2, <2>3
<1>5. \A d \in Consumers : <<d, d>> \notin older'
  BY <1>1, <1>2 DEF OlderIsTotal
<1> QED
  BY <1>3, <1>4, <1>5 DEF OlderIsTotal

\* When there are detached fences, one of them was touched before the others:
\* the one with the fewest fences before it.
LEMMA OldestExists ==
    ASSUME IndInv, OlderIsTotal, IsFiniteSet(fenced), Idle # {}
    PROVE  \E d \in Idle : \A e \in Idle \ {d} : <<d, e>> \in older
<1> DEFINE Before(d) == {e \in Idle : <<e, d>> \in older}
           T == {Before(d) : d \in Idle}
<1>1. Idle \subseteq fenced /\ Idle \subseteq Consumers /\ IsFiniteSet(Idle)
  BY FS_Subset DEF Idle, IndInv, TypeOK
<1>2. \A d \in Idle : Before(d) \in SUBSET Idle /\ IsFiniteSet(Before(d))
  BY <1>1, FS_Subset
<1>3. T \subseteq FiniteSubsetsOf(Idle) /\ T # {}
  BY <1>2 DEF FiniteSubsetsOf
<1>4. PICK X \in T : \A Y \in T : ~(<<Y, X>> \in StrictSubsetOrdering(Idle))
  <2>1. IsWellFoundedOn(StrictSubsetOrdering(Idle), FiniteSubsetsOf(Idle))
    BY FS_StrictSubsetOrderingWellFounded
  <2> HIDE DEF T
  <2> QED
    BY <1>3, <2>1, WFMin
<1>5. PICK d \in Idle : X = Before(d)
  BY <1>4
<1>6. ASSUME NEW e \in Idle \ {d} PROVE <<d, e>> \in older
  <2> SUFFICES ASSUME <<e, d>> \in older PROVE FALSE
    BY <1>1 DEF OlderIsTotal
  <2>1. Before(e) \subseteq Before(d)
    BY <1>1 DEF OlderIsTotal
  <2>2. e \in Before(d) /\ e \notin Before(e)
    BY <1>1 DEF OlderIsTotal
  <2>3. Before(e) \in SUBSET Idle /\ Before(d) \in SUBSET Idle /\ Before(e) \in T
    BY <1>2
  <2> HIDE DEF Before, T
  <2>4. <<Before(e), Before(d)>> \in StrictSubsetOrdering(Idle)
    BY <2>1, <2>2, <2>3 DEF StrictSubsetOrdering
  <2> QED
    BY <1>4, <1>5, <2>3, <2>4
<1> QED
  BY <1>6

\* A new identity finds room: at the limit a detached fence is forgotten for it.
LEMMA RoomForIdentity ==
    ASSUME LimitsInv, NEW c \in Consumers, IdentityAvailable(c),
           fenced' = (fenced \ Evicted(c)) \cup {c}
    PROVE  IsFiniteSet(fenced)' /\ Cardinality(fenced)' <= max_consumer_identities
<1>1. IsFiniteSet(fenced) /\ Cardinality(fenced) \in Nat
      /\ Cardinality(fenced) <= max_consumer_identities /\ max_consumer_identities \in Nat
  BY FS_CardinalityType, SupervisorAssumption DEF LimitsInv
<1>2. CASE c \in fenced \/ Cardinality(fenced) < max_consumer_identities
  <2>1. fenced' = fenced \cup {c}
    BY <1>2 DEF Evicted
  <2>2. /\ IsFiniteSet(fenced \cup {c})
        /\ Cardinality(fenced \cup {c}) =
              IF c \in fenced THEN Cardinality(fenced) ELSE Cardinality(fenced) + 1
    BY <1>1, FS_AddElement
  <2>3. IsFiniteSet(fenced') /\ Cardinality(fenced') <= max_consumer_identities
    <3>1. CASE c \in fenced
      BY <1>1, <2>1, <2>2, <3>1
    <3>2. CASE c \notin fenced
      <4>1. IsFiniteSet(fenced') /\ Cardinality(fenced') = Cardinality(fenced) + 1
        BY <2>1, <2>2, <3>2
      <4>2. Cardinality(fenced) < max_consumer_identities
        BY <1>2, <3>2
      <4> QED
        BY <1>1, <4>1, <4>2
    <3> QED
      BY <3>1, <3>2
  <2> QED
    BY <2>3
<1>3. CASE ~(c \in fenced \/ Cardinality(fenced) < max_consumer_identities)
  <2>1. Idle # {} /\ Evicted(c) = {d \in Idle : \A e \in Idle \ {d} : <<d, e>> \in older}
    BY <1>3 DEF IdentityAvailable, Evicted
  <2>2. Evicted(c) # {}
    BY <1>1, <2>1, OldestExists DEF LimitsInv
  <2>3. PICK d \in fenced \ {c} : Evicted(c) = {d}
    BY <2>2, EvictedOne DEF LimitsInv
  <2>4. IsFiniteSet(fenced \ {d}) /\ Cardinality(fenced \ {d}) = Cardinality(fenced) - 1
    BY <1>1, <2>3, FS_RemoveElement
  <2>5. /\ IsFiniteSet((fenced \ {d}) \cup {c})
        /\ Cardinality((fenced \ {d}) \cup {c}) = Cardinality(fenced \ {d}) + 1
    BY <1>3, <2>4, FS_AddElement
  <2> QED
    BY <1>1, <2>3, <2>4, <2>5
<1> QED
  BY <1>2, <1>3

\* attach keeps the limits: its two guards are the limits it could exceed.
LEMMA LimitsAttach ==
    ASSUME LimitsInv, IndInv', NEW c \in Consumers, NEW g \in Generations, NEW a \in Sequences,
           attach(c, g, a)
    PROVE  LimitsInv'
<1> DEFINE n == NewConsumer(g, a)
<1>1. /\ attached' = attached \cup {c} /\ fenced' = (fenced \ Evicted(c)) \cup {c}
      /\ consumer' = [consumer EXCEPT ![c] = n] /\ older' = Touch(c, Evicted(c))
      /\ IdentityAvailable(c) /\ (c \in attached \/ Cardinality(attached) < max_consumers)
  BY DEF attach, AttachAllowed
<1>2. Counted(n)
  BY EmptyCounted DEF NewConsumer
<1> HIDE DEF n
<1>3. \A d \in Consumers : Counted(consumer'[d])
  BY <1>1, <1>2 DEF LimitsInv, IndInv, TypeOK
<1>4. OlderIsTotal'
  BY <1>1, TouchTotal DEF LimitsInv
<1>5. IsFiniteSet(attached)' /\ Cardinality(attached)' <= max_consumers
  <2>1. IsFiniteSet(attached) /\ Cardinality(attached) \in Nat
        /\ Cardinality(attached) <= max_consumers /\ max_consumers \in Nat
    BY FS_CardinalityType, SupervisorAssumption DEF LimitsInv
  <2>2. /\ IsFiniteSet(attached \cup {c})
        /\ Cardinality(attached \cup {c}) =
              IF c \in attached THEN Cardinality(attached) ELSE Cardinality(attached) + 1
    BY <2>1, FS_AddElement
  <2> QED
    BY <1>1, <2>1, <2>2
<1>6. IsFiniteSet(fenced)' /\ Cardinality(fenced)' <= max_consumer_identities
  BY <1>1, RoomForIdentity
<1> QED
  BY <1>3, <1>4, <1>5, <1>6 DEF LimitsInv

\* detach keeps the limits: the fence was there already.
LEMMA LimitsDetach ==
    ASSUME LimitsInv, IndInv', NEW c \in Consumers, NEW g \in Generations, detach(c, g)
    PROVE  LimitsInv'
<1>1. /\ c \in attached /\ attached' = attached \ {c} /\ fenced' = fenced \cup {c}
      /\ consumer' = [consumer EXCEPT ![c] = NoConsumer] /\ older' = Touch(c, {})
  BY DEF detach
<1>2. fenced' = fenced /\ fenced' = (fenced \ {}) \cup {c}
  BY <1>1 DEF LimitsInv, IndInv, FenceBehindConsumer
<1>3. Counted(NoConsumer)
  BY EmptyCounted DEF NoConsumer, NewConsumer
<1>4. \A d \in Consumers : Counted(consumer'[d])
  BY <1>1, <1>3 DEF LimitsInv, IndInv, TypeOK
<1>5. OlderIsTotal'
  BY <1>1, <1>2, TouchTotal DEF LimitsInv
<1>6. IsFiniteSet(attached)' /\ Cardinality(attached)' <= max_consumers
  <2>1. IsFiniteSet(attached) /\ Cardinality(attached) \in Nat
        /\ Cardinality(attached) <= max_consumers /\ max_consumers \in Nat
    BY FS_CardinalityType, SupervisorAssumption DEF LimitsInv
  <2>2. IsFiniteSet(attached \ {c}) /\ Cardinality(attached \ {c}) = Cardinality(attached) - 1
    BY <1>1, <2>1, FS_RemoveElement
  <2> QED
    BY <1>1, <2>1, <2>2
<1> QED
  BY <1>2, <1>4, <1>5, <1>6 DEF LimitsInv

\* A frame about batches and baselines keeps the limits.
LEMMA LimitsFrame ==
    ASSUME LimitsInv, IndInv', NEW c \in Consumers, NEW g \in Generations,
           \/ \E b \in Batch : EventBatch(c, g, b)
           \/ \E b \in Batch, r, a \in Sequences : ApplicationAck(c, g, b, r, a)
           \/ \E id \in RecoveryIds, a \in Sequences : install_baseline(c, g, id, a)
    PROVE  LimitsInv'
<1> DEFINE r == consumer[c]
<1>1. r \in Consumer /\ Gapless(r) /\ Counted(r) /\ Settled(r)
  BY DEF LimitsInv, IndInv, TypeOK
<1>2. ASSUME NEW b \in Batch, EventBatch(c, g, b) PROVE LimitsInv'
  <2>1. /\ c \in attached /\ b.first <= b.last /\ b.first = NextExpected(r)
        /\ consumer' = [consumer EXCEPT ![c] = Enqueued(r, b)]
        /\ UNCHANGED <<attached, fenced, fence, older>>
    BY <1>2 DEF EventBatch, Current
  <2> HIDE DEF r
  <2>2. Counted(Enqueued(r, b))
    BY <1>1, <2>1, EnqueuedCounted
  <2> QED
    BY <2>1, <2>2, RecordLimits
<1>3. ASSUME NEW b \in Batch, NEW received \in Sequences, NEW a \in Sequences,
             ApplicationAck(c, g, b, received, a)
      PROVE  LimitsInv'
  <2>1. /\ c \in attached /\ r.in_flight # None /\ a = r.sent_sequence
        /\ consumer' = [consumer EXCEPT ![c] = Delivered(Cleared(r, a))]
        /\ UNCHANGED <<attached, fenced, fence, older>>
    BY <1>3 DEF ApplicationAck, Current
  <2> HIDE DEF r
  <2>2. Counted(Delivered(Cleared(r, a)))
    BY <1>1, <2>1, AckCounted
  <2> QED
    BY <2>1, <2>2, RecordLimits
<1>4. ASSUME NEW id \in RecoveryIds, NEW a \in Sequences, install_baseline(c, g, id, a)
      PROVE  LimitsInv'
  <2>1. /\ c \in attached /\ r.events = 0 /\ r.in_flight = None
        /\ consumer' = [consumer EXCEPT ![c] = Rebased(r, id, a)]
        /\ UNCHANGED <<attached, fenced, fence, older>>
    BY <1>4 DEF install_baseline, Current
  <2> HIDE DEF r
  <2>2. Rebased(r, id, a).queue = << >> /\ Rebased(r, id, a).events = 0
    BY <1>1, <2>1 DEF Rebased, Consumer, Settled
  <2>3. Counted(Rebased(r, id, a))
    BY <2>2, EmptyCounted
  <2> QED
    BY <2>1, <2>3, RecordLimits
<1> QED
  BY <1>2, <1>3, <1>4

\* A process that has just started is within its limits.
LEMMA LimitsEmpty ==
    ASSUME IndInv, attached = {}, fenced = {}, older = {},
           consumer = [c \in Consumers |-> NoConsumer]
    PROVE  LimitsInv
<1>1. Counted(NoConsumer)
  BY EmptyCounted DEF NoConsumer, NewConsumer
<1>2. IsFiniteSet({}) /\ Cardinality({}) = 0
  BY FS_EmptySet
<1> QED
  BY <1>1, <1>2, SupervisorAssumption DEF LimitsInv, OlderIsTotal

\* Every step keeps the limits.
LEMMA LimitsStep == LimitsInv /\ IndInv' /\ [Next]_vars => LimitsInv'
<1> SUFFICES ASSUME LimitsInv, IndInv', [Next]_vars PROVE LimitsInv'
  OBVIOUS
<1>1. ASSUME NEW c \in Consumers, NEW g \in Generations, NEW a \in Sequences, attach(c, g, a)
      PROVE  LimitsInv'
  BY <1>1, LimitsAttach
<1>2. ASSUME NEW c \in Consumers, NEW g \in Generations, detach(c, g) PROVE LimitsInv'
  BY <1>2, LimitsDetach
<1>3. ASSUME NEW c \in Consumers, NEW g \in Generations,
             \/ \E b \in Batch : EventBatch(c, g, b)
             \/ \E b \in Batch, r, a \in Sequences : ApplicationAck(c, g, b, r, a)
             \/ \E id \in RecoveryIds, a \in Sequences : install_baseline(c, g, id, a)
      PROVE  LimitsInv'
  BY <1>3, LimitsFrame
<1>4. ASSUME NEW c \in Consumers, check_timeouts(c) PROVE LimitsInv'
  <2>1. c \in attached /\ consumer[c] \in Consumer /\ Counted(consumer[c])
    BY <1>4 DEF check_timeouts, LimitsInv, IndInv, TypeOK
  <2>2. PICK x : x = [consumer[c] EXCEPT !.state = "Stalled"]
    OBVIOUS
  <2>3. /\ x.queue = consumer[c].queue /\ x.events = consumer[c].events
        /\ x.in_flight = consumer[c].in_flight
        /\ x.acknowledged_sequence = consumer[c].acknowledged_sequence
    BY <2>1, <2>2 DEF Consumer
  <2>4. Counted(x)
    BY <2>1, <2>3 DEF Counted, Waiting, Base
  <2>5. consumer' = [consumer EXCEPT ![c] = x] /\ UNCHANGED <<attached, fenced, fence, older>>
    BY <1>4, <2>2 DEF check_timeouts
  <2> QED
    BY <2>1, <2>4, <2>5, RecordLimits
<1>5. CASE Restart
  <2>1. /\ attached' = {} /\ fenced' = {} /\ older' = {}
        /\ consumer' = [c \in Consumers |-> NoConsumer]
    BY <1>5 DEF Restart
  <2>2. Counted(NoConsumer)
    BY EmptyCounted DEF NoConsumer, NewConsumer
  <2>3. IsFiniteSet({}) /\ Cardinality({}) = 0
    BY FS_EmptySet
  <2> QED
    BY <2>1, <2>2, <2>3, SupervisorAssumption DEF LimitsInv, OlderIsTotal
<1>6. CASE UNCHANGED vars
  BY <1>6 DEF vars, LimitsInv, OlderIsTotal
<1> QED
  BY <1>1, <1>2, <1>3, <1>4, <1>5, <1>6 DEF Next

\* The process stays within its Limits: attached consumers, remembered
\* identities, and the events that wait for each consumer, of which the count
\* that enqueue and next_delivery keep is exact and never falls below zero.
THEOREM LimitsHold == Spec => []WithinLimits
<1>1. Init => LimitsInv
  BY IndEmpty, LimitsEmpty DEF Init
<1>2. Spec => []LimitsInv
  BY <1>1, LimitsStep, Invariance, PTL DEF Spec
<1>3. LimitsInv => WithinLimits
  <2> SUFFICES ASSUME LimitsInv, NEW c \in attached
               PROVE  /\ consumer[c].events = Waiting(consumer[c])
                      /\ consumer[c].events \in 0 .. max_queue_events
    BY DEF WithinLimits, LimitsInv
  <2> DEFINE r == consumer[c]
  <2>1. r \in Consumer /\ Gapless(r) /\ Counted(r)
    BY DEF LimitsInv, IndInv, TypeOK
  <2> HIDE DEF r
  <2>2. r.events \in Int /\ r.events = Waiting(r) /\ r.events <= max_queue_events
    BY <2>1 DEF Counted, Consumer
  <2>3. Waiting(r) >= 0
    <3>1. CASE r.queue = << >>
      BY <3>1 DEF Waiting
    <3>2. CASE r.queue # << >>
      <4>1. Last(r.queue).last > Base(r) /\ Base(r) \in Nat
        BY <2>1, <3>2, QueueEnds, BaseNumber
      <4>2. Last(r.queue).last \in Nat
        BY <2>1, <3>2, LastBatch, BatchNumbers DEF Consumer
      <4> QED
        BY <3>2, <4>1, <4>2 DEF Waiting
    <3> QED
      BY <3>1, <3>2
  <2> QED
    BY <2>2, <2>3, SupervisorAssumption DEF r
<1> QED
  BY <1>2, <1>3, PTL
=============================================================================
