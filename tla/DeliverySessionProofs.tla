----------------------- MODULE DeliverySessionProofs -----------------------
(***************************************************************************)
(* Proofs for DeliverySession: for any log, payloads, capacities, numbers  *)
(* of faults and of restarts, nothing is acknowledged before the renderer  *)
(* has applied it, delivery never bridges a gap, and a session that        *)
(* delivers agrees with the supervisor on generation and cursor.           *)
(***************************************************************************)
EXTENDS DeliverySession, FiniteSetTheorems, TLAPS

-----------------------------------------------------------------------------
(***************************************************************************)
(* Numbers, extreme elements and channels.                                 *)
(***************************************************************************)

\* The bounds are natural numbers, and the positive ones are positive.
LEMMA Bounds ==
    /\ MaxSequence \in Nat \ {0} /\ INPUT_CAPACITY \in Nat \ {0}
    /\ BATCH_EVENT_CAPACITY \in Nat \ {0} /\ REPLAY_BUFFER_CAPACITY \in Nat \ {0}
    /\ RESTART_ATTEMPTS \in Nat \ {0} /\ MaxGeneration \in Nat \ {0}
    /\ MaxRecoveries \in Nat \ {0} /\ MaxFaults \in Nat
    /\ Mode \in Routes
BY DeliveryAssumption DEF Routes

\* A set of natural numbers that is not empty has a least element.
LEMMA Least ==
    ASSUME NEW S \in SUBSET Nat, S # {}
    PROVE  \E x \in S : \A y \in S : x <= y
<1> DEFINE R == OpToRel(<, Nat)
<1>1. IsWellFoundedOn(R, Nat)
  BY NatLessThanWellFounded
<1>2. PICK x \in S : \A y \in S : <<y, x>> \notin R
  <2> HIDE DEF R
  <2> QED
    BY <1>1, WFMin
<1>3. ASSUME NEW y \in S PROVE x <= y
  <2>1. <<y, x>> \in Nat \X Nat /\ <<y, x>> \notin R
    BY <1>2
  <2>2. ~(y < x)
    BY <2>1 DEF OpToRel
  <2> QED
    BY <2>2
<1> QED
  BY <1>2, <1>3

\* So Min picks an element.
LEMMA MinIn == ASSUME NEW S \in SUBSET Nat, S # {} PROVE Min(S) \in S
BY Least DEF Min

\* With an upper bound there is a greatest element, and Max picks it.
LEMMA MaxIn ==
    ASSUME NEW S \in SUBSET Nat, S # {}, NEW n \in Nat, \A x \in S : x <= n
    PROVE  Max(S) \in S /\ \A y \in S : Max(S) >= y
<1> DEFINE D == {n - x : x \in S}
<1>1. D \in SUBSET Nat /\ D # {}
  <2>1. \A x \in S : n - x \in Nat
    OBVIOUS
  <2> QED
    BY <2>1
<1>2. PICK d \in D : \A y \in D : d <= y
  BY <1>1, Least
<1>3. PICK x \in S : d = n - x
  OBVIOUS
<1>4. ASSUME NEW y \in S PROVE x >= y
  <2>1. n - x <= n - y
    BY <1>2, <1>3
  <2> QED
    BY <2>1
<1> QED
  BY <1>4 DEF Max

\* The greater of two numbers is one of them and less than neither.
LEMMA MaxOfTwo ==
    ASSUME NEW a \in Nat, NEW b \in Nat
    PROVE  /\ Max({a, b}) \in Nat /\ Max({a, b}) \in {a, b}
           /\ Max({a, b}) >= a /\ Max({a, b}) >= b
<1>1. /\ Max({a, b}) \in {a, b}
      /\ \A y \in {a, b} : Max({a, b}) >= y
  <2>1. \A x \in {a, b} : x <= a + b
    OBVIOUS
  <2> QED
    BY <2>1, MaxIn
<1> QED
  BY <1>1

\* Sending appends one item.
LEMMA Sent ==
    ASSUME NEW S, NEW q \in Seq(S), NEW x \in S
    PROVE  /\ Append(q, x) \in Seq(S)
           /\ \A i \in DOMAIN Append(q, x) :
                  \/ i \in DOMAIN q /\ Append(q, x)[i] = q[i]
                  \/ Append(q, x)[i] = x
  OBVIOUS

\* Receiving takes the first one.
LEMMA Received ==
    ASSUME NEW S, NEW q \in Seq(S), q # << >>
    PROVE  /\ Head(q) \in S /\ 1 \in DOMAIN q /\ Head(q) = q[1] /\ Tail(q) \in Seq(S)
           /\ \A i \in DOMAIN Tail(q) : i + 1 \in DOMAIN q /\ Tail(q)[i] = q[i + 1]
  OBVIOUS

\* Sets of committed events are finite.
LEMMA EventsFinite == ASSUME NEW S \in SUBSET Events PROVE IsFiniteSet(S)
<1>1. IsFiniteSet(1 .. MaxSequence)
  BY Bounds, FS_Interval
<1> QED
  BY <1>1, FS_Subset DEF Events

-----------------------------------------------------------------------------
(***************************************************************************)
(* Batches.                                                                *)
(***************************************************************************)

\* A batch that is put together starts with its first event, holds committed events only, and
\* takes nothing from the channel and the pending map but what is there.
LEMMA CollectedOK ==
    ASSUME NEW h \in 0 .. MaxSequence, NEW e \in 1 .. h,
           NEW pending \in SUBSET (1 .. h), NEW input \in SUBSET (1 .. h)
    PROVE  LET b == Collected(e, pending, input) IN
           /\ b.last \in e .. h
           /\ b.pending \in SUBSET (1 .. h)
           /\ b.input \in SUBSET input
<1> DEFINE ends == {l \in e .. e + BATCH_EVENT_CAPACITY - 1 :
                       \A n \in e + 1 .. l : n \in pending \cup input /\ Fits(e, n)}
           last == Max(ends)
           b == Collected(e, pending, input)
<1>1. e \in Nat /\ h \in Nat /\ e >= 1 /\ e <= h /\ BATCH_EVENT_CAPACITY \in Nat \ {0}
  BY Bounds
<1>2. ends \in SUBSET Nat /\ \A l \in ends : l <= e + BATCH_EVENT_CAPACITY
  BY <1>1
<1>3. e \in ends
  <2>1. e \in e .. e + BATCH_EVENT_CAPACITY - 1 /\ e + 1 .. e = {}
    BY <1>1
  <2> QED
    BY <2>1
<1>4. last \in ends
  <2>1. PICK n \in Nat : n = e + BATCH_EVENT_CAPACITY
    BY <1>1
  <2>2. \A l \in ends : l <= n
    BY <1>2, <2>1
  <2> HIDE DEF ends
  <2> QED
    BY <1>2, <1>3, <2>2, MaxIn
<1>5. last \in e .. h
  <2>1. PICK l \in ends : l = last
    BY <1>4
  <2>2. l \in Nat /\ l >= e /\ (l > e => l \in pending \cup input)
    BY <1>1, <2>1
  <2> HIDE DEF ends, last
  <2>3. l > e => l <= h
    BY <1>1, <2>2
  <2> QED
    BY <1>1, <2>1, <2>2, <2>3
<1>6. b.last = last /\ b.input \in SUBSET input
      /\ b.pending \in SUBSET (pending \cup input)
  BY DEF Collected
<1> HIDE DEF ends, last, b
<1> QED
  BY <1>5, <1>6 DEF b

-----------------------------------------------------------------------------
(***************************************************************************)
(* The record the supervisor keeps of the renderer.                        *)
(***************************************************************************)

\* A new record has the generation and the cursor it was attached with.
LEMMA NewRecord ==
    ASSUME NEW g \in 0 .. MaxGeneration, NEW a \in 0 .. MaxSequence
    PROVE  /\ Sup!NewConsumer(g, a) \in Sup!Consumer
           /\ Sup!NewConsumer(g, a).generation = g
           /\ Sup!NewConsumer(g, a).acknowledged_sequence = a
<1>1. Sup!None \in Sup!Batch
  BY Bounds DEF Sup!None, Sup!Batch, Sup!Sequences
<1> QED
  BY <1>1 DEF Sup!NewConsumer, Sup!Consumer, Sup!States, Sup!Sequences

\* A batch has a length.
LEMMA BatchLength == ASSUME NEW b \in Sup!Batch PROVE Sup!Events(b) \in Int
<1>1. b.first \in Nat /\ b.last \in Nat
  BY Bounds DEF Sup!Batch, Sup!Sequences
<1> QED
  BY <1>1 DEF Sup!Events

\* next_delivery changes neither the cursor nor the generation.
LEMMA DeliveredRecord ==
    ASSUME NEW r \in Sup!Consumer
    PROVE  /\ Sup!Delivered(r) \in Sup!Consumer
           /\ Sup!Delivered(r).generation = r.generation
           /\ Sup!Delivered(r).acknowledged_sequence = r.acknowledged_sequence
<1>1. CASE r.in_flight # Sup!None \/ r.queue = << >>
  BY <1>1 DEF Sup!Delivered
<1>2. CASE ~(r.in_flight # Sup!None \/ r.queue = << >>)
  <2>1. r.queue \in Seq(Sup!Batch) /\ r.queue # << >>
    BY <1>2 DEF Sup!Consumer
  <2>2. PICK h \in Sup!Batch, t \in Seq(Sup!Batch) : h = Head(r.queue) /\ t = Tail(r.queue)
    <3>1. Head(r.queue) \in Sup!Batch /\ Tail(r.queue) \in Seq(Sup!Batch)
      BY <2>1
    <3> QED
      BY <3>1, Zenon
  <2>3. PICK n \in Int : n = r.events - Sup!Events(h)
    <3>1. Sup!Events(h) \in Int
      BY BatchLength
    <3>2. r.events \in Int
      BY DEF Sup!Consumer
    <3> QED
      BY <3>1, <3>2
  <2>4. PICK l \in Sup!Sequences : l = h.last
    BY DEF Sup!Batch
  <2>5. PICK p : p = [r EXCEPT !.queue = t, !.events = n]
    OBVIOUS
  <2>6. p \in Sup!Consumer /\ p.generation = r.generation
        /\ p.acknowledged_sequence = r.acknowledged_sequence
    BY <2>5 DEF Sup!Consumer
  <2>7. Sup!Delivered(r) = [p EXCEPT !.in_flight = h, !.sent_sequence = l,
                                     !.state = "AwaitingAcknowledgement"]
    BY <1>2, <2>2, <2>3, <2>4, <2>5, Zenon DEF Sup!Delivered, Sup!Popped
  <2>8. Sup!Delivered(r) \in Sup!Consumer
    BY <2>6, <2>7 DEF Sup!Consumer, Sup!States
  <2>9. /\ Sup!Delivered(r).generation = p.generation
        /\ Sup!Delivered(r).acknowledged_sequence = p.acknowledged_sequence
    BY <2>6, <2>7 DEF Sup!Consumer
  <2> QED
    BY <2>6, <2>8, <2>9
<1> QED
  BY <1>1, <1>2

\* Neither does enqueue.
LEMMA EnqueuedRecord ==
    ASSUME NEW r \in Sup!Consumer, NEW b \in Sup!Batch
    PROVE  /\ Sup!Enqueued(r, b) \in Sup!Consumer
           /\ Sup!Enqueued(r, b).generation = r.generation
           /\ Sup!Enqueued(r, b).acknowledged_sequence = r.acknowledged_sequence
<1>1. PICK q \in Seq(Sup!Batch), n \in Int : q = Append(r.queue, b) /\ n = r.events + Sup!Events(b)
  <2>1. Sup!Events(b) \in Int
    BY BatchLength
  <2>2. r.events \in Int /\ r.queue \in Seq(Sup!Batch)
    BY DEF Sup!Consumer
  <2>3. Append(r.queue, b) \in Seq(Sup!Batch) /\ r.events + Sup!Events(b) \in Int
    BY <2>1, <2>2
  <2> QED
    BY <2>3, Zenon
<1>2. CASE n > MaxSequence
  <2>1. PICK e \in Seq(Sup!Batch), z \in Int : e = << >> /\ z = 0
    <3>1. << >> \in Seq(Sup!Batch) /\ 0 \in Int
      OBVIOUS
    <3> QED
      BY <3>1, Zenon
  <2>2. Sup!None \in Sup!Batch
    BY Bounds DEF Sup!None, Sup!Batch, Sup!Sequences
  <2>3. PICK p : p = [r EXCEPT !.queue = e, !.events = z]
    OBVIOUS
  <2>4. p \in Sup!Consumer /\ p.generation = r.generation
        /\ p.acknowledged_sequence = r.acknowledged_sequence
    BY <2>3 DEF Sup!Consumer
  <2>5. Sup!Enqueued(r, b) = [p EXCEPT !.state = "Overloaded", !.in_flight = Sup!None]
    BY <1>1, <1>2, <2>1, <2>3, Zenon DEF Sup!Enqueued, Sup!EmptyQueue
  <2> QED
    BY <2>2, <2>4, <2>5 DEF Sup!Consumer, Sup!States
<1>3. CASE ~(n > MaxSequence)
  <2>1. PICK p : p = [r EXCEPT !.queue = q, !.events = n]
    OBVIOUS
  <2>2. p \in Sup!Consumer /\ p.generation = r.generation
        /\ p.acknowledged_sequence = r.acknowledged_sequence
    BY <2>1 DEF Sup!Consumer
  <2>3. Sup!Enqueued(r, b) = Sup!Delivered(p)
    BY <1>1, <1>3, <2>1 DEF Sup!Enqueued, Sup!Pushed
  <2> QED
    BY <2>2, <2>3, DeliveredRecord
<1> QED
  BY <1>2, <1>3

\* An acknowledgement moves the cursor to what was acknowledged.
LEMMA AckedRecord ==
    ASSUME NEW r \in Sup!Consumer, NEW a \in 0 .. MaxSequence
    PROVE  /\ Sup!Delivered(Sup!Cleared(r, a)) \in Sup!Consumer
           /\ Sup!Delivered(Sup!Cleared(r, a)).generation = r.generation
           /\ Sup!Delivered(Sup!Cleared(r, a)).acknowledged_sequence = a
<1>1. Sup!None \in Sup!Batch
  BY Bounds DEF Sup!None, Sup!Batch, Sup!Sequences
<1>2. /\ Sup!Cleared(r, a) \in Sup!Consumer
      /\ Sup!Cleared(r, a).generation = r.generation
      /\ Sup!Cleared(r, a).acknowledged_sequence = a
  BY <1>1 DEF Sup!Cleared, Sup!Consumer, Sup!States, Sup!Sequences
<1> QED
  BY <1>2, DeliveredRecord

\* So does a baseline.
LEMMA RebasedRecord ==
    ASSUME NEW r \in Sup!Consumer, NEW a \in 0 .. MaxSequence, NEW id \in 1 .. MaxRecoveries
    PROVE  /\ Sup!Rebased(r, id, a) \in Sup!Consumer
           /\ Sup!Rebased(r, id, a).generation = r.generation
           /\ Sup!Rebased(r, id, a).acknowledged_sequence = a
<1>1. PICK i : /\ i = r.baseline_identities \cup {[recovery_id |-> id, sequence |-> a]}
               /\ i \in SUBSET [recovery_id : 1 .. MaxRecoveries, sequence : Sup!Sequences]
  <2>1. [recovery_id |-> id, sequence |-> a] \in
            [recovery_id : 1 .. MaxRecoveries, sequence : Sup!Sequences]
    BY DEF Sup!Sequences
  <2>2. r.baseline_identities \in SUBSET [recovery_id : 1 .. MaxRecoveries, sequence : Sup!Sequences]
    BY DEF Sup!Consumer
  <2> QED
    BY <2>1, <2>2, Zenon
<1>2. Sup!Rebased(r, id, a) =
        [r EXCEPT !.acknowledged_sequence = a, !.sent_sequence = a,
                  !.baseline_identities = i, !.state = "Ready"]
  BY <1>1, Zenon DEF Sup!Rebased
<1> QED
  BY <1>1, <1>2 DEF Sup!Consumer, Sup!States, Sup!Sequences

-----------------------------------------------------------------------------
(***************************************************************************)
(* What many steps have in common.                                         *)
(***************************************************************************)

\* The parts of the invariant.
LEMMA InvParts ==
    DeliveryInv => /\ TypeOK /\ ProcessTyped /\ OnlyCommitted /\ GatesFollow /\ BaselinesAreNamed
                   /\ CallFollows /\ AckedIsApplied /\ BatchApplied /\ NoGapDelivered /\ AttachedAgrees
BY DEF DeliveryInv

\* The kinds of the values that the steps compute with.
LEMMA Kinds ==
    ASSUME TypeOK
    PROVE  /\ s \in Sessions /\ s.gen \in 0 .. MaxGeneration /\ s.acked \in 0 .. MaxSequence
           /\ s.pending \in SUBSET Events /\ s.input \in SUBSET Events
           /\ s.batch \in Batches /\ s.ackGate \in Batches /\ s.baselineGate \in Gates
           /\ s.hasAttached \in BOOLEAN /\ s.pc \in Places /\ s.route \in Routes
           /\ s.failures \in 0 .. RESTART_ATTEMPTS /\ s.attempt \in 1 .. RESTART_ATTEMPTS
           /\ client \in Renderers /\ client.applied \in Nat /\ client.cursor \in Nat
           /\ client.batch \in Batches /\ client.gate \in Gates
           /\ head \in Nat /\ head \in 0 .. MaxSequence /\ fed \in Nat /\ s.acked \in Nat
<1>1. s \in Sessions /\ client \in Renderers /\ head \in 0 .. MaxSequence /\ fed \in 0 .. head
  BY DEF TypeOK
<1>2. /\ s.gen \in 0 .. MaxGeneration /\ s.acked \in 0 .. MaxSequence
      /\ s.pending \in SUBSET Events /\ s.input \in SUBSET Events
      /\ s.batch \in Batches /\ s.ackGate \in Batches /\ s.baselineGate \in Gates
      /\ s.hasAttached \in BOOLEAN /\ s.pc \in Places /\ s.route \in Routes
      /\ s.failures \in 0 .. RESTART_ATTEMPTS /\ s.attempt \in 1 .. RESTART_ATTEMPTS
  BY <1>1 DEF Sessions
<1>3. /\ client.applied \in 0 .. MaxSequence /\ client.cursor \in 0 .. MaxSequence
      /\ client.batch \in Batches /\ client.gate \in Gates
  BY <1>1 DEF Renderers
<1>4. \A n \in 0 .. MaxSequence : n \in Nat
  BY Bounds
<1>5. fed \in Nat
  BY <1>1, <1>4
<1> QED
  BY <1>1, <1>2, <1>3, <1>4, <1>5, Zenon

\* The bounds of a batch are numbers.
LEMMA BatchKind ==
    ASSUME NEW b \in Batches PROVE b.first \in Nat /\ b.last \in Nat /\ b.last <= MaxSequence
BY Bounds DEF Batches

\* So are those of the batches on their way, and the cursor of a record.
LEMMA OutKind ==
    ASSUME TypeOK
    PROVE  \A i \in DOMAIN out : out[i].type = "batch" =>
               out[i].batch \in Batches /\ out[i].batch.first \in Nat /\ out[i].batch.last \in Nat
<1>1. \A i \in DOMAIN out : out[i] \in Items
  BY DEF TypeOK
<1>2. \A i \in DOMAIN out : out[i].type = "batch" => out[i].batch \in Batches
  BY <1>1 DEF Items
<1> QED
  BY <1>2, BatchKind

\* The supervisor's cursor for a session is a number.
LEMMA RecordKind ==
    ASSUME ProcessTyped PROVE consumer[Renderer].acknowledged_sequence \in Nat
BY Bounds DEF ProcessTyped, Sup!Consumer, Sup!Sequences

\* Nothing is a batch, a gate, or a call in progress, of its kind.
LEMMA NothingKind ==
    /\ NoBatch \in Batches /\ NoBatch.first = 0 /\ NoBatch.last = 0
    /\ NoGate \in Gates /\ NoGate.id = 0 /\ NoCall \in PendingCalls /\ NoCall.kind = "none"
BY Bounds DEF NoBatch, Batches, NoGate, Gates, NoCall, PendingCalls

\* A new process knows nothing.
LEMMA Killed ==
    ASSUME KillProcess
    PROVE  ProcessTyped' /\ attached' = {}
<1>1. Sup!NoConsumer \in Sup!Consumer
  BY NewRecord, Bounds DEF Sup!NoConsumer
<1>2. attached' = {} /\ consumer' = [c \in {Renderer} |-> Sup!NoConsumer]
  BY DEF KillProcess, Sup!Restart
<1> QED
  BY <1>1, <1>2 DEF ProcessTyped

\* Whatever closing a session does to the process, it drops the output and the call, and
\* leaves an attachment as it is or not at all.
LEMMA ClosedProcess ==
    ASSUME ProcessTyped, NEW b \in BOOLEAN, CloseSession(b)
    PROVE  /\ call' = NoCall /\ out' = << >> /\ ProcessTyped'
           /\ attached' # {} => attached # {} /\ consumer' = consumer
<1>1. call' = NoCall /\ out' = << >>
  BY DEF CloseSession
<1>2. CASE KillProcess
  BY <1>1, <1>2, Killed
<1>3. CASE Sup!detach(Renderer, s.gen)
  <2>1. Sup!NoConsumer \in Sup!Consumer
    BY NewRecord, Bounds DEF Sup!NoConsumer
  <2>2. attached' = attached \ {Renderer}
        /\ consumer' = [consumer EXCEPT ![Renderer] = Sup!NoConsumer]
    BY <1>3 DEF Sup!detach
  <2> QED
    BY <1>1, <2>1, <2>2 DEF ProcessTyped
<1>4. CASE UNCHANGED supervisor
  BY <1>1, <1>4 DEF supervisor, ProcessTyped
<1> QED
  BY <1>2, <1>3, <1>4 DEF CloseSession

\* The renderer after a fence: gone, at most with more applied.
LEMMA FencedOK ==
    ASSUME TypeOK, Fenced
    PROVE  /\ client' \in Renderers /\ client'.pc = "lost" /\ client'.cursor = client.cursor
           /\ client'.batch = client.batch /\ client'.gate = client.gate /\ client'.gen = client.gen
           /\ client'.applied \in {client.applied, head}
<1>1. client \in Renderers /\ head \in 0 .. MaxSequence
  BY Kinds
<1>2. CASE client' = client /\ client.pc = "lost"
  BY <1>1, <1>2
<1>3. CASE client' = [client EXCEPT !.pc = "lost"]
  BY <1>1, <1>3 DEF Renderers
<1>4. CASE client' = [client EXCEPT !.pc = "lost", !.applied = head]
  BY <1>1, <1>4 DEF Renderers
<1> QED
  BY <1>2, <1>3, <1>4 DEF Fenced

\* The renderer after an accepted acknowledgement of what it has applied.
LEMMA AcceptedOK ==
    ASSUME TypeOK, client.cursor <= client.applied,
           NEW n \in Nat, n <= client.applied, Accepted(n)
    PROVE  /\ client' \in Renderers /\ client'.pc \in {"idle", "lost"}
           /\ client'.cursor <= client'.applied /\ client'.applied = client.applied
           /\ client'.batch = client.batch /\ client'.gate = client.gate
           /\ faults' \in 0 .. MaxFaults
<1>1. client \in Renderers /\ client.cursor \in Nat /\ client.applied \in Nat
      /\ client.applied \in 0 .. MaxSequence /\ faults \in 0 .. MaxFaults
  BY Kinds DEF TypeOK, Renderers
<1>2. CASE UNCHANGED <<client, faults>> /\ client.pc = "lost"
  BY <1>1, <1>2
<1>3. CASE client' = [client EXCEPT !.pc = "idle", !.cursor = Max({client.cursor, n})]
           /\ UNCHANGED faults
  <2>1. PICK m \in 0 .. MaxSequence : m = Max({client.cursor, n}) /\ m <= client.applied
    <3>1. PICK m \in Nat : m = Max({client.cursor, n}) /\ m \in {client.cursor, n}
      BY <1>1, MaxOfTwo
    <3>2. m <= client.applied /\ m \in 0 .. MaxSequence
      BY <1>1, <3>1, Bounds
    <3> QED
      BY <3>1, <3>2
  <2>2. client' = [client EXCEPT !.pc = "idle", !.cursor = m]
    BY <1>3, <2>1
  <2> QED
    BY <1>1, <1>3, <2>1, <2>2 DEF Renderers
<1>4. CASE client' = [client EXCEPT !.pc = "lost"] /\ Fault
  <2>1. faults' \in 0 .. MaxFaults
    BY <1>1, <1>4, Bounds DEF Fault
  <2> QED
    BY <1>1, <1>4, <2>1 DEF Renderers
<1> QED
  BY <1>2, <1>3, <1>4 DEF Accepted

\* A gate that fails sends the run loop to its catch.
LEMMA FailedGate ==
    ASSUME TypeOK
    PROVE  LET x == FailInFlight(s) IN
           /\ x \in Sessions /\ x.ackGate = NoBatch
           /\ x.pc = IF s.ackGate = NoBatch THEN s.pc ELSE "failed"
           /\ x.route = s.route /\ x.gen = s.gen /\ x.acked = s.acked
           /\ x.hasAttached = s.hasAttached /\ x.input = s.input /\ x.pending = s.pending
           /\ x.batch = s.batch /\ x.baselineGate = s.baselineGate /\ x.failures = s.failures
<1>1. s \in Sessions /\ NoBatch \in Batches
  BY Kinds, NothingKind
<1>2. CASE s.ackGate = NoBatch
  BY <1>1, <1>2 DEF FailInFlight
<1>3. CASE s.ackGate # NoBatch
  <2>1. FailInFlight(s) = [s EXCEPT !.ackGate = NoBatch, !.pc = "failed"]
    BY <1>3 DEF FailInFlight
  <2> QED
    BY <1>1, <1>3, <2>1 DEF Sessions, Places
<1> QED
  BY <1>2, <1>3

\* A lost reply changes only what the call will be told.
LEMMA InterruptedOK ==
    ASSUME NEW k \in PendingCalls, NEW x \in Interrupted(k)
    PROVE  x \in PendingCalls /\ x.kind = k.kind /\ x.stale = k.stale
BY DEF Interrupted, PendingCalls

\* Once its gate is replaced or dropped, a call is outdated, and stays so.
LEMMA OutdatedOK ==
    ASSUME NEW k \in PendingCalls
    PROVE  /\ Outdated(k) \in PendingCalls /\ Outdated(k).kind = k.kind /\ Outdated(k).ok = k.ok
           /\ k.kind = "ack" /\ s.ackGate # NoBatch => Outdated(k).stale
           /\ k.stale => Outdated(k).stale
BY DEF Outdated, PendingCalls

\* A session that only moves on in its run loop.
LEMMA Moved ==
    ASSUME TypeOK, NEW p \in Places
    PROVE  LET x == [s EXCEPT !.pc = p] IN
           /\ x \in Sessions /\ x.pc = p /\ x.route = s.route /\ x.gen = s.gen
           /\ x.acked = s.acked /\ x.hasAttached = s.hasAttached /\ x.input = s.input
           /\ x.pending = s.pending /\ x.batch = s.batch /\ x.ackGate = s.ackGate
           /\ x.baselineGate = s.baselineGate /\ x.failures = s.failures
BY Kinds DEF Sessions

\* A renderer that is as it was, or is fenced, or is cut off.
LEMMA GoneOrSame ==
    ASSUME DeliveryInv, client' = client \/ Fenced \/ client' = [client EXCEPT !.pc = "lost"]
    PROVE  /\ client' \in Renderers /\ client'.pc \in {client.pc, "lost"}
           /\ client'.cursor = client.cursor /\ client'.batch = client.batch
           /\ client'.gate = client.gate
           /\ client'.applied \in Nat /\ client.applied <= client'.applied
           /\ client'.applied <= head
<1>1. TypeOK /\ client \in Renderers /\ client.applied <= head /\ head \in Nat
      /\ client.applied \in Nat
  BY InvParts, Kinds DEF TypeOK
<1>2. CASE client' = client
  BY <1>1, <1>2
<1>3. CASE Fenced
  BY <1>1, <1>3, FencedOK
<1>4. CASE client' = [client EXCEPT !.pc = "lost"]
  BY <1>1, <1>4 DEF Renderers
<1> QED
  BY <1>2, <1>3, <1>4

\* A session that ends, for whatever reason.
LEMMA ClosedInv ==
    ASSUME DeliveryInv, NEW b \in BOOLEAN, CloseSession(b), s' = Closed,
           client' = client \/ Fenced, faults' \in 0 .. MaxFaults,
           UNCHANGED <<head, fed, generation, recoveries>>
    PROVE  DeliveryInv'
<1> USE InvParts
<1>1. /\ s' \in Sessions /\ s'.pc = "closed" /\ s'.input = {} /\ s'.pending = {}
      /\ s'.batch = NoBatch /\ s'.ackGate = NoBatch /\ s'.baselineGate = NoGate
      /\ s'.gen = s.gen /\ ~s'.hasAttached /\ s'.failures = s.failures /\ s'.route = s.route
  BY Kinds, NothingKind DEF Closed, Sessions, Places
<1>2. /\ call' = NoCall /\ out' = << >> /\ ProcessTyped'
      /\ attached' # {} => attached # {} /\ consumer' = consumer
  BY ClosedProcess
<1>3. /\ client' \in Renderers /\ client'.pc \in {client.pc, "lost"}
      /\ client'.cursor = client.cursor /\ client'.batch = client.batch
      /\ client'.gate = client.gate
      /\ client'.applied \in Nat /\ client.applied <= client'.applied
      /\ client'.applied <= head
  BY GoneOrSame
<1>4. TypeOK'
  <2>1. out' \in Seq(Items)
    BY <1>2
  <2>2. Cardinality(s'.input) <= INPUT_CAPACITY + IF s'.pc = "take" THEN 1 ELSE 0
    <3>1. Cardinality(s'.input) = 0
      BY <1>1, FS_EmptySet
    <3> QED
      BY <1>1, <3>1, Bounds
  <2> QED
    BY <1>1, <1>2, <1>3, <2>1, <2>2, NothingKind DEF TypeOK
<1>5. OnlyCommitted'
  BY <1>1, <1>2, Kinds, NothingKind DEF OnlyCommitted
<1>6. GatesFollow' /\ BaselinesAreNamed' /\ CallFollows' /\ NoGapDelivered'
  BY <1>1, <1>2, <1>3, NothingKind
     DEF GatesFollow, BaselinesAreNamed, CallFollows, NoGapDelivered
<1>7. client.batch.last \in Nat /\ client.cursor \in Nat /\ client.applied \in Nat
  BY Kinds, BatchKind
<1>8. AckedIsApplied'
  <2>1. attached' # {} => consumer'[Renderer].acknowledged_sequence \in Nat
    BY <1>2, Bounds DEF ProcessTyped, Sup!Consumer, Sup!Sequences
  <2> QED
    BY <1>1, <1>2, <1>3, <1>7, <2>1 DEF AckedIsApplied, Open
<1>9. BatchApplied'
  BY <1>3, <1>7 DEF BatchApplied
<1>10. AttachedAgrees'
  BY <1>1 DEF AttachedAgrees
<1> QED
  BY <1>2, <1>4, <1>5, <1>6, <1>8, <1>9, <1>10 DEF DeliveryInv

-----------------------------------------------------------------------------
(***************************************************************************)
(* The event store and the live hand-off.                                  *)
(***************************************************************************)

\* A commit only adds to what there is to apply.
LEMMA CommitInv == ASSUME DeliveryInv, Commit PROVE DeliveryInv'
<1> USE InvParts
<1>1. /\ head' = head + 1 /\ head \in Nat /\ head < MaxSequence /\ MaxSequence \in Nat
      /\ UNCHANGED <<fed, s, out, call, client, generation, recoveries, faults, supervisor>>
  BY Kinds, Bounds DEF Commit
<1>2. TypeOK'
  BY <1>1, Kinds DEF TypeOK
<1>3. OnlyCommitted'
  <2>1. /\ s.batch.last \in Nat /\ s.ackGate.last \in Nat
        /\ \A i \in DOMAIN out : out[i].type = "batch" => out[i].batch.last \in Nat
    BY Kinds, BatchKind, OutKind
  <2> QED
    BY <1>1, <2>1 DEF OnlyCommitted
<1> QED
  BY <1>1, <1>2, <1>3
     DEF DeliveryInv, ProcessTyped, GatesFollow, BaselinesAreNamed, CallFollows, AckedIsApplied,
         BatchApplied, NoGapDelivered, AttachedAgrees, supervisor, Open, Sup!Current

\* The hand-off fills the channel or ends the session.
LEMMA OfferInv == ASSUME DeliveryInv, Offer PROVE DeliveryInv'
<1> USE InvParts
<1>1. Open /\ fed < head /\ UNCHANGED <<head, client, generation, recoveries, faults>>
  BY DEF Offer
<1>2. CASE InputRoom
  <2>1. /\ s' = [s EXCEPT !.input = s.input \cup {fed + 1}] /\ fed' = fed + 1
        /\ UNCHANGED <<out, call, supervisor>>
    BY <1>2 DEF Offer
  <2>2. fed + 1 \in 1 .. head /\ fed + 1 \in Events /\ fed \in Nat /\ head \in Nat
    BY <1>1, Kinds, Bounds DEF Events
  <2>3. /\ s' \in Sessions /\ s'.pc = s.pc /\ s'.route = s.route /\ s'.gen = s.gen
        /\ s'.acked = s.acked /\ s'.hasAttached = s.hasAttached
        /\ s'.input = s.input \cup {fed + 1}
        /\ s'.pending = s.pending /\ s'.batch = s.batch /\ s'.ackGate = s.ackGate
        /\ s'.baselineGate = s.baselineGate /\ s'.failures = s.failures
    BY <2>1, <2>2, Kinds DEF Sessions
  <2>4. TypeOK'
    <3>1. IsFiniteSet(s.input)
      BY Kinds, EventsFinite
    <3>2. /\ Cardinality(s.input) \in Nat
          /\ Cardinality(s'.input) = Cardinality(s.input)
             \/ Cardinality(s'.input) = Cardinality(s.input) + 1
      BY <2>3, <3>1, FS_AddElement, FS_CardinalityType
    <3>3. Cardinality(s'.input) <= INPUT_CAPACITY + IF s'.pc = "take" THEN 1 ELSE 0
      BY <1>2, <2>3, <3>2, Bounds DEF InputRoom
    <3> QED
      BY <1>1, <2>1, <2>2, <2>3, <3>3 DEF TypeOK
  <2>5. OnlyCommitted'
    BY <1>1, <2>1, <2>2, <2>3 DEF OnlyCommitted
  <2> QED
    BY <1>1, <2>1, <2>3, <2>4, <2>5
       DEF DeliveryInv, ProcessTyped, GatesFollow, BaselinesAreNamed, CallFollows,
           AckedIsApplied, BatchApplied, NoGapDelivered, AttachedAgrees, supervisor, Open,
           Sup!Current
<1>3. CASE ~InputRoom
  <2>1. /\ CloseSession(call.kind = "baseline") /\ s' = Closed /\ UNCHANGED fed
    BY <1>3 DEF Offer
  <2>2. faults' \in 0 .. MaxFaults
    BY <1>1 DEF TypeOK
  <2> QED
    BY <1>1, <2>1, <2>2, ClosedInv
<1> QED
  BY <1>2, <1>3

-----------------------------------------------------------------------------
(***************************************************************************)
(* The run loop: recovery of the supervisor and replay.                    *)
(***************************************************************************)

\* A recovery drops the attachment together with the process.
LEMMA RecoverFenceInv == ASSUME DeliveryInv, RecoverFence PROVE DeliveryInv'
<1> USE InvParts
<1>1. s.pc = "recover" /\ UNCHANGED <<head, fed, out, client, recoveries, faults>>
  BY DEF RecoverFence
<1>2. PICK g \in 1 .. MaxGeneration :
         /\ s' = [s EXCEPT !.pc = "attach", !.hasAttached = FALSE, !.gen = g]
         /\ generation' \in 0 .. MaxGeneration
         /\ call' \in Interrupted(call)
         /\ ProcessTyped'
         /\ attached' # {} => attached # {} /\ consumer' = consumer
  <2>1. CASE s.hasAttached
    <3>1. /\ generation < MaxGeneration /\ generation' = generation + 1
          /\ s' = [s EXCEPT !.pc = "attach", !.hasAttached = FALSE, !.gen = generation + 1]
          /\ call' \in Interrupted(call) /\ KillProcess
      BY <2>1 DEF RecoverFence
    <3>3. ProcessTyped' /\ attached' = {}
      BY <3>1, Killed
    <3>4. generation \in 0 .. MaxGeneration
      BY DEF TypeOK
    <3> HIDE InvParts
    <3>2. generation + 1 \in 1 .. MaxGeneration /\ generation' \in 0 .. MaxGeneration
      BY <3>1, <3>4, Bounds
    <3> USE <3>1, <3>2, <3>3
    <3> WITNESS generation + 1 \in 1 .. MaxGeneration
    <3> QED
      OBVIOUS
  <2>2. CASE ~s.hasAttached
    <3>1. s' = [s EXCEPT !.pc = "attach"] /\ UNCHANGED <<generation, call, supervisor>>
      BY <2>2 DEF RecoverFence
    <3>2. s.gen \in 1 .. MaxGeneration
      BY Kinds, Bounds DEF GatesFollow
    <3>3. s' = [s EXCEPT !.pc = "attach", !.hasAttached = FALSE, !.gen = s.gen]
      BY <2>2, <3>1, Kinds DEF Sessions
    <3> QED
      BY <3>1, <3>2, <3>3 DEF TypeOK, Interrupted, ProcessTyped, supervisor
  <2> QED
    BY <2>1, <2>2
<1>3. call' \in PendingCalls /\ call'.kind = call.kind /\ call'.stale = call.stale
  BY <1>2, InterruptedOK DEF TypeOK
<1>4. /\ s' \in Sessions /\ s'.pc = "attach" /\ s'.gen = g /\ s'.acked = s.acked
      /\ ~s'.hasAttached /\ s'.input = s.input /\ s'.pending = s.pending
      /\ s'.batch = s.batch /\ s'.ackGate = s.ackGate /\ s'.baselineGate = s.baselineGate
      /\ s'.failures = s.failures /\ s'.route = s.route
  <2>1. g \in 0 .. MaxGeneration /\ "attach" \in Places /\ s \in Sessions
    BY Kinds, Bounds DEF Places
  <2> QED
    BY <1>2, <2>1 DEF Sessions
<1>5. TypeOK'
  BY <1>1, <1>2, <1>3, <1>4 DEF TypeOK
<1>6. OnlyCommitted' /\ GatesFollow'
  BY <1>1, <1>4 DEF OnlyCommitted, GatesFollow
<1>7. BaselinesAreNamed' /\ CallFollows' /\ BatchApplied' /\ NoGapDelivered'
  BY <1>1, <1>3, <1>4 DEF BaselinesAreNamed, CallFollows, BatchApplied, NoGapDelivered, Open
<1>8. AckedIsApplied'
  BY <1>1, <1>2, <1>4 DEF AckedIsApplied, Open
<1>9. AttachedAgrees'
  BY <1>4 DEF AttachedAgrees
<1> QED
  BY <1>2, <1>5, <1>6, <1>7, <1>8, <1>9 DEF DeliveryInv

\* The process learns the session's cursor.
LEMMA AttachInv == ASSUME DeliveryInv, Attach PROVE DeliveryInv'
<1> USE InvParts
<1>1. /\ s' = [s EXCEPT !.pc = "attached"] /\ s.pc = "attach"
      /\ UNCHANGED <<head, fed, out, call, client, generation, recoveries, faults>>
  BY DEF Attach
<1>2. s.gen \in 0 .. MaxGeneration /\ s.acked \in 0 .. MaxSequence /\ "attached" \in Places
  BY Kinds DEF Places
<1>3. /\ s' \in Sessions /\ s'.pc = "attached" /\ s'.route = s.route /\ s'.gen = s.gen
      /\ s'.acked = s.acked /\ s'.hasAttached = s.hasAttached /\ s'.input = s.input
      /\ s'.pending = s.pending /\ s'.batch = s.batch /\ s'.ackGate = s.ackGate
      /\ s'.baselineGate = s.baselineGate /\ s'.failures = s.failures
  BY <1>1, <1>2, Moved
<1>4. /\ attached' = {Renderer} /\ consumer' \in [{Renderer} -> Sup!Consumer]
      /\ consumer'[Renderer].generation = s.gen
      /\ consumer'[Renderer].acknowledged_sequence = s.acked
  <2>1. /\ attached' = attached \cup {Renderer}
        /\ consumer' = [consumer EXCEPT ![Renderer] = Sup!NewConsumer(s.gen, s.acked)]
    BY DEF Attach, Sup!attach
  <2> QED
    BY <1>2, <2>1, NewRecord DEF ProcessTyped
<1>5. TypeOK'
  BY <1>1, <1>3 DEF TypeOK
<1>6. ProcessTyped'
  BY <1>4 DEF ProcessTyped
<1>7. OnlyCommitted' /\ GatesFollow'
  BY <1>1, <1>3 DEF OnlyCommitted, GatesFollow
<1>8. BaselinesAreNamed' /\ CallFollows' /\ BatchApplied' /\ NoGapDelivered'
  BY <1>1, <1>3 DEF BaselinesAreNamed, CallFollows, BatchApplied, NoGapDelivered, Open
<1>9. AckedIsApplied'
  BY <1>1, <1>3, <1>4 DEF AckedIsApplied, Open
<1>10. AttachedAgrees'
  BY <1>1, <1>3, <1>4 DEF AttachedAgrees, GatesFollow, Sup!Current
<1> QED
  BY <1>5, <1>6, <1>7, <1>8, <1>9, <1>10 DEF DeliveryInv

\* The session goes on with a process that has its cursor.
LEMMA AttachReplyInv == ASSUME DeliveryInv, AttachReply PROVE DeliveryInv'
<1> USE InvParts
<1>1. /\ s' = [s EXCEPT !.pc = "replay", !.hasAttached = TRUE] /\ s.pc = "attached"
      /\ Sup!Current(Renderer, s.gen)
      /\ UNCHANGED <<head, fed, out, call, client, generation, recoveries, faults, supervisor>>
  BY DEF AttachReply
<1>2. /\ s' \in Sessions /\ s'.pc = "replay" /\ s'.route = s.route /\ s'.gen = s.gen
      /\ s'.acked = s.acked /\ s'.input = s.input /\ s'.pending = s.pending
      /\ s'.batch = s.batch /\ s'.ackGate = s.ackGate /\ s'.baselineGate = s.baselineGate
      /\ s'.failures = s.failures
  BY <1>1, Kinds DEF Sessions, Places
<1>3. TypeOK'
  BY <1>1, <1>2 DEF TypeOK
<1>4. OnlyCommitted' /\ GatesFollow'
  BY <1>1, <1>2 DEF OnlyCommitted, GatesFollow
<1>5. /\ BaselinesAreNamed' /\ CallFollows' /\ BatchApplied' /\ NoGapDelivered'
      /\ AckedIsApplied' /\ ProcessTyped'
  BY <1>1, <1>2 DEF BaselinesAreNamed, CallFollows, BatchApplied, NoGapDelivered, AckedIsApplied,
                    ProcessTyped, supervisor, Open
<1>6. AttachedAgrees'
  BY <1>1, <1>2 DEF AttachedAgrees, GatesFollow, CallFollows, supervisor, Sup!Current
<1> QED
  BY <1>3, <1>4, <1>5, <1>6 DEF DeliveryInv

\* A failed attach takes the process down, and the session has no attachment yet.
LEMMA AttachFailsInv == ASSUME DeliveryInv, AttachFails PROVE DeliveryInv'
<1> USE InvParts
<1>1. /\ s.pc \in {"attach", "attached"} /\ KillProcess /\ call' \in Interrupted(call)
      /\ UNCHANGED <<head, fed, out, client, generation, recoveries>>
  BY DEF AttachFails
<1>2. faults' \in 0 .. MaxFaults
  <2>1. faults' = faults \/ Fault
    BY DEF AttachFails
  <2> QED
    BY <2>1, Bounds DEF TypeOK, Fault
<1>3. /\ s' \in Sessions /\ s'.pc \in {"recover", "replay"} /\ s'.gen = s.gen
      /\ s'.acked = s.acked /\ s'.input = s.input /\ s'.pending = s.pending
      /\ s'.batch = s.batch /\ s'.ackGate = s.ackGate /\ s'.baselineGate = s.baselineGate
      /\ s'.failures = s.failures /\ s'.hasAttached = s.hasAttached
      /\ s'.route \in {s.route, "fallback-fenced"}
  <2>1. CASE s.attempt < RESTART_ATTEMPTS
             /\ s' = [s EXCEPT !.pc = "recover", !.attempt = s.attempt + 1]
    <3>1. PICK n \in 1 .. RESTART_ATTEMPTS : n = s.attempt + 1
      BY <2>1, Kinds, Bounds
    <3>2. s' = [s EXCEPT !.pc = "recover", !.attempt = n]
      BY <2>1, <3>1
    <3> QED
      BY <3>2, Kinds DEF Sessions, Places
  <2>2. CASE s' = [s EXCEPT !.pc = "replay", !.route = "fallback-fenced"]
    BY <2>2, Kinds DEF Sessions, Places, Routes
  <2> QED
    BY <2>1, <2>2 DEF AttachFails
<1>4. call' \in PendingCalls /\ call'.kind = call.kind /\ call'.stale = call.stale
  BY <1>1, InterruptedOK DEF TypeOK
<1>5. ProcessTyped' /\ attached' = {}
  BY <1>1, Killed
<1>6. TypeOK'
  BY <1>1, <1>2, <1>3, <1>4 DEF TypeOK
<1>7. OnlyCommitted' /\ GatesFollow'
  BY <1>1, <1>3 DEF OnlyCommitted, GatesFollow
<1>8. CallFollows'
  BY <1>1, <1>3, <1>4 DEF CallFollows, Open
<1>9. BaselinesAreNamed' /\ BatchApplied' /\ NoGapDelivered' /\ AckedIsApplied'
  BY <1>1, <1>3, <1>4, <1>5
     DEF BaselinesAreNamed, BatchApplied, NoGapDelivered, AckedIsApplied, Open
<1>10. AttachedAgrees'
  BY <1>1, <1>3 DEF AttachedAgrees, GatesFollow
<1> QED
  BY <1>5, <1>6, <1>7, <1>8, <1>9, <1>10 DEF DeliveryInv

\* A replay reads committed events, or asks for a baseline by name.
LEMMA LoadReplayInv == ASSUME DeliveryInv, LoadReplay PROVE DeliveryInv'
<1> USE InvParts
<1>1. /\ s.pc = "replay"
      /\ UNCHANGED <<head, fed, call, client, generation, faults, supervisor>>
  BY DEF LoadReplay
<1>2. CASE head - s.acked <= REPLAY_BUFFER_CAPACITY
  <2>1. /\ s' = [s EXCEPT !.pc = "next", !.pending = s.pending \cup (s.acked + 1) .. head]
        /\ UNCHANGED <<out, recoveries>>
    BY <1>2 DEF LoadReplay
  <2>2. PICK p \in SUBSET Events : p = s.pending \cup (s.acked + 1) .. head
                                  /\ p \subseteq 1 .. head
    <3>1. (s.acked + 1) .. head \subseteq 1 .. head /\ 1 .. head \subseteq Events
      BY Kinds, Bounds DEF Events
    <3> QED
      BY <3>1 DEF OnlyCommitted
  <2>3. /\ s' \in Sessions /\ s'.pc = "next" /\ s'.route = s.route /\ s'.gen = s.gen
        /\ s'.acked = s.acked /\ s'.input = s.input /\ s'.pending = p
        /\ s'.batch = s.batch /\ s'.ackGate = s.ackGate /\ s'.baselineGate = s.baselineGate
        /\ s'.failures = s.failures /\ s'.hasAttached = s.hasAttached
    <3>1. s' = [s EXCEPT !.pc = "next", !.pending = p]
      BY <2>1, <2>2
    <3> QED
      BY <3>1, Kinds DEF Sessions, Places
  <2>4. TypeOK'
    BY <1>1, <2>1, <2>3 DEF TypeOK
  <2>5. OnlyCommitted' /\ GatesFollow'
    BY <1>1, <2>1, <2>2, <2>3 DEF OnlyCommitted, GatesFollow
  <2>6. /\ BaselinesAreNamed' /\ CallFollows' /\ BatchApplied' /\ NoGapDelivered'
        /\ AckedIsApplied' /\ ProcessTyped'
    BY <1>1, <2>1, <2>3
       DEF BaselinesAreNamed, CallFollows, BatchApplied, NoGapDelivered, AckedIsApplied,
           ProcessTyped, supervisor, Open
  <2>7. AttachedAgrees'
    BY <1>1, <2>3 DEF AttachedAgrees, GatesFollow, CallFollows, supervisor, Sup!Current
  <2> QED
    BY <2>4, <2>5, <2>6, <2>7 DEF DeliveryInv
<1>3. CASE ~(head - s.acked <= REPLAY_BUFFER_CAPACITY)
  <2> DEFINE gate == [id |-> recoveries + 1, target |-> head]
             item == [type |-> "recovery", gen |-> s.gen, gate |-> gate]
  <2>1. /\ recoveries < MaxRecoveries /\ recoveries' = recoveries + 1
        /\ s' = [s EXCEPT !.pc = "baseline", !.baselineGate = gate]
        /\ out' = Append(out, item)
    BY <1>3 DEF LoadReplay
  <2>2. recoveries' \in 0 .. MaxRecoveries /\ gate \in Gates /\ gate.id >= 1
    <3> HIDE InvParts DEF gate, item
    <3>1. recoveries \in 0 .. MaxRecoveries /\ head \in 0 .. MaxSequence
      BY InvParts DEF TypeOK
    <3>2. PICK n \in 0 .. MaxRecoveries : n = recoveries + 1 /\ n >= 1 /\ n = recoveries'
      BY <2>1, <3>1, Bounds
    <3>3. gate = [id |-> n, target |-> head]
      BY <3>2 DEF gate
    <3> QED
      BY <3>1, <3>2, <3>3 DEF Gates
  <2>3. item \in Items /\ item.type = "recovery" /\ item.gate = gate
    BY <2>2, Kinds DEF Items
  <2> HIDE DEF gate, item
  <2>4. /\ s' \in Sessions /\ s'.pc = "baseline" /\ s'.route = s.route /\ s'.gen = s.gen
        /\ s'.acked = s.acked /\ s'.input = s.input /\ s'.pending = s.pending
        /\ s'.batch = s.batch /\ s'.ackGate = s.ackGate
        /\ s'.failures = s.failures /\ s'.hasAttached = s.hasAttached
    BY <2>1, <2>2, Kinds DEF Sessions, Places
  <2>5. /\ out' \in Seq(Items)
        /\ \A i \in DOMAIN out' : out'[i] = item \/ (i \in DOMAIN out /\ out'[i] = out[i])
    BY <2>1, <2>3, Sent DEF TypeOK
  <2>6. TypeOK'
    BY <1>1, <2>2, <2>4, <2>5 DEF TypeOK
  <2>7. OnlyCommitted' /\ GatesFollow'
    BY <1>1, <2>3, <2>4, <2>5 DEF OnlyCommitted, GatesFollow
  <2>8. BaselinesAreNamed' /\ NoGapDelivered'
    BY <1>1, <2>2, <2>3, <2>5 DEF BaselinesAreNamed, NoGapDelivered
  <2>9. CallFollows' /\ BatchApplied' /\ AckedIsApplied' /\ ProcessTyped'
    BY <1>1, <2>4 DEF CallFollows, BatchApplied, AckedIsApplied, ProcessTyped, supervisor, Open
  <2>10. AttachedAgrees'
    BY <1>1, <2>4 DEF AttachedAgrees, CallFollows
  <2> QED
    BY <2>6, <2>7, <2>8, <2>9, <2>10 DEF DeliveryInv
<1> QED
  BY <1>2, <1>3

-----------------------------------------------------------------------------
(***************************************************************************)
(* The run loop: batches.                                                  *)
(***************************************************************************)

\* A batch is put together from what the session holds.
LEMMA StartBatchInv ==
    ASSUME DeliveryInv, s.pc \in {"next", "take"},
           NEW e \in 1 .. head, NEW pending \in SUBSET (1 .. head),
           NEW input \in SUBSET s.input, Cardinality(input) <= INPUT_CAPACITY,
           StartBatch(e, pending, input),
           UNCHANGED <<head, fed, out, call, client, generation, recoveries, faults, supervisor>>
    PROVE  DeliveryInv'
<1> USE InvParts
<1>1. head \in 0 .. MaxSequence /\ fed \in 0 .. head /\ head \in Nat /\ MaxSequence \in Nat
  BY Bounds DEF TypeOK
<1>2. input \in SUBSET (1 .. head) /\ input \in SUBSET (1 .. fed)
  BY <1>1 DEF OnlyCommitted
<1>3. PICK l \in e .. head, p \in SUBSET (1 .. head), i \in SUBSET input :
         s' = [s EXCEPT !.pc = "deliver", !.pending = p, !.input = i,
                        !.batch = [gen |-> s.gen, first |-> e, last |-> l]]
  <2>1. PICK c : c = Collected(e, pending, input)
    OBVIOUS
  <2>2. c.last \in e .. head /\ c.pending \in SUBSET (1 .. head) /\ c.input \in SUBSET input
    BY <1>1, <1>2, <2>1, CollectedOK
  <2>3. s' = [s EXCEPT !.pc = "deliver", !.pending = c.pending, !.input = c.input,
                       !.batch = [gen |-> s.gen, first |-> e, last |-> c.last]]
    BY <2>1 DEF StartBatch
  <2> QED
    BY <2>2, <2>3, Zenon
<1>4. PICK b \in Batches : /\ b = [gen |-> s.gen, first |-> e, last |-> l]
                           /\ b.first >= 1 /\ b.first <= b.last /\ b.last <= head
  <2>1. e \in 0 .. MaxSequence /\ l \in 0 .. MaxSequence /\ e >= 1 /\ e <= l /\ l <= head
    BY <1>1
  <2>2. s.gen \in 0 .. MaxGeneration
    BY Kinds
  <2>3. [gen |-> s.gen, first |-> e, last |-> l] \in Batches
    BY <2>1, <2>2 DEF Batches
  <2> QED
    BY <2>1, <2>3
<1>5. /\ s' \in Sessions /\ s'.pc = "deliver" /\ s'.route = s.route /\ s'.gen = s.gen
      /\ s'.acked = s.acked /\ s'.input = i /\ s'.pending = p
      /\ s'.batch = b /\ s'.ackGate = s.ackGate /\ s'.baselineGate = s.baselineGate
      /\ s'.failures = s.failures /\ s'.hasAttached = s.hasAttached
  <2>1. s' = [s EXCEPT !.pc = "deliver", !.pending = p, !.input = i, !.batch = b]
    BY <1>3, <1>4
  <2>2. p \in SUBSET Events /\ i \in SUBSET Events /\ "deliver" \in Places /\ s \in Sessions
    BY <1>1, <1>2, Kinds DEF Events, Places
  <2> QED
    BY <2>1, <2>2 DEF Sessions
<1>6. Cardinality(i) <= INPUT_CAPACITY
  <2>1. IsFiniteSet(input)
    BY Kinds, EventsFinite, FS_Subset
  <2>2. Cardinality(i) <= Cardinality(input) /\ Cardinality(i) \in Nat /\ Cardinality(input) \in Nat
    BY <2>1, FS_Subset, FS_CardinalityType
  <2> QED
    BY <2>2, Bounds
<1>7. TypeOK'
  <2>1. Cardinality(s'.input) <= INPUT_CAPACITY + IF s'.pc = "take" THEN 1 ELSE 0
    BY <1>5, <1>6, Bounds
  <2> QED
    BY <1>5, <2>1 DEF TypeOK
<1>8. OnlyCommitted' /\ GatesFollow'
  BY <1>2, <1>4, <1>5 DEF OnlyCommitted, GatesFollow
<1>9. /\ BaselinesAreNamed' /\ CallFollows' /\ BatchApplied' /\ NoGapDelivered'
      /\ AckedIsApplied' /\ ProcessTyped'
  BY <1>5 DEF BaselinesAreNamed, CallFollows, BatchApplied, NoGapDelivered, AckedIsApplied,
              ProcessTyped, supervisor, Open, GatesFollow
<1>10. AttachedAgrees'
  BY <1>5 DEF AttachedAgrees, GatesFollow, CallFollows, supervisor, Sup!Current
<1> QED
  BY <1>7, <1>8, <1>9, <1>10 DEF DeliveryInv

\* Looking at the pending map ends with a batch or with the channel.
LEMMA NextEventInv == ASSUME DeliveryInv, NextEvent PROVE DeliveryInv'
<1> USE InvParts
<1>1. /\ s.pc = "next"
      /\ UNCHANGED <<head, fed, out, call, client, generation, recoveries, faults, supervisor>>
  BY DEF NextEvent
<1>2. CASE s.pending # {} /\ Min(s.pending) > s.acked
  <2>1. StartBatch(Min(s.pending), s.pending \ {Min(s.pending)}, s.input)
    BY <1>2 DEF NextEvent
  <2>2. s.pending \in SUBSET (1 .. head) /\ s.pending \in SUBSET Nat
    BY Kinds DEF OnlyCommitted
  <2>3. Min(s.pending) \in 1 .. head
    BY <1>2, <2>2, MinIn
  <2>4. Cardinality(s.input) <= INPUT_CAPACITY
    <3>1. Cardinality(s.input) \in Nat
      BY Kinds, EventsFinite, FS_CardinalityType
    <3> QED
      BY <1>1, <3>1, Bounds DEF TypeOK
  <2> QED
    BY <1>1, <2>1, <2>2, <2>3, <2>4, StartBatchInv
<1>3. CASE ~(s.pending # {} /\ Min(s.pending) > s.acked)
  <2>1. PICK p \in SUBSET s.pending : s' = [s EXCEPT !.pc = "take", !.pending = p]
    BY <1>3 DEF NextEvent
  <2>2. /\ s' \in Sessions /\ s'.pc = "take" /\ s'.route = s.route /\ s'.gen = s.gen
        /\ s'.acked = s.acked /\ s'.input = s.input /\ s'.pending = p
        /\ s'.batch = s.batch /\ s'.ackGate = s.ackGate /\ s'.baselineGate = s.baselineGate
        /\ s'.failures = s.failures /\ s'.hasAttached = s.hasAttached
    <3>1. p \in SUBSET Events /\ "take" \in Places /\ s \in Sessions
      BY Kinds DEF Places
    <3> QED
      BY <2>1, <3>1 DEF Sessions
  <2>3. TypeOK'
    <3>1. Cardinality(s.input) \in Nat
      BY Kinds, EventsFinite, FS_CardinalityType
    <3>2. Cardinality(s'.input) <= INPUT_CAPACITY + IF s'.pc = "take" THEN 1 ELSE 0
      BY <1>1, <2>2, <3>1, Bounds DEF TypeOK
    <3> QED
      BY <1>1, <2>2, <3>2 DEF TypeOK
  <2>4. OnlyCommitted' /\ GatesFollow'
    BY <1>1, <2>2 DEF OnlyCommitted, GatesFollow
  <2>5. /\ BaselinesAreNamed' /\ CallFollows' /\ BatchApplied' /\ NoGapDelivered'
        /\ AckedIsApplied' /\ ProcessTyped'
    BY <1>1, <2>2
       DEF BaselinesAreNamed, CallFollows, BatchApplied, NoGapDelivered, AckedIsApplied,
           ProcessTyped, supervisor, Open
  <2>6. AttachedAgrees'
    BY <1>1, <2>2 DEF AttachedAgrees, CallFollows, supervisor, Sup!Current
  <2> QED
    BY <2>3, <2>4, <2>5, <2>6 DEF DeliveryInv
<1> QED
  BY <1>2, <1>3

\* Taking from the channel makes room in it.
LEMMA TakeInputInv == ASSUME DeliveryInv, TakeInput PROVE DeliveryInv'
<1> USE InvParts
<1>1. /\ s.pc = "take" /\ s.input # {}
      /\ UNCHANGED <<head, fed, out, call, client, generation, recoveries, faults, supervisor>>
  BY DEF TakeInput
<1>2. /\ s.input \in SUBSET (1 .. head) /\ s.input \in SUBSET Nat
      /\ s.pending \in SUBSET (1 .. head)
  BY Kinds DEF OnlyCommitted, TypeOK
<1>3. Min(s.input) \in s.input
  BY <1>1, <1>2, MinIn
<1>4. PICK i \in SUBSET s.input : /\ i = s.input \ {Min(s.input)}
                                  /\ Cardinality(i) <= INPUT_CAPACITY
  <2>1. IsFiniteSet(s.input) /\ Cardinality(s.input) \in Nat
    BY Kinds, EventsFinite, FS_CardinalityType
  <2>2. Cardinality(s.input \ {Min(s.input)}) = Cardinality(s.input) - 1
    BY <1>3, <2>1, FS_RemoveElement
  <2>3. Cardinality(s.input) <= INPUT_CAPACITY + 1
    BY <1>1 DEF TypeOK
  <2> QED
    BY <2>1, <2>2, <2>3, Bounds
<1>5. CASE Min(s.input) > s.acked
  <2>1. StartBatch(Min(s.input), s.pending, i)
    BY <1>4, <1>5 DEF TakeInput
  <2> QED
    BY <1>1, <1>2, <1>3, <1>4, <2>1, StartBatchInv
<1>6. CASE ~(Min(s.input) > s.acked)
  <2>1. s' = [s EXCEPT !.pc = "next", !.input = i]
    BY <1>4, <1>6 DEF TakeInput
  <2>2. /\ s' \in Sessions /\ s'.pc = "next" /\ s'.route = s.route /\ s'.gen = s.gen
        /\ s'.acked = s.acked /\ s'.input = i /\ s'.pending = s.pending
        /\ s'.batch = s.batch /\ s'.ackGate = s.ackGate /\ s'.baselineGate = s.baselineGate
        /\ s'.failures = s.failures /\ s'.hasAttached = s.hasAttached
    <3>1. i \in SUBSET Events /\ "next" \in Places /\ s \in Sessions
      BY Kinds DEF Places
    <3> QED
      BY <2>1, <3>1 DEF Sessions
  <2>3. TypeOK'
    <3>1. Cardinality(s'.input) <= INPUT_CAPACITY + IF s'.pc = "take" THEN 1 ELSE 0
      BY <1>4, <2>2, Bounds
    <3> QED
      BY <1>1, <2>2, <3>1 DEF TypeOK
  <2>4. OnlyCommitted' /\ GatesFollow'
    BY <1>1, <2>2 DEF OnlyCommitted, GatesFollow
  <2>5. /\ BaselinesAreNamed' /\ CallFollows' /\ BatchApplied' /\ NoGapDelivered'
        /\ AckedIsApplied' /\ ProcessTyped'
    BY <1>1, <2>2
       DEF BaselinesAreNamed, CallFollows, BatchApplied, NoGapDelivered, AckedIsApplied,
           ProcessTyped, supervisor, Open
  <2>6. AttachedAgrees'
    BY <1>1, <2>2 DEF AttachedAgrees, CallFollows, supervisor, Sup!Current
  <2> QED
    BY <2>3, <2>4, <2>5, <2>6 DEF DeliveryInv
<1> QED
  BY <1>5, <1>6

\* A batch is at the gate only when it continues the session's cursor.
LEMMA DeliverInv == ASSUME DeliveryInv, Deliver PROVE DeliveryInv'
<1> USE InvParts
<1> DEFINE rust == [first |-> s.batch.first, last |-> s.batch.last]
<1>1. /\ s.pc = "deliver"
      /\ UNCHANGED <<head, fed, out, call, client, generation, recoveries, faults>>
  BY DEF Deliver
<1>2. PICK p \in {"gate", "failed"} : /\ s' = [s EXCEPT !.pc = p]
                                      /\ p = "gate" => s.batch.first = s.acked + 1
  BY DEF Deliver
<1>3. /\ s' \in Sessions /\ s'.pc = p /\ s'.route = s.route /\ s'.gen = s.gen
      /\ s'.acked = s.acked /\ s'.hasAttached = s.hasAttached /\ s'.input = s.input
      /\ s'.pending = s.pending /\ s'.batch = s.batch /\ s'.ackGate = s.ackGate
      /\ s'.baselineGate = s.baselineGate /\ s'.failures = s.failures
  <2>1. p \in Places
    BY DEF Places
  <2> QED
    BY <1>2, <2>1, Moved
<1>4. /\ ProcessTyped' /\ attached' = attached
      /\ attached # {} => /\ consumer'[Renderer].generation = consumer[Renderer].generation
                          /\ consumer'[Renderer].acknowledged_sequence
                               = consumer[Renderer].acknowledged_sequence
  <2>1. CASE UNCHANGED supervisor
    BY <2>1 DEF ProcessTyped, supervisor
  <2>2. CASE Sup!EventBatch(Renderer, s.gen, rust)
    <3>1. rust \in Sup!Batch
      BY Kinds DEF Batches, Sup!Batch, Sup!Sequences
    <3> HIDE DEF rust
    <3>2. /\ attached' = attached
          /\ consumer' = [consumer EXCEPT ![Renderer] = Sup!Enqueued(consumer[Renderer], rust)]
      BY <2>2 DEF Sup!EventBatch
    <3>3. consumer \in [{Renderer} -> Sup!Consumer]
      BY DEF ProcessTyped
    <3>4. PICK r \in Sup!Consumer :
             /\ r = Sup!Enqueued(consumer[Renderer], rust)
             /\ r.generation = consumer[Renderer].generation
             /\ r.acknowledged_sequence = consumer[Renderer].acknowledged_sequence
      BY <3>1, <3>3, EnqueuedRecord
    <3> QED
      BY <3>2, <3>3, <3>4 DEF ProcessTyped
  <2> QED
    BY <2>1, <2>2 DEF Deliver
<1>5. TypeOK'
  <2>1. Cardinality(s'.input) <= INPUT_CAPACITY + IF s'.pc = "take" THEN 1 ELSE 0
    BY <1>1, <1>3, Bounds DEF TypeOK
  <2> QED
    BY <1>1, <1>3, <2>1 DEF TypeOK
<1>6. OnlyCommitted' /\ GatesFollow'
  BY <1>1, <1>2, <1>3 DEF OnlyCommitted, GatesFollow
<1>7. BaselinesAreNamed' /\ CallFollows' /\ BatchApplied' /\ NoGapDelivered'
  BY <1>1, <1>3 DEF BaselinesAreNamed, CallFollows, BatchApplied, NoGapDelivered, Open
<1>8. AckedIsApplied'
  BY <1>1, <1>3, <1>4 DEF AckedIsApplied, Open
<1>9. AttachedAgrees'
  BY <1>1, <1>3, <1>4 DEF AttachedAgrees, GatesFollow, CallFollows, ProcessTyped, Sup!Current
<1> QED
  BY <1>4, <1>5, <1>6, <1>7, <1>8, <1>9 DEF DeliveryInv

\* What is sent continues what the renderer has applied.
LEMMA OpenGateInv == ASSUME DeliveryInv, OpenGate PROVE DeliveryInv'
<1> USE InvParts
<1> DEFINE item == [type |-> "batch", batch |-> s.batch]
<1>1. /\ s.pc = "gate" /\ s' = [s EXCEPT !.pc = "ackwait", !.ackGate = s.batch]
      /\ out' = Append(out, item)
      /\ UNCHANGED <<head, fed, call, client, generation, recoveries, faults, supervisor>>
  BY DEF OpenGate
<1>2. item \in Items /\ item.type = "batch" /\ item.batch = s.batch
  BY Kinds DEF Items
<1> HIDE DEF item
<1>3. /\ s' \in Sessions /\ s'.pc = "ackwait" /\ s'.route = s.route /\ s'.gen = s.gen
      /\ s'.acked = s.acked /\ s'.hasAttached = s.hasAttached /\ s'.input = s.input
      /\ s'.pending = s.pending /\ s'.batch = s.batch /\ s'.ackGate = s.batch
      /\ s'.baselineGate = s.baselineGate /\ s'.failures = s.failures
  <2>1. s \in Sessions /\ s.batch \in Batches /\ "ackwait" \in Places
    BY Kinds DEF Places
  <2> HIDE InvParts
  <2> QED
    BY <1>1, <2>1 DEF Sessions
<1>4. /\ out' \in Seq(Items)
      /\ \A i \in DOMAIN out' : out'[i] = item \/ (i \in DOMAIN out /\ out'[i] = out[i])
  BY <1>1, <1>2, Sent DEF TypeOK
<1>5. TypeOK'
  BY <1>1, <1>3, <1>4 DEF TypeOK
<1>6. OnlyCommitted' /\ GatesFollow'
  BY <1>1, <1>2, <1>3, <1>4 DEF OnlyCommitted, GatesFollow
<1>7. BaselinesAreNamed'
  BY <1>1, <1>2, <1>4 DEF BaselinesAreNamed
<1>8. NoGapDelivered'
  <2>1. s.batch.first <= client.applied + 1
    <3>1. s.batch.first = s.acked + 1 /\ s.acked <= client.applied
      BY <1>1 DEF GatesFollow, AckedIsApplied, Open
    <3> QED
      BY <3>1, Kinds
  <2> QED
    BY <1>1, <1>2, <1>4, <2>1 DEF NoGapDelivered
<1>9. CallFollows'
  BY <1>1, <1>3 DEF CallFollows, GatesFollow, Open
<1>10. BatchApplied' /\ AckedIsApplied' /\ ProcessTyped'
  BY <1>1, <1>3 DEF BatchApplied, AckedIsApplied, ProcessTyped, supervisor, Open
<1>11. AttachedAgrees'
  BY <1>1, <1>3 DEF AttachedAgrees, GatesFollow, CallFollows, supervisor, Sup!Current
<1> QED
  BY <1>5, <1>6, <1>7, <1>8, <1>9, <1>10, <1>11 DEF DeliveryInv

\* The catch keeps the failed batch for the replay, and ends in another attempt, in the
\* fallback or in the end of the session.
LEMMA DeliveryFailedInv == ASSUME DeliveryInv, DeliveryFailed PROVE DeliveryInv'
<1> USE InvParts
<1>1. s.pc = "failed" /\ UNCHANGED <<head, fed, client, generation, recoveries, faults>>
  BY DEF DeliveryFailed
<1>2. CASE s.route # "supervisor"
  <2>1. CloseSession(call.kind = "baseline") /\ s' = Closed
    BY <1>2 DEF DeliveryFailed
  <2>2. faults' \in 0 .. MaxFaults
    BY <1>1 DEF TypeOK
  <2> QED
    BY <1>1, <2>1, <2>2, ClosedInv
<1>3. CASE s.route = "supervisor"
  <2>1. PICK n \in 0 .. RESTART_ATTEMPTS : n = s.failures + 1
    BY <1>3, Kinds, Bounds DEF GatesFollow
  <2>2. PICK q \in SUBSET (1 .. head) : q = s.pending \cup s.batch.first .. s.batch.last
    <3>1. s.batch.first >= 1 /\ s.batch.last <= head /\ s.pending \subseteq 1 .. head
      BY <1>1 DEF OnlyCommitted
    <3>2. s.batch.first .. s.batch.last \subseteq 1 .. head
      BY <3>1, Kinds, BatchKind
    <3> QED
      BY <3>1, <3>2
  <2>3. q \in SUBSET Events /\ RESTART_ATTEMPTS \in Nat \ {0} /\ 1 \in 1 .. RESTART_ATTEMPTS
    BY <2>2, Kinds, Bounds DEF Events
  <2>4. PICK k \in Sessions :
           /\ k = [s EXCEPT !.pending = q, !.failures = n, !.attempt = 1]
           /\ k.route = s.route /\ k.gen = s.gen
           /\ k.acked = s.acked /\ k.hasAttached = s.hasAttached /\ k.input = s.input
           /\ k.pending = q /\ k.batch = s.batch /\ k.ackGate = s.ackGate
           /\ k.baselineGate = s.baselineGate /\ k.failures = n /\ k.pc = s.pc
    <3>1. s \in Sessions
      BY Kinds
    <3> HIDE InvParts
    <3>2. PICK k : k = [s EXCEPT !.pending = q, !.failures = n, !.attempt = 1]
      OBVIOUS
    <3>3. k \in Sessions
      BY <2>3, <3>1, <3>2 DEF Sessions
    <3> QED
      BY <3>1, <3>2, <3>3 DEF Sessions
  <2>5. out' = out
        /\ \/ /\ n >= RESTART_ATTEMPTS /\ KillProcess /\ call' \in Interrupted(call)
              /\ s' = [k EXCEPT !.pc = "replay", !.route = "fallback-fenced",
                               !.hasAttached = FALSE]
           \/ /\ n < RESTART_ATTEMPTS /\ UNCHANGED <<call, supervisor>>
              /\ s' = [k EXCEPT !.pc = "recover"]
    BY <1>3, <2>1, <2>2, <2>3, <2>4 DEF DeliveryFailed
  <2>6. /\ s' \in Sessions /\ s'.pc \in {"recover", "replay"} /\ s'.gen = s.gen
        /\ s'.acked = s.acked /\ s'.input = s.input /\ s'.pending = q
        /\ s'.batch = s.batch /\ s'.ackGate = s.ackGate /\ s'.baselineGate = s.baselineGate
        /\ s'.route = "supervisor" => s'.failures < RESTART_ATTEMPTS
        /\ s'.pc = "replay" => ~s'.hasAttached
    <3>1. "recover" \in Places /\ "replay" \in Places /\ "fallback-fenced" \in Routes
      BY DEF Places, Routes
    <3> HIDE InvParts
    <3>2. CASE s' = [k EXCEPT !.pc = "replay", !.route = "fallback-fenced", !.hasAttached = FALSE]
      BY <2>4, <3>1, <3>2 DEF Sessions
    <3>3. CASE n < RESTART_ATTEMPTS /\ s' = [k EXCEPT !.pc = "recover"]
      BY <2>4, <3>1, <3>3 DEF Sessions
    <3> QED
      BY <2>5, <3>2, <3>3
  <2>7. call' \in PendingCalls /\ call'.kind = call.kind /\ call'.stale = call.stale
    BY <2>5, InterruptedOK DEF TypeOK
  <2>8. ProcessTyped' /\ (attached' # {} => attached # {} /\ consumer' = consumer)
    BY <2>5, Killed DEF ProcessTyped, supervisor
  <2>9. TypeOK'
    BY <1>1, <2>5, <2>6, <2>7 DEF TypeOK
  <2>10. OnlyCommitted' /\ GatesFollow'
    BY <1>1, <2>5, <2>6 DEF OnlyCommitted, GatesFollow
  <2>11. CallFollows'
    BY <1>1, <2>6, <2>7 DEF CallFollows, Open
  <2>12. BaselinesAreNamed' /\ BatchApplied' /\ NoGapDelivered' /\ AckedIsApplied'
    BY <1>1, <2>5, <2>6, <2>7, <2>8
       DEF BaselinesAreNamed, BatchApplied, NoGapDelivered, AckedIsApplied, Open
  <2>13. AttachedAgrees'
    BY <1>1, <2>6, <2>7 DEF AttachedAgrees, CallFollows
  <2> QED
    BY <2>8, <2>9, <2>10, <2>11, <2>12, <2>13 DEF DeliveryInv
<1> QED
  BY <1>2, <1>3

-----------------------------------------------------------------------------
(***************************************************************************)
(* Timers and crashes.                                                     *)
(***************************************************************************)

\* A fault is one more, within the bound.
LEMMA FaultKind == ASSUME TypeOK, Fault PROVE faults' \in 0 .. MaxFaults
BY Bounds DEF TypeOK, Fault

\* A gate that times out outdates the acknowledgement in progress.
LEMMA AckTimeoutInv == ASSUME DeliveryInv, AckTimeout PROVE DeliveryInv'
<1> USE InvParts
<1>1. /\ s.ackGate # NoBatch /\ s' = FailInFlight(s) /\ call' = Outdated(call)
      /\ UNCHANGED <<head, fed, out, client, generation, recoveries, supervisor>>
  BY DEF AckTimeout
<1>2. faults' \in 0 .. MaxFaults
  BY FaultKind DEF AckTimeout
<1>3. /\ s' \in Sessions /\ s'.ackGate = NoBatch /\ s'.pc = "failed"
      /\ s'.route = s.route /\ s'.gen = s.gen /\ s'.acked = s.acked
      /\ s'.hasAttached = s.hasAttached /\ s'.input = s.input /\ s'.pending = s.pending
      /\ s'.batch = s.batch /\ s'.baselineGate = s.baselineGate /\ s'.failures = s.failures
  BY <1>1, FailedGate
<1>4. /\ call' \in PendingCalls /\ call'.kind = call.kind
      /\ call.kind = "ack" => call'.stale
  BY <1>1, OutdatedOK DEF TypeOK
<1>5. s.pc = "ackwait"
  BY <1>1 DEF GatesFollow
<1>6. TypeOK'
  BY <1>1, <1>2, <1>3, <1>4, <1>5 DEF TypeOK
<1>7. OnlyCommitted' /\ GatesFollow'
  BY <1>1, <1>3, <1>5, NothingKind, Kinds DEF OnlyCommitted, GatesFollow
<1>8. CallFollows'
  BY <1>1, <1>3, <1>4, <1>5 DEF CallFollows, Open
<1>9. /\ BaselinesAreNamed' /\ BatchApplied' /\ NoGapDelivered' /\ AckedIsApplied'
      /\ ProcessTyped'
  BY <1>1, <1>3, <1>4, <1>5
     DEF BaselinesAreNamed, BatchApplied, NoGapDelivered, AckedIsApplied, ProcessTyped,
         supervisor, Open
<1>10. AttachedAgrees'
  BY <1>3, <1>4, <1>5 DEF AttachedAgrees, CallFollows
<1> QED
  BY <1>6, <1>7, <1>8, <1>9, <1>10 DEF DeliveryInv

\* A baseline that times out ends the session.
LEMMA BaselineTimeoutInv == ASSUME DeliveryInv, BaselineTimeout PROVE DeliveryInv'
<1>1. /\ CloseSession(call.kind = "baseline") /\ s' = Closed
      /\ UNCHANGED <<head, fed, client, generation, recoveries>>
  BY DEF BaselineTimeout
<1>2. faults' \in 0 .. MaxFaults
  BY InvParts, FaultKind DEF BaselineTimeout
<1> QED
  BY <1>1, <1>2, ClosedInv

\* A process that ends takes the attachment with it, and the gate.
LEMMA ProcessFailsInv == ASSUME DeliveryInv, ProcessFails PROVE DeliveryInv'
<1> USE InvParts
<1>1. /\ Open /\ KillProcess /\ s' = [FailInFlight(s) EXCEPT !.hasAttached = FALSE]
      /\ call' \in Interrupted(Outdated(call))
      /\ UNCHANGED <<head, fed, out, client, generation, recoveries>>
  BY DEF ProcessFails
<1>2. faults' \in 0 .. MaxFaults
  BY FaultKind DEF ProcessFails
<1>3. PICK x \in Sessions :
         /\ x = FailInFlight(s)
         /\ x.ackGate = NoBatch /\ x.pc = IF s.ackGate = NoBatch THEN s.pc ELSE "failed"
         /\ x.route = s.route /\ x.gen = s.gen /\ x.acked = s.acked
         /\ x.hasAttached = s.hasAttached /\ x.input = s.input /\ x.pending = s.pending
         /\ x.batch = s.batch /\ x.baselineGate = s.baselineGate /\ x.failures = s.failures
  BY FailedGate
<1>4. /\ s' \in Sessions /\ s'.ackGate = NoBatch
      /\ s'.pc = IF s.ackGate = NoBatch THEN s.pc ELSE "failed"
      /\ s'.route = s.route /\ s'.gen = s.gen /\ s'.acked = s.acked
      /\ ~s'.hasAttached /\ s'.input = s.input /\ s'.pending = s.pending
      /\ s'.batch = s.batch /\ s'.baselineGate = s.baselineGate /\ s'.failures = s.failures
  <2>1. s' = [x EXCEPT !.hasAttached = FALSE]
    BY <1>1, <1>3
  <2> HIDE InvParts
  <2> QED
    BY <1>3, <2>1 DEF Sessions
<1>5. /\ call' \in PendingCalls /\ call'.kind = call.kind
      /\ call.kind = "ack" /\ s.ackGate # NoBatch => call'.stale
      /\ call.stale => call'.stale
  <2>1. PICK k \in PendingCalls : /\ k = Outdated(call) /\ k.kind = call.kind
                                  /\ call.kind = "ack" /\ s.ackGate # NoBatch => k.stale
                                  /\ call.stale => k.stale
    BY OutdatedOK DEF TypeOK
  <2> QED
    BY <1>1, <2>1, InterruptedOK
<1>6. ProcessTyped' /\ attached' = {}
  BY <1>1, Killed
<1>7. s.ackGate # NoBatch => s.pc = "ackwait"
  BY DEF GatesFollow
<1>8. TypeOK'
  <2>1. Cardinality(s'.input) <= INPUT_CAPACITY + IF s'.pc = "take" THEN 1 ELSE 0
    BY <1>4, <1>7 DEF TypeOK
  <2> QED
    BY <1>1, <1>2, <1>4, <1>5, <2>1 DEF TypeOK
<1>9. OnlyCommitted' /\ GatesFollow'
  BY <1>1, <1>4, <1>7, NothingKind, Kinds DEF OnlyCommitted, GatesFollow
<1>10. CallFollows'
  BY <1>1, <1>4, <1>5, <1>7 DEF CallFollows, Open
<1>11. BaselinesAreNamed' /\ BatchApplied' /\ NoGapDelivered' /\ AckedIsApplied'
  BY <1>1, <1>4, <1>5, <1>6
     DEF BaselinesAreNamed, BatchApplied, NoGapDelivered, AckedIsApplied, Open
<1>12. AttachedAgrees'
  BY <1>4, <1>6 DEF AttachedAgrees, Sup!Current
<1> QED
  BY <1>6, <1>8, <1>9, <1>10, <1>11, <1>12 DEF DeliveryInv

\* A connection that drops changes only what the renderer is doing.
LEMMA DropInv == ASSUME DeliveryInv, Drop PROVE DeliveryInv'
<1> USE InvParts
<1>1. /\ client' = [client EXCEPT !.pc = "lost"]
      /\ UNCHANGED <<head, fed, s, out, call, generation, recoveries, supervisor>>
  BY DEF Drop
<1>2. faults' \in 0 .. MaxFaults
  BY FaultKind DEF Drop
<1>3. /\ client' \in Renderers /\ client'.pc = "lost" /\ client'.applied = client.applied
      /\ client'.cursor = client.cursor /\ client'.batch = client.batch
      /\ client'.gate = client.gate
  BY <1>1, Kinds DEF Renderers
<1>4. TypeOK'
  BY <1>1, <1>2, <1>3 DEF TypeOK
<1>5. OnlyCommitted' /\ GatesFollow' /\ ProcessTyped'
  BY <1>1 DEF OnlyCommitted, GatesFollow, ProcessTyped, supervisor
<1>6. /\ BaselinesAreNamed' /\ CallFollows' /\ BatchApplied' /\ NoGapDelivered'
      /\ AckedIsApplied'
  BY <1>1, <1>3 DEF BaselinesAreNamed, CallFollows, BatchApplied, NoGapDelivered,
                    AckedIsApplied, supervisor, Open
<1>7. AttachedAgrees'
  BY <1>1, <1>3 DEF AttachedAgrees, supervisor, Sup!Current
<1> QED
  BY <1>4, <1>5, <1>6, <1>7 DEF DeliveryInv

\* A stream that is released ends its session.
LEMMA StreamReleasedInv == ASSUME DeliveryInv, StreamReleased PROVE DeliveryInv'
<1>1. /\ CloseSession(call.kind = "baseline") /\ s' = Closed
      /\ UNCHANGED <<head, fed, client, generation, recoveries, faults>>
  BY DEF StreamReleased
<1>2. faults' \in 0 .. MaxFaults
  BY <1>1, InvParts DEF TypeOK
<1> QED
  BY <1>1, <1>2, ClosedInv

\* A subscription starts a session at the cursor the renderer kept.
LEMMA ResubscribeInv == ASSUME DeliveryInv, Resubscribe PROVE DeliveryInv'
<1> USE InvParts
<1>1. /\ generation < MaxGeneration /\ generation' = generation + 1
      /\ s' = NewSession(generation + 1, client.cursor) /\ fed' = head
      /\ client' = [client EXCEPT !.pc = "idle"]
      /\ UNCHANGED <<head, recoveries, faults>>
  BY DEF Resubscribe
<1>2. /\ call' = NoCall /\ out' = << >> /\ ProcessTyped'
      /\ attached' # {} => attached # {} /\ consumer' = consumer
  <2>1. CASE Open
    BY <2>1, ClosedProcess DEF Resubscribe
  <2>2. CASE ~Open
    BY <2>2 DEF Resubscribe, ProcessTyped, supervisor
  <2> QED
    BY <2>1, <2>2
<1>3. PICK g \in 1 .. MaxGeneration : g = generation + 1
  BY <1>1, Bounds DEF TypeOK
<1>4. /\ s' \in Sessions /\ s'.pc \in {"recover", "replay"} /\ s'.gen = g
      /\ s'.acked = client.cursor /\ ~s'.hasAttached /\ s'.failures = 0
      /\ s'.input = {} /\ s'.pending = {} /\ s'.batch = NoBatch
      /\ s'.ackGate = NoBatch /\ s'.baselineGate = NoGate
  <2>1. /\ client.cursor \in 0 .. MaxSequence /\ Mode \in Routes
        /\ 0 \in 0 .. RESTART_ATTEMPTS /\ 1 \in 1 .. RESTART_ATTEMPTS
        /\ g \in 0 .. MaxGeneration
    BY Kinds, Bounds DEF Renderers
  <2>2. s' = NewSession(g, client.cursor)
    BY <1>1, <1>3
  <2> HIDE InvParts
  <2> QED
    BY <2>1, <2>2, NothingKind DEF NewSession, Sessions, Places
<1>5. /\ client' \in Renderers /\ client'.pc = "idle" /\ client'.applied = client.applied
      /\ client'.cursor = client.cursor /\ client'.batch = client.batch
  BY <1>1, Kinds DEF Renderers
<1>6. TypeOK'
  <2>1. fed' \in 0 .. head' /\ generation' \in 0 .. MaxGeneration
    BY <1>1, <1>3, Kinds, Bounds
  <2>2. Cardinality(s'.input) <= INPUT_CAPACITY + IF s'.pc = "take" THEN 1 ELSE 0
    <3>1. Cardinality(s'.input) = 0
      BY <1>4, FS_EmptySet
    <3> QED
      BY <1>4, <3>1, Bounds
  <2>3. out' \in Seq(Items) /\ call' \in PendingCalls
    BY <1>2, NothingKind
  <2> QED
    BY <1>1, <1>4, <1>5, <2>1, <2>2, <2>3 DEF TypeOK
<1>7. OnlyCommitted'
  BY <1>1, <1>2, <1>4, Kinds, NothingKind DEF OnlyCommitted
<1>8. GatesFollow'
  BY <1>4, Bounds DEF GatesFollow
<1>9. /\ BaselinesAreNamed' /\ CallFollows' /\ NoGapDelivered' /\ BatchApplied'
  BY <1>2, <1>5, NothingKind DEF BaselinesAreNamed, CallFollows, NoGapDelivered, BatchApplied
<1>10. AckedIsApplied'
  BY <1>2, <1>4, <1>5 DEF AckedIsApplied
<1>11. AttachedAgrees'
  BY <1>4 DEF AttachedAgrees
<1> QED
  BY <1>2, <1>6, <1>7, <1>8, <1>9, <1>10, <1>11 DEF DeliveryInv

-----------------------------------------------------------------------------
(***************************************************************************)
(* The renderer, and the acknowledgements it sends.                        *)
(***************************************************************************)

\* A renderer that is not waiting has no call in progress.
LEMMA NoCallYet ==
    ASSUME DeliveryInv, client.pc \notin {"wait", "installing", "lost"}
    PROVE  call.kind = "none"
BY InvParts DEF TypeOK, PendingCalls, CallFollows

\* A batch that is received continues what was applied, so applying it is enough.
LEMMA ReceiveInv == ASSUME DeliveryInv, Receive PROVE DeliveryInv'
<1> USE InvParts
<1>1. /\ client.pc = "idle" /\ out # << >> /\ out' = Tail(out)
      /\ UNCHANGED <<head, fed, s, call, generation, recoveries, faults, supervisor>>
  BY DEF Receive
<1>2. PICK item \in Items : item = Head(out) /\ 1 \in DOMAIN out /\ item = out[1]
  BY <1>1, Received DEF TypeOK
<1>3. /\ out' \in Seq(Items)
      /\ \A i \in DOMAIN out' : i + 1 \in DOMAIN out /\ out'[i] = out[i + 1]
  BY <1>1, Received DEF TypeOK
<1>4. call.kind = "none"
  BY <1>1, NoCallYet
<1>5. /\ client' \in Renderers /\ client'.pc \in {"ack", "snapshot"}
      /\ client'.pc = "snapshot" => client'.gate.id >= 1
      /\ client'.cursor = client.cursor
      /\ client'.applied \in Nat /\ client'.applied >= client.applied /\ client'.applied <= head
      /\ client'.batch.last <= client'.applied
  <2>1. CASE item.type = "batch"
    <3>1. /\ item.batch \in Batches /\ item.batch.last \in Nat /\ item.batch.first \in Nat
          /\ item.batch.first <= client.applied + 1 /\ item.batch.last <= head
      <4>1. item.batch \in Batches
        BY <2>1 DEF Items
      <4> QED
        BY <1>2, <2>1, <4>1, BatchKind DEF NoGapDelivered, OnlyCommitted
    <3>2. PICK m \in 0 .. MaxSequence : /\ m = Max({client.applied, item.batch.last})
                                        /\ m >= client.applied /\ m >= item.batch.last
                                        /\ m <= head
      <4>1. client.applied \in Nat /\ client.applied <= head /\ head <= MaxSequence
            /\ head \in Nat /\ MaxSequence \in Nat
        BY Kinds, Bounds DEF TypeOK
      <4>2. PICK m \in Nat : /\ m = Max({client.applied, item.batch.last})
                             /\ m \in {client.applied, item.batch.last}
                             /\ m >= client.applied /\ m >= item.batch.last
        BY <3>1, <4>1, MaxOfTwo
      <4>3. m <= head /\ m \in 0 .. MaxSequence
        BY <3>1, <4>1, <4>2
      <4> QED
        BY <4>2, <4>3
    <3>3. ~(item.batch.first > client.applied + 1)
      BY <3>1, Kinds
    <3>4. client' = [client EXCEPT !.pc = "ack", !.batch = item.batch, !.applied = m]
      BY <1>2, <2>1, <3>2, <3>3 DEF Receive
    <3>5. client \in Renderers
      BY Kinds
    <3>6. /\ client' \in Renderers /\ client'.pc = "ack" /\ client'.cursor = client.cursor
          /\ client'.batch = item.batch /\ client'.applied = m
      <4> HIDE InvParts
      <4>1. PICK b \in Batches : b = item.batch
        BY <3>1
      <4>2. client' = [client EXCEPT !.pc = "ack", !.batch = b, !.applied = m]
        BY <3>4, <4>1
      <4> QED
        BY <3>5, <4>1, <4>2 DEF Renderers
    <3> HIDE InvParts
    <3> QED
      BY <3>1, <3>2, <3>6, Bounds
  <2>2. CASE item.type # "batch"
    <3>1. item.type = "recovery" /\ item.gen \in 0 .. MaxGeneration /\ item.gate \in Gates
          /\ item.gate.id >= 1
      <4>1. item.type = "recovery" /\ item.gen \in 0 .. MaxGeneration /\ item.gate \in Gates
        BY <2>2 DEF Items
      <4> QED
        BY <1>2, <4>1 DEF BaselinesAreNamed
    <3>2. client' = [client EXCEPT !.pc = "snapshot", !.gate = item.gate, !.gen = item.gen]
      BY <1>2, <2>2 DEF Receive
    <3>3. /\ client \in Renderers /\ client.applied \in Nat /\ client.applied <= head
          /\ client.batch.last <= client.applied
      BY Kinds DEF TypeOK, BatchApplied
    <3> HIDE InvParts
    <3>4. PICK t \in Gates, g \in 0 .. MaxGeneration : t = item.gate /\ g = item.gen
      BY <3>1
    <3>5. client' = [client EXCEPT !.pc = "snapshot", !.gate = t, !.gen = g]
      BY <3>2, <3>4
    <3>6. /\ client' \in Renderers /\ client'.pc = "snapshot" /\ client'.cursor = client.cursor
          /\ client'.batch = client.batch /\ client'.applied = client.applied
          /\ client'.gate = t
      BY <3>3, <3>5 DEF Renderers
    <3> QED
      BY <3>1, <3>3, <3>4, <3>6
  <2> QED
    BY <2>1, <2>2
<1>6. TypeOK'
  BY <1>1, <1>3, <1>5 DEF TypeOK
<1>7. OnlyCommitted' /\ GatesFollow' /\ ProcessTyped'
  BY <1>1, <1>3 DEF OnlyCommitted, GatesFollow, ProcessTyped, supervisor
<1>8. BaselinesAreNamed' /\ CallFollows' /\ BatchApplied'
  BY <1>1, <1>3, <1>4, <1>5 DEF BaselinesAreNamed, CallFollows, BatchApplied
<1>9. NoGapDelivered'
  <2>1. \A i \in DOMAIN out : out[i].type = "batch" => out[i].batch.first \in Nat
    BY OutKind
  <2>2. client.applied \in Nat /\ NoGapDelivered
    BY Kinds
  <2> HIDE InvParts
  <2> QED
    BY <1>3, <1>5, <2>1, <2>2 DEF NoGapDelivered
<1>10. AckedIsApplied'
  <2>1. attached # {} => consumer[Renderer].acknowledged_sequence \in Nat
    BY RecordKind
  <2> QED
    BY <1>1, <1>5, <2>1, Kinds DEF AckedIsApplied, supervisor, Open
<1>11. AttachedAgrees'
  BY <1>1, <1>4 DEF AttachedAgrees, supervisor, Sup!Current
<1> QED
  BY <1>6, <1>7, <1>8, <1>9, <1>10, <1>11 DEF DeliveryInv

\* A step that only brings the renderer further keeps the invariant.
LEMMA RendererInv ==
    ASSUME DeliveryInv, call.kind = "none",
           client' \in Renderers, client'.gate = client.gate, client'.batch = client.batch,
           client'.cursor <= client'.applied, client'.cursor \in Nat,
           client'.applied >= client.applied, client'.applied <= head,
           \/ client'.pc \in {"idle", "lost"}
           \/ client'.pc \in {"snapshot", "baseline"} /\ client.pc \in {"snapshot", "baseline"},
           faults' \in 0 .. MaxFaults,
           UNCHANGED <<head, fed, s, out, call, generation, recoveries, supervisor>>
    PROVE  DeliveryInv'
<1> USE InvParts
<1>1. client.applied \in Nat /\ client'.applied \in Nat
  BY Kinds, Bounds DEF Renderers
<1>2. TypeOK'
  BY DEF TypeOK
<1>3. OnlyCommitted' /\ GatesFollow' /\ ProcessTyped'
  BY DEF OnlyCommitted, GatesFollow, ProcessTyped, supervisor
<1>4. BaselinesAreNamed' /\ CallFollows'
  BY DEF BaselinesAreNamed, CallFollows
<1>5. BatchApplied'
  BY <1>1, Kinds, BatchKind DEF BatchApplied
<1>6. NoGapDelivered'
  <2>1. \A i \in DOMAIN out : out[i].type = "batch" => out[i].batch.first \in Nat
    BY OutKind
  <2> QED
    BY <1>1, <2>1 DEF NoGapDelivered
<1>7. AckedIsApplied'
  <2>1. attached # {} => consumer[Renderer].acknowledged_sequence \in Nat
    BY RecordKind
  <2> QED
    BY <1>1, <2>1, Kinds DEF AckedIsApplied, supervisor, Open
<1>8. AttachedAgrees'
  BY DEF AttachedAgrees, supervisor, Sup!Current
<1> QED
  BY <1>2, <1>3, <1>4, <1>5, <1>6, <1>7, <1>8 DEF DeliveryInv

\* A snapshot applies whatever is committed.
LEMMA SnapshotInv == ASSUME DeliveryInv, Snapshot PROVE DeliveryInv'
<1>1. /\ client.pc = "snapshot"
      /\ client' = [client EXCEPT !.pc = "baseline", !.applied = head]
      /\ UNCHANGED <<head, fed, s, out, call, generation, recoveries, faults, supervisor>>
  BY DEF Snapshot
<1>2. /\ client \in Renderers /\ head \in 0 .. MaxSequence /\ head \in Nat
      /\ client.applied \in Nat /\ client.applied <= head /\ client.cursor \in Nat
      /\ client.cursor <= client.applied /\ faults \in 0 .. MaxFaults
  BY InvParts, Kinds DEF TypeOK, AckedIsApplied
<1>3. /\ client' \in Renderers /\ client'.pc = "baseline" /\ client'.applied = head
      /\ client'.cursor = client.cursor /\ client'.batch = client.batch
      /\ client'.gate = client.gate
  BY <1>1, <1>2 DEF Renderers
<1>4. call.kind = "none"
  BY <1>1, NoCallYet
<1> QED
  BY <1>1, <1>2, <1>3, <1>4, RendererInv

\* A session whose batch has been acknowledged.
LEMMA AckedSession ==
    ASSUME TypeOK, NEW b \in Batches, b.last \in 0 .. MaxSequence
    PROVE  LET x == AckedBatch(b) IN
           /\ x \in Sessions /\ x.pc = "next" /\ x.acked = b.last /\ x.ackGate = NoBatch
           /\ x.batch = NoBatch /\ x.route = s.route /\ x.gen = s.gen
           /\ x.hasAttached = s.hasAttached /\ x.input = s.input /\ x.pending = s.pending
           /\ x.baselineGate = s.baselineGate
           /\ x.route = "supervisor" => x.failures = 0
<1>1. /\ s \in Sessions /\ NoBatch \in Batches /\ "next" \in Places
      /\ 0 \in 0 .. RESTART_ATTEMPTS
  BY Kinds, NothingKind, Bounds DEF Places
<1>2. PICK h \in SUBSET Batches : h = s.history \cup {b}
  BY <1>1 DEF Sessions
<1>3. PICK n \in 0 .. RESTART_ATTEMPTS : /\ n = IF s.route = "supervisor" THEN 0 ELSE s.failures
  BY <1>1 DEF Sessions
<1>4. AckedBatch(b) = [s EXCEPT !.acked = b.last, !.history = h, !.ackGate = NoBatch,
                                !.batch = NoBatch, !.pc = "next", !.failures = n]
  BY <1>2, <1>3 DEF AckedBatch
<1>5. PICK x : x = AckedBatch(b)
  OBVIOUS
<1>6. x \in Sessions
  BY <1>1, <1>4, <1>5 DEF Sessions
<1>7. /\ x.pc = "next" /\ x.acked = b.last /\ x.ackGate = NoBatch
      /\ x.batch = NoBatch /\ x.route = s.route /\ x.gen = s.gen
      /\ x.hasAttached = s.hasAttached /\ x.input = s.input /\ x.pending = s.pending
      /\ x.baselineGate = s.baselineGate /\ x.failures = n
  BY <1>1, <1>4, <1>5 DEF Sessions
<1> QED
  BY <1>3, <1>5, <1>6, <1>7

\* An acknowledgement that is accepted moves the session to the end of the batch that the
\* renderer has applied, and the supervisor, if there is one, was there before.
LEMMA AckedBatchInv ==
    ASSUME DeliveryInv, s.ackGate # NoBatch, s.ackGate = client.batch, Open,
           s' = AckedBatch(s.ackGate), Accepted(s.ackGate.last),
           \/ s.route # "supervisor" /\ call.kind = "none" /\ UNCHANGED call
           \/ call.kind = "ack" /\ call.ok /\ ~call.stale /\ call' = NoCall,
           UNCHANGED <<head, fed, out, generation, recoveries, supervisor>>
    PROVE  DeliveryInv'
<1> USE InvParts
<1>1. /\ s.ackGate \in Batches /\ s.ackGate.last \in Nat
      /\ s.ackGate.last \in 0 .. MaxSequence /\ s.ackGate.last <= client.applied
      /\ s.pc = "ackwait" /\ client.cursor <= client.applied
  BY Kinds, BatchKind, Bounds DEF BatchApplied, GatesFollow, AckedIsApplied
<1>2. /\ s' \in Sessions /\ s'.pc = "next" /\ s'.acked = s.ackGate.last
      /\ s'.ackGate = NoBatch /\ s'.batch = NoBatch /\ s'.route = s.route /\ s'.gen = s.gen
      /\ s'.hasAttached = s.hasAttached /\ s'.input = s.input /\ s'.pending = s.pending
      /\ s'.baselineGate = s.baselineGate
      /\ s'.route = "supervisor" => s'.failures = 0
  BY <1>1, AckedSession
<1>3. /\ client' \in Renderers /\ client'.pc \in {"idle", "lost"}
      /\ client'.cursor <= client'.applied /\ client'.applied = client.applied
      /\ client'.batch = client.batch /\ client'.gate = client.gate
      /\ faults' \in 0 .. MaxFaults
  BY <1>1, AcceptedOK
<1>4. call' \in PendingCalls /\ call'.kind = "none"
  BY NothingKind DEF TypeOK
<1>5. TypeOK'
  <2>1. Cardinality(s'.input) <= INPUT_CAPACITY + IF s'.pc = "take" THEN 1 ELSE 0
    BY <1>1, <1>2 DEF TypeOK
  <2> QED
    BY <1>2, <1>3, <1>4, <2>1 DEF TypeOK
<1>6. OnlyCommitted'
  BY <1>2, NothingKind, Kinds DEF OnlyCommitted
<1>7. GatesFollow'
  BY <1>1, <1>2, Bounds DEF GatesFollow
<1>8. BaselinesAreNamed' /\ CallFollows' /\ BatchApplied' /\ NoGapDelivered' /\ ProcessTyped'
  BY <1>3, <1>4 DEF BaselinesAreNamed, CallFollows, BatchApplied, NoGapDelivered, ProcessTyped,
                    supervisor
<1>9. AckedIsApplied'
  BY <1>1, <1>2, <1>3 DEF AckedIsApplied, supervisor
<1>10. AttachedAgrees'
  BY <1>1, <1>2, <1>4 DEF AttachedAgrees, supervisor, Sup!Current
<1> QED
  BY <1>5, <1>6, <1>7, <1>8, <1>9, <1>10 DEF DeliveryInv

\* Before the supervisor is asked: fenced, accepted again, accepted, or asked.
LEMMA AcknowledgeInv == ASSUME DeliveryInv, Acknowledge PROVE DeliveryInv'
<1> USE InvParts
<1> DEFINE b == client.batch
           rust == [first |-> b.first, last |-> b.last]
<1>1. client.pc = "ack" /\ UNCHANGED <<head, fed, out, generation, recoveries>>
  BY DEF Acknowledge
<1>2. call.kind = "none"
  BY <1>1, NoCallYet
<1>3. /\ client.applied \in Nat /\ client.applied <= head /\ client.cursor \in Nat
      /\ client.cursor <= client.applied /\ faults \in 0 .. MaxFaults /\ s.acked \in Nat
      /\ Open => s.acked <= client.applied
  BY Kinds DEF TypeOK, AckedIsApplied
<1>4. CASE Fenced /\ UNCHANGED <<s, call, faults, supervisor>>
  <2>1. /\ client' \in Renderers /\ client'.pc = "lost" /\ client'.cursor = client.cursor
        /\ client'.batch = client.batch /\ client'.gate = client.gate
        /\ client'.applied \in {client.applied, head}
    BY <1>4, FencedOK
  <2>2. /\ client'.cursor <= client'.applied /\ client'.applied >= client.applied
        /\ client'.applied <= head
    BY <1>3, <2>1, Kinds
  <2> QED
    BY <1>1, <1>2, <1>3, <1>4, <2>1, <2>2, RendererInv
<1>5. CASE Open /\ Accepted(s.acked) /\ UNCHANGED <<s, call, supervisor>>
  <2>1. /\ client' \in Renderers /\ client'.pc \in {"idle", "lost"}
        /\ client'.cursor <= client'.applied /\ client'.applied = client.applied
        /\ client'.batch = client.batch /\ client'.gate = client.gate
        /\ faults' \in 0 .. MaxFaults
    BY <1>3, <1>5, AcceptedOK
  <2>2. /\ client'.cursor \in Nat /\ client'.applied >= client.applied
        /\ client'.applied <= head
    BY <1>3, <2>1, Bounds DEF Renderers
  <2> QED
    BY <1>1, <1>2, <1>5, <2>1, <2>2, RendererInv
<1> DEFINE Taken == /\ s.route # "supervisor" /\ s' = AckedBatch(b) /\ Accepted(b.last)
                    /\ UNCHANGED <<call, supervisor>>
           Asked == /\ client' = [client EXCEPT !.pc = "wait"]
                    /\ \/ /\ Sup!ApplicationAck(Renderer, s.gen, rust, b.last, b.last)
                          /\ call' = [kind |-> "ack", ok |-> TRUE, stale |-> FALSE]
                       \/ /\ call' = [kind |-> "ack", ok |-> FALSE, stale |-> FALSE]
                          /\ UNCHANGED supervisor
                    /\ UNCHANGED <<s, faults>>
<1>6. CASE Open /\ b.gen = s.gen /\ s.ackGate = b /\ (Taken \/ Asked)
  <2>1. s.ackGate # NoBatch
    BY <1>6 DEF GatesFollow, NoBatch
  <2>2. CASE Taken
    <3>1. s' = AckedBatch(s.ackGate) /\ Accepted(s.ackGate.last)
      BY <1>6, <2>2, Zenon
    <3>2. s.route # "supervisor" /\ UNCHANGED <<call, supervisor>>
      BY <2>2
    <3> QED
      BY <1>1, <1>2, <1>6, <2>1, <3>1, <3>2, AckedBatchInv
  <2>3. CASE Asked
    <3>1. /\ client' \in Renderers /\ client'.pc = "wait" /\ client'.applied = client.applied
          /\ client'.cursor = client.cursor /\ client'.batch = client.batch
          /\ client'.gate = client.gate
      BY <2>3, Kinds DEF Renderers
    <3>2. /\ call' \in PendingCalls /\ call'.kind = "ack" /\ ~call'.stale
      <4>1. CASE call' = [kind |-> "ack", ok |-> TRUE, stale |-> FALSE]
        BY <4>1 DEF PendingCalls
      <4>2. CASE call' = [kind |-> "ack", ok |-> FALSE, stale |-> FALSE]
        BY <4>2 DEF PendingCalls
      <4> QED
        BY <2>3, <4>1, <4>2
    <3>3. /\ ProcessTyped' /\ attached' = attached
          /\ attached # {} =>
                consumer'[Renderer].generation = consumer[Renderer].generation
          /\ call'.ok => consumer'[Renderer].acknowledged_sequence = b.last
          /\ ~call'.ok => consumer' = consumer
      <4>1. CASE call' = [kind |-> "ack", ok |-> FALSE, stale |-> FALSE] /\ UNCHANGED supervisor
        BY <3>2, <4>1 DEF ProcessTyped, supervisor
      <4>2. CASE /\ Sup!ApplicationAck(Renderer, s.gen, rust, b.last, b.last)
                 /\ call' = [kind |-> "ack", ok |-> TRUE, stale |-> FALSE]
        <5>1. b.last \in 0 .. MaxSequence
          BY Kinds DEF Batches
        <5>2. consumer[Renderer] \in Sup!Consumer /\ consumer \in [{Renderer} -> Sup!Consumer]
          BY DEF ProcessTyped
        <5>3. PICK r \in Sup!Consumer :
                 /\ r = Sup!Delivered(Sup!Cleared(consumer[Renderer], b.last))
                 /\ r.generation = consumer[Renderer].generation
                 /\ r.acknowledged_sequence = b.last
          BY <5>1, <5>2, AckedRecord
        <5>4. attached' = attached /\ consumer' = [consumer EXCEPT ![Renderer] = r]
          BY <4>2, <5>3 DEF Sup!ApplicationAck
        <5> QED
          BY <3>2, <4>2, <5>2, <5>3, <5>4 DEF ProcessTyped
      <4> QED
        BY <2>3, <4>1, <4>2
    <3>4. TypeOK'
      BY <1>1, <2>3, <3>1, <3>2 DEF TypeOK
    <3>5. OnlyCommitted' /\ GatesFollow' /\ BatchApplied' /\ NoGapDelivered'
      BY <1>1, <2>3, <3>1 DEF OnlyCommitted, GatesFollow, BatchApplied, NoGapDelivered
    <3>6. BaselinesAreNamed' /\ CallFollows'
      BY <1>1, <1>6, <2>1, <2>3, <3>1, <3>2 DEF BaselinesAreNamed, CallFollows, Open
    <3>7. AckedIsApplied'
      BY <2>3, <3>1, <3>3 DEF AckedIsApplied, BatchApplied, Open
    <3>8. AttachedAgrees'
      BY <1>2, <1>6, <2>1, <2>3, <3>2, <3>3 DEF AttachedAgrees, GatesFollow, Sup!Current
    <3> QED
      BY <3>3, <3>4, <3>5, <3>6, <3>7, <3>8 DEF DeliveryInv
  <2> QED
    BY <1>6, <2>2, <2>3
<1> QED
  BY <1>4, <1>5, <1>6, Kinds, BatchKind DEF Acknowledge

\* A refused or outdated acknowledgement fences the renderer; the session keeps its cursor.
LEMMA RefusedInv ==
    ASSUME DeliveryInv, call.kind = "ack", ~call.ok \/ call.stale, Fenced, call' = NoCall,
           s' \in Sessions, s'.ackGate \in {s.ackGate, NoBatch},
           s'.pc = s.pc \/ (s'.pc = "failed" /\ s.ackGate # NoBatch /\ s'.ackGate = NoBatch),
           s'.route = s.route, s'.gen = s.gen, s'.acked = s.acked,
           s'.hasAttached = s.hasAttached, s'.input = s.input, s'.pending = s.pending,
           s'.batch = s.batch, s'.baselineGate = s.baselineGate, s'.failures = s.failures,
           UNCHANGED <<head, fed, out, generation, recoveries, faults, supervisor>>
    PROVE  DeliveryInv'
<1> USE InvParts
<1>1. /\ client' \in Renderers /\ client'.pc = "lost" /\ client'.cursor = client.cursor
      /\ client'.batch = client.batch /\ client'.gate = client.gate
  BY FencedOK
<1>2. /\ client'.applied \in Nat /\ client.applied <= client'.applied
      /\ client'.applied <= head /\ client.applied \in Nat /\ client.cursor \in Nat
      /\ client.batch.last \in Nat
  BY GoneOrSame, Kinds, BatchKind
<1>3. call' \in PendingCalls /\ call'.kind = "none"
  BY NothingKind
<1>4. s.ackGate # NoBatch => s.pc = "ackwait"
  BY DEF GatesFollow
<1>5. TypeOK'
  <2>1. Cardinality(s'.input) <= INPUT_CAPACITY + IF s'.pc = "take" THEN 1 ELSE 0
    BY <1>4 DEF TypeOK
  <2> QED
    BY <1>1, <1>2, <1>3, <2>1 DEF TypeOK
<1>6. OnlyCommitted' /\ GatesFollow' /\ ProcessTyped'
  BY <1>4, NothingKind, Kinds DEF OnlyCommitted, GatesFollow, ProcessTyped, supervisor
<1>7. BaselinesAreNamed' /\ CallFollows'
  BY <1>1, <1>3 DEF BaselinesAreNamed, CallFollows
<1>8. BatchApplied'
  BY <1>1, <1>2 DEF BatchApplied
<1>9. NoGapDelivered'
  <2>1. \A i \in DOMAIN out : out[i].type = "batch" => out[i].batch.first \in Nat
    BY OutKind
  <2> QED
    BY <1>2, <2>1 DEF NoGapDelivered
<1>10. AckedIsApplied'
  <2>1. attached # {} => consumer[Renderer].acknowledged_sequence \in Nat
    BY RecordKind
  <2>2. s'.pc # "closed" => s.pc # "closed"
    BY <1>4
  <2> QED
    BY <1>1, <1>2, <2>1, <2>2, Kinds DEF AckedIsApplied, supervisor, Open
<1>11. AttachedAgrees'
  BY <1>3, <1>4 DEF AttachedAgrees, supervisor, Sup!Current
<1> QED
  BY <1>5, <1>6, <1>7, <1>8, <1>9, <1>10, <1>11 DEF DeliveryInv

\* The reply is good only for the gate the acknowledgement started with.
LEMMA AcknowledgeReplyInv == ASSUME DeliveryInv, AcknowledgeReply PROVE DeliveryInv'
<1> USE InvParts
<1>1. /\ call.kind = "ack" /\ call' = NoCall
      /\ UNCHANGED <<head, fed, out, generation, recoveries, supervisor>>
  BY DEF AcknowledgeReply
<1>2. s \in Sessions
  BY Kinds
<1>3. CASE call.ok /\ call.stale
  <2>1. Fenced /\ UNCHANGED <<s, faults>>
    BY <1>3 DEF AcknowledgeReply
  <2> QED
    BY <1>1, <1>2, <1>3, <2>1, RefusedInv
<1>4. CASE call.ok /\ ~call.stale
  <2>1. s' = AckedBatch(s.ackGate) /\ Accepted(s.ackGate.last)
    BY <1>4 DEF AcknowledgeReply
  <2>2. s.ackGate # NoBatch /\ s.ackGate = client.batch /\ Open
    BY <1>1, <1>4 DEF CallFollows
  <2> QED
    BY <1>1, <1>4, <2>1, <2>2, AckedBatchInv
<1>5. CASE ~call.ok /\ call.stale
  <2>1. s' = [s EXCEPT !.ackGate = NoBatch] /\ Fenced /\ UNCHANGED faults
    BY <1>5 DEF AcknowledgeReply
  <2>2. /\ s' \in Sessions /\ s'.ackGate = NoBatch /\ s'.pc = s.pc
        /\ s'.route = s.route /\ s'.gen = s.gen /\ s'.acked = s.acked
        /\ s'.hasAttached = s.hasAttached /\ s'.input = s.input /\ s'.pending = s.pending
        /\ s'.batch = s.batch /\ s'.baselineGate = s.baselineGate /\ s'.failures = s.failures
    <3> HIDE InvParts
    <3> QED
      BY <1>2, <2>1, NothingKind DEF Sessions
  <2> QED
    BY <1>1, <1>5, <2>1, <2>2, RefusedInv
<1>6. CASE ~call.ok /\ ~call.stale
  <2>1. s' = FailInFlight(s) /\ Fenced /\ UNCHANGED faults
    BY <1>6 DEF AcknowledgeReply
  <2>2. /\ s' \in Sessions /\ s'.ackGate = NoBatch
        /\ s'.pc = s.pc \/ (s'.pc = "failed" /\ s.ackGate # NoBatch)
        /\ s'.route = s.route /\ s'.gen = s.gen /\ s'.acked = s.acked
        /\ s'.hasAttached = s.hasAttached /\ s'.input = s.input /\ s'.pending = s.pending
        /\ s'.batch = s.batch /\ s'.baselineGate = s.baselineGate /\ s'.failures = s.failures
    BY <2>1, FailedGate
  <2> QED
    BY <1>1, <1>6, <2>1, <2>2, RefusedInv
<1> QED
  BY <1>3, <1>4, <1>5, <1>6

\* A session that has installed a baseline replays from it.
LEMMA RebasedSession ==
    ASSUME TypeOK, NEW n \in 0 .. MaxSequence
    PROVE  LET x == AckedBaseline(n) IN
           /\ x \in Sessions /\ x.pc = "replay" /\ x.acked = n /\ x.baselineGate = NoGate
           /\ x.route = s.route /\ x.gen = s.gen /\ x.hasAttached = s.hasAttached
           /\ x.input = s.input /\ x.pending \subseteq s.pending /\ x.batch = s.batch
           /\ x.ackGate = s.ackGate /\ x.failures = s.failures
<1>1. s \in Sessions /\ NoGate \in Gates /\ "replay" \in Places
  BY Kinds, NothingKind DEF Places
<1>2. PICK q \in SUBSET Events : q = {m \in s.pending : m > n} /\ q \subseteq s.pending
  BY <1>1 DEF Sessions
<1>3. AckedBaseline(n) = [s EXCEPT !.acked = n, !.pending = q, !.baselineGate = NoGate,
                                   !.pc = "replay"]
  BY <1>2 DEF AckedBaseline
<1> QED
  BY <1>1, <1>2, <1>3 DEF Sessions

\* A baseline that is installed moves the session to what the renderer has applied, and the
\* supervisor, if there is one, was there before.
LEMMA AckedBaselineInv ==
    ASSUME DeliveryInv, s.pc = "baseline",
           s' = AckedBaseline(client.applied), Accepted(client.applied),
           \/ s.route # "supervisor" /\ call.kind = "none" /\ UNCHANGED call
           \/ call.kind = "baseline" /\ call.ok /\ call' = NoCall,
           UNCHANGED <<head, fed, out, generation, recoveries, supervisor>>
    PROVE  DeliveryInv'
<1> USE InvParts
<1>1. /\ client.applied \in 0 .. MaxSequence /\ client.applied \in Nat
      /\ client.cursor <= client.applied /\ client.applied <= client.applied
      /\ s.ackGate = NoBatch
  BY Kinds DEF TypeOK, Renderers, AckedIsApplied, GatesFollow
<1>2. /\ s' \in Sessions /\ s'.pc = "replay" /\ s'.acked = client.applied
      /\ s'.baselineGate = NoGate /\ s'.route = s.route /\ s'.gen = s.gen
      /\ s'.hasAttached = s.hasAttached /\ s'.input = s.input
      /\ s'.pending \subseteq s.pending /\ s'.batch = s.batch
      /\ s'.ackGate = s.ackGate /\ s'.failures = s.failures
  BY <1>1, RebasedSession
<1>3. /\ client' \in Renderers /\ client'.pc \in {"idle", "lost"}
      /\ client'.cursor <= client'.applied /\ client'.applied = client.applied
      /\ client'.batch = client.batch /\ client'.gate = client.gate
      /\ faults' \in 0 .. MaxFaults
  BY <1>1, AcceptedOK
<1>4. call' \in PendingCalls /\ call'.kind = "none"
  BY NothingKind DEF TypeOK
<1>5. TypeOK'
  <2>1. Cardinality(s'.input) <= INPUT_CAPACITY + IF s'.pc = "take" THEN 1 ELSE 0
    BY <1>2 DEF TypeOK
  <2> QED
    BY <1>2, <1>3, <1>4, <2>1 DEF TypeOK
<1>6. OnlyCommitted' /\ GatesFollow'
  BY <1>1, <1>2 DEF OnlyCommitted, GatesFollow
<1>7. BaselinesAreNamed' /\ CallFollows' /\ BatchApplied' /\ NoGapDelivered' /\ ProcessTyped'
  BY <1>3, <1>4 DEF BaselinesAreNamed, CallFollows, BatchApplied, NoGapDelivered, ProcessTyped,
                    supervisor
<1>8. AckedIsApplied'
  BY <1>1, <1>2, <1>3 DEF AckedIsApplied, supervisor
<1>9. AttachedAgrees'
  BY <1>2, <1>4 DEF AttachedAgrees, supervisor, Sup!Current
<1> QED
  BY <1>5, <1>6, <1>7, <1>8, <1>9 DEF DeliveryInv

\* Before the supervisor is asked: fenced, refreshed, installed, or asked.
LEMMA AcknowledgeBaselineInv == ASSUME DeliveryInv, AcknowledgeBaseline PROVE DeliveryInv'
<1> USE InvParts
<1>1. client.pc = "baseline" /\ UNCHANGED <<head, fed, out, generation, recoveries>>
  BY DEF AcknowledgeBaseline
<1>2. call.kind = "none"
  BY <1>1, NoCallYet
<1>3. /\ client \in Renderers /\ client.applied \in Nat /\ client.applied <= head
      /\ client.cursor \in Nat /\ client.cursor <= client.applied
      /\ faults \in 0 .. MaxFaults /\ client.gate.id >= 1
  BY <1>1, Kinds DEF TypeOK, AckedIsApplied, BaselinesAreNamed
<1>4. CASE Fenced /\ UNCHANGED <<s, call, faults, supervisor>>
  <2>1. /\ client' \in Renderers /\ client'.pc = "lost" /\ client'.cursor = client.cursor
        /\ client'.batch = client.batch /\ client'.gate = client.gate
        /\ client'.applied \in {client.applied, head}
    BY <1>4, FencedOK
  <2>2. /\ client'.cursor <= client'.applied /\ client'.applied >= client.applied
        /\ client'.applied <= head
    BY <1>3, <2>1, Kinds
  <2> QED
    BY <1>1, <1>2, <1>3, <1>4, <2>1, <2>2, RendererInv
<1>5. CASE /\ client' = [client EXCEPT !.pc = "snapshot"]
           /\ UNCHANGED <<s, call, faults, supervisor>>
  <2>1. /\ client' \in Renderers /\ client'.pc = "snapshot" /\ client'.cursor = client.cursor
        /\ client'.batch = client.batch /\ client'.gate = client.gate
        /\ client'.applied = client.applied
    BY <1>3, <1>5 DEF Renderers
  <2> QED
    BY <1>1, <1>2, <1>3, <1>5, <2>1, RendererInv
<1>6. ASSUME ~BaselineFenced PROVE Open /\ s.pc = "baseline"
  <2>1. Open /\ s.baselineGate = client.gate
    BY <1>6 DEF BaselineFenced
  <2>2. s.baselineGate # NoGate
    BY <1>3, <2>1, NothingKind
  <2> QED
    BY <2>1, <2>2 DEF GatesFollow
<1>7. CASE /\ ~BaselineFenced /\ s.route # "supervisor"
           /\ s' = AckedBaseline(client.applied) /\ Accepted(client.applied)
           /\ UNCHANGED <<call, supervisor>>
  BY <1>1, <1>2, <1>6, <1>7, AckedBaselineInv
<1>8. CASE /\ ~BaselineFenced /\ client' = [client EXCEPT !.pc = "installing"]
           /\ call' = [kind |-> "baseline", ok |-> FALSE, stale |-> FALSE]
           /\ UNCHANGED <<s, faults, supervisor>>
  <2>1. /\ client' \in Renderers /\ client'.pc = "installing" /\ client'.cursor = client.cursor
        /\ client'.batch = client.batch /\ client'.gate = client.gate
        /\ client'.applied = client.applied
    BY <1>3, <1>8 DEF Renderers
  <2>2. call' \in PendingCalls /\ call'.kind = "baseline" /\ ~call'.ok
    BY <1>8 DEF PendingCalls
  <2>3. TypeOK'
    BY <1>1, <1>3, <1>8, <2>1, <2>2 DEF TypeOK
  <2>4. OnlyCommitted' /\ GatesFollow' /\ BatchApplied' /\ NoGapDelivered' /\ ProcessTyped'
    BY <1>1, <1>8, <2>1
       DEF OnlyCommitted, GatesFollow, BatchApplied, NoGapDelivered, ProcessTyped, supervisor
  <2>5. BaselinesAreNamed' /\ CallFollows'
    BY <1>1, <1>3, <1>6, <1>8, <2>1, <2>2 DEF BaselinesAreNamed, CallFollows, Open
  <2>6. AckedIsApplied'
    BY <1>8, <2>1 DEF AckedIsApplied, supervisor, Open
  <2>7. AttachedAgrees'
    BY <1>6, <1>8, <2>2 DEF AttachedAgrees
  <2> QED
    BY <2>3, <2>4, <2>5, <2>6, <2>7 DEF DeliveryInv
<1> QED
  BY <1>4, <1>5, <1>7, <1>8 DEF AcknowledgeBaseline

\* The new process learns the session's cursor before it gets the baseline.
LEMMA BaselineReattachInv == ASSUME DeliveryInv, BaselineReattach PROVE DeliveryInv'
<1> USE InvParts
<1>1. /\ call.kind = "baseline" /\ ~call.ok /\ s' = [s EXCEPT !.hasAttached = TRUE]
      /\ UNCHANGED <<head, fed, out, call, client, generation, recoveries, faults>>
  BY DEF BaselineReattach
<1>2. s.gen \in 0 .. MaxGeneration /\ s.acked \in 0 .. MaxSequence /\ s.pc = "baseline"
  BY <1>1, Kinds DEF CallFollows
<1>3. /\ s' \in Sessions /\ s'.pc = s.pc /\ s'.route = s.route /\ s'.gen = s.gen
      /\ s'.acked = s.acked /\ s'.input = s.input
      /\ s'.pending = s.pending /\ s'.batch = s.batch /\ s'.ackGate = s.ackGate
      /\ s'.baselineGate = s.baselineGate /\ s'.failures = s.failures
  BY <1>1, Kinds DEF Sessions
<1>4. /\ attached' = {Renderer} /\ consumer' \in [{Renderer} -> Sup!Consumer]
      /\ consumer'[Renderer].acknowledged_sequence = s.acked
  <2>1. /\ attached' = attached \cup {Renderer}
        /\ consumer' = [consumer EXCEPT ![Renderer] = Sup!NewConsumer(s.gen, s.acked)]
    BY DEF BaselineReattach, Sup!attach
  <2> QED
    BY <1>2, <2>1, NewRecord DEF ProcessTyped
<1>5. TypeOK'
  BY <1>1, <1>3 DEF TypeOK
<1>6. OnlyCommitted' /\ GatesFollow' /\ ProcessTyped'
  BY <1>1, <1>2, <1>3, <1>4 DEF OnlyCommitted, GatesFollow, ProcessTyped
<1>7. BaselinesAreNamed' /\ CallFollows' /\ BatchApplied' /\ NoGapDelivered'
  BY <1>1, <1>3 DEF BaselinesAreNamed, CallFollows, BatchApplied, NoGapDelivered, Open
<1>8. AckedIsApplied'
  BY <1>1, <1>2, <1>3, <1>4 DEF AckedIsApplied, Open
<1>9. AttachedAgrees'
  BY <1>1, <1>2, <1>3 DEF AttachedAgrees
<1> QED
  BY <1>5, <1>6, <1>7, <1>8, <1>9 DEF DeliveryInv

\* The process has the renderer's cursor before the session has it.
LEMMA BaselineInstallInv == ASSUME DeliveryInv, BaselineInstall PROVE DeliveryInv'
<1> USE InvParts
<1>1. /\ call.kind = "baseline" /\ call' = [call EXCEPT !.ok = TRUE]
      /\ Sup!install_baseline(Renderer, s.gen, client.gate.id, client.applied)
      /\ UNCHANGED <<head, fed, s, out, client, generation, recoveries, faults>>
  BY DEF BaselineInstall
<1>2. s.pc = "baseline"
  BY <1>1 DEF CallFollows
<1>3. call' \in PendingCalls /\ call'.kind = "baseline" /\ call'.ok
  BY <1>1 DEF TypeOK, PendingCalls
<1>4. /\ attached' = attached /\ ProcessTyped'
      /\ Sup!Current(Renderer, s.gen)'
      /\ consumer'[Renderer].acknowledged_sequence = client.applied
  <2>1. client.applied \in 0 .. MaxSequence /\ client.gate.id \in 1 .. MaxRecoveries
    BY <1>1, Kinds, Bounds DEF Renderers, Gates, BaselinesAreNamed
  <2>2. consumer \in [{Renderer} -> Sup!Consumer] /\ consumer[Renderer] \in Sup!Consumer
    BY DEF ProcessTyped
  <2>3. PICK r \in Sup!Consumer :
           /\ r = Sup!Rebased(consumer[Renderer], client.gate.id, client.applied)
           /\ r.generation = consumer[Renderer].generation
           /\ r.acknowledged_sequence = client.applied
    BY <2>1, <2>2, RebasedRecord
  <2>4. /\ attached' = attached /\ consumer' = [consumer EXCEPT ![Renderer] = r]
        /\ Sup!Current(Renderer, s.gen)
    BY <1>1, <2>3 DEF Sup!install_baseline
  <2> QED
    BY <1>1, <2>2, <2>3, <2>4 DEF ProcessTyped, Sup!Current
<1>5. TypeOK'
  BY <1>1, <1>3 DEF TypeOK
<1>6. OnlyCommitted' /\ GatesFollow' /\ BatchApplied' /\ NoGapDelivered'
  BY <1>1 DEF OnlyCommitted, GatesFollow, BatchApplied, NoGapDelivered
<1>7. BaselinesAreNamed' /\ CallFollows'
  BY <1>1, <1>3 DEF BaselinesAreNamed, CallFollows, Open
<1>8. AckedIsApplied'
  BY <1>1, <1>4, Kinds DEF AckedIsApplied, Open
<1>9. AttachedAgrees'
  BY <1>1, <1>2, <1>4 DEF AttachedAgrees
<1> QED
  BY <1>4, <1>5, <1>6, <1>7, <1>8, <1>9 DEF DeliveryInv

\* The reply brings the session where the process already is.
LEMMA BaselineReplyInv == ASSUME DeliveryInv, BaselineReply PROVE DeliveryInv'
<1>1. s.pc = "baseline"
  BY InvParts DEF BaselineReply, CallFollows
<1> QED
  BY <1>1, AckedBaselineInv DEF BaselineReply

\* An installation that fails leaves the gate to another attempt, or ends the session.
LEMMA BaselineFailsInv == ASSUME DeliveryInv, BaselineFails PROVE DeliveryInv'
<1> USE InvParts
<1>1. /\ call.kind = "baseline" /\ Fenced /\ UNCHANGED <<head, fed, generation, recoveries>>
  BY DEF BaselineFails
<1>2. faults' \in 0 .. MaxFaults
  BY FaultKind DEF BaselineFails, TypeOK
<1>3. CASE s' = Closed /\ CloseSession(FALSE)
  BY <1>1, <1>2, <1>3, ClosedInv
<1>4. CASE call' = NoCall /\ UNCHANGED <<s, out, supervisor>>
  <2>1. /\ client' \in Renderers /\ client'.pc = "lost" /\ client'.cursor = client.cursor
        /\ client'.batch = client.batch /\ client'.gate = client.gate
    BY <1>1, FencedOK
  <2>2. /\ client'.applied \in Nat /\ client.applied <= client'.applied
        /\ client'.applied <= head /\ client.applied \in Nat /\ client.cursor \in Nat
        /\ client.batch.last \in Nat
    BY <1>1, GoneOrSame, Kinds, BatchKind
  <2>3. call' \in PendingCalls /\ call'.kind = "none"
    BY <1>4, NothingKind
  <2>4. s.pc = "baseline"
    BY <1>1 DEF CallFollows
  <2>5. TypeOK'
    BY <1>1, <1>2, <1>4, <2>1, <2>2, <2>3 DEF TypeOK
  <2>6. OnlyCommitted' /\ GatesFollow' /\ ProcessTyped'
    BY <1>1, <1>4 DEF OnlyCommitted, GatesFollow, ProcessTyped, supervisor
  <2>7. BaselinesAreNamed' /\ CallFollows' /\ BatchApplied'
    BY <1>4, <2>1, <2>2, <2>3 DEF BaselinesAreNamed, CallFollows, BatchApplied
  <2>8. NoGapDelivered'
    <3>1. \A i \in DOMAIN out : out[i].type = "batch" => out[i].batch.first \in Nat
      BY OutKind
    <3> QED
      BY <1>4, <2>2, <3>1 DEF NoGapDelivered
  <2>9. AckedIsApplied'
    <3>1. attached # {} => consumer[Renderer].acknowledged_sequence \in Nat
      BY RecordKind
    <3> QED
      BY <1>4, <2>1, <2>2, <3>1, Kinds DEF AckedIsApplied, supervisor, Open
  <2>10. AttachedAgrees'
    BY <1>4, <2>3, <2>4 DEF AttachedAgrees
  <2> QED
    BY <2>5, <2>6, <2>7, <2>8, <2>9, <2>10 DEF DeliveryInv
<1> QED
  BY <1>3, <1>4 DEF BaselineFails

-----------------------------------------------------------------------------
(***************************************************************************)
(* The theorems.                                                           *)
(***************************************************************************)

\* A session that has just been opened holds nothing.
LEMMA DeliveryInit == Init => DeliveryInv
<1> SUFFICES ASSUME Init PROVE DeliveryInv
  OBVIOUS
<1>1. /\ head = 0 /\ fed = 0 /\ out = << >> /\ call = NoCall
      /\ client = [pc |-> "idle", applied |-> 0, cursor |-> 0,
                   batch |-> NoBatch, gen |-> 0, gate |-> NoGate]
      /\ generation = 1 /\ recoveries = 0 /\ faults = 0
  BY DEF Init
<1>2. attached = {} /\ ProcessTyped
  <2>1. Sup!NoConsumer \in Sup!Consumer
    BY NewRecord, Bounds DEF Sup!NoConsumer
  <2> QED
    BY <2>1 DEF Init, Sup!Init, ProcessTyped
<1>3. /\ s \in Sessions /\ s.pc \in {"recover", "replay"} /\ s.gen = 1 /\ s.acked = 0
      /\ ~s.hasAttached /\ s.failures = 0 /\ s.input = {} /\ s.pending = {}
      /\ s.batch = NoBatch /\ s.ackGate = NoBatch /\ s.baselineGate = NoGate
  <2>1. /\ 0 \in 0 .. MaxSequence /\ 1 \in 0 .. MaxGeneration /\ Mode \in Routes
        /\ 0 \in 0 .. RESTART_ATTEMPTS /\ 1 \in 1 .. RESTART_ATTEMPTS
    BY Bounds
  <2>2. s = NewSession(1, 0)
    BY DEF Init
  <2> QED
    BY <2>1, <2>2, NothingKind DEF NewSession, Sessions, Places
<1>4. /\ client \in Renderers /\ client.pc = "idle" /\ client.applied = 0
      /\ client.cursor = 0 /\ client.batch = NoBatch
  BY <1>1, NothingKind, Bounds DEF Renderers
<1>5. TypeOK
  <2>1. Cardinality(s.input) <= INPUT_CAPACITY + IF s.pc = "take" THEN 1 ELSE 0
    <3>1. Cardinality(s.input) = 0
      BY <1>3, FS_EmptySet
    <3> QED
      BY <1>3, <3>1, Bounds
  <2>2. out \in Seq(Items) /\ call \in PendingCalls
    BY <1>1, NothingKind
  <2>3. /\ head \in 0 .. MaxSequence /\ fed \in 0 .. head /\ generation \in 0 .. MaxGeneration
        /\ recoveries \in 0 .. MaxRecoveries /\ faults \in 0 .. MaxFaults
        /\ client.applied <= head
    BY <1>1, <1>4, Bounds
  <2> QED
    BY <1>3, <1>4, <2>1, <2>2, <2>3 DEF TypeOK
<1>6. OnlyCommitted /\ GatesFollow
  BY <1>1, <1>3, NothingKind, Bounds DEF OnlyCommitted, GatesFollow
<1>7. BaselinesAreNamed /\ CallFollows /\ BatchApplied /\ NoGapDelivered
  BY <1>1, <1>4, NothingKind DEF BaselinesAreNamed, CallFollows, BatchApplied, NoGapDelivered
<1>8. AckedIsApplied /\ AttachedAgrees
  BY <1>2, <1>3, <1>4 DEF AckedIsApplied, AttachedAgrees
<1> QED
  BY <1>2, <1>5, <1>6, <1>7, <1>8 DEF DeliveryInv

\* Every step of the session, of the process, of the renderer and of the timers keeps it.
LEMMA DeliveryStep == DeliveryInv /\ [Next]_vars => DeliveryInv'
<1> SUFFICES ASSUME DeliveryInv, [Next]_vars PROVE DeliveryInv'
  OBVIOUS
<1>1. CASE RunLoop
  BY <1>1, RecoverFenceInv, AttachInv, AttachReplyInv, AttachFailsInv, LoadReplayInv,
     NextEventInv, TakeInputInv, DeliverInv, OpenGateInv, DeliveryFailedInv DEF RunLoop
<1>2. CASE RendererSteps
  BY <1>2, ReceiveInv, AcknowledgeInv, AcknowledgeReplyInv, SnapshotInv, AcknowledgeBaselineInv,
     BaselineReattachInv, BaselineInstallInv, BaselineReplyInv, StreamReleasedInv,
     ResubscribeInv DEF RendererSteps
<1>3. CASE Faults
  BY <1>3, AckTimeoutInv, BaselineTimeoutInv, ProcessFailsInv, BaselineFailsInv, DropInv
     DEF Faults
<1>4. CASE UNCHANGED vars
  BY <1>4
     DEF vars, supervisor, DeliveryInv, TypeOK, ProcessTyped, OnlyCommitted, GatesFollow,
         BaselinesAreNamed, CallFollows, AckedIsApplied, BatchApplied, NoGapDelivered,
         AttachedAgrees, Open, Sup!Current
<1> QED
  BY <1>1, <1>2, <1>3, <1>4, CommitInv, OfferInv DEF Next

\* The inductive invariant: it holds of every state of every behaviour.
THEOREM DeliveryHolds == Spec => []DeliveryInv
BY DeliveryInit, DeliveryStep, PTL DEF Spec

\* SessionInv: whatever is redelivered, replayed or fenced, every value is of its kind, the
\* input channel stays within its capacity, and the next batch in the output channel
\* continues what the renderer has applied.
THEOREM NothingBridgesAGap == Spec => []SessionInv
<1>1. DeliveryInv => SessionInv
  BY DEF DeliveryInv, SessionInv
<1> QED
  BY <1>1, DeliveryHolds, PTL

\* AckedIsApplied: no cursor, of the session, of the supervisor or kept by the renderer, is
\* ahead of what the renderer has applied.
THEOREM CursorsFollowTheRenderer == Spec => []AckedIsApplied
<1>1. DeliveryInv => AckedIsApplied
  BY DEF DeliveryInv
<1> QED
  BY <1>1, DeliveryHolds, PTL

\* CursorsAgree: a session that delivers through the supervisor and the supervisor agree on
\* generation and cursor whenever no acknowledgement is on its way.
THEOREM SessionAndProcessAgree == Spec => []CursorsAgree
<1>1. DeliveryInv => CursorsAgree
  BY DEF DeliveryInv, AttachedAgrees, CursorsAgree
<1> QED
  BY <1>1, DeliveryHolds, PTL

-----------------------------------------------------------------------------
(***************************************************************************)
(* The process behind the session is the one DesktopSupervisor specifies.  *)
(***************************************************************************)

\* What the session asks of the process, and what happens to it, are steps of its own.
LEMMA ProcessSteps ==
    /\ KillProcess => Sup!Next
    /\ \A g \in 1 .. MaxGeneration :
         /\ \A a \in 0 .. MaxSequence : Sup!attach(Renderer, g, a) => Sup!Next
         /\ Sup!detach(Renderer, g) => Sup!Next
         /\ \A b \in Sup!Batch : Sup!EventBatch(Renderer, g, b) => Sup!Next
         /\ \A b \in Sup!Batch, a \in 0 .. MaxSequence :
                 Sup!ApplicationAck(Renderer, g, b, a, a) => Sup!Next
         /\ \A id \in 1 .. MaxRecoveries, a \in 0 .. MaxSequence :
                 Sup!install_baseline(Renderer, g, id, a) => Sup!Next
<1>1. Renderer \in {Renderer} /\ Sup!Generations = 1 .. MaxGeneration
      /\ Sup!Sequences = 0 .. MaxSequence
  BY DEF Sup!Generations, Sup!Sequences
<1>2. KillProcess => Sup!Next
  BY DEF KillProcess, Sup!Next
<1>3. ASSUME NEW g \in 1 .. MaxGeneration
      PROVE  /\ \A a \in 0 .. MaxSequence : Sup!attach(Renderer, g, a) => Sup!Next
             /\ Sup!detach(Renderer, g) => Sup!Next
             /\ \A b \in Sup!Batch : Sup!EventBatch(Renderer, g, b) => Sup!Next
             /\ \A b \in Sup!Batch, a \in 0 .. MaxSequence :
                     Sup!ApplicationAck(Renderer, g, b, a, a) => Sup!Next
             /\ \A id \in 1 .. MaxRecoveries, a \in 0 .. MaxSequence :
                     Sup!install_baseline(Renderer, g, id, a) => Sup!Next
  BY <1>1, Zenon DEF Sup!Next
<1> QED
  BY <1>2, <1>3, Zenon

\* Closing a session kills the process, detaches from it, or leaves it alone.
LEMMA CloseStep ==
    ASSUME DeliveryInv, NEW b \in BOOLEAN, CloseSession(b)
    PROVE  Sup!Next \/ UNCHANGED supervisor
<1>1. s.gen \in 1 .. MaxGeneration
  BY InvParts, Kinds, Bounds DEF GatesFollow
<1> QED
  BY <1>1, ProcessSteps DEF CloseSession

\* So every step of the composition is a step of the process or leaves it alone.
LEMMA ProcessStep == DeliveryInv /\ [Next]_vars => [Sup!Next]_supervisor
<1> SUFFICES ASSUME DeliveryInv, [Next]_vars PROVE Sup!Next \/ UNCHANGED supervisor
  OBVIOUS
<1>1. /\ s.gen \in 1 .. MaxGeneration /\ s.acked \in 0 .. MaxSequence
      /\ client.applied \in 0 .. MaxSequence /\ client.batch.last \in 0 .. MaxSequence
      /\ [first |-> client.batch.first, last |-> client.batch.last] \in Sup!Batch
      /\ [first |-> s.batch.first, last |-> s.batch.last] \in Sup!Batch
  BY InvParts, Kinds, Bounds DEF GatesFollow, Renderers, Batches, Sup!Batch, Sup!Sequences
<1>2. CASE Offer \/ DeliveryFailed \/ BaselineTimeout \/ StreamReleased \/ Resubscribe
           \/ BaselineFails
  <2>1. \A b \in BOOLEAN : CloseSession(b) => Sup!Next \/ UNCHANGED supervisor
    BY CloseStep
  <2> QED
    BY <1>2, <2>1, ProcessSteps
       DEF Offer, DeliveryFailed, BaselineTimeout, StreamReleased, Resubscribe, BaselineFails
<1>3. CASE RecoverFence \/ AttachFails \/ ProcessFails
  BY <1>3, ProcessSteps DEF RecoverFence, AttachFails, ProcessFails
<1>4. CASE Attach \/ BaselineReattach
  BY <1>1, <1>4, ProcessSteps DEF Attach, BaselineReattach
<1>5. CASE Deliver
  BY <1>1, <1>5, ProcessSteps DEF Deliver
<1>6. CASE Acknowledge
  BY <1>1, <1>6, ProcessSteps DEF Acknowledge
<1>7. CASE BaselineInstall
  <2>1. client.gate.id \in 1 .. MaxRecoveries
    BY <1>7, InvParts, Kinds, Bounds DEF BaselineInstall, Gates, BaselinesAreNamed
  <2> QED
    BY <1>1, <1>7, <2>1, ProcessSteps DEF BaselineInstall
<1>8. CASE \/ Commit \/ AttachReply \/ LoadReplay \/ NextEvent \/ TakeInput \/ OpenGate
           \/ AckTimeout \/ Drop \/ Receive \/ AcknowledgeReply \/ Snapshot
           \/ AcknowledgeBaseline \/ BaselineReply
  BY <1>8 DEF Commit, AttachReply, LoadReplay, NextEvent, TakeInput, OpenGate, AckTimeout, Drop,
              Receive, AcknowledgeReply, Snapshot, AcknowledgeBaseline, BaselineReply
<1>9. CASE UNCHANGED vars
  BY <1>9 DEF vars
<1> QED
  BY <1>2, <1>3, <1>4, <1>5, <1>6, <1>7, <1>8, <1>9 DEF Next, RunLoop, RendererSteps, Faults

\* The refinement: in the composition the process behaves as DesktopSupervisor specifies it
\* for any owner, so what is proved there (gapless delivery, fences, cursors that never go
\* back, limits) holds of the process that this session drives.
THEOREM ProcessAsSpecified == Spec => Sup!Spec
<1>1. Init => Sup!Init
  BY DEF Init
<1>2. DeliveryInv /\ [Next]_vars => [Sup!Next]_(Sup!vars)
  BY ProcessStep DEF supervisor, Sup!vars
<1> QED
  BY <1>1, <1>2, DeliveryHolds, PTL DEF Spec, Sup!Spec

=============================================================================
