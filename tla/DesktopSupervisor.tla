------------------------- MODULE DesktopSupervisor -------------------------
(***************************************************************************)
(* The Rust desktop supervisor: per consumer, a bounded queue of event     *)
(* batches of which one is in flight, the acknowledged cursor, and a       *)
(* generation fence that outlives the attachment.  The actions are the     *)
(* frames of handle_frame (one at a time, under the supervisor's mutex)    *)
(* and the acknowledgement watchdog.  The owner is not trusted: a frame    *)
(* carries any generation and any sequence.  A frame that is refused       *)
(* changes nothing and is not a step.                                      *)
(*                                                                         *)
(* A batch is the range first..last of its events, its identity the range  *)
(* and the generation (the id is a digest of both).  The memory of         *)
(* acknowledged batches only chooses the reply to a duplicate frame and is *)
(* left out, and so are the byte limits, which act as the event limits do. *)
(***************************************************************************)
EXTENDS Integers, Sequences, SequencesExt, FiniteSets

CONSTANTS
    Consumers,
    RecoveryIds,              \* identities of projection baselines
    MaxSequence,              \* bound: events of the log
    MaxGeneration,            \* bound: generations the owner hands out
    max_consumers,
    max_consumer_identities,
    max_queue_events,
    max_in_flight_events,
    BASELINE_IDENTITY_HISTORY_LIMIT

ASSUME SupervisorAssumption ==
    /\ MaxSequence \in Nat
    /\ MaxGeneration \in Nat
    /\ max_consumers \in Nat /\ max_consumer_identities \in Nat
    /\ max_queue_events \in Nat /\ max_in_flight_events \in Nat
    /\ BASELINE_IDENTITY_HISTORY_LIMIT \in Nat

VARIABLES
    attached,        \* keys of the consumers map
    consumer,        \* consumer -> its record, NoConsumer when not attached
    fenced,          \* keys of generation_fences
    fence,           \* consumer -> the fence, NoFence when there is none
    older            \* <<d, c>>: the fence of d has a smaller last_touched than that of c

vars == <<attached, consumer, fenced, fence, older>>

Sequences == 0 .. MaxSequence
Generations == 1 .. MaxGeneration
Batch == [first : Sequences, last : Sequences]
None == [first |-> 0, last |-> 0]      \* no batch: sequences start at 1
Events(b) == b.last - b.first + 1

States == {"Ready", "AwaitingAcknowledgement", "Stalled", "Overloaded"}

Consumer == [generation : 0 .. MaxGeneration,
             state : States,
             acknowledged_sequence : Sequences,
             sent_sequence : Sequences,
             queue : Seq(Batch),
             events : Int,              \* events of the queue, counted as batches come and go
             in_flight : Batch,
             baseline_identities : SUBSET [recovery_id : RecoveryIds, sequence : Sequences]]

Fence == [generation : 0 .. MaxGeneration, acknowledged_sequence : Sequences]

NewConsumer(g, applied) ==
    [generation |-> g, state |-> "Ready", acknowledged_sequence |-> applied,
     sent_sequence |-> applied, queue |-> << >>, events |-> 0, in_flight |-> None,
     baseline_identities |-> {}]

NoConsumer == NewConsumer(0, 0)
NoFence == [generation |-> 0, acknowledged_sequence |-> 0]

TypeOK ==
    /\ attached \in SUBSET Consumers
    /\ consumer \in [Consumers -> Consumer]
    /\ fenced \in SUBSET Consumers
    /\ fence \in [Consumers -> Fence]
    /\ older \in SUBSET (Consumers \X Consumers)

Init ==
    /\ attached = {}
    /\ consumer = [c \in Consumers |-> NoConsumer]
    /\ fenced = {}
    /\ fence = [c \in Consumers |-> NoFence]
    /\ older = {}

-----------------------------------------------------------------------------
(***************************************************************************)
(* Attachments and generation fences.                                      *)
(***************************************************************************)

\* Mutant: the cursor of a detached consumer is not compared.
AttachAnywhere(c, g, applied) ==
    /\ c \in attached \/ Cardinality(attached) < max_consumers
    /\ c \in fenced \ attached => g > fence[c].generation
    /\ c \in attached => /\ g > consumer[c].generation
                         /\ applied >= consumer[c].acknowledged_sequence

AttachAllowed(c, g, applied) ==
    /\ c \in attached \/ Cardinality(attached) < max_consumers
    /\ c \in fenced \ attached => /\ g > fence[c].generation
                                  /\ applied = fence[c].acknowledged_sequence
    /\ c \in attached => /\ g > consumer[c].generation
                         /\ applied >= consumer[c].acknowledged_sequence

Idle == fenced \ attached

\* Mutant: room is made, but nothing is removed.
EvictedNone(c) == {}

\* What reserve_consumer_identity forgets to make room for c: the fence that
\* was touched first among those without an attachment.
Evicted(c) ==
    IF c \in fenced \/ Cardinality(fenced) < max_consumer_identities THEN {}
    ELSE {d \in Idle : \A e \in Idle \ {d} : <<d, e>> \in older}

IdentityAvailable(c) ==
    c \in fenced \/ Cardinality(fenced) < max_consumer_identities \/ Idle # {}

\* next_generation_fence_clock: c is now the newest of the fences that stay.
Touch(c, gone) ==
    LET stay == fenced \ (gone \cup {c})
    IN  {p \in older : p[1] \in stay /\ p[2] \in stay} \cup (stay \X {c})

attach(c, g, applied) ==
    /\ AttachAllowed(c, g, applied)
    /\ IdentityAvailable(c)
    /\ attached' = attached \cup {c}
    /\ consumer' = [consumer EXCEPT ![c] = NewConsumer(g, applied)]
    /\ fenced' = (fenced \ Evicted(c)) \cup {c}
    /\ fence' = [d \in Consumers |->
            IF d = c THEN [generation |-> g, acknowledged_sequence |-> applied]
            ELSE IF d \in Evicted(c) THEN NoFence ELSE fence[d]]
    /\ older' = Touch(c, Evicted(c))

detach(c, g) ==
    /\ c \in attached
    /\ consumer[c].generation = g
    /\ attached' = attached \ {c}
    /\ fenced' = fenced \cup {c}
    /\ fence' = [fence EXCEPT ![c] = [generation |-> g,
                    acknowledged_sequence |-> consumer[c].acknowledged_sequence]]
    /\ older' = Touch(c, {})
    /\ consumer' = [consumer EXCEPT ![c] = NoConsumer]

-----------------------------------------------------------------------------
(***************************************************************************)
(* Batches.                                                                *)
(***************************************************************************)

\* consumer_mut: the frame names an attached consumer and its generation.
Current(c, g) == c \in attached /\ consumer[c].generation = g

\* ConsumerQueue: push, pop of the first batch, and clear.
Pushed(r, b) == [r EXCEPT !.queue = Append(@, b), !.events = @ + Events(b)]
Popped(r) == [r EXCEPT !.queue = Tail(@), !.events = @ - Events(Head(r.queue))]
EmptyQueue(r) == [r EXCEPT !.queue = << >>, !.events = 0]

NextExpected(r) ==
    1 + IF r.queue # << >> THEN Last(r.queue).last
        ELSE IF r.in_flight # None THEN r.in_flight.last
        ELSE r.acknowledged_sequence

\* Mutant: the next batch is sent while one is in flight.
DeliveredEagerly(r) ==
    IF r.queue = << >> THEN r
    ELSE [Popped(r) EXCEPT !.in_flight = Head(r.queue),
                           !.sent_sequence = Head(r.queue).last,
                           !.state = "AwaitingAcknowledgement"]

\* next_delivery: one batch in flight at a time.
Delivered(r) ==
    IF r.in_flight # None \/ r.queue = << >> THEN r
    ELSE [Popped(r) EXCEPT !.in_flight = Head(r.queue),
                           !.sent_sequence = Head(r.queue).last,
                           !.state = "AwaitingAcknowledgement"]

Enqueued(r, b) ==
    IF r.events + Events(b) > max_queue_events
    THEN [EmptyQueue(r) EXCEPT !.state = "Overloaded", !.in_flight = None]
    ELSE Delivered(Pushed(r, b))

\* An EventBatch frame: enqueue, then next_delivery.  A duplicate of a batch
\* that is queued, in flight or acknowledged is not contiguous either.
EventBatch(c, g, b) ==
    /\ Current(c, g)
    /\ b.first <= b.last
    /\ b.first = NextExpected(consumer[c])
    /\ Events(b) <= max_in_flight_events
    /\ consumer' = [consumer EXCEPT ![c] = Enqueued(@, b)]
    /\ UNCHANGED <<attached, fenced, fence, older>>

\* acknowledge, of the batch in flight.
Cleared(r, applied) == [r EXCEPT !.acknowledged_sequence = applied,
                                 !.in_flight = None, !.state = "Ready"]

\* An ApplicationAck frame: acknowledge, then next_delivery.
ApplicationAck(c, g, b, received, applied) ==
    LET r == consumer[c] IN
    /\ Current(c, g)
    /\ r.in_flight # None
    /\ r.in_flight = b
    /\ received <= r.sent_sequence
    /\ received >= applied
    /\ applied = r.sent_sequence
    /\ applied >= r.acknowledged_sequence
    /\ consumer' = [consumer EXCEPT ![c] = Delivered(Cleared(@, applied))]
    /\ UNCHANGED <<attached, fenced, fence, older>>

Installed(r, id) == \E i \in r.baseline_identities : i.recovery_id = id

Rebased(r, id, applied) ==
    [r EXCEPT !.acknowledged_sequence = applied,
              !.sent_sequence = applied,
              !.baseline_identities = @ \cup {[recovery_id |-> id, sequence |-> applied]},
              !.state = "Ready"]

\* Mutant: queued and in-flight delivery does not conflict with a baseline.
install_baseline_over(c, g, id, applied) ==
    LET r == consumer[c] IN
    /\ Current(c, g)
    /\ ~Installed(r, id)
    /\ applied >= r.acknowledged_sequence
    /\ consumer' = [consumer EXCEPT ![c] = Rebased(@, id, applied)]
    /\ UNCHANGED <<attached, fenced, fence, older>>

install_baseline(c, g, id, applied) ==
    LET r == consumer[c] IN
    /\ Current(c, g)
    /\ ~Installed(r, id)
    /\ applied >= r.acknowledged_sequence
    /\ r.in_flight = None /\ r.events = 0
    /\ Cardinality(r.baseline_identities) < BASELINE_IDENTITY_HISTORY_LIMIT
    /\ consumer' = [consumer EXCEPT ![c] = Rebased(@, id, applied)]
    /\ UNCHANGED <<attached, fenced, fence, older>>

\* The watchdog thread: a batch in flight for too long is reported once.
check_timeouts(c) ==
    /\ c \in attached
    /\ consumer[c].in_flight # None
    /\ consumer[c].state # "Stalled"
    /\ consumer' = [consumer EXCEPT ![c].state = "Stalled"]
    /\ UNCHANGED <<attached, fenced, fence, older>>

\* The same baseline identity with another sequence is a fatal session error.
FatalFrame(c, g, id, applied) ==
    /\ Current(c, g)
    /\ \E i \in consumer[c].baseline_identities :
            i.recovery_id = id /\ i.sequence # applied

\* The process ends (a fatal frame, a shutdown, a crash); the owner starts
\* another one, which knows nothing.
Restart ==
    /\ attached' = {}
    /\ consumer' = [c \in Consumers |-> NoConsumer]
    /\ fenced' = {}
    /\ fence' = [c \in Consumers |-> NoFence]
    /\ older' = {}

Next ==
    \/ \E c \in Consumers, g \in Generations :
        \/ \E a \in Sequences : attach(c, g, a)
        \/ detach(c, g)
        \/ \E b \in Batch : EventBatch(c, g, b)
        \/ \E b \in Batch, r, a \in Sequences : ApplicationAck(c, g, b, r, a)
        \/ \E id \in RecoveryIds, a \in Sequences :
            \/ install_baseline(c, g, id, a)
            \/ FatalFrame(c, g, id, a) /\ Restart
    \/ \E c \in Consumers : check_timeouts(c)
    \/ Restart

Spec == Init /\ [][Next]_vars

-----------------------------------------------------------------------------
(***************************************************************************)
(* Properties.                                                             *)
(***************************************************************************)

\* A queue is only ever behind a batch in flight (enqueue and acknowledge
\* both end in next_delivery), and together they are one gapless run of
\* events that starts right after the acknowledged cursor.
InFlightThenQueue ==
    \A c \in attached : LET r == consumer[c] IN
        /\ r.queue # << >> => r.in_flight # None
        /\ r.in_flight # None => /\ r.in_flight.first = r.acknowledged_sequence + 1
                                 /\ r.in_flight.last = r.sent_sequence
        /\ \A i \in DOMAIN r.queue :
               r.queue[i].first = 1 + IF i = 1 THEN r.in_flight.last ELSE r.queue[i - 1].last

\* The fence of an attached consumer (attach.rs) exists, is of the same
\* generation and is not ahead of the consumer: dropping the attachment can
\* never refuse the generation that comes next.
FenceBehindConsumer ==
    \A c \in attached : /\ c \in fenced
                        /\ fence[c].generation = consumer[c].generation
                        /\ fence[c].acknowledged_sequence <= consumer[c].acknowledged_sequence

\* The last event that is in flight or acknowledged.
Base(r) == IF r.in_flight # None THEN r.in_flight.last ELSE r.acknowledged_sequence

\* The events of a gapless queue.
Waiting(r) == IF r.queue = << >> THEN 0 ELSE Last(r.queue).last - Base(r)

\* The bounds of Limits: attached consumers, remembered identities (room is
\* made by forgetting a fence), and the events a consumer can make the process
\* hold: the count that enqueue compares and pop takes down is the number of
\* events that wait, and never falls below zero (it is a usize).
WithinLimits ==
    /\ Cardinality(attached) <= max_consumers
    /\ Cardinality(fenced) <= max_consumer_identities
    /\ \A c \in attached : LET r == consumer[c] IN
           r.events = Waiting(r) /\ r.events \in 0 .. max_queue_events

Cursor(c) == IF c \in attached THEN consumer[c].acknowledged_sequence
             ELSE fence[c].acknowledged_sequence

Generation(c) == IF c \in attached THEN consumer[c].generation ELSE fence[c].generation

Offered(c) == IF c \in attached /\ consumer[c].in_flight # None
              THEN consumer[c].in_flight.last ELSE Cursor(c)

\* As long as the process remembers a consumer, no frame of any generation
\* (late, duplicated, of a superseded session) takes its cursor or its
\* generation back: attach.rs and state.rs fence them.
NeverBack ==
    [][\A c \in fenced \cap fenced' :
        /\ Generation(c)' >= Generation(c)
        /\ Cursor(c)' >= Cursor(c)]_vars

generations == [c \in Consumers |-> Generation(c)]
cursors == [c \in Consumers |-> Cursor(c)]
offers == [c \in Consumers |-> Offered(c)]

Abstract == INSTANCE DeliveryCursor WITH
    known <- fenced, generation <- generations, cursor <- cursors, offered <- offers

\* The supervisor keeps the promises of a delivery cursor.
ImplementsCursor == Abstract!Spec

-----------------------------------------------------------------------------
(***************************************************************************)
(* The inductive invariant of the proofs.                                  *)
(***************************************************************************)

\* In flight and queued batches are one run of events after the cursor.
Gapless(r) ==
    /\ r.in_flight # None => /\ r.in_flight.first = r.acknowledged_sequence + 1
                             /\ r.in_flight.first <= r.in_flight.last
                             /\ r.in_flight.last = r.sent_sequence
    /\ \A i \in DOMAIN r.queue :
           /\ r.queue[i].first = 1 + IF i = 1 THEN Base(r) ELSE r.queue[i - 1].last
           /\ r.queue[i].first <= r.queue[i].last

Settled(r) == r.queue # << >> => r.in_flight # None

\* last_touched orders the fences strictly.
OlderIsStrict == \A d, e \in Consumers : d # e => ~(<<d, e>> \in older /\ <<e, d>> \in older)

IndInv ==
    /\ TypeOK
    /\ \A c \in Consumers : Gapless(consumer[c]) /\ Settled(consumer[c])
    /\ \A c \in Consumers \ attached : consumer[c] = NoConsumer
    /\ \A c \in Consumers \ fenced : fence[c] = NoFence
    /\ FenceBehindConsumer
    /\ OlderIsStrict

\* The events that wait are counted, and batches wait in the order of the log.
Counted(r) ==
    /\ r.events = Waiting(r)
    /\ r.events <= max_queue_events
    /\ \A i, j \in DOMAIN r.queue : i < j => r.queue[i].last < r.queue[j].last

\* The order of the fences is total: one of them is forgotten before the others.
OlderIsTotal ==
    /\ \A d, e \in fenced : d # e => <<d, e>> \in older \/ <<e, d>> \in older
    /\ \A d, e, f \in fenced : <<d, e>> \in older /\ <<e, f>> \in older => <<d, f>> \in older
    /\ \A d \in Consumers : <<d, d>> \notin older

\* What the limits rest on: the sets are finite, and as long as a fence may be
\* forgotten there is one that was touched before the others.
LimitsInv ==
    /\ IndInv
    /\ \A c \in Consumers : Counted(consumer[c])
    /\ OlderIsTotal
    /\ IsFiniteSet(attached) /\ Cardinality(attached) <= max_consumers
    /\ IsFiniteSet(fenced) /\ Cardinality(fenced) <= max_consumer_identities
=============================================================================
