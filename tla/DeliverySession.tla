-------------------------- MODULE DeliverySession --------------------------
(***************************************************************************)
(* Desktop delivery end to end, for one consumer: the session of the       *)
(* TypeScript server (its run loop, its gates and its timers), the Rust    *)
(* supervisor process behind it, and the renderer that applies and         *)
(* acknowledges batches and resubscribes when it is fenced or cut off.     *)
(*                                                                         *)
(* Each step runs from one await to the next.  A call to the supervisor    *)
(* takes effect when the process handles it and returns in a later step.   *)
(* acknowledgedSequence and deliverySequence are always assigned together  *)
(* and are one field, acked.  Lifecycle items, the shadow comparator and   *)
(* the memory of the last baseline (for a repeated baseline                *)
(* acknowledgement, which the renderer never sends) are left out.          *)
(***************************************************************************)
EXTENDS Integers, Sequences, SequencesExt, FiniteSets, FiniteSetsExt

CONSTANTS
    Mode,                \* configured route: "supervisor", "fallback-fenced" or "direct-unmanaged"
    MaxSequence,         \* bound: events committed
    Heavy,               \* events that leave no room for another one in a batch's payload
    INPUT_CAPACITY,
    BATCH_EVENT_CAPACITY,
    REPLAY_BUFFER_CAPACITY,
    RESTART_ATTEMPTS,
    MaxFaults,           \* bound: timeouts, crashes and dropped connections
    MaxGeneration,       \* bound: generations allocated
    MaxRecoveries        \* bound: projection baselines requested

ASSUME DeliveryAssumption ==
    /\ Mode \in {"supervisor", "fallback-fenced", "direct-unmanaged"}
    /\ Heavy \subseteq 1 .. MaxSequence
    /\ {MaxSequence, INPUT_CAPACITY, BATCH_EVENT_CAPACITY, REPLAY_BUFFER_CAPACITY,
        RESTART_ATTEMPTS, MaxGeneration, MaxRecoveries} \subseteq Nat \ {0}
    /\ MaxFaults \in Nat

VARIABLES
    head,        \* events committed to the store
    fed,         \* events the live capture has handed to the session
    s,           \* the session
    out,         \* its output channel
    call,        \* an acknowledgement that waits for the supervisor
    client,      \* the renderer
    generation,  \* generationCounter of the coordinator
    recoveries,  \* recovery ids drawn
    faults,      \* faults so far
    attached, consumer, fenced, fence, older    \* the supervisor process

supervisor == <<attached, consumer, fenced, fence, older>>
vars == <<head, fed, s, out, call, client, generation, recoveries, faults, supervisor>>

Renderer == "renderer"
Sup == INSTANCE DesktopSupervisor WITH
    Consumers <- {Renderer}, RecoveryIds <- 1 .. MaxRecoveries,
    max_consumers <- 1, max_consumer_identities <- 1,
    max_queue_events <- MaxSequence, max_in_flight_events <- BATCH_EVENT_CAPACITY,
    BASELINE_IDENTITY_HISTORY_LIMIT <- MaxRecoveries

Events == 1 .. MaxSequence
NoBatch == [gen |-> 0, first |-> 0, last |-> 0]
NoGate == [id |-> 0, target |-> 0]
NoCall == [kind |-> "none", ok |-> FALSE, stale |-> FALSE]

\* Where the run loop of the session is.
Places == {"recover", "attach", "attached", "replay", "baseline", "next", "take",
           "deliver", "gate", "ackwait", "failed", "closed"}

Routes == {"supervisor", "fallback-fenced", "direct-unmanaged"}
Batches == [gen : 0 .. MaxGeneration, first : 0 .. MaxSequence, last : 0 .. MaxSequence]
Gates == [id : 0 .. MaxRecoveries, target : 0 .. MaxSequence]
Items == [type : {"batch"}, batch : Batches] \cup
         [type : {"recovery"}, gen : 0 .. MaxGeneration, gate : Gates]

Sessions == [pc : Places, route : Routes, gen : 0 .. MaxGeneration,
             acked : 0 .. MaxSequence, hasAttached : BOOLEAN,
             failures : 0 .. RESTART_ATTEMPTS, attempt : 1 .. RESTART_ATTEMPTS,
             input : SUBSET Events, pending : SUBSET Events,
             batch : Batches, ackGate : Batches, history : SUBSET Batches,
             baselineGate : Gates]
Renderers == [pc : {"idle", "ack", "wait", "snapshot", "baseline", "installing", "lost"},
              applied : 0 .. MaxSequence, cursor : 0 .. MaxSequence,
              batch : Batches, gen : 0 .. MaxGeneration, gate : Gates]
PendingCalls == [kind : {"none", "ack", "baseline"}, ok : BOOLEAN, stale : BOOLEAN]

TypeOK ==
    /\ head \in 0 .. MaxSequence /\ fed \in 0 .. head
    /\ s \in Sessions
    /\ Cardinality(s.input) <= INPUT_CAPACITY + IF s.pc = "take" THEN 1 ELSE 0
    /\ out \in Seq(Items)
    /\ call \in PendingCalls
    /\ client \in Renderers /\ client.applied <= head
    /\ generation \in 0 .. MaxGeneration
    /\ recoveries \in 0 .. MaxRecoveries
    /\ faults \in 0 .. MaxFaults

NewSession(g, applied) ==
    [pc |-> IF Mode = "supervisor" THEN "recover" ELSE "replay",
     route |-> Mode, gen |-> g, acked |-> applied, hasAttached |-> FALSE,
     failures |-> 0, attempt |-> 1, input |-> {}, pending |-> {},
     batch |-> NoBatch, ackGate |-> NoBatch, history |-> {},
     baselineGate |-> NoGate]

Init ==
    /\ head = 0 /\ fed = 0
    /\ s = NewSession(1, 0)
    /\ out = << >>
    /\ call = NoCall
    /\ client = [pc |-> "idle", applied |-> 0, cursor |-> 0,
                 batch |-> NoBatch, gen |-> 0, gate |-> NoGate]
    /\ generation = 1 /\ recoveries = 0 /\ faults = 0
    /\ Sup!Init

Open == s.pc # "closed"

\* A timeout, a crash, a dropped connection.
Fault == faults < MaxFaults /\ faults' = faults + 1

-----------------------------------------------------------------------------
(***************************************************************************)
(* Helpers of the session.                                                 *)
(***************************************************************************)

\* failInFlight: the gate is rejected and the run loop sees its batch fail.
FailInFlight(x) ==
    IF x.ackGate = NoBatch THEN x ELSE [x EXCEPT !.ackGate = NoBatch, !.pc = "failed"]

\* An acknowledgement in progress holds a gate that is no longer the session's.
Outdated(k) == IF k.kind = "ack" /\ s.ackGate # NoBatch THEN [k EXCEPT !.stale = TRUE] ELSE k

\* The reply to a call in progress may be lost with the process.
Interrupted(k) == {k} \cup (IF k.kind = "none" THEN {} ELSE {[k EXCEPT !.ok = FALSE]})

\* The process is killed; the next call starts a new one, which knows nothing.
KillProcess == Sup!Restart

\* close: gates are rejected, channels closed, the attachment dropped.  The
\* reply of an attach that is still out makes the coordinator detach later,
\* in time or after the next attach.  A baseline that is being installed is
\* fenced with the process.
CloseSession(installing) ==
    /\ IF installing /\ s.route = "supervisor" THEN KillProcess
       ELSE \/ /\ s.hasAttached \/ s.pc = "attached"
               /\ Sup!Current(Renderer, s.gen)
               /\ Sup!detach(Renderer, s.gen)
            \/ /\ s.hasAttached => ~Sup!Current(Renderer, s.gen)
               /\ UNCHANGED supervisor
    /\ call' = NoCall
    /\ out' = << >>

Closed == [s EXCEPT !.pc = "closed", !.ackGate = NoBatch, !.baselineGate = NoGate,
                    !.hasAttached = FALSE, !.input = {}, !.pending = {},
                    !.batch = NoBatch, !.history = {}]

-----------------------------------------------------------------------------
(***************************************************************************)
(* The event store and the live hand-off.                                  *)
(***************************************************************************)

Commit ==
    /\ head < MaxSequence
    /\ head' = head + 1
    /\ UNCHANGED <<fed, s, out, call, client, generation, recoveries, faults, supervisor>>

\* tryOffer: a run loop that waits in take holds one more.
InputRoom == Cardinality(s.input) < INPUT_CAPACITY + IF s.pc = "take" THEN 1 ELSE 0

\* The stream of the subscription offers the next event; a full input channel
\* ends the subscription.
Offer ==
    /\ Open
    /\ fed < head
    /\ IF InputRoom
       THEN /\ s' = [s EXCEPT !.input = @ \cup {fed + 1}]
            /\ fed' = fed + 1
            /\ UNCHANGED <<out, call, supervisor>>
       ELSE /\ CloseSession(call.kind = "baseline")
            /\ s' = Closed
            /\ UNCHANGED fed
    /\ UNCHANGED <<head, client, generation, recoveries, faults>>

-----------------------------------------------------------------------------
(***************************************************************************)
(* The run loop: recovery of the supervisor and replay.                    *)
(***************************************************************************)

\* An attempt of coordinator.recover: a session that was attached fences its
\* generation by killing the shared process and takes a new one.
RecoverFence ==
    /\ s.pc = "recover"
    /\ IF s.hasAttached
       THEN /\ generation < MaxGeneration
            /\ generation' = generation + 1
            /\ s' = [s EXCEPT !.pc = "attach", !.hasAttached = FALSE, !.gen = generation + 1]
            /\ call' \in Interrupted(call)
            /\ KillProcess
       ELSE /\ s' = [s EXCEPT !.pc = "attach"]
            /\ UNCHANGED <<generation, call, supervisor>>
    /\ UNCHANGED <<head, fed, out, client, recoveries, faults>>

AttachRefused == ~Sup!AttachAllowed(Renderer, s.gen, s.acked)

Attach ==
    /\ s.pc = "attach"
    /\ Sup!attach(Renderer, s.gen, s.acked)
    /\ s' = [s EXCEPT !.pc = "attached"]
    /\ UNCHANGED <<head, fed, out, call, client, generation, recoveries, faults>>

AttachReply ==
    /\ s.pc = "attached"
    /\ Sup!Current(Renderer, s.gen)
    /\ s' = [s EXCEPT !.pc = "replay", !.hasAttached = TRUE]
    /\ UNCHANGED <<head, fed, out, call, client, generation, recoveries, faults, supervisor>>

\* A refused, failed or timed-out attach invalidates the client; the budget of
\* attempts, or of time, ends in the fenced fallback.
AttachFails ==
    /\ \/ s.pc = "attach" /\ AttachRefused /\ UNCHANGED faults
       \/ s.pc = "attached" /\ ~Sup!Current(Renderer, s.gen) /\ UNCHANGED faults
       \/ s.pc \in {"attach", "attached"} /\ Fault
    /\ KillProcess
    /\ \/ /\ s.attempt < RESTART_ATTEMPTS
          /\ s' = [s EXCEPT !.pc = "recover", !.attempt = @ + 1]
       \/ s' = [s EXCEPT !.pc = "replay", !.route = "fallback-fenced"]
    /\ call' \in Interrupted(call)
    /\ UNCHANGED <<head, fed, out, client, generation, recoveries>>

\* loadReplay: everything after the cursor, or a projection baseline when that
\* is more than the replay buffer holds.
LoadReplay ==
    /\ s.pc = "replay"
    /\ IF head - s.acked <= REPLAY_BUFFER_CAPACITY
       THEN /\ s' = [s EXCEPT !.pc = "next", !.pending = @ \cup (s.acked + 1) .. head]
            /\ UNCHANGED <<out, recoveries>>
       ELSE LET gate == [id |-> recoveries + 1, target |-> head] IN
            /\ recoveries < MaxRecoveries
            /\ recoveries' = recoveries + 1
            /\ s' = [s EXCEPT !.pc = "baseline", !.baselineGate = gate]
            /\ out' = Append(out, [type |-> "recovery", gen |-> s.gen, gate |-> gate])
    /\ UNCHANGED <<head, fed, call, client, generation, faults, supervisor>>

-----------------------------------------------------------------------------
(***************************************************************************)
(* The run loop: batches.                                                  *)
(***************************************************************************)

\* Whether event e fits the payload of a batch that holds first..e-1.
Fits(first, e) == e \notin Heavy /\ \A i \in first .. e - 1 : i \notin Heavy

\* collectDeliveryBatch: the batch that starts with event e grows with the event expected
\* next, from the pending map or else from the channel, which is polled until that event
\* comes.  What else is polled is kept as pending when it is after the cursor, also an event
\* that the batch already has from the map, and so is an event that does not fit.
Collected(e, pending, input) ==
    LET last == Max({l \in e .. e + BATCH_EVENT_CAPACITY - 1 :
                        \A n \in e + 1 .. l : n \in pending \cup input /\ Fits(e, n)})
        wanted == (e + 1 .. last) \ pending
        polled == IF last = e + BATCH_EVENT_CAPACITY - 1 \/ last + 1 \in pending
                  THEN {n \in input : \E w \in wanted : n <= w}
                  ELSE {n \in input : last + 1 \in input => n <= last + 1}
    IN  [last |-> last, input |-> input \ polled,
         pending |-> (pending \ (e + 1 .. last)) \cup {n \in polled \ wanted : n > s.acked}]

\* The session goes on to deliver the batch that starts with event e.
StartBatch(e, pending, input) ==
    LET b == Collected(e, pending, input) IN
    s' = [s EXCEPT !.pc = "deliver", !.pending = b.pending, !.input = b.input,
                   !.batch = [gen |-> s.gen, first |-> e, last |-> b.last]]

\* nextEvent looks at the smallest pending event, once.
NextEvent ==
    /\ s.pc = "next"
    /\ IF s.pending # {} /\ Min(s.pending) > s.acked
       THEN StartBatch(Min(s.pending), s.pending \ {Min(s.pending)}, s.input)
       ELSE s' = [s EXCEPT !.pc = "take",
                           !.pending = IF @ = {} THEN {} ELSE @ \ {Min(@)}]
    /\ UNCHANGED <<head, fed, out, call, client, generation, recoveries, faults, supervisor>>

\* It then waits for the input channel.
TakeInput ==
    /\ s.pc = "take"
    /\ s.input # {}
    /\ IF Min(s.input) > s.acked
       THEN StartBatch(Min(s.input), s.pending, s.input \ {Min(s.input)})
       ELSE s' = [s EXCEPT !.pc = "next", !.input = @ \ {Min(@)}]
    /\ UNCHANGED <<head, fed, out, call, client, generation, recoveries, faults, supervisor>>

\* Mutant: the first event of the batch is not compared with the cursor.
DeliverUnchecked ==
    /\ s.pc = "deliver"
    /\ \/ /\ s.route # "supervisor"
          /\ s' = [s EXCEPT !.pc = "gate"]
          /\ UNCHANGED supervisor
       \/ /\ s.route = "supervisor"
          /\ Sup!EventBatch(Renderer, s.gen, [first |-> s.batch.first, last |-> s.batch.last])
          /\ s' = [s EXCEPT !.pc = "gate"]
       \/ /\ s.route = "supervisor"
          /\ ~Sup!Current(Renderer, s.gen) \/ s.batch.first # s.acked + 1
          /\ s' = [s EXCEPT !.pc = "failed"]
          /\ UNCHANGED supervisor
    /\ UNCHANGED <<head, fed, out, call, client, generation, recoveries, faults>>

\* deliverBatch up to the reply of the supervisor.
Deliver ==
    LET b == s.batch
        rust == [first |-> b.first, last |-> b.last]
    IN
    /\ s.pc = "deliver"
    /\ \/ /\ b.first # s.acked + 1
          /\ s' = [s EXCEPT !.pc = "failed"]
          /\ UNCHANGED supervisor
       \/ /\ b.first = s.acked + 1
          /\ s.route # "supervisor"
          /\ s' = [s EXCEPT !.pc = "gate"]
          /\ UNCHANGED supervisor
       \/ /\ b.first = s.acked + 1
          /\ s.route = "supervisor"
          /\ Sup!EventBatch(Renderer, s.gen, rust)
          /\ s' = [s EXCEPT !.pc = IF consumer'[Renderer].in_flight = rust
                                   THEN "gate" ELSE "failed"]
       \/ /\ b.first = s.acked + 1
          /\ s.route = "supervisor"
          /\ ~(Sup!Current(Renderer, s.gen) /\ b.first = Sup!NextExpected(consumer[Renderer]))
          /\ s' = [s EXCEPT !.pc = "failed"]
          /\ UNCHANGED supervisor
    /\ UNCHANGED <<head, fed, out, call, client, generation, recoveries, faults>>

\* Mutant: a batch counts as acknowledged when it is sent.
OpenGateAcked ==
    /\ s.pc = "gate"
    /\ s' = [s EXCEPT !.pc = "ackwait", !.ackGate = s.batch, !.acked = s.batch.last]
    /\ out' = Append(out, [type |-> "batch", batch |-> s.batch])
    /\ UNCHANGED <<head, fed, call, client, generation, recoveries, faults, supervisor>>

\* deliverBatch after it: the gate opens and the batch is sent.
OpenGate ==
    /\ s.pc = "gate"
    /\ s' = [s EXCEPT !.pc = "ackwait", !.ackGate = s.batch]
    /\ out' = Append(out, [type |-> "batch", batch |-> s.batch])
    /\ UNCHANGED <<head, fed, call, client, generation, recoveries, faults, supervisor>>

\* The catch of the run loop.
DeliveryFailed ==
    /\ s.pc = "failed"
    /\ IF s.route # "supervisor"
       THEN CloseSession(call.kind = "baseline") /\ s' = Closed
       ELSE LET n == s.failures + 1
                kept == [s EXCEPT !.pending = @ \cup s.batch.first .. s.batch.last,
                                  !.failures = n, !.attempt = 1]
            IN
            /\ IF n >= RESTART_ATTEMPTS
               THEN /\ KillProcess
                    /\ call' \in Interrupted(call)
                    /\ s' = [kept EXCEPT !.pc = "replay", !.route = "fallback-fenced",
                                         !.hasAttached = FALSE]
               ELSE /\ s' = [kept EXCEPT !.pc = "recover"]
                    /\ UNCHANGED <<call, supervisor>>
            /\ UNCHANGED out
    /\ UNCHANGED <<head, fed, client, generation, recoveries, faults>>

-----------------------------------------------------------------------------
(***************************************************************************)
(* Timers and crashes.                                                     *)
(***************************************************************************)

\* The 15 s timer of the gate, or the watchdog of the supervisor.
AckTimeout ==
    /\ s.ackGate # NoBatch
    /\ Fault
    /\ s' = FailInFlight(s)
    /\ call' = Outdated(call)
    /\ UNCHANGED <<head, fed, out, client, generation, recoveries, supervisor>>

\* The 65 s timer of the baseline gate ends the session.
BaselineTimeout ==
    /\ s.baselineGate # NoGate
    /\ Fault
    /\ CloseSession(call.kind = "baseline")
    /\ s' = Closed
    /\ UNCHANGED <<head, fed, client, generation, recoveries>>

\* The process exits, misses a heartbeat, or is fenced by another session:
\* invalidateClient.
ProcessFails ==
    /\ Open
    /\ Mode = "supervisor"
    /\ Fault
    /\ KillProcess
    /\ s' = [FailInFlight(s) EXCEPT !.hasAttached = FALSE]
    /\ call' \in Interrupted(Outdated(call))
    /\ UNCHANGED <<head, fed, out, client, generation, recoveries>>

-----------------------------------------------------------------------------
(***************************************************************************)
(* The renderer, and the acknowledgements it sends.                        *)
(***************************************************************************)

\* A batch is applied, after a bounded recovery if it does not continue what
\* was applied; a recovery item starts a projection baseline.
Receive ==
    /\ client.pc = "idle"
    /\ out # << >>
    /\ LET item == Head(out) IN
       client' = IF item.type = "batch"
                 THEN [client EXCEPT !.pc = "ack", !.batch = item.batch,
                        !.applied = IF item.batch.first > @ + 1 THEN head
                                    ELSE Max({@, item.batch.last})]
                 ELSE [client EXCEPT !.pc = "snapshot", !.gate = item.gate, !.gen = item.gen]
    /\ out' = Tail(out)
    /\ UNCHANGED <<head, fed, s, call, generation, recoveries, faults, supervisor>>

\* Mutant: the renderer goes on after a refused acknowledgement.
FencedIgnored == client' = IF client.pc = "lost" THEN client ELSE [client EXCEPT !.pc = "idle"]

\* A fenced or failed acknowledgement: bounded recovery, then resubscription.
Fenced ==
    client' \in IF client.pc = "lost" THEN {client}
                ELSE {[client EXCEPT !.pc = "lost"],
                      [client EXCEPT !.pc = "lost", !.applied = head]}

\* The reply moves the cursor the renderer persists, or is lost on its way.
Accepted(sequence) ==
    IF client.pc = "lost" THEN UNCHANGED <<client, faults>>
    ELSE \/ /\ client' = [client EXCEPT !.pc = "idle", !.cursor = Max({@, sequence})]
            /\ UNCHANGED faults
         \/ /\ client' = [client EXCEPT !.pc = "lost"]
            /\ Fault

\* The state after the gate's batch has been acknowledged.
AckedBatch(b) ==
    [s EXCEPT !.acked = b.last, !.history = @ \cup {b}, !.ackGate = NoBatch, !.batch = NoBatch,
              !.pc = "next", !.failures = IF s.route = "supervisor" THEN 0 ELSE @]

\* acknowledge, until the reply or the call of the supervisor.
Acknowledge ==
    LET b == client.batch
        rust == [first |-> b.first, last |-> b.last]
    IN
    /\ client.pc = "ack"
    /\ CASE ~Open \/ b.gen # s.gen \/ b.last < s.acked ->
                Fenced /\ UNCHANGED <<s, call, faults, supervisor>>
         [] Open /\ b.gen = s.gen /\ b.last >= s.acked /\ s.ackGate # b ->
                /\ IF b \in s.history THEN Accepted(s.acked) ELSE Fenced /\ UNCHANGED faults
                /\ UNCHANGED <<s, call, supervisor>>
         [] OTHER ->
                IF s.route # "supervisor"
                THEN /\ s' = AckedBatch(b)
                     /\ Accepted(b.last)
                     /\ UNCHANGED <<call, supervisor>>
                ELSE /\ client' = [client EXCEPT !.pc = "wait"]
                     /\ \/ /\ Sup!ApplicationAck(Renderer, s.gen, rust, b.last, b.last)
                           /\ call' = [kind |-> "ack", ok |-> TRUE, stale |-> FALSE]
                        \/ /\ ~(Sup!Current(Renderer, s.gen) /\ consumer[Renderer].in_flight = rust)
                           /\ call' = [kind |-> "ack", ok |-> FALSE, stale |-> FALSE]
                           /\ UNCHANGED supervisor
                     /\ UNCHANGED <<s, faults>>
    /\ UNCHANGED <<head, fed, out, generation, recoveries>>

\* Mutant: the gate is not compared after the call.
AcknowledgeReplyUnchecked ==
    /\ call.kind = "ack"
    /\ IF call.ok
       THEN s' = AckedBatch(s.ackGate) /\ Accepted(s.ackGate.last)
       ELSE s' = FailInFlight(s) /\ Fenced /\ UNCHANGED faults
    /\ call' = NoCall
    /\ UNCHANGED <<head, fed, out, generation, recoveries, supervisor>>

\* acknowledge after the supervisor's reply.  The catch clears whatever gate
\* the session has by then and rejects only the one it started with.
AcknowledgeReply ==
    /\ call.kind = "ack"
    /\ IF call.ok
       THEN IF call.stale
            THEN Fenced /\ UNCHANGED <<s, faults>>
            ELSE s' = AckedBatch(s.ackGate) /\ Accepted(s.ackGate.last)
       ELSE /\ s' = IF call.stale THEN [s EXCEPT !.ackGate = NoBatch] ELSE FailInFlight(s)
            /\ Fenced
            /\ UNCHANGED faults
    /\ call' = NoCall
    /\ UNCHANGED <<head, fed, out, generation, recoveries, supervisor>>

\* The renderer loads a snapshot of the projections.
Snapshot ==
    /\ client.pc = "snapshot"
    /\ client' = [client EXCEPT !.pc = "baseline", !.applied = head]
    /\ UNCHANGED <<head, fed, s, out, call, generation, recoveries, faults, supervisor>>

BaselineFenced ==
    LET p == client.applied IN
    \/ ~Open \/ client.gen # s.gen \/ s.ackGate # NoBatch
    \/ s.baselineGate # client.gate
    \/ p < s.acked \/ (p = s.acked /\ p # client.gate.target)

\* The state after projection baseline p has been installed.
AckedBaseline(p) ==
    [s EXCEPT !.acked = p, !.pending = {n \in @ : n > p},
              !.baselineGate = NoGate, !.pc = "replay"]

\* acknowledgeProjectionBaseline, until the reply or the call of the supervisor.
AcknowledgeBaseline ==
    LET p == client.applied IN
    /\ client.pc = "baseline"
    /\ CASE BaselineFenced -> Fenced /\ UNCHANGED <<s, call, faults, supervisor>>
         [] ~BaselineFenced /\ head - p > REPLAY_BUFFER_CAPACITY ->
                /\ client' = [client EXCEPT !.pc = "snapshot"]
                /\ UNCHANGED <<s, call, faults, supervisor>>
         [] OTHER ->
                IF s.route # "supervisor"
                THEN /\ s' = AckedBaseline(p)
                     /\ Accepted(p)
                     /\ UNCHANGED <<call, supervisor>>
                ELSE /\ client' = [client EXCEPT !.pc = "installing"]
                     /\ call' = [kind |-> "baseline", ok |-> FALSE, stale |-> FALSE]
                     /\ UNCHANGED <<s, faults, supervisor>>
    /\ UNCHANGED <<head, fed, out, generation, recoveries>>

\* installSessionSupervisorBaseline: reattach first when the process is another.
BaselineReattach ==
    /\ call.kind = "baseline"
    /\ ~s.hasAttached /\ ~call.ok
    /\ Sup!attach(Renderer, s.gen, s.acked)
    /\ s' = [s EXCEPT !.hasAttached = TRUE]
    /\ UNCHANGED <<head, fed, out, call, client, generation, recoveries, faults>>

BaselineInstall ==
    /\ call.kind = "baseline"
    /\ s.hasAttached /\ ~call.ok
    /\ Sup!install_baseline(Renderer, s.gen, client.gate.id, client.applied)
    /\ call' = [call EXCEPT !.ok = TRUE]
    /\ UNCHANGED <<head, fed, s, out, client, generation, recoveries, faults>>

BaselineReply ==
    /\ call.kind = "baseline"
    /\ call.ok
    /\ s' = AckedBaseline(client.applied)
    /\ Accepted(client.applied)
    /\ call' = NoCall
    /\ UNCHANGED <<head, fed, out, generation, recoveries, supervisor>>

\* The installation fails, which rejects the gate and ends the session, or
\* times out, which leaves the gate to the renderer's next attempt.
BaselineFails ==
    /\ call.kind = "baseline"
    /\ Fault \/ (~s.hasAttached /\ UNCHANGED faults)
    /\ Fenced
    /\ \/ /\ call' = NoCall
          /\ UNCHANGED <<s, out, supervisor>>
       \/ /\ s' = Closed
          /\ CloseSession(FALSE)
    /\ UNCHANGED <<head, fed, generation, recoveries>>

\* The connection drops: what the renderer was doing is abandoned.
Drop ==
    /\ client.pc # "lost"
    /\ Fault
    /\ client' = [client EXCEPT !.pc = "lost"]
    /\ UNCHANGED <<head, fed, s, out, call, generation, recoveries, supervisor>>

\* The server releases the stream of a renderer that is gone.
StreamReleased ==
    /\ client.pc = "lost"
    /\ Open
    /\ CloseSession(call.kind = "baseline")
    /\ s' = Closed
    /\ UNCHANGED <<head, fed, client, generation, recoveries, faults>>

\* open: a session that is still there is superseded.  The live capture
\* starts at the newest event, the session at the renderer's cursor.
Resubscribe ==
    /\ client.pc = "lost" \/ ~Open
    /\ generation < MaxGeneration
    /\ generation' = generation + 1
    /\ IF Open THEN CloseSession(call.kind = "baseline") ELSE out' = << >> /\ call' = NoCall /\ UNCHANGED supervisor
    /\ s' = NewSession(generation + 1, client.cursor)
    /\ fed' = head
    /\ client' = [client EXCEPT !.pc = "idle"]
    /\ UNCHANGED <<head, recoveries, faults>>

RunLoop ==
    \/ RecoverFence \/ Attach \/ AttachReply \/ AttachFails \/ LoadReplay
    \/ NextEvent \/ TakeInput \/ Deliver \/ OpenGate \/ DeliveryFailed

RendererSteps ==
    \/ Receive \/ Acknowledge \/ AcknowledgeReply
    \/ Snapshot \/ AcknowledgeBaseline \/ BaselineReattach \/ BaselineInstall \/ BaselineReply
    \/ StreamReleased \/ Resubscribe

Faults == AckTimeout \/ BaselineTimeout \/ ProcessFails \/ BaselineFails \/ Drop

Next == Commit \/ Offer \/ RunLoop \/ RendererSteps \/ Faults

Spec == Init /\ [][Next]_vars

(***************************************************************************)
(* Fairness: the run loop, the hand-off and the renderer are event-loop    *)
(* code that runs when its awaited promise settles.  Timers and crashes    *)
(* are not fair, and their number is bounded.                              *)
(***************************************************************************)
Fairness ==
    /\ WF_vars(Commit)
    /\ WF_vars(Offer)
    /\ WF_vars(RunLoop)
    /\ WF_vars(RendererSteps)

FairSpec == Spec /\ Fairness

-----------------------------------------------------------------------------
(***************************************************************************)
(* Properties.                                                             *)
(***************************************************************************)

\* Nothing is acknowledged before the renderer has applied it: neither the
\* session's cursor, nor the supervisor's, nor the cursor the renderer would
\* resubscribe from is ahead of the application (acknowledge and recover in
\* the face of lost replies, timeouts and superseded generations).
AckedIsApplied ==
    /\ client.cursor <= client.applied
    /\ Open => s.acked <= client.applied
    /\ attached # {} => consumer[Renderer].acknowledged_sequence <= client.applied

\* Whatever was redelivered, replayed or fenced, the next batch in the output
\* channel continues what the renderer has applied: delivery never bridges a
\* gap and the renderer never has to recover from one.
NoGapDelivered ==
    \A i \in DOMAIN out : out[i].type = "batch" => out[i].batch.first <= client.applied + 1

\* Both, as one invariant of the run: every value is of its kind (the input
\* channel within its capacity) and nothing delivered lies past a gap.
SessionInv == TypeOK /\ NoGapDelivered

\* A session that delivers through the supervisor and the supervisor agree on
\* generation and cursor, however many attaches, acknowledgements and crashes
\* it took: recover never leaves a late acknowledgement in the process it
\* goes on with.
CursorsAgree ==
    s.hasAttached /\ s.route = "supervisor" /\ call.kind = "none"
        /\ s.pc \in {"next", "take", "deliver", "gate", "ackwait"}
    => /\ Sup!Current(Renderer, s.gen)
       /\ consumer[Renderer].acknowledged_sequence = s.acked

\* "A caught-up consumer still receives a single event immediately" (the
\* configuration's comment on batches): a session that waits for its input
\* channel has nothing it could deliver.
IdleMeansDelivered ==
    s.pc = "take" /\ s.input = {} => \A e \in s.pending : e <= s.acked

\* Every committed event is applied in the end: no timeout, crash, fence or
\* overflow leaves the session waiting for an acknowledgement, a baseline or
\* an event that never comes.  Only a session that waits for input although it
\* has something to deliver may be left behind, and it takes a batch cut by
\* the payload limit to get there.
EverythingApplied ==
    <>[](\/ client.applied = MaxSequence /\ client.cursor = MaxSequence
         \/ Heavy # {} /\ ~IdleMeansDelivered)

-----------------------------------------------------------------------------
(***************************************************************************)
(* The inductive invariant behind SessionInv, AckedIsApplied and           *)
(* CursorsAgree.                                                           *)
(***************************************************************************)

\* Whatever is on its way to the renderer has been committed.
OnlyCommitted ==
    /\ s.input \subseteq 1 .. fed /\ s.pending \subseteq 1 .. head
    /\ s.pc \in {"deliver", "gate", "failed"} \/ s.ackGate # NoBatch =>
          s.batch.first >= 1 /\ s.batch.first <= s.batch.last
    /\ s.batch.last <= head /\ s.ackGate.last <= head
    /\ \A i \in DOMAIN out : out[i].type = "batch" => out[i].batch.last <= head

\* A gate is open only while the run loop waits at it, and for the batch it delivered; a
\* session that still delivers through the supervisor has failures to spare.
GatesFollow ==
    /\ s.ackGate # NoBatch => s.pc = "ackwait" /\ s.ackGate = s.batch
    /\ s.pc = "gate" => s.batch.first = s.acked + 1
    /\ s.baselineGate # NoGate => s.pc = "baseline"
    /\ s.gen >= 1
    /\ s.route = "supervisor" => s.failures < RESTART_ATTEMPTS
    /\ s.pc \in {"attach", "attached"} => ~s.hasAttached

\* A request for a baseline names one.
BaselinesAreNamed ==
    /\ \A i \in DOMAIN out : out[i].type = "recovery" => out[i].gate.id >= 1
    /\ client.pc \in {"snapshot", "baseline", "installing"} \/ call.kind = "baseline"
          => client.gate.id >= 1

\* An acknowledgement that waits for the supervisor belongs to a renderer that waits or is
\* gone, and its gate is the one for the renderer's batch until it is outdated.
CallFollows ==
    /\ call.kind # "none" => Open
    /\ call.kind = "ack" => /\ client.pc \in {"wait", "lost"}
                            /\ ~call.stale => s.ackGate # NoBatch /\ s.ackGate = client.batch
    /\ call.kind = "baseline" => /\ client.pc \in {"installing", "lost"}
                                 /\ s.pc = "baseline"

\* The renderer acknowledges only what it has applied.
BatchApplied == client.batch.last <= client.applied

\* What the supervisor knows of a session that is attached: its cursor, or already the one
\* that a call in progress will bring.
AttachedAgrees ==
    LET r == consumer[Renderer] IN
    /\ s.pc = "attached" /\ Sup!Current(Renderer, s.gen) => r.acknowledged_sequence = s.acked
    /\ s.hasAttached /\ s.route = "supervisor"
          /\ s.pc \in {"replay", "next", "take", "deliver", "gate", "ackwait"} =>
          /\ Sup!Current(Renderer, s.gen)
          /\ r.acknowledged_sequence = IF call.kind = "ack" /\ call.ok /\ ~call.stale
                                       THEN s.ackGate.last ELSE s.acked
    /\ s.hasAttached /\ call.kind = "baseline" /\ call.ok =>
          Sup!Current(Renderer, s.gen) /\ r.acknowledged_sequence = client.applied

ProcessTyped ==
    attached \subseteq {Renderer} /\ consumer \in [{Renderer} -> Sup!Consumer]

DeliveryInv ==
    /\ TypeOK /\ ProcessTyped /\ OnlyCommitted /\ GatesFollow /\ BaselinesAreNamed /\ CallFollows
    /\ AckedIsApplied /\ BatchApplied /\ NoGapDelivered /\ AttachedAgrees
=============================================================================
