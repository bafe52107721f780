------------------------ MODULE CommandEngineProofs ------------------------
(***************************************************************************)
(* Theorems about CommandEngine for every set of calls, IDs and payloads   *)
(* and every capacity.                                                     *)
(***************************************************************************)
EXTENDS CommandEngine, SequenceTheorems, TLAPS

-----------------------------------------------------------------------------
(* The sequences the engine builds                                         *)

\* What readFromSequence returns is a sequence of event numbers, whatever its bounds.
LEMMA EventsAfterType ==
    ASSUME NEW a \in Nat, NEW b \in Nat
    PROVE  EventsAfter(a, b) \in Seq(Nat)
<1>1. CASE a <= b
  <2>1. b - a \in Nat
    BY <1>1
  <2> QED
    BY <2>1 DEF EventsAfter
<1>2. CASE b < a
  <2>1. 1..(b - a) = 1..0
    BY <1>2
  <2>2. EventsAfter(a, b) = [k \in 1..0 |-> a + k]
    BY <2>1 DEF EventsAfter
  <2> QED
    BY <2>2
<1> QED
  BY <1>1, <1>2

\* The batch of a command is a sequence of its events.
LEMMA BatchType ==
    ASSUME NEW e \in Envelope, NEW n \in Nat
    PROVE  /\ Batch(e, n) \in Seq(Event)
           /\ Len(Batch(e, n)) = n
           /\ \A k \in 1..n : Batch(e, n)[k] = [id |-> e.id, digest |-> e.digest, n |-> k]
  BY DEF Batch, Envelope, Event

\* The read model's sequence number is a natural number.
LEMMA SnapshotType ==
    ASSUME readModel \in Seq(Nat)
    PROVE  SnapshotSequence \in Nat
<1>1. CASE readModel = << >>
  BY <1>1 DEF SnapshotSequence
<1>2. CASE readModel # << >>
  <2>1. Len(readModel) \in 1..Len(readModel)
    BY <1>2
  <2> QED
    BY <1>2, <2>1 DEF SnapshotSequence
<1> QED
  BY <1>1, <1>2

\* Settling an envelope changes at most the caller's own reply.
LEMMA SettledType ==
    ASSUME reply \in [Calls -> Reply], NEW e \in Envelope, NEW r \in Reply
    PROVE  Settled(e, r) \in [Calls -> Reply]
  BY DEF Settled

LEMMA ToldType ==
    ASSUME NEW st \in ReplyStatus, NEW s \in Nat
    PROVE  Told(st, s) \in Reply
  BY DEF Told, Reply

LEMMA UpsertType ==
    ASSUME receipts \in [Ids -> Receipt], NEW i \in Ids, NEW row \in Receipt
    PROVE  Upsert(i, row) \in [Ids -> Receipt]
  BY DEF Upsert

LEMMA FlushEnvelopeType ==
    /\ SomeFlush \in FlushIds
    /\ \A i \in FlushIds : FlushEnvelope(i) \in Envelope
    /\ NoRequest \in Request
  BY FlushAssumption, PayloadAssumption
     DEF SomeFlush, FlushEnvelope, Envelope, Ids, NoRequest, Request

-----------------------------------------------------------------------------
(* Type correctness                                                        *)

LEMMA TypeInit == Init => TypeOK
<1> SUFFICES ASSUME Init PROVE TypeOK
  OBVIOUS
<1>1. receipts \in [Ids -> Receipt]
  BY DEF Init, LegacyReceipts, NoReceipt, Receipt
<1>2. reply \in [Calls -> Reply]
  BY DEF Init, NoReply, Reply, ReplyStatus
<1>3. env \in Envelope /\ req \in [Calls -> Request]
  BY FlushEnvelopeType DEF Init
<1> QED
  BY <1>1, <1>2, <1>3 DEF Init, TypeOK, Pcs

LEMMA TypeStep == TypeOK /\ [Next]_vars => TypeOK'
<1> SUFFICES ASSUME TypeOK, [Next]_vars PROVE TypeOK'
  OBVIOUS
<1> USE DEF TypeOK, durable, worker, callers, Pcs
<1>a. ClearLocals => /\ env' \in Envelope /\ start' \in Nat /\ result' \in Nat
                     /\ err' \in {"none", "invariant", "conflict", "operational"}
                     /\ unpublished' \in Seq(Nat)
  BY FlushEnvelopeType DEF ClearLocals
<1>b. \A st \in ReplyStatus, s \in Nat : Settled(env, Told(st, s)) \in [Calls -> Reply]
  BY SettledType, ToldType
<1>c. SnapshotSequence \in Nat
  BY SnapshotType
<1>d. env.id \in Ids /\ env.digest \in Payloads
  BY DEF Envelope
<1>1. ASSUME NEW c \in Calls, NEW i \in ClientIds, NEW d \in Payloads, Dispatch(c, i, d)
      PROVE  TypeOK'
  <2>1. [kind |-> "dispatch", id |-> i, digest |-> d] \in Request
    BY DEF Request, Ids
  <2>2. [id |-> i, digest |-> d, call |-> c] \in Envelope
    BY DEF Envelope, Ids
  <2>3. Told("overloaded", 0) \in Reply /\ Told("pending", 0) \in Reply
    BY ToldType DEF ReplyStatus
  <2>4. reply' \in [Calls -> Reply] /\ req' \in [Calls -> Request]
    BY <1>1, <2>1, <2>3 DEF Dispatch, Overloaded
  <2>5. queue' = queue \/ queue' = Append(queue, [id |-> i, digest |-> d, call |-> c])
    BY <1>1 DEF Dispatch, Overloaded
  <2>6. \A e \in Envelope : Append(queue, e) \in Seq(Envelope)
    OBVIOUS
  <2>7. queue' \in Seq(Envelope)
    BY <2>2, <2>5, <2>6, Zenon
  <2> QED
    BY <1>1, <2>4, <2>7 DEF Dispatch, Overloaded
<1>2. ASSUME NEW c \in Calls, DeadlineExceeded(c) PROVE TypeOK'
  <2>1. Told("deadline", 0) \in Reply
    BY ToldType DEF ReplyStatus
  <2> QED
    BY <1>2, <2>1 DEF DeadlineExceeded
<1>3. ASSUME NEW c \in Calls, NEW i \in ClientIds, GetCommandOutcome(c, i) PROVE TypeOK'
  <2>1. [kind |-> "outcome", id |-> i, digest |-> FlushPayload] \in Request
    BY PayloadAssumption DEF Request, Ids
  <2>2. receipts[i] \in Receipt
    BY DEF Ids
  <2>3. \A st \in ReplyStatus, s, r \in Nat : [status |-> st, seq |-> s, revision |-> r] \in Reply
    BY DEF Reply
  <2>4. receipts[i].seq \in Nat /\ receipts[i].status \in {"none", "accepted", "rejected"}
    BY <2>2 DEF Receipt
  <2>5. PICK st \in ReplyStatus, s \in Nat, r \in Nat :
           reply' = [reply EXCEPT ![c] = [status |-> st, seq |-> s, revision |-> r]]
    BY <1>3, <1>c, <2>4 DEF GetCommandOutcome, ReplyStatus
  <2>6. reply' \in [Calls -> Reply]
    BY <2>3, <2>5
  <2> QED
    BY <1>3, <2>1, <2>6 DEF GetCommandOutcome
<1>4. CASE Crash
  <2>1. Told("lost", 0) \in Reply
    BY ToldType DEF ReplyStatus
  <2>2. reply' \in [Calls -> Reply]
    BY <1>4, <2>1 DEF Crash
  <2> QED
    BY <1>4, <1>a, <2>2 DEF Crash
<1>5. CASE Start
  <2>1. readModel' \in Seq(Nat)
    BY <1>5, EventsAfterType DEF Start
  <2> QED
    BY <1>5, <2>1, RecoveryAssumption DEF Start
<1>6. ASSUME NEW i \in FlushIds, OfferRecovery(i) PROVE TypeOK'
  BY <1>6, FlushEnvelopeType DEF OfferRecovery
<1>7. CASE ForkWorker
  BY <1>7 DEF ForkWorker
<1>8. CASE Take
  BY <1>8 DEF Take
<1>9. CASE PreflightOperationalFailure
  BY <1>9, <1>a, <1>b DEF PreflightOperationalFailure, Rest, ReplyStatus
<1>10. CASE PreflightRefused
  BY <1>10 DEF PreflightRefused
<1>11. CASE PreflightPassed
  BY <1>11, <1>c DEF PreflightPassed
<1>12. CASE ClaimOrInspect
  <2>1. ClaimOf(env) \in Payloads \cup {NoPayload}
    BY <1>d DEF ClaimOf
  <2>2. receipts[env.id].seq \in Nat
    BY <1>d DEF Receipt
  <2>3. claims' \in [Ids -> Payloads \cup {NoPayload}]
    BY <1>12, <2>1 DEF ClaimOrInspect
  <2>4. reply' \in [Calls -> Reply] /\ result' \in Nat /\ pc' \in Pcs
    BY <1>12, <1>b, <1>a, <2>2 DEF ClaimOrInspect, Rest, ReplyStatus
  <2>5. /\ env' \in Envelope /\ start' \in Nat /\ unpublished' \in Seq(Nat)
        /\ err' \in {"none", "invariant", "conflict", "operational"}
    BY <1>12, <1>a DEF ClaimOrInspect, Rest
  <2> QED
    BY <1>12, <2>3, <2>4, <2>5 DEF ClaimOrInspect
<1>13. CASE StorageFailure
  BY <1>13 DEF StorageFailure
<1>14. CASE DecideRefused
  BY <1>14 DEF DecideRefused
<1>15. ASSUME NEW n \in 0..MaxEvents, Commit(n) PROVE TypeOK'
  <2> DEFINE last == IF n = 0 THEN SnapshotSequence ELSE Len(log) + n
  <2>1. n \in Nat /\ last \in Nat /\ Len(log) \in Nat
    BY BoundAssumption, <1>c
  <2>2. [status |-> "accepted", digest |-> env.digest, seq |-> last] \in Receipt
    BY <2>1, <1>d DEF Receipt
  <2>3. receipts' \in [Ids -> Receipt]
    BY <1>15, <2>2, <1>d, UpsertType DEF Commit
  <2>4. log' \in Seq(Event)
    BY <1>15, <2>1, BatchType DEF Commit
  <2>5. unpublished' \in Seq(Nat)
    BY <1>15, <2>1, EventsAfterType DEF Commit
  <2> QED
    BY <1>15, <2>1, <2>3, <2>4, <2>5 DEF Commit
<1>16. CASE InstallReadModel
  BY <1>16 DEF InstallReadModel
<1>17. CASE PublishNext
  BY <1>17 DEF PublishNext
<1>18. CASE PublishDone
  BY <1>18 DEF PublishDone
<1>19. CASE SettleAccepted
  BY <1>19, <1>b DEF SettleAccepted, ReplyStatus
<1>20. CASE NoFlush
  BY <1>20, <1>a DEF NoFlush, Rest
<1>21. ASSUME NEW i \in FlushIds, OfferFlush(i) PROVE TypeOK'
  BY <1>21, <1>a, FlushEnvelopeType DEF OfferFlush, Rest
<1>22. CASE ReconcileFailure
  <2>1. EventsAfter(start, Len(log)) \in Seq(Nat)
    BY EventsAfterType
  <2>2. readModel' \in Seq(Nat) /\ published' \in Seq(Nat)
    <3>1. CASE Reconciled(EventsAfter(start, Len(log)))
      BY <3>1, <2>1 DEF Reconciled
    <3>2. CASE Reconciled(<< >>)
      BY <3>2 DEF Reconciled
    <3> QED
      BY <1>22, <3>1, <3>2 DEF ReconcileFailure
  <2>3. /\ pc' \in Pcs /\ env' \in Envelope /\ start' \in Nat /\ unpublished' \in Seq(Nat)
        /\ err' \in {"none", "invariant", "conflict", "operational"} /\ result' \in Nat
    BY <1>22, <1>a DEF ReconcileFailure, AfterReconcile, Rest
  <2>4. reply' \in [Calls -> Reply]
    BY <1>22, <1>b DEF ReconcileFailure, AfterReconcile, Rest, ReplyStatus
  <2> QED
    BY <1>22, <2>2, <2>3, <2>4 DEF ReconcileFailure
<1>23. CASE PersistRejected
  <2>1. [status |-> "rejected", digest |-> env.digest, seq |-> SnapshotSequence] \in Receipt
    BY <1>c, <1>d DEF Receipt
  <2>2. receipts' \in [Ids -> Receipt]
    BY <1>23, <2>1, <1>d, UpsertType DEF PersistRejected
  <2> QED
    BY <1>23, <2>2, <1>a DEF PersistRejected
<1>24. CASE PersistRejectedFailure \/ ReadBack
  <2>1. receipts[env.id].seq \in Nat
    BY <1>d DEF Receipt
  <2>2. reply' \in [Calls -> Reply]
    BY <1>24, <2>1, <1>b DEF PersistRejectedFailure, ReadBack, ReplyStatus
  <2> QED
    BY <1>24, <2>2, <1>a DEF PersistRejectedFailure, ReadBack, Rest
<1>25. CASE UNCHANGED vars
  BY <1>25 DEF vars
<1> QED
  BY <1>1, <1>2, <1>3, <1>4, <1>5, <1>6, <1>7, <1>8, <1>9, <1>10, <1>11, <1>12, <1>13, <1>14,
     <1>15, <1>16, <1>17, <1>18, <1>19, <1>20, <1>21, <1>22, <1>23, <1>24, <1>25
     DEF Next, Caller, Startup, Process

\* Every variable keeps its type, whatever the sets of calls, IDs and payloads and the
\* capacity of the queue: no step of the engine writes a malformed row or reply.
THEOREM TypeCorrect == Spec => []TypeOK
  BY TypeInit, TypeStep, PTL DEF Spec

-----------------------------------------------------------------------------
(* The worker never waits for itself                                       *)

LEMMA QueueRoomInit == Init => QueueRoom
  BY CapacityAssumption DEF Init, QueueRoom

LEMMA QueueRoomStep == TypeOK /\ QueueRoom /\ [Next]_vars => QueueRoom'
<1> SUFFICES ASSUME TypeOK, QueueRoom, [Next]_vars PROVE QueueRoom'
  OBVIOUS
<1> USE CapacityAssumption DEF QueueRoom, durable, worker, callers
<1>a. queue \in Seq(Envelope) /\ Len(queue) \in Nat /\ recoveries \in Nat /\ pc \in Pcs
  BY DEF TypeOK
<1>b. \A e : Len(Append(queue, e)) = Len(queue) + 1
  BY <1>a
<1>1. ASSUME NEW c \in Calls, NEW i \in ClientIds, NEW d \in Payloads, Dispatch(c, i, d)
      PROVE  QueueRoom'
  <2>1. CASE Len(queue) >= Capacity - Reserved
    BY <1>1, <2>1 DEF Dispatch, Overloaded
  <2>2. CASE ~(Len(queue) >= Capacity - Reserved)
    BY <1>1, <1>a, <1>b, <2>2 DEF Dispatch, Overloaded, Serving
  <2> QED
    BY <2>1, <2>2
<1>2. CASE Start
  <2>1. PICK r \in 0..MaxRecoveries : recoveries' = r
    BY <1>2 DEF Start
  <2>2. queue' = queue /\ Len(queue) = 0 /\ pc' = "startup"
    BY <1>2 DEF Start
  <2>3. Len(queue) + r <= Capacity
    BY <2>2, RecoveryAssumption
  <2> QED
    BY <2>1, <2>2, <2>3
<1>3. ASSUME NEW i \in FlushIds, OfferRecovery(i) PROVE QueueRoom'
  BY <1>3, <1>a, <1>b DEF OfferRecovery
<1>4. CASE ForkWorker
  BY <1>4, <1>a DEF ForkWorker
<1>5. CASE Take
  <2>1. Len(queue') = Len(queue) - 1
    BY <1>5, <1>a DEF Take
  <2> QED
    BY <1>5, <1>a, <2>1 DEF Take
<1>6. ASSUME NEW i \in FlushIds, OfferFlush(i) PROVE QueueRoom'
  <2>1. Len(queue') = Len(queue) + 1 /\ Len(queue) < Capacity /\ pc' = "idle"
    BY <1>6, <1>b DEF OfferFlush, Rest
  <2> QED
    BY <2>1, <1>a
<1>7. CASE Crash
  BY <1>7 DEF Crash
<1>8. CASE UNCHANGED <<pc, queue, recoveries>>
  BY <1>8
\* Every other step of a processing leaves the queue alone.
<1>9. CASE /\ UNCHANGED <<queue, recoveries>>
           /\ pc \notin {"down", "startup", "idle"} /\ pc' \notin {"down", "startup"}
  BY <1>9, <1>a
<1>10. CASE \E c \in Calls : DeadlineExceeded(c) \/ \E i \in ClientIds : GetCommandOutcome(c, i)
  BY <1>10, <1>8 DEF DeadlineExceeded, GetCommandOutcome
<1>11. CASE \/ PreflightOperationalFailure \/ PreflightRefused \/ PreflightPassed
            \/ ClaimOrInspect \/ StorageFailure \/ DecideRefused
  BY <1>11, <1>9 DEF PreflightOperationalFailure, PreflightRefused, PreflightPassed,
     ClaimOrInspect, StorageFailure, DecideRefused, Rest
<1>12. CASE \/ \E n \in 0..MaxEvents : Commit(n)
            \/ InstallReadModel \/ PublishNext \/ PublishDone \/ SettleAccepted \/ NoFlush
  BY <1>12, <1>9, <1>8 DEF Commit, InstallReadModel, PublishNext, PublishDone,
     SettleAccepted, NoFlush, Rest
<1>13. CASE ReconcileFailure \/ PersistRejected \/ ReadBack \/ PersistRejectedFailure
  BY <1>13, <1>9 DEF ReconcileFailure, AfterReconcile, PersistRejected, ReadBack,
     PersistRejectedFailure, Rest
<1>14. CASE UNCHANGED vars
  BY <1>14, <1>8 DEF vars
<1> QED
  BY <1>1, <1>2, <1>3, <1>4, <1>5, <1>6, <1>7, <1>10, <1>11, <1>12, <1>13, <1>14
     DEF Next, Caller, Startup, Process

\* For every capacity with at least one reserved slot, and every startup that offers no
\* more commands than the queue holds: the worker's own follow-up always finds room, so
\* the queue's only consumer never suspends on the queue.
THEOREM NeverBlocks == Spec => []WorkerNeverBlocks
<1>1. TypeOK /\ QueueRoom => WorkerNeverBlocks
  BY CapacityAssumption DEF TypeOK, QueueRoom, WorkerNeverBlocks
<1> QED
  BY <1>1, TypeInit, TypeStep, QueueRoomInit, QueueRoomStep, PTL DEF Spec

-----------------------------------------------------------------------------
(* An envelope answers the call that dispatched it                         *)

LEMMA AnswersInit == Init => EnvelopesAnswerTheirCalls
  BY CallAssumption DEF Init, EnvelopesAnswerTheirCalls, Answers, FlushEnvelope

LEMMA AnswersStep == TypeOK /\ EnvelopesAnswerTheirCalls /\ [Next]_vars => EnvelopesAnswerTheirCalls'
<1> SUFFICES ASSUME TypeOK, EnvelopesAnswerTheirCalls, [Next]_vars
             PROVE  EnvelopesAnswerTheirCalls'
  OBVIOUS
<1> USE DEF EnvelopesAnswerTheirCalls, durable, worker, callers
<1>a. queue \in Seq(Envelope) /\ req \in [Calls -> Request]
  BY DEF TypeOK
<1>b. \A i : FlushEnvelope(i).call \notin Calls
  BY CallAssumption DEF FlushEnvelope
<1>c. \A e : Len(Append(queue, e)) = Len(queue) + 1 /\ Append(queue, e)[Len(queue) + 1] = e
          /\ \A k \in 1..Len(queue) : Append(queue, e)[k] = queue[k]
  BY <1>a
<1>1. ASSUME NEW c \in Calls, NEW i \in ClientIds, NEW d \in Payloads, Dispatch(c, i, d)
      PROVE  EnvelopesAnswerTheirCalls'
  <2> DEFINE new == [id |-> i, digest |-> d, call |-> c]
  <2>1. \A e : Answers(e) => Answers(e)'
    BY <1>1, <1>a DEF Dispatch, Overloaded, Answers
  <2>2. Answers(new)'
    BY <1>1, <1>a DEF Dispatch, Overloaded, Answers
  <2>3. env' = env /\ (queue' = queue \/ queue' = Append(queue, new))
    BY <1>1 DEF Dispatch, Overloaded
  <2>4. \A k \in DOMAIN queue' : queue'[k] = new \/ \E m \in DOMAIN queue : queue'[k] = queue[m]
    BY <2>3, <1>a, <1>c
  <2> QED
    BY <2>1, <2>2, <2>3, <2>4
<1>2. CASE /\ UNCHANGED req
           /\ env' = env \/ env' = FlushEnvelope(SomeFlush)
           /\ queue' = queue \/ queue' = << >> \/ \E i \in FlushIds : queue' = Append(queue, FlushEnvelope(i))
  <2>1. \A e : Answers(e)' <=> Answers(e)
    BY <1>2 DEF Answers
  <2>2. \A i : Answers(FlushEnvelope(i))
    BY <1>b DEF Answers
  <2>3. \A k \in DOMAIN queue' : \/ \E i \in FlushIds : queue'[k] = FlushEnvelope(i)
                                 \/ \E m \in DOMAIN queue : queue'[k] = queue[m]
    <3>1. CASE queue' = << >>
      BY <3>1
    <3>2. CASE queue' = queue
      BY <3>2
    <3>3. ASSUME NEW i \in FlushIds, queue' = Append(queue, FlushEnvelope(i))
          PROVE  \A k \in DOMAIN queue' : \/ queue'[k] = FlushEnvelope(i)
                                          \/ \E m \in DOMAIN queue : queue'[k] = queue[m]
      BY <3>3, <1>a, <1>c
    <3> QED
      BY <1>2, <3>1, <3>2, <3>3
  <2> QED
    BY <1>2, <2>1, <2>2, <2>3
<1>3. CASE Take
  <2>1. \A e : Answers(e)' <=> Answers(e)
    BY <1>3 DEF Take, Answers
  <2>2. env' = queue[1] /\ 1 \in DOMAIN queue
    BY <1>3, <1>a DEF Take
  <2>3. \A k \in DOMAIN queue' : k + 1 \in DOMAIN queue /\ queue'[k] = queue[k + 1]
    BY <1>3, <1>a DEF Take
  <2> QED
    BY <2>1, <2>2, <2>3
<1>4. ASSUME NEW c \in Calls, NEW i \in ClientIds, GetCommandOutcome(c, i)
      PROVE  EnvelopesAnswerTheirCalls'
  <2>1. \A e : Answers(e) => Answers(e)'
    BY <1>4, <1>a DEF GetCommandOutcome, Answers
  <2> QED
    BY <1>4, <2>1 DEF GetCommandOutcome
<1>5. CASE (\E c \in Calls : DeadlineExceeded(c)) \/ Startup \/ Crash
  BY <1>5, <1>2 DEF DeadlineExceeded, Startup, Start, ForkWorker, OfferRecovery, Crash, ClearLocals
<1>6. CASE \/ PreflightOperationalFailure \/ PreflightRefused \/ PreflightPassed
           \/ ClaimOrInspect \/ StorageFailure \/ DecideRefused
  BY <1>6, <1>2 DEF PreflightOperationalFailure, PreflightRefused, PreflightPassed,
     ClaimOrInspect, StorageFailure, DecideRefused, Rest, ClearLocals
<1>7. CASE \/ \E n \in 0..MaxEvents : Commit(n)
           \/ InstallReadModel \/ PublishNext \/ PublishDone \/ SettleAccepted
           \/ NoFlush \/ \E i \in FlushIds : OfferFlush(i)
  BY <1>7, <1>2 DEF Commit, InstallReadModel, PublishNext, PublishDone, SettleAccepted,
     NoFlush, OfferFlush, Rest, ClearLocals
<1>8. CASE ReconcileFailure \/ PersistRejected \/ ReadBack \/ PersistRejectedFailure
  BY <1>8, <1>2 DEF ReconcileFailure, AfterReconcile, PersistRejected, ReadBack,
     PersistRejectedFailure, Rest, ClearLocals
<1>9. CASE UNCHANGED vars
  BY <1>9, <1>2 DEF vars
<1> QED
  BY <1>1, <1>3, <1>4, <1>5, <1>6, <1>7, <1>8, <1>9 DEF Next, Caller, Process

-----------------------------------------------------------------------------
(* Events, claims and receipts agree                                       *)

\* Outside a commit the read model ends at the log's frontier.
LEMMA SnapshotAtFrontier ==
    ASSUME TypeOK, ReadModelTracksLog
    PROVE  /\ SnapshotSequence = Len(readModel)
           /\ pc \notin {"down", "install"} => SnapshotSequence = Len(log)
<1>1. readModel \in Seq(Nat)
  BY DEF TypeOK
<1>2. CASE readModel = << >>
  BY <1>2 DEF SnapshotSequence, ReadModelTracksLog
<1>3. CASE readModel # << >>
  <2>1. Len(readModel) \in DOMAIN readModel
    BY <1>1, <1>3
  <2> QED
    BY <1>3, <2>1 DEF SnapshotSequence, ReadModelTracksLog
<1> QED
  BY <1>2, <1>3

\* Only two actions write receipts, only these two and the claim touch the ledger.
LEMMA DurableFrame ==
    ASSUME [Next]_vars
    PROVE  \/ UNCHANGED durable
           \/ \E n \in 0..MaxEvents : Commit(n)
           \/ PersistRejected
           \/ ClaimOrInspect
<1> USE DEF durable, worker, callers
<1>1. CASE Caller
  BY <1>1 DEF Caller, Dispatch, Overloaded, DeadlineExceeded, GetCommandOutcome
<1>2. CASE Startup
  BY <1>2 DEF Startup, Start, OfferRecovery, ForkWorker
<1>3. CASE Crash
  BY <1>3 DEF Crash
<1>4. CASE Process
  BY <1>4 DEF Process, Take, PreflightOperationalFailure, PreflightRefused, PreflightPassed,
     StorageFailure, DecideRefused, InstallReadModel, PublishNext, PublishDone, SettleAccepted,
     NoFlush, OfferFlush, ReconcileFailure, ReadBack, PersistRejectedFailure
<1>5. CASE UNCHANGED vars
  BY <1>5 DEF vars
<1> QED
  BY <1>1, <1>2, <1>3, <1>4, <1>5 DEF Next

\* What a commit does to the log and to the command's receipt.
LEMMA CommitEffect ==
    ASSUME IndInv, NEW n \in 0..MaxEvents, Commit(n)
    PROVE  /\ n \in Nat /\ env.id \in Ids /\ Len(log) \in Nat
           /\ log' = log \o Batch(env, n) /\ Len(log') = Len(log) + n
           /\ \A s \in 1..Len(log) : log'[s] = log[s]
           /\ \A s \in (Len(log) + 1)..(Len(log) + n) :
                 log'[s] = [id |-> env.id, digest |-> env.digest, n |-> s - Len(log)]
           /\ receipts[env.id].status = "none" /\ claims[env.id] = env.digest
           /\ receipts' = [receipts EXCEPT ![env.id] =
                 [status |-> "accepted", digest |-> env.digest, seq |-> Len(log) + n]]
           /\ claims' = claims /\ result' = Len(log) + n
<1> USE DEF IndInv
<1>1. n \in Nat /\ env \in Envelope /\ env.id \in Ids /\ log \in Seq(Event)
  BY BoundAssumption DEF TypeOK, Envelope
<1>2. receipts[env.id].status = "none" /\ claims[env.id] = env.digest
  BY DEF Commit, WorkerKnowledge
<1>3. SnapshotSequence = Len(log)
  BY SnapshotAtFrontier DEF Commit
<1>4. (IF n = 0 THEN SnapshotSequence ELSE Len(log) + n) = Len(log) + n
  BY <1>1, <1>3
<1>5. /\ Batch(env, n) \in Seq(Event) /\ Len(Batch(env, n)) = n
      /\ \A k \in 1..n : Batch(env, n)[k] = [id |-> env.id, digest |-> env.digest, n |-> k]
  BY <1>1, BatchType
<1>6. log' = log \o Batch(env, n) /\ claims' = claims
  BY DEF Commit
<1>7. /\ Len(log \o Batch(env, n)) = Len(log) + n
      /\ \A s \in 1..Len(log) : (log \o Batch(env, n))[s] = log[s]
      /\ \A s \in (Len(log) + 1)..(Len(log) + n) :
            (log \o Batch(env, n))[s] = Batch(env, n)[s - Len(log)]
  BY <1>1, <1>5
<1>8. \A s \in (Len(log) + 1)..(Len(log) + n) : s - Len(log) \in 1..n
  BY <1>1
<1>9. /\ receipts' = [receipts EXCEPT ![env.id] =
            [status |-> "accepted", digest |-> env.digest, seq |-> Len(log) + n]]
      /\ result' = Len(log) + n
  BY <1>2, <1>4 DEF Commit, Upsert
<1>10. \A s \in (Len(log) + 1)..(Len(log) + n) :
          log'[s] = [id |-> env.id, digest |-> env.digest, n |-> s - Len(log)]
  BY <1>5, <1>6, <1>7, <1>8
<1>11. Len(log') = Len(log) + n /\ \A s \in 1..Len(log) : log'[s] = log[s]
  BY <1>6, <1>7
<1>12. Len(log) \in Nat
  BY <1>1
<1> QED
  BY <1>1, <1>2, <1>6, <1>9, <1>10, <1>11, <1>12

\* What a recorded refusal does to the command's receipt.
LEMMA RejectEffect ==
    ASSUME IndInv, PersistRejected
    PROVE  /\ env.id \in Ids /\ log' = log /\ claims' = claims
           /\ \/ receipts[env.id].status = "accepted" /\ receipts' = receipts
              \/ /\ receipts[env.id].status # "accepted"
                 /\ receipts' = [receipts EXCEPT ![env.id] =
                       [status |-> "rejected", digest |-> env.digest, seq |-> Len(log)]]
<1>1. env.id \in Ids
  BY DEF IndInv, TypeOK, Envelope
<1>2. SnapshotSequence = Len(log)
  BY SnapshotAtFrontier DEF PersistRejected, IndInv
<1> QED
  BY <1>1, <1>2 DEF PersistRejected, Upsert

LEMMA LedgerStep ==
    IndInv /\ [Next]_vars => ReceiptMatchesLog' /\ AtMostOnce'
<1> SUFFICES ASSUME IndInv, [Next]_vars PROVE ReceiptMatchesLog' /\ AtMostOnce'
  OBVIOUS
<1>a. ReceiptMatchesLog /\ AtMostOnce
  BY DEF IndInv
<1>b. /\ log \in Seq(Event) /\ Len(log) \in Nat /\ DOMAIN log = 1..Len(log)
      /\ receipts \in [Ids -> Receipt] /\ claims \in [Ids -> Payloads \cup {NoPayload}]
  BY DEF IndInv, TypeOK
<1>c. /\ \A s \in DOMAIN log : log[s].id \in Ids /\ log[s].digest \in Payloads /\ log[s].n \in Nat
      /\ \A i \in Ids : receipts[i].seq \in Nat
  <2>1. \A s \in DOMAIN log : log[s] \in Event
    BY <1>b
  <2>2. \A i \in Ids : receipts[i] \in Receipt
    BY <1>b
  <2> QED
    BY <2>1, <2>2 DEF Event, Receipt
<1>1. CASE UNCHANGED durable
  <2>1. log' = log /\ claims' = claims /\ receipts' = receipts
    BY <1>1 DEF durable
  <2>2. ReceiptMatchesLog'
    BY <2>1, <1>a DEF ReceiptMatchesLog
  <2>3. AtMostOnce'
    BY <2>1, <1>a DEF AtMostOnce
  <2> QED
    BY <2>2, <2>3
<1>2. ASSUME NEW n \in 0..MaxEvents, Commit(n) PROVE ReceiptMatchesLog' /\ AtMostOnce'
  <2> DEFINE row == [status |-> "accepted", digest |-> env.digest, seq |-> Len(log) + n]
  <2>1. /\ n \in Nat /\ env.id \in Ids
        /\ log' = log \o Batch(env, n) /\ Len(log') = Len(log) + n
        /\ \A s \in 1..Len(log) : log'[s] = log[s]
        /\ \A s \in (Len(log) + 1)..(Len(log) + n) :
              log'[s] = [id |-> env.id, digest |-> env.digest, n |-> s - Len(log)]
        /\ receipts[env.id].status = "none" /\ claims[env.id] = env.digest
        /\ receipts' = [receipts EXCEPT ![env.id] = row] /\ claims' = claims
    BY <1>2, CommitEffect
  <2>2. DOMAIN log' = 1..(Len(log) + n)
    <3>1. log' \in Seq(Event)
      BY <1>b, <2>1, BatchType DEF IndInv, TypeOK
    <3> QED
      BY <2>1, <3>1
  <2>3. \A s \in DOMAIN log : log[s].id # env.id
    BY <1>a, <2>1 DEF ReceiptMatchesLog
  <2>4. ASSUME NEW s \in DOMAIN log'
        PROVE  \/ s \in DOMAIN log /\ log'[s] = log[s]
               \/ /\ s > Len(log) /\ s <= Len(log) + n
                  /\ log'[s] = [id |-> env.id, digest |-> env.digest, n |-> s - Len(log)]
    <3>1. s \in 1..(Len(log) + n)
      BY <2>2
    <3>2. CASE s <= Len(log)
      BY <2>1, <1>b, <3>1, <3>2
    <3>3. CASE s > Len(log)
      <4>1. s \in (Len(log) + 1)..(Len(log) + n)
        BY <1>b, <2>1, <3>1, <3>3
      <4> QED
        BY <2>1, <3>1, <3>3, <4>1
    <3> QED
      BY <3>1, <3>2, <3>3, <1>b
  <2>5. ASSUME NEW s \in DOMAIN log'
        PROVE  LET i == log'[s].id IN
               /\ receipts'[i].status = "accepted" /\ receipts'[i].digest = log'[s].digest
               /\ claims'[i] = log'[s].digest /\ s <= receipts'[i].seq
    <3>1. CASE s \in DOMAIN log /\ log'[s] = log[s]
      BY <3>1, <1>a, <1>c, <2>1, <2>3 DEF ReceiptMatchesLog
    <3>2. CASE /\ s > Len(log) /\ s <= Len(log) + n
               /\ log'[s] = [id |-> env.id, digest |-> env.digest, n |-> s - Len(log)]
      BY <3>2, <2>1, <1>b
    <3> QED
      BY <2>4, <3>1, <3>2
  <2>6. \A i \in Ids : receipts'[i].seq <= Len(log')
    <3>1. \A i \in Ids : receipts'[i].seq <= Len(log) + n
      BY <1>a, <1>b, <1>c, <2>1 DEF ReceiptMatchesLog
    <3> QED
      BY <2>1, <3>1
  <2>7. ASSUME NEW s \in DOMAIN log', NEW t \in DOMAIN log', s # t
        PROVE  log'[s].id # log'[t].id \/ log'[s].n # log'[t].n
    <3>1. CASE s \in DOMAIN log /\ t \in DOMAIN log /\ log'[s] = log[s] /\ log'[t] = log[t]
      BY <3>1, <2>7, <1>a DEF AtMostOnce
    <3>2. CASE s \in DOMAIN log /\ log'[s] = log[s] /\ t > Len(log)
      BY <3>2, <2>3, <2>4, <1>b
    <3>3. CASE t \in DOMAIN log /\ log'[t] = log[t] /\ s > Len(log)
      BY <3>3, <2>3, <2>4, <1>b
    <3>4. CASE s > Len(log) /\ t > Len(log)
      <4>1. log'[s].n = s - Len(log) /\ log'[t].n = t - Len(log)
        BY <3>4, <2>4, <1>b
      <4>2. s \in Int /\ t \in Int
        BY <2>2
      <4> QED
        BY <4>1, <4>2, <2>7, <1>b
    <3> QED
      BY <2>4, <3>1, <3>2, <3>3, <3>4
  <2> QED
    BY <2>5, <2>6, <2>7 DEF ReceiptMatchesLog, AtMostOnce
<1>3. CASE PersistRejected
  <2>1. /\ env.id \in Ids /\ log' = log /\ claims' = claims
        /\ \/ receipts' = receipts
           \/ /\ receipts[env.id].status # "accepted"
              /\ receipts' = [receipts EXCEPT ![env.id] =
                    [status |-> "rejected", digest |-> env.digest, seq |-> Len(log)]]
    BY <1>3, RejectEffect
  <2>2. CASE receipts' = receipts
    BY <2>1, <2>2, <1>a DEF ReceiptMatchesLog, AtMostOnce
  <2>3. CASE /\ receipts[env.id].status # "accepted"
             /\ receipts' = [receipts EXCEPT ![env.id] =
                   [status |-> "rejected", digest |-> env.digest, seq |-> Len(log)]]
    <3>1. \A s \in DOMAIN log : receipts'[log[s].id] = receipts[log[s].id]
      BY <2>3, <1>a, <1>b, <1>c DEF ReceiptMatchesLog
    <3>2. \A i \in Ids : receipts'[i].seq <= Len(log)
      BY <2>1, <2>3, <1>a, <1>b DEF ReceiptMatchesLog
    <3> QED
      BY <2>1, <3>1, <3>2, <1>a DEF ReceiptMatchesLog, AtMostOnce
  <2> QED
    BY <2>1, <2>2, <2>3
<1>4. CASE ClaimOrInspect
  <2>1. log' = log /\ receipts' = receipts /\ claims' = [claims EXCEPT ![env.id] = ClaimOf(env)]
    BY <1>4 DEF ClaimOrInspect
  <2>2. \A s \in DOMAIN log : claims'[log[s].id] = claims[log[s].id]
    BY <2>1, <1>a, <1>b, <1>c, PayloadAssumption DEF ReceiptMatchesLog, ClaimOf
  <2> QED
    BY <2>1, <2>2, <1>a DEF ReceiptMatchesLog, AtMostOnce
<1> QED
  BY <1>1, <1>2, <1>3, <1>4, DurableFrame

-----------------------------------------------------------------------------
(* What the worker knows                                                   *)

LEMMA KnowledgeStep == IndInv /\ [Next]_vars => WorkerKnowledge'
<1> SUFFICES ASSUME IndInv, [Next]_vars PROVE WorkerKnowledge'
  OBVIOUS
<1> USE DEF WorkerKnowledge, durable, worker, callers
<1>a. WorkerKnowledge /\ TypeOK /\ ReadModelTracksLog
  BY DEF IndInv
<1>1. CASE UNCHANGED <<durable, worker>>
  BY <1>1, <1>a
<1>2. CASE pc' \in {"down", "startup", "idle", "preflight", "rejecting", "followup"}
  BY <1>2
<1>3. CASE Caller
  BY <1>3, <1>1 DEF Caller, Dispatch, Overloaded, DeadlineExceeded, GetCommandOutcome
<1>4. CASE Startup \/ Crash \/ Take
  BY <1>4, <1>2 DEF Startup, Start, OfferRecovery, ForkWorker, Crash, Take
<1>5. CASE \/ PreflightOperationalFailure \/ PreflightRefused \/ SettleAccepted \/ NoFlush
           \/ (\E i \in FlushIds : OfferFlush(i)) \/ ReconcileFailure \/ ReadBack
           \/ PersistRejectedFailure
  BY <1>5, <1>2 DEF PreflightOperationalFailure, PreflightRefused, SettleAccepted, NoFlush,
     OfferFlush, ReconcileFailure, AfterReconcile, ReadBack, PersistRejectedFailure, Rest
<1>6. CASE PreflightPassed
  BY <1>6, <1>a, SnapshotAtFrontier DEF PreflightPassed
<1>7. CASE ClaimOrInspect
  <2>1. env.id \in Ids
    BY <1>a DEF TypeOK, Envelope
  <2>2. receipts[env.id].status \in {"none", "accepted", "rejected"}
    BY <1>a, <2>1 DEF TypeOK, Receipt
  <2>3. log' = log /\ receipts' = receipts /\ claims' = [claims EXCEPT ![env.id] = ClaimOf(env)]
    BY <1>7 DEF ClaimOrInspect
  <2>4. InspectedStatus(env) = "claimed" =>
           receipts[env.id].status = "none" /\ ClaimOf(env) = env.digest
    BY DEF InspectedStatus
  <2>5. claims'[env.id] = ClaimOf(env)
    BY <2>1, <2>3, <1>a DEF TypeOK
  <2> QED
    BY <1>7, <1>a, <2>3, <2>4, <2>5 DEF ClaimOrInspect, Rest
<1>8. CASE StorageFailure \/ DecideRefused
  BY <1>8, <1>a DEF StorageFailure, DecideRefused
<1>9. ASSUME NEW n \in 0..MaxEvents, Commit(n) PROVE WorkerKnowledge'
  <2>1. /\ env.id \in Ids /\ result' = Len(log) + n
        /\ receipts' = [receipts EXCEPT ![env.id] =
              [status |-> "accepted", digest |-> env.digest, seq |-> Len(log) + n]]
    BY <1>9, CommitEffect
  <2>2. pc' = "install" /\ env' = env
    BY <1>9 DEF Commit
  <2>3. receipts'[env.id] = [status |-> "accepted", digest |-> env.digest, seq |-> Len(log) + n]
    BY <2>1, <1>a DEF TypeOK
  <2> QED
    BY <2>1, <2>2, <2>3
<1>10. CASE InstallReadModel \/ PublishNext \/ PublishDone
  BY <1>10, <1>a DEF InstallReadModel, PublishNext, PublishDone
<1>11. CASE PersistRejected
  <2>1. /\ env.id \in Ids
        /\ \/ receipts[env.id].status = "accepted" /\ receipts' = receipts
           \/ receipts' = [receipts EXCEPT ![env.id] =
                 [status |-> "rejected", digest |-> env.digest, seq |-> Len(log)]]
    BY <1>11, RejectEffect
  <2>2. receipts'[env.id].status # "none"
    BY <2>1, <1>a DEF TypeOK
  <2>3. pc' = "readback" /\ env' = env
    BY <1>11 DEF PersistRejected
  <2> QED
    BY <2>2, <2>3
<1>12. CASE UNCHANGED vars
  BY <1>12, <1>1 DEF vars
<1> QED
  BY <1>3, <1>4, <1>5, <1>6, <1>7, <1>8, <1>9, <1>10, <1>11, <1>12 DEF Next, Process

-----------------------------------------------------------------------------
(* Terminal answers are durable                                            *)

\* Every reply that is new, other than to the envelope's own call, tells no outcome.
LEMMA OutcomeStep == IndInv /\ [Next]_vars => OutcomeIsDurable'
<1> SUFFICES ASSUME IndInv, [Next]_vars PROVE OutcomeIsDurable'
  OBVIOUS
<1> USE DEF durable, worker, callers
<1>a. OutcomeIsDurable /\ TypeOK /\ Answers(env) /\ WorkerKnowledge
  BY DEF IndInv, EnvelopesAnswerTheirCalls
<1>b. /\ req \in [Calls -> Request] /\ reply \in [Calls -> Reply] /\ receipts \in [Ids -> Receipt]
      /\ env.id \in Ids /\ \A c \in Calls : req[c].id \in Ids
  <2>1. req \in [Calls -> Request] /\ env \in Envelope
    BY <1>a DEF TypeOK
  <2>2. \A c \in Calls : req[c] \in Request
    BY <2>1
  <2> QED
    BY <1>a, <2>1, <2>2 DEF TypeOK, Envelope, Request
\* Receipts that callers were told of do not change, so answers to others stay right.
<1>c. ASSUME NEW c \in Calls, reply'[c] = reply[c], req'[c] = req[c],
             \/ receipts' = receipts
             \/ \E row \in Receipt :
                  /\ receipts' = [receipts EXCEPT ![env.id] = row]
                  /\ \/ receipts[env.id].status = "none"
                     \/ receipts[env.id].status = "rejected" /\ row.status = "rejected"
      PROVE  LET r == receipts'[req'[c].id] IN
             /\ reply'[c].status \in {"accepted", "rejected"} => r.status = reply'[c].status
             /\ reply'[c].status = "accepted" => r.seq = reply'[c].seq
  BY <1>a, <1>b, <1>c DEF OutcomeIsDurable
<1>1. CASE UNCHANGED <<durable, req>> /\ \A c \in Calls :
              reply'[c] = reply[c] \/ reply'[c].status \notin {"accepted", "rejected"}
  BY <1>1, <1>c DEF OutcomeIsDurable
<1>d. \A st \in ReplyStatus \ {"accepted", "rejected"} :
         reply' = Settled(env, Told(st, 0)) =>
            \A c \in Calls : reply'[c] = reply[c] \/ reply'[c].status \notin {"accepted", "rejected"}
  BY <1>b DEF Settled, Told
<1>2. ASSUME NEW c \in Calls, NEW i \in ClientIds, NEW d \in Payloads, Dispatch(c, i, d)
      PROVE  OutcomeIsDurable'
  BY <1>2, <1>a, <1>b DEF Dispatch, Overloaded, Told, OutcomeIsDurable
<1>3. ASSUME NEW c \in Calls, DeadlineExceeded(c) PROVE OutcomeIsDurable'
  BY <1>3, <1>b, <1>1 DEF DeadlineExceeded, Told
<1>4. ASSUME NEW c \in Calls, NEW i \in ClientIds, GetCommandOutcome(c, i) PROVE OutcomeIsDurable'
  <2>1. /\ req' = [req EXCEPT ![c] = [kind |-> "outcome", id |-> i, digest |-> FlushPayload]]
        /\ receipts' = receipts
        /\ \E st, v : /\ reply' = [reply EXCEPT ![c] =
                            [status |-> st, seq |-> receipts[i].seq, revision |-> v]]
                      /\ st # "unknown" => st = receipts[i].status
    BY <1>4 DEF GetCommandOutcome
  <2> QED
    BY <2>1, <1>a, <1>b DEF OutcomeIsDurable
<1>5. CASE Crash
  BY <1>5, <1>b, <1>1 DEF Crash, Told
<1>6. CASE Startup
  BY <1>6, <1>1 DEF Startup, Start, OfferRecovery, ForkWorker
<1>7. CASE \/ Take \/ PreflightRefused \/ PreflightPassed \/ StorageFailure \/ DecideRefused
           \/ InstallReadModel \/ PublishNext \/ PublishDone
           \/ NoFlush \/ \E i \in FlushIds : OfferFlush(i)
  BY <1>7, <1>1 DEF Take, PreflightRefused, PreflightPassed, StorageFailure, DecideRefused,
     InstallReadModel, PublishNext, PublishDone, NoFlush, OfferFlush
<1>8. CASE PreflightOperationalFailure \/ PersistRejectedFailure
  BY <1>8, <1>1, <1>d DEF PreflightOperationalFailure, PersistRejectedFailure, ReplyStatus
<1>9. CASE ReconcileFailure
  BY <1>9, <1>1, <1>d DEF ReconcileFailure, AfterReconcile, ReplyStatus
<1>10. CASE SettleAccepted
  <2>1. receipts[env.id].status = "accepted" /\ receipts[env.id].seq = result
    BY <1>10, <1>a DEF SettleAccepted, WorkerKnowledge
  <2>2. UNCHANGED <<receipts, req>> /\ reply' = Settled(env, Told("accepted", result))
    BY <1>10 DEF SettleAccepted
  <2> QED
    BY <2>1, <2>2, <1>a, <1>b DEF OutcomeIsDurable, Settled, Told, Answers
<1>11. CASE ClaimOrInspect
  <2>1. receipts' = receipts /\ req' = req
    BY <1>11 DEF ClaimOrInspect
  <2>2. CASE reply' = reply
    BY <2>1, <2>2, <1>c DEF OutcomeIsDurable
  <2>3. CASE /\ receipts[env.id].status = "rejected" /\ reply' = Settled(env, Told("rejected", 0))
    BY <2>1, <2>3, <1>a, <1>b DEF OutcomeIsDurable, Settled, Told, Answers
  <2> QED
    BY <1>11, <2>2, <2>3 DEF ClaimOrInspect
<1>12. ASSUME NEW n \in 0..MaxEvents, Commit(n) PROVE OutcomeIsDurable'
  <2>1. /\ receipts[env.id].status = "none"
        /\ receipts' = [receipts EXCEPT ![env.id] =
              [status |-> "accepted", digest |-> env.digest, seq |-> Len(log) + n]]
    BY <1>12, CommitEffect
  <2>2. req' = req /\ reply' = reply
    BY <1>12 DEF Commit
  <2> QED
    BY <2>1, <2>2, <1>a, <1>b DEF OutcomeIsDurable
<1>13. CASE PersistRejected
  <2>1. \/ receipts[env.id].status = "accepted" /\ receipts' = receipts
        \/ /\ receipts[env.id].status # "accepted"
           /\ receipts' = [receipts EXCEPT ![env.id] =
                 [status |-> "rejected", digest |-> env.digest, seq |-> Len(log)]]
    BY <1>13, RejectEffect
  <2>2. receipts[env.id].status \in {"none", "accepted", "rejected"}
    BY <1>b DEF Receipt
  <2>3. \A c \in Calls : LET r == receipts'[req[c].id] IN
           /\ reply[c].status \in {"accepted", "rejected"} => r.status = reply[c].status
           /\ reply[c].status = "accepted" => r.seq = reply[c].seq
    BY <2>1, <2>2, <1>a, <1>b DEF OutcomeIsDurable
  <2>4. req' = req /\ reply' = reply
    BY <1>13 DEF PersistRejected
  <2> QED
    BY <2>3, <2>4 DEF OutcomeIsDurable
<1>14. CASE ReadBack
  <2>1. receipts' = receipts /\ req' = req
    BY <1>14 DEF ReadBack
  <2>2. receipts[env.id].status \in {"accepted", "rejected"}
    BY <1>14, <1>a, <1>b DEF ReadBack, WorkerKnowledge, Receipt
  <2>3. CASE /\ receipts[env.id].status = "accepted"
             /\ reply' = Settled(env, Told("accepted", receipts[env.id].seq))
    BY <2>1, <2>3, <1>a, <1>b DEF OutcomeIsDurable, Settled, Told, Answers
  <2>4. CASE receipts[env.id].status = "rejected" /\ reply' = Settled(env, Told("rejected", 0))
    BY <2>1, <2>4, <1>a, <1>b DEF OutcomeIsDurable, Settled, Told, Answers
  <2> QED
    BY <1>14, <2>2, <2>3, <2>4 DEF ReadBack
<1>15. CASE UNCHANGED vars
  BY <1>15, <1>1 DEF vars
<1> QED
  BY <1>2, <1>3, <1>4, <1>5, <1>6, <1>7, <1>8, <1>9, <1>10, <1>11, <1>12, <1>13, <1>14,
     <1>15 DEF Next, Caller, Process

-----------------------------------------------------------------------------
(* The read model and the publications follow the log                      *)

PublishedSoFar == \A k \in DOMAIN published : published[k] = base + k

\* Appending the next numbers to a sequence that counts up from a keeps it counting.
LEMMA CountsOn ==
    ASSUME NEW p \in Seq(Nat), NEW q \in Seq(Nat), NEW a \in Nat,
           \A k \in DOMAIN p : p[k] = a + k,
           \A k \in DOMAIN q : q[k] = a + Len(p) + k
    PROVE  /\ \A k \in DOMAIN (p \o q) : (p \o q)[k] = a + k
           /\ Len(p \o q) = Len(p) + Len(q)
<1>1. Len(p \o q) = Len(p) + Len(q) /\ DOMAIN (p \o q) = 1..(Len(p) + Len(q))
  OBVIOUS
<1>2. ASSUME NEW k \in 1..(Len(p) + Len(q)) PROVE (p \o q)[k] = a + k
  <2>1. CASE k <= Len(p)
    <3>1. k \in DOMAIN p /\ (p \o q)[k] = p[k]
      BY <2>1
    <3> QED
      BY <3>1
  <2>2. CASE k > Len(p)
    <3>1. k - Len(p) \in 1..Len(q) /\ (p \o q)[k] = q[k - Len(p)]
      BY <2>2
    <3>2. q[k - Len(p)] = a + Len(p) + (k - Len(p))
      BY <3>1
    <3> QED
      BY <3>1, <3>2
  <2> QED
    BY <2>1, <2>2
<1> QED
  BY <1>1, <1>2

\* The numbers after a, up to b, count up from a.
LEMMA EventsAfterCounts ==
    ASSUME NEW a \in Nat, NEW b \in Nat, a <= b
    PROVE  /\ EventsAfter(a, b) \in Seq(Nat) /\ Len(EventsAfter(a, b)) = b - a
           /\ DOMAIN EventsAfter(a, b) = 1..(b - a)
           /\ \A k \in 1..(b - a) : EventsAfter(a, b)[k] = a + k
<1>1. b - a \in Nat
  OBVIOUS
<1> QED
  BY <1>1, EventsAfterType DEF EventsAfter

LEMMA FollowStep == IndInv /\ [Next]_vars => ReadModelTracksLog' /\ BatchOnItsWay' /\ PublishedSoFar'
<1> SUFFICES ASSUME IndInv, [Next]_vars
             PROVE  ReadModelTracksLog' /\ BatchOnItsWay' /\ PublishedSoFar'
  OBVIOUS
<1> DEFINE Goal == ReadModelTracksLog' /\ BatchOnItsWay' /\ PublishedSoFar'
<1> USE DEF durable, worker, callers
<1>a. ReadModelTracksLog /\ BatchOnItsWay /\ PublishedSoFar /\ WorkerKnowledge
  BY DEF IndInv, PublishedSoFar
<1>b. /\ readModel \in Seq(Nat) /\ published \in Seq(Nat) /\ unpublished \in Seq(Nat)
      /\ base \in Nat /\ log \in Seq(Event) /\ Len(log) \in Nat /\ pc \in Pcs
  BY DEF IndInv, TypeOK
<1>1. CASE UNCHANGED <<log, pc, unpublished, readModel, published, base>>
  BY <1>1, <1>a DEF ReadModelTracksLog, BatchOnItsWay, PublishedSoFar
\* A step between two points where nothing is on its way.
<1>2. CASE /\ UNCHANGED <<log, readModel, published, base>>
           /\ pc \notin {"down", "install", "publish"} /\ pc' \notin {"down", "install", "publish"}
  BY <1>2, <1>a DEF ReadModelTracksLog, BatchOnItsWay, PublishedSoFar
<1>3. CASE Caller
  BY <1>3, <1>1 DEF Caller, Dispatch, Overloaded, DeadlineExceeded, GetCommandOutcome
<1>4. CASE Crash
  BY <1>4 DEF Crash, ReadModelTracksLog, BatchOnItsWay, PublishedSoFar
<1>5. CASE Start
  <2>1. /\ readModel' = EventsAfter(0, Len(log)) /\ base' = Len(log) /\ published' = << >>
        /\ pc' = "startup" /\ log' = log
    BY <1>5, <1>a DEF Start, BatchOnItsWay
  <2>2. /\ Len(EventsAfter(0, Len(log))) = Len(log)
        /\ \A k \in DOMAIN EventsAfter(0, Len(log)) : EventsAfter(0, Len(log))[k] = k
    <3>1. 0 <= Len(log) /\ Len(log) - 0 = Len(log)
      BY <1>b
    <3>2. /\ Len(EventsAfter(0, Len(log))) = Len(log)
          /\ DOMAIN EventsAfter(0, Len(log)) = 1..Len(log)
          /\ \A k \in 1..Len(log) : EventsAfter(0, Len(log))[k] = 0 + k
      BY <1>b, <3>1, EventsAfterCounts
    <3> QED
      BY <3>2
  <2>3. Len(log) + Len(<< >>) = Len(log)
    BY <1>b
  <2> QED
    BY <2>1, <2>2, <2>3 DEF ReadModelTracksLog, BatchOnItsWay, PublishedSoFar
<1>6. CASE (\E i \in FlushIds : OfferRecovery(i)) \/ ForkWorker
  BY <1>6, <1>2, <1>1 DEF OfferRecovery, ForkWorker
<1>7. CASE \/ Take \/ PreflightOperationalFailure \/ PreflightRefused \/ PreflightPassed
           \/ ClaimOrInspect \/ StorageFailure \/ DecideRefused
  BY <1>7, <1>2 DEF Take, PreflightOperationalFailure, PreflightRefused, PreflightPassed,
     ClaimOrInspect, StorageFailure, DecideRefused, Rest
<1>8. CASE \/ SettleAccepted \/ NoFlush \/ (\E i \in FlushIds : OfferFlush(i))
           \/ PersistRejected \/ ReadBack \/ PersistRejectedFailure
  BY <1>8, <1>2 DEF SettleAccepted, NoFlush, OfferFlush, PersistRejected, ReadBack,
     PersistRejectedFailure, Rest
<1>9. ASSUME NEW n \in 0..MaxEvents, Commit(n) PROVE Goal
  <2>1. /\ n \in Nat /\ Len(log') = Len(log) + n
    BY <1>9, CommitEffect
  <2>2. /\ pc' = "install" /\ readModel' = readModel /\ published' = published /\ base' = base
        /\ unpublished' = EventsAfter(Len(log), Len(log) + n)
    BY <1>9 DEF Commit
  <2>3. /\ Len(EventsAfter(Len(log), Len(log) + n)) = n
        /\ \A k \in DOMAIN EventsAfter(Len(log), Len(log) + n) :
              EventsAfter(Len(log), Len(log) + n)[k] = Len(log) + k
    <3>1. Len(log) + n \in Nat /\ Len(log) <= Len(log) + n /\ (Len(log) + n) - Len(log) = n
      BY <1>b, <2>1
    <3> QED
      BY <1>b, <3>1, EventsAfterCounts
  <2>4. Len(readModel) = Len(log) /\ base + Len(published) = Len(log)
    BY <1>9, <1>a DEF Commit, ReadModelTracksLog, BatchOnItsWay
  <2> QED
    BY <2>1, <2>2, <2>3, <2>4, <1>a DEF ReadModelTracksLog, BatchOnItsWay, PublishedSoFar
<1>10. CASE InstallReadModel
  <2>1. /\ pc = "install" /\ pc' = "publish" /\ log' = log /\ readModel' = readModel \o unpublished
        /\ UNCHANGED <<unpublished, published, base>>
    BY <1>10 DEF InstallReadModel
  <2>2. /\ \A k \in DOMAIN readModel : readModel[k] = 0 + k
        /\ \A k \in DOMAIN unpublished : unpublished[k] = 0 + Len(readModel) + k
        /\ Len(readModel) + Len(unpublished) = Len(log)
    BY <1>a, <1>b, <2>1 DEF ReadModelTracksLog, BatchOnItsWay
  <2>3. /\ \A k \in DOMAIN (readModel \o unpublished) : (readModel \o unpublished)[k] = 0 + k
        /\ Len(readModel \o unpublished) = Len(log)
    BY <1>b, <2>2, CountsOn
  <2>4. \A k \in DOMAIN (readModel \o unpublished) : (readModel \o unpublished)[k] = k
    BY <1>b, <2>3
  <2> QED
    BY <2>1, <2>3, <2>4, <1>a DEF ReadModelTracksLog, BatchOnItsWay, PublishedSoFar
<1>11. CASE PublishNext
  <2>1. /\ pc = "publish" /\ pc' = "publish" /\ log' = log /\ unpublished # << >>
        /\ published' = Append(published, Head(unpublished)) /\ unpublished' = Tail(unpublished)
        /\ UNCHANGED <<readModel, base>>
    BY <1>11 DEF PublishNext
  <2>2. /\ base + Len(published) + Len(unpublished) = Len(log)
        /\ \A k \in DOMAIN unpublished : unpublished[k] = base + Len(published) + k
    BY <1>a, <2>1 DEF BatchOnItsWay
  <2>3. Head(unpublished) = base + Len(published) + 1
    BY <1>b, <2>1, <2>2
  <2>4. /\ Len(Append(published, Head(unpublished))) = Len(published) + 1
        /\ \A k \in DOMAIN Append(published, Head(unpublished)) :
              Append(published, Head(unpublished))[k] = base + k
    <3> DEFINE h == Head(unpublished)
    <3>1. h \in Nat
      BY <1>b, <2>3
    <3>2. h = base + Len(published) + 1
      BY <2>3
    <3> HIDE DEF h
    <3>3. /\ Len(Append(published, h)) = Len(published) + 1
          /\ DOMAIN Append(published, h) = 1..(Len(published) + 1)
          /\ \A k \in 1..Len(published) : Append(published, h)[k] = published[k]
          /\ Append(published, h)[Len(published) + 1] = h
      BY <1>b, <3>1
    <3>4. \A k \in 1..(Len(published) + 1) : k \in 1..Len(published) \/ k = Len(published) + 1
      BY <1>b
    <3>5. \A k \in 1..Len(published) : published[k] = base + k
      BY <1>a, <1>b DEF PublishedSoFar
    <3>6. h = base + (Len(published) + 1)
      BY <1>b, <3>2
    <3>7. \A k \in DOMAIN Append(published, h) : Append(published, h)[k] = base + k
      BY <3>3, <3>4, <3>5, <3>6
    <3> QED
      BY <3>3, <3>7 DEF h
  <2>5. /\ Len(Tail(unpublished)) = Len(unpublished) - 1
        /\ \A k \in DOMAIN Tail(unpublished) :
              Tail(unpublished)[k] = base + (Len(published) + 1) + k
    <3>1. /\ Len(Tail(unpublished)) = Len(unpublished) - 1
          /\ DOMAIN Tail(unpublished) = 1..(Len(unpublished) - 1)
          /\ \A k \in 1..(Len(unpublished) - 1) : Tail(unpublished)[k] = unpublished[k + 1]
      BY <1>b, <2>1
    <3>2. \A k \in 1..(Len(unpublished) - 1) : k + 1 \in DOMAIN unpublished
      BY <1>b
    <3>3. \A k \in 1..(Len(unpublished) - 1) :
             base + Len(published) + (k + 1) = base + (Len(published) + 1) + k
      BY <1>b
    <3> QED
      BY <3>1, <3>2, <3>3, <2>2
  <2>6. base + (Len(published) + 1) + (Len(unpublished) - 1) = Len(log)
    <3>1. base \in Nat /\ Len(published) \in Nat /\ Len(unpublished) \in Nat
      BY <1>b
    <3>2. base + Len(published) + Len(unpublished) = Len(log)
      BY <2>2
    <3> QED
      BY <3>1, <3>2
  <2>7. ReadModelTracksLog'
    BY <2>1, <1>a DEF ReadModelTracksLog
  <2>8. PublishedSoFar'
    BY <2>1, <2>4 DEF PublishedSoFar
  <2>9. BatchOnItsWay'
    BY <2>1, <2>4, <2>5, <2>6 DEF BatchOnItsWay
  <2> QED
    BY <2>7, <2>8, <2>9
<1>12. CASE PublishDone
  <2>1. base + Len(published) = Len(log)
    BY <1>12, <1>a, <1>b DEF PublishDone, BatchOnItsWay
  <2> QED
    BY <1>12, <2>1, <1>a DEF PublishDone, ReadModelTracksLog, BatchOnItsWay, PublishedSoFar
\* The reconciliation after a failure finds nothing: the failed transaction left no event.
<1>13. CASE ReconcileFailure
  <2>1. start = Len(log)
    BY <1>13, <1>a DEF ReconcileFailure, WorkerKnowledge
  <2>2. Len(EventsAfter(start, Len(log))) = 0 /\ EventsAfter(start, Len(log)) \in Seq(Nat)
    BY <1>b, <2>1, EventsAfterCounts
  <2>3. EventsAfter(start, Len(log)) = << >>
    BY <2>2
  <2>4. readModel \o << >> = readModel /\ published \o << >> = published
    BY <1>b
  <2>5. readModel' = readModel /\ published' = published
    BY <1>13, <2>3, <2>4 DEF ReconcileFailure, Reconciled
  <2> QED
    BY <1>13, <1>2, <2>5 DEF ReconcileFailure, AfterReconcile, Rest
<1>14. CASE UNCHANGED vars
  BY <1>14, <1>1 DEF vars
<1> QED
  BY <1>3, <1>4, <1>5, <1>6, <1>7, <1>8, <1>9, <1>10, <1>11, <1>12, <1>13, <1>14
     DEF Next, Startup, Process

-----------------------------------------------------------------------------
(* The theorems                                                            *)

LEMMA IndInit == Init => IndInv
<1> SUFFICES ASSUME Init PROVE IndInv
  OBVIOUS
<1>1. TypeOK /\ QueueRoom /\ EnvelopesAnswerTheirCalls
  BY TypeInit, QueueRoomInit, AnswersInit
<1>2. WorkerKnowledge /\ BatchOnItsWay
  BY DEF Init, WorkerKnowledge, BatchOnItsWay
<1>3. ReceiptMatchesLog
  BY DEF Init, LegacyReceipts, NoReceipt, ReceiptMatchesLog
<1>4. AtMostOnce /\ ReadModelTracksLog /\ \A k \in DOMAIN published : published[k] = base + k
  BY DEF Init, AtMostOnce, ReadModelTracksLog
<1>5. OutcomeIsDurable
  BY DEF Init, NoReply, OutcomeIsDurable
<1> QED
  BY <1>1, <1>2, <1>3, <1>4, <1>5 DEF IndInv

LEMMA IndStep == IndInv /\ [Next]_vars => IndInv'
<1> SUFFICES ASSUME IndInv, [Next]_vars PROVE IndInv'
  OBVIOUS
<1>1. TypeOK' /\ QueueRoom' /\ EnvelopesAnswerTheirCalls'
  BY TypeStep, QueueRoomStep, AnswersStep DEF IndInv
<1>2. ReceiptMatchesLog' /\ AtMostOnce' /\ WorkerKnowledge' /\ OutcomeIsDurable'
  BY LedgerStep, KnowledgeStep, OutcomeStep
<1>3. ReadModelTracksLog' /\ BatchOnItsWay' /\ PublishedSoFar'
  BY FollowStep
<1> QED
  BY <1>1, <1>2, <1>3 DEF IndInv, PublishedSoFar

LEMMA Inductive == Spec => []IndInv
  BY IndInit, IndStep, PTL DEF Spec

\* Retries, duplicate envelopes and crashes never commit a command's events twice.
THEOREM AtMostOnceHolds == Spec => []AtMostOnce
<1>1. IndInv => AtMostOnce
  BY DEF IndInv
<1> QED
  BY <1>1, Inductive, PTL

\* Log, claims and receipts agree after every step, hence also after every crash.
THEOREM ReceiptsMatchLog == Spec => []ReceiptMatchesLog
<1>1. IndInv => ReceiptMatchesLog
  BY DEF IndInv
<1> QED
  BY <1>1, Inductive, PTL

\* A caller told accepted or rejected was told what is and stays on disk.
THEOREM OutcomesAreDurable == Spec => []OutcomeIsDurable
<1>1. IndInv => OutcomeIsDurable
  BY DEF IndInv
<1> QED
  BY <1>1, Inductive, PTL

\* The read model is the projection of the log, each event once and in order.
THEOREM ReadModelFollowsLog == Spec => []ReadModelTracksLog
<1>1. IndInv => ReadModelTracksLog
  BY DEF IndInv
<1> QED
  BY <1>1, Inductive, PTL

\* Publication neither reorders, repeats, invents nor forgets a committed event.
THEOREM PublicationFollowsLog == Spec => []PublishedInOrder
<1>1. IndInv => PublishedInOrder
  <2> SUFFICES ASSUME IndInv PROVE PublishedInOrder
    OBVIOUS
  <2>1. base \in Nat /\ Len(published) \in Nat /\ Len(unpublished) \in Nat /\ Len(log) \in Nat
    BY DEF IndInv, TypeOK
  <2>2. BatchOnItsWay /\ \A k \in DOMAIN published : published[k] = base + k
    BY DEF IndInv
  <2> QED
    BY <2>1, <2>2 DEF PublishedInOrder, BatchOnItsWay
<1> QED
  BY <1>1, Inductive, PTL

\* No step rewrites an accepted receipt or revives a rejected command.
THEOREM SettledIsFinal == Spec => ReceiptsAreFinal
<1> DEFINE Final == \A i \in Ids :
       /\ receipts[i].status = "accepted" => receipts'[i] = receipts[i]
       /\ receipts[i].status = "rejected" => receipts'[i].status = "rejected"
<1>1. IndInv /\ [Next]_vars => [Final]_vars
  <2> SUFFICES ASSUME IndInv, [Next]_vars PROVE Final
    OBVIOUS
  <2>a. receipts \in [Ids -> Receipt]
    BY DEF IndInv, TypeOK
  <2>1. CASE UNCHANGED durable \/ ClaimOrInspect
    <3>1. receipts' = receipts
      BY <2>1 DEF durable, ClaimOrInspect
    <3> QED
      BY <3>1
  <2>2. ASSUME NEW n \in 0..MaxEvents, Commit(n) PROVE Final
    <3>1. /\ receipts[env.id].status = "none"
          /\ receipts' = [receipts EXCEPT ![env.id] =
                [status |-> "accepted", digest |-> env.digest, seq |-> Len(log) + n]]
      BY <2>2, CommitEffect
    <3> QED
      BY <3>1, <2>a
  <2>3. CASE PersistRejected
    <3>1. \/ receipts' = receipts
          \/ /\ receipts[env.id].status # "accepted"
             /\ receipts' = [receipts EXCEPT ![env.id] =
                   [status |-> "rejected", digest |-> env.digest, seq |-> Len(log)]]
      BY <2>3, RejectEffect
    <3> QED
      BY <3>1, <2>a
  <2> QED
    BY <2>1, <2>2, <2>3, DurableFrame
<1> QED
  BY <1>1, Inductive, PTL DEF Spec, ReceiptsAreFinal

-----------------------------------------------------------------------------
(* Read your own write                                                     *)

\* A dispatch is answered with the revision it was answered for, an outcome query with
\* one that is not behind.
LEMMA ReplyFrame ==
    ASSUME TypeOK, [Next]_vars, NEW c \in Calls
    PROVE  \/ reply'[c] = reply[c]
           \/ reply'[c].status = "accepted" => reply'[c].revision >= reply'[c].seq
<1> USE DEF durable, worker, callers
<1>a. reply \in [Calls -> Reply] /\ receipts \in [Ids -> Receipt] /\ SnapshotSequence \in Nat
  BY SnapshotType DEF TypeOK
<1>b. \A st, s : Told(st, s).revision = s /\ Told(st, s).seq = s
  BY DEF Told
<1>c. \A e, st : \A s \in Nat : reply' = Settled(e, Told(st, s)) =>
         reply'[c] = reply[c] \/ reply'[c].revision >= reply'[c].seq
  BY <1>a, <1>b DEF Settled
<1>1. CASE reply' = reply
  BY <1>1
<1>2. ASSUME NEW d \in Calls, NEW i \in ClientIds, GetCommandOutcome(d, i)
      PROVE  reply'[c] = reply[c] \/ reply'[c].revision >= reply'[c].seq
  <2>1. receipts[i].seq \in Nat
    BY <1>a DEF Ids, Receipt
  <2> DEFINE status == IF receipts[i].status = "none" THEN "unknown" ELSE receipts[i].status
             revision == IF receipts[i].seq > SnapshotSequence
                         THEN receipts[i].seq ELSE SnapshotSequence
  <2>2. revision >= receipts[i].seq
    BY <1>a, <2>1
  <2>3. reply' = [reply EXCEPT ![d] =
                    [status |-> status, seq |-> receipts[i].seq, revision |-> revision]]
    BY <1>2 DEF GetCommandOutcome
  <2> HIDE DEF status, revision
  <2> QED
    BY <1>a, <2>2, <2>3
<1>3. CASE \E d \in Calls : \/ \E i \in ClientIds, p \in Payloads : Dispatch(d, i, p)
                            \/ DeadlineExceeded(d)
  <2>1. PICK d \in Calls, st \in {"overloaded", "pending", "deadline"} :
           reply' = [reply EXCEPT ![d] = Told(st, 0)]
    BY <1>3 DEF Dispatch, DeadlineExceeded
  <2> QED
    BY <1>a, <1>b, <2>1
<1>4. CASE Crash
  BY <1>4, <1>a, <1>b DEF Crash
<1>5. CASE Startup
  BY <1>5, <1>1 DEF Startup, Start, OfferRecovery, ForkWorker
<1>6. CASE \/ PreflightOperationalFailure \/ ClaimOrInspect \/ PersistRejectedFailure
           \/ ReconcileFailure
  BY <1>6, <1>1, <1>c DEF PreflightOperationalFailure, ClaimOrInspect, PersistRejectedFailure,
     ReconcileFailure, AfterReconcile
<1>7. CASE SettleAccepted
  BY <1>7, <1>c DEF SettleAccepted, TypeOK
<1>8. CASE ReadBack
  <2>1. receipts[env.id].seq \in Nat
    BY <1>a DEF TypeOK, Envelope, Receipt
  <2> QED
    BY <1>8, <1>c, <2>1 DEF ReadBack
<1>9. CASE \/ Take \/ PreflightRefused \/ PreflightPassed \/ StorageFailure \/ DecideRefused
           \/ (\E n \in 0..MaxEvents : Commit(n)) \/ InstallReadModel \/ PublishNext \/ PublishDone
           \/ NoFlush \/ (\E i \in FlushIds : OfferFlush(i)) \/ PersistRejected
  BY <1>9, <1>1 DEF Take, PreflightRefused, PreflightPassed, StorageFailure, DecideRefused,
     Commit, InstallReadModel, PublishNext, PublishDone, NoFlush, OfferFlush, PersistRejected
<1>10. CASE UNCHANGED vars
  BY <1>10, <1>1 DEF vars
<1> QED
  BY <1>1, <1>2, <1>3, <1>4, <1>5, <1>6, <1>7, <1>8, <1>9, <1>10 DEF Next, Caller, Process

\* While a committed batch waits to be installed, no call is told of it by its dispatch.
LEMMA CoveredStep == IndInv /\ AcceptedIsCovered /\ [Next]_vars => AcceptedIsCovered'
<1> SUFFICES ASSUME IndInv, AcceptedIsCovered, [Next]_vars, NEW c \in Calls,
                    reply'[c].status = "accepted"
             PROVE  /\ reply'[c].revision >= reply'[c].seq
                    /\ Serving' /\ req'[c].kind = "dispatch"
                          => SnapshotSequence' >= reply'[c].seq
  BY DEF AcceptedIsCovered
<1> USE DEF durable, worker, callers
<1>1. TypeOK /\ IndInv' /\ TypeOK'
  BY IndStep DEF IndInv
<1>a. reply \in [Calls -> Reply] /\ req \in [Calls -> Request] /\ req' \in [Calls -> Request]
  BY <1>1 DEF TypeOK
<1>2. reply'[c].revision >= reply'[c].seq
  BY <1>1, ReplyFrame DEF AcceptedIsCovered
<1>3. CASE pc' \notin {"down", "install"}
  <2>1. SnapshotSequence' = Len(log)' /\ Len(log)' \in Nat
    <3>1. /\ readModel' \in Seq(Nat) /\ log' \in Seq(Event)
          /\ Len(readModel') = Len(log')
          /\ \A k \in DOMAIN readModel' : readModel'[k] = k
      BY <1>1, <1>3 DEF IndInv, TypeOK, ReadModelTracksLog
    <3>2. CASE readModel' = << >>
      BY <3>1, <3>2 DEF SnapshotSequence
    <3>3. CASE readModel' # << >>
      <4>1. Len(readModel') \in DOMAIN readModel'
        BY <3>1, <3>3
      <4> QED
        BY <3>1, <3>3, <4>1 DEF SnapshotSequence
    <3> QED
      BY <3>2, <3>3
  <2>2. req'[c].id \in Ids
    BY <1>1 DEF TypeOK, Request
  <2>3. reply'[c].seq = receipts'[req'[c].id].seq /\ receipts'[req'[c].id].seq <= Len(log)'
    BY <1>1, <2>2 DEF IndInv, OutcomeIsDurable, ReceiptMatchesLog
  <2> QED
    BY <1>2, <2>1, <2>3
<1>4. CASE pc' = "down"
  BY <1>2, <1>4 DEF Serving
<1>5. CASE pc' = "install"
  <2> DEFINE Untold == /\ UNCHANGED readModel /\ Serving
                       /\ (req'[c] = req[c] /\ reply'[c] = reply[c]) \/ req'[c].kind # "dispatch"
  <2>1. ASSUME NEW n \in 0..MaxEvents, Commit(n) PROVE Untold
    BY <2>1 DEF Commit, Serving
  <2>2. ASSUME NEW d \in Calls, NEW i \in ClientIds, NEW p \in Payloads, Dispatch(d, i, p)
        PROVE  Untold
    BY <1>a, <2>2 DEF Dispatch, Told
  <2>3. ASSUME NEW d \in Calls, DeadlineExceeded(d) PROVE Untold
    BY <1>a, <2>3 DEF DeadlineExceeded, Told
  <2>4. ASSUME NEW d \in Calls, NEW i \in ClientIds, GetCommandOutcome(d, i) PROVE Untold
    BY <1>a, <2>4 DEF GetCommandOutcome
  <2>5. ASSUME UNCHANGED vars PROVE Untold
    <3>1. readModel' = readModel /\ pc' = pc /\ req' = req /\ reply' = reply
      BY <2>5 DEF vars
    <3> QED
      BY <1>5, <3>1 DEF Serving
  <2>6. ~(Startup \/ Crash)
    BY <1>5 DEF Startup, Start, OfferRecovery, ForkWorker, Crash
  <2>7. Process => \E n \in 0..MaxEvents : Commit(n)
    BY <1>5 DEF Process, Take, PreflightOperationalFailure, PreflightRefused, PreflightPassed,
       ClaimOrInspect, StorageFailure, DecideRefused, InstallReadModel, PublishNext, PublishDone,
       SettleAccepted, NoFlush, OfferFlush, ReconcileFailure, AfterReconcile, PersistRejected,
       ReadBack, PersistRejectedFailure, Rest
  <2>8. Untold
    <3> HIDE DEF Untold
    <3>1. Caller \/ Process \/ UNCHANGED vars
      BY <2>6 DEF Next
    <3>2. CASE Caller
      BY <3>2, <2>2, <2>3, <2>4 DEF Caller
    <3> QED
      BY <3>1, <3>2, <2>1, <2>5, <2>7
  <2> QED
    BY <1>2, <2>8 DEF AcceptedIsCovered, SnapshotSequence
<1> QED
  BY <1>3, <1>4, <1>5

\* Whoever is told that a command was accepted can read a revision at which it is: a caller
\* that waited for its dispatch already in the read model of the process that told it.
THEOREM AcceptedIsReadable == Spec => []AcceptedIsCovered
<1>1. Init => AcceptedIsCovered
  BY DEF Init, NoReply, AcceptedIsCovered
<1> QED
  BY <1>1, CoveredStep, Inductive, PTL DEF Spec

-----------------------------------------------------------------------------
(* The engine implements the ledger                                        *)

\* What the ledger sees of the durable state.
LedgerLog == [s \in DOMAIN log |-> [id |-> log[s].id, n |-> log[s].n]]
LedgerOutcome ==
    [i \in Ids |-> [status |-> receipts[i].status,
                    seq |-> IF receipts[i].status = "accepted" THEN receipts[i].seq ELSE 0]]
LedgerEvent == [id : Ids, n : Nat]

\* Hiding the digests keeps the log's length and order.
LEMMA LedgerLogType ==
    ASSUME NEW l \in Seq(Event), NEW m, m = [s \in DOMAIN l |-> [id |-> l[s].id, n |-> l[s].n]]
    PROVE  /\ m \in Seq(LedgerEvent) /\ Len(m) = Len(l)
           /\ \A s \in 1..Len(l) : m[s] = [id |-> l[s].id, n |-> l[s].n]
<1>1. Len(l) \in Nat /\ DOMAIN l = 1..Len(l) /\ \A s \in 1..Len(l) : l[s] \in Event
  OBVIOUS
<1>2. \A s \in 1..Len(l) : [id |-> l[s].id, n |-> l[s].n] \in LedgerEvent
  BY <1>1 DEF Event, LedgerEvent
<1>3. m = [s \in 1..Len(l) |-> [id |-> l[s].id, n |-> l[s].n]]
  BY <1>1
<1> QED
  BY <1>1, <1>2, <1>3

\* A sequence that starts as one and goes on as another is their concatenation.
LEMMA Appended ==
    ASSUME NEW S, NEW a \in Seq(S), NEW b \in Seq(S), NEW c \in Seq(S),
           Len(c) = Len(a) + Len(b),
           \A s \in 1..Len(a) : c[s] = a[s],
           \A k \in 1..Len(b) : c[Len(a) + k] = b[k]
    PROVE  c = a \o b
<1>1. /\ a \o b \in Seq(S) /\ Len(a \o b) = Len(a) + Len(b)
      /\ \A s \in 1..(Len(a) + Len(b)) :
            (a \o b)[s] = IF s <= Len(a) THEN a[s] ELSE b[s - Len(a)]
  BY ConcatProperties
<1>2. ASSUME NEW s \in 1..(Len(a) + Len(b)) PROVE c[s] = (a \o b)[s]
  <2>1. CASE s <= Len(a)
    BY <1>1, <2>1
  <2>2. CASE s > Len(a)
    <3>1. s - Len(a) \in 1..Len(b) /\ Len(a) + (s - Len(a)) = s
      BY <2>2
    <3>2. c[Len(a) + (s - Len(a))] = b[s - Len(a)]
      BY <3>1
    <3> QED
      BY <1>1, <2>2, <3>1, <3>2
  <2> QED
    BY <2>1, <2>2
<1> QED
  BY <1>1, <1>2, SeqEqual

\* A commit appends the command's batch to the ledger and settles the command, once.
LEMMA CommitAccepts ==
    ASSUME IndInv, NEW n \in 0..MaxEvents, Commit(n), NEW i, i = env.id
    PROVE  i \in Ids /\ Ledger!Accept(i)
<1>1. /\ n \in Nat /\ env.id \in Ids /\ Len(log) \in Nat
      /\ log' = log \o Batch(env, n) /\ Len(log') = Len(log) + n
      /\ \A s \in 1..Len(log) : log'[s] = log[s]
      /\ \A s \in (Len(log) + 1)..(Len(log) + n) :
            log'[s] = [id |-> env.id, digest |-> env.digest, n |-> s - Len(log)]
      /\ receipts[env.id].status = "none"
      /\ receipts' = [receipts EXCEPT ![env.id] =
            [status |-> "accepted", digest |-> env.digest, seq |-> Len(log) + n]]
  BY CommitEffect
<1>2. log \in Seq(Event) /\ log' \in Seq(Event)
  BY TypeStep DEF IndInv, TypeOK, Next, Process
<1>3. /\ LedgerLog \in Seq(LedgerEvent) /\ Len(LedgerLog) = Len(log)
      /\ \A s \in 1..Len(log) : LedgerLog[s] = [id |-> log[s].id, n |-> log[s].n]
  BY <1>2, LedgerLogType DEF LedgerLog
<1>4. /\ LedgerLog' \in Seq(LedgerEvent) /\ Len(LedgerLog') = Len(log')
      /\ \A s \in 1..Len(log') : LedgerLog'[s] = [id |-> log'[s].id, n |-> log'[s].n]
  BY <1>2, LedgerLogType DEF LedgerLog
<1> DEFINE batch == [k \in 1..n |-> [id |-> env.id, n |-> k]]
<1>5. batch \in Seq(LedgerEvent) /\ Len(batch) = n /\ \A k \in 1..n : batch[k] = [id |-> env.id, n |-> k]
  BY <1>1 DEF LedgerEvent
<1> HIDE DEF batch
<1>6. LedgerLog' = LedgerLog \o batch
  <2>1. ASSUME NEW s \in 1..Len(log) PROVE LedgerLog'[s] = LedgerLog[s]
    <3>1. s \in 1..Len(log')
      BY <1>1
    <3> QED
      BY <3>1, <1>1, <1>3, <1>4
  <2>2. ASSUME NEW k \in 1..n PROVE LedgerLog'[Len(log) + k] = batch[k]
    <3>1. /\ Len(log) + k \in 1..Len(log') /\ (Len(log) + k) - Len(log) = k
          /\ Len(log) + k \in (Len(log) + 1)..(Len(log) + n)
      BY <1>1
    <3>2. log'[Len(log) + k] = [id |-> env.id, digest |-> env.digest, n |-> k]
      BY <3>1, <1>1
    <3>3. LedgerLog'[Len(log) + k] = [id |-> env.id, n |-> k]
      BY <3>1, <3>2, <1>4
    <3> QED
      BY <3>3, <1>5
  <2>3. /\ Len(LedgerLog') = Len(LedgerLog) + Len(batch)
        /\ \A s \in 1..Len(LedgerLog) : LedgerLog'[s] = LedgerLog[s]
        /\ \A k \in 1..Len(batch) : LedgerLog'[Len(LedgerLog) + k] = batch[k]
    BY <2>1, <2>2, <1>1, <1>3, <1>4, <1>5
  <2>4. /\ LedgerLog \in Seq(LedgerEvent) /\ batch \in Seq(LedgerEvent)
        /\ LedgerLog' \in Seq(LedgerEvent)
    BY <1>3, <1>4, <1>5
  <2> QED
    BY <2>3, <2>4, Appended
<1>7. LedgerOutcome' = [LedgerOutcome EXCEPT ![env.id] =
                           [status |-> "accepted", seq |-> Len(LedgerLog) + n]]
  BY <1>1, <1>3 DEF LedgerOutcome, IndInv, TypeOK
<1>8. LedgerOutcome[env.id].status = "none"
  BY <1>1 DEF LedgerOutcome
<1> QED
  <2>1. i = env.id /\ i \in Ids
    BY <1>1
  <2>2. batch = Ledger!BatchOf(i, n)
    BY <2>1 DEF batch, Ledger!BatchOf
  <2> QED
    BY <1>6, <1>7, <1>8, <2>1, <2>2 DEF LedgerLog, LedgerOutcome, Ledger!Accept

\* A recorded refusal settles an unsettled command and revises no settled one.
LEMMA RefusalRejects ==
    ASSUME IndInv, PersistRejected, NEW i, i = env.id
    PROVE  i \in Ids /\ (Ledger!Reject(i) \/ UNCHANGED Ledger!ledgerVars)
<1>1. /\ env.id \in Ids /\ log' = log
      /\ \/ receipts[env.id].status = "accepted" /\ receipts' = receipts
         \/ /\ receipts[env.id].status # "accepted"
            /\ receipts' = [receipts EXCEPT ![env.id] =
                  [status |-> "rejected", digest |-> env.digest, seq |-> Len(log)]]
  BY RejectEffect
<1>2. LedgerLog' = LedgerLog
  BY <1>1 DEF LedgerLog
<1>3. receipts \in [Ids -> Receipt] /\ receipts[env.id].status \in {"none", "accepted", "rejected"}
  BY <1>1 DEF IndInv, TypeOK, Receipt
<1>4. CASE receipts[env.id].status = "none"
  <2>1. LedgerOutcome' = [LedgerOutcome EXCEPT ![env.id] = [status |-> "rejected", seq |-> 0]]
    <3> DEFINE row == [status |-> "rejected", digest |-> env.digest, seq |-> Len(log)]
    <3>1. receipts' = [receipts EXCEPT ![env.id] = row]
      BY <1>1, <1>4
    <3>2. /\ receipts'[env.id] = row
          /\ \A j \in Ids : j # env.id => receipts'[j] = receipts[j]
      BY <1>1, <1>3, <3>1
    <3>3. ASSUME NEW j \in Ids
          PROVE  [status |-> receipts'[j].status,
                  seq |-> IF receipts'[j].status = "accepted" THEN receipts'[j].seq ELSE 0]
                 = IF j = env.id THEN [status |-> "rejected", seq |-> 0] ELSE LedgerOutcome[j]
      BY <3>2 DEF LedgerOutcome
    <3> QED
      BY <3>3, <1>1 DEF LedgerOutcome
  <2>2. LedgerOutcome[env.id].status = "none"
    BY <1>1, <1>4 DEF LedgerOutcome
  <2> QED
    BY <1>1, <1>2, <2>1, <2>2 DEF LedgerLog, LedgerOutcome, Ledger!Reject
<1>5. CASE receipts[env.id].status # "none"
  <2>1. LedgerOutcome' = LedgerOutcome
    BY <1>1, <1>3, <1>5 DEF LedgerOutcome
  <2> QED
    BY <1>1, <1>2, <2>1 DEF LedgerLog, LedgerOutcome, Ledger!ledgerVars
<1> QED
  BY <1>4, <1>5

\* Whatever the queue, the worker, a retry or a crash does: a caller that sees only the log
\* and the receipts sees an ID settled at most once, together with its whole batch.
THEOREM LedgerRefinement == Spec => ImplementsLedger
<1>1. Init => Ledger!LedgerInit
  <2> SUFFICES ASSUME Init PROVE Ledger!LedgerInit
    OBVIOUS
  <2>1. LedgerLog = << >>
    BY DEF Init, LedgerLog
  <2>2. \A i \in Ids : receipts[i].status \in {"none", "accepted", "rejected"} /\ receipts[i].seq = 0
    <3>1. \A i \in Ids : receipts[i] \in LegacyReceipts
      BY DEF Init
    <3> QED
      BY <3>1 DEF LegacyReceipts, NoReceipt
  <2>3. LedgerOutcome \in [Ids -> [status : {"none", "accepted", "rejected"}, seq : {0}]]
    BY <2>2 DEF LedgerOutcome
  <2> QED
    BY <2>1, <2>3 DEF LedgerLog, LedgerOutcome, Ledger!LedgerInit
<1>2. IndInv /\ [Next]_vars => [Ledger!LedgerNext]_(Ledger!ledgerVars)
  <2> SUFFICES ASSUME IndInv, [Next]_vars
               PROVE  Ledger!LedgerNext \/ UNCHANGED Ledger!ledgerVars
    OBVIOUS
  <2>1. CASE UNCHANGED durable \/ ClaimOrInspect
    <3>1. log' = log /\ receipts' = receipts
      BY <2>1 DEF durable, ClaimOrInspect
    <3> QED
      BY <3>1 DEF Ledger!ledgerVars
  <2>2. CASE \E n \in 0..MaxEvents : Commit(n)
    <3>1. PICK n \in 0..MaxEvents : Commit(n)
      BY <2>2
    <3>2. PICK i : i = env.id
      OBVIOUS
    <3>3. i \in Ids /\ Ledger!Accept(i)
      BY <3>1, <3>2, CommitAccepts
    <3> QED
      BY <3>3 DEF Ledger!LedgerNext
  <2>3. CASE PersistRejected
    <3>1. PICK i : i = env.id
      OBVIOUS
    <3>2. i \in Ids /\ (Ledger!Reject(i) \/ UNCHANGED Ledger!ledgerVars)
      BY <2>3, <3>1, RefusalRejects
    <3> QED
      BY <3>2 DEF Ledger!LedgerNext
  <2> QED
    BY <2>1, <2>2, <2>3, DurableFrame
<1> QED
  BY <1>1, <1>2, Inductive, PTL DEF Spec, Ledger!LedgerSpec, ImplementsLedger
=============================================================================
