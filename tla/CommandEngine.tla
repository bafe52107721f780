--------------------------- MODULE CommandEngine ---------------------------
(***************************************************************************)
(* The orchestration engine of the bigbud server: a bounded admission      *)
(* queue, one worker that turns a command into committed events and a      *)
(* durable receipt, and the callers that dispatch, time out, retry with    *)
(* the same command ID and ask for an outcome.  The server may crash       *)
(* between any two steps; SQLite (log, claims, receipts) survives, all     *)
(* else is rebuilt at startup.                                             *)
(*                                                                         *)
(* Data is abstracted to what the outcome of a command depends on: a       *)
(* command is its ID and the digest of its payload, an event is the        *)
(* command it belongs to and its place in that command's batch, and the    *)
(* read model is the sequence of event numbers projected onto it.  What    *)
(* the decider answers is a free choice between refusal and 0..MaxEvents   *)
(* events.                                                                 *)
(***************************************************************************)
EXTENDS Integers, Sequences

CONSTANTS
    Calls,          \* dispatch and outcome requests callers may make
    ClientIds,      \* command IDs chosen by callers
    FlushIds,       \* IDs of commands the server offers to itself
    Payloads,       \* canonical payload digests
    FlushPayload,   \* digest of the server's own commands
    NoPayload,      \* the NULL digest of a receipt written before digests
    NoCall,         \* the Deferred of an internal envelope: nobody awaits it
    LegacyIds,      \* IDs that may own a receipt without a digest at the start
    Capacity,       \* ORCHESTRATION_COMMAND_QUEUE_CAPACITY
    Reserved,       \* ORCHESTRATION_COMMAND_QUEUE_RESERVED_CAPACITY
    MaxEvents,      \* bound: events of one command
    MaxRecoveries,  \* bound: commands offered at one startup
    MaxCrashes      \* bound: crashes of the server

Ids == ClientIds \cup FlushIds
SomeFlush == CHOOSE i \in FlushIds : TRUE

ASSUME CapacityAssumption ==
    /\ Capacity \in Nat /\ Reserved \in Nat
    /\ 1 <= Reserved /\ Reserved <= Capacity
ASSUME RecoveryAssumption == MaxRecoveries \in Nat /\ MaxRecoveries <= Capacity
ASSUME BoundAssumption == MaxEvents \in Nat /\ MaxCrashes \in Nat
ASSUME PayloadAssumption == FlushPayload \in Payloads /\ NoPayload \notin Payloads
ASSUME FlushAssumption == FlushIds # {} /\ FlushIds \cap ClientIds = {}
ASSUME CallAssumption == NoCall \notin Calls
ASSUME LegacyAssumption == LegacyIds \subseteq ClientIds

VARIABLES
    log,        \* orchestration_events: log[s] is the event of sequence s
    claims,     \* orchestration_command_receipt_claims: ID -> digest
    receipts,   \* orchestration_command_receipts: ID -> row
    queue,      \* the admission queue
    recoveries, \* startup commands still to be offered
    pc,         \* where the server's worker is
    env,        \* the envelope the worker holds
    start,      \* dispatchStartSequence
    err,        \* the error the envelope is failing with
    result,     \* the sequence the caller will be told
    unpublished,\* committed events still to be handed to publishDomainEvent
    readModel,  \* event numbers projected onto the in-memory read model
    base,       \* startupSequence of this server process
    published,  \* event numbers published by this server process
    req,        \* what each call asked for
    reply,      \* what each call was told
    crashes     \* crashes so far

durable == <<log, claims, receipts>>
worker == <<pc, env, start, err, result, unpublished>>
callers == <<req, reply>>
vars == <<durable, queue, recoveries, worker, readModel, base, published, callers, crashes>>

-----------------------------------------------------------------------------
(* Types                                                                   *)

Envelope == [id : Ids, digest : Payloads, call : Calls \cup {NoCall}]
Event == [id : Ids, digest : Payloads, n : Nat]
Receipt == [status : {"none", "accepted", "rejected"},
            digest : Payloads \cup {NoPayload}, seq : Nat]
Request == [kind : {"none", "dispatch", "outcome"}, id : Ids, digest : Payloads]
ReplyStatus == {"none", "pending", "overloaded", "deadline", "lost", "unknown",
                "accepted", "rejected", "conflict", "failed"}
Reply == [status : ReplyStatus, seq : Nat, revision : Nat]
Pcs == {"down", "startup", "idle", "preflight", "claim", "decide", "install", "publish",
        "settle", "followup", "failing", "rejecting", "readback"}

NoReceipt == [status |-> "none", digest |-> NoPayload, seq |-> 0]
NoRequest == [kind |-> "none", id |-> SomeFlush, digest |-> FlushPayload]
NoReply == [status |-> "none", seq |-> 0, revision |-> 0]

TypeOK ==
    /\ log \in Seq(Event)
    /\ claims \in [Ids -> Payloads \cup {NoPayload}]
    /\ receipts \in [Ids -> Receipt]
    /\ queue \in Seq(Envelope)
    /\ recoveries \in Nat
    /\ pc \in Pcs
    /\ env \in Envelope
    /\ start \in Nat
    /\ err \in {"none", "invariant", "conflict", "operational"}
    /\ result \in Nat
    /\ unpublished \in Seq(Nat)
    /\ readModel \in Seq(Nat)
    /\ base \in Nat
    /\ published \in Seq(Nat)
    /\ req \in [Calls -> Request]
    /\ reply \in [Calls -> Reply]
    /\ crashes \in Nat

-----------------------------------------------------------------------------
(* Helpers                                                                 *)

\* The event numbers after a, up to and including b: readFromSequence(a).
EventsAfter(a, b) == [k \in 1..(b - a) |-> a + k]

\* readModel.snapshotSequence: the last event projected.
SnapshotSequence == IF readModel = << >> THEN 0 ELSE readModel[Len(readModel)]

\* The n events the decider produced for the envelope's command.
Batch(e, n) == [k \in 1..n |-> [id |-> e.id, digest |-> e.digest, n |-> k]]

\* Settle an envelope's Deferred.  A caller that stopped waiting does not see it.
Settled(e, r) ==
    IF e.call \in Calls /\ reply[e.call].status = "pending"
    THEN [reply EXCEPT ![e.call] = r]
    ELSE reply

Told(status, seq) == [status |-> status, seq |-> seq, revision |-> seq]

\* commandReceiptRepository.upsert: an accepted row is never overwritten.
Upsert(i, row) ==
    IF receipts[i].status = "accepted" THEN receipts ELSE [receipts EXCEPT ![i] = row]

\* claimOrInspect: the claim of an ID, after INSERT ... ON CONFLICT DO NOTHING.
ClaimOf(e) == IF claims[e.id] = NoPayload THEN e.digest ELSE claims[e.id]

\* Mutant: the receipt is not joined to the claim.
InspectedClaimOnly(e) == IF ClaimOf(e) = e.digest THEN "claimed" ELSE "conflict"

\* claimOrInspect: a receipt without a digest conflicts with everything; otherwise
\* the receipt's digest, or else the claim's, must be the envelope's.
InspectedStatus(e) ==
    LET row == receipts[e.id] IN
    IF row.status = "none"
    THEN IF ClaimOf(e) = e.digest THEN "claimed" ELSE "conflict"
    ELSE IF row.digest = e.digest THEN "existing" ELSE "conflict"

FlushEnvelope(i) == [id |-> i, digest |-> FlushPayload, call |-> NoCall]

\* The locals of one processing go out of scope.
ClearLocals ==
    /\ env' = FlushEnvelope(SomeFlush)
    /\ start' = 0 /\ err' = "none" /\ result' = 0 /\ unpublished' = << >>

Rest == pc' = "idle" /\ ClearLocals

-----------------------------------------------------------------------------
LegacyReceipts ==
    {NoReceipt} \cup [status : {"accepted", "rejected"}, digest : {NoPayload}, seq : {0}]

Init ==
    /\ log = << >>
    /\ claims = [i \in Ids |-> NoPayload]
    /\ receipts \in [Ids -> LegacyReceipts]
    /\ \A i \in Ids \ LegacyIds : receipts[i] = NoReceipt
    /\ queue = << >> /\ recoveries = 0
    /\ pc = "down"
    /\ env = FlushEnvelope(SomeFlush)
    /\ start = 0 /\ err = "none" /\ result = 0 /\ unpublished = << >>
    /\ readModel = << >> /\ base = 0 /\ published = << >>
    /\ req = [c \in Calls |-> NoRequest]
    /\ reply = [c \in Calls |-> NoReply]
    /\ crashes = 0

-----------------------------------------------------------------------------
(* Callers                                                                 *)

Serving == pc \notin {"down", "startup"}

\* Mutant: external commands may take the reserved slots.
OverloadedOnlyWhenFull == Len(queue) >= Capacity

\* offer of an external command fails when only the reserved slots are left.
Overloaded == Len(queue) >= Capacity - Reserved

\* dispatch: refused at once when only the reserved slots are left.
Dispatch(c, i, d) ==
    /\ Serving /\ req[c].kind = "none"
    /\ req' = [req EXCEPT ![c] = [kind |-> "dispatch", id |-> i, digest |-> d]]
    /\ IF Overloaded
       THEN /\ reply' = [reply EXCEPT ![c] = Told("overloaded", 0)]
            /\ UNCHANGED queue
       ELSE /\ reply' = [reply EXCEPT ![c] = Told("pending", 0)]
            /\ queue' = Append(queue, [id |-> i, digest |-> d, call |-> c])
    /\ UNCHANGED <<durable, recoveries, worker, readModel, base, published, crashes>>

\* withCommandAdmissionDeadline: the caller gives up, the envelope stays queued.
DeadlineExceeded(c) ==
    /\ Serving /\ reply[c].status = "pending"
    /\ reply' = [reply EXCEPT ![c] = Told("deadline", 0)]
    /\ UNCHANGED <<durable, queue, recoveries, worker, readModel, base, published, req, crashes>>

\* Mutant: the outcome carries the read model's revision as it is.
GetCommandOutcomeStaleRevision(c, i) ==
    /\ Serving /\ req[c].kind = "none"
    /\ req' = [req EXCEPT ![c] = [kind |-> "outcome", id |-> i, digest |-> FlushPayload]]
    /\ reply' = [reply EXCEPT ![c] =
                    [status |-> IF receipts[i].status = "none" THEN "unknown" ELSE receipts[i].status,
                     seq |-> receipts[i].seq, revision |-> SnapshotSequence]]
    /\ UNCHANGED <<durable, queue, recoveries, worker, readModel, base, published, crashes>>

\* getCommandOutcome: reads the receipt by ID at any moment of the worker's progress.
GetCommandOutcome(c, i) ==
    /\ Serving /\ req[c].kind = "none"
    /\ req' = [req EXCEPT ![c] = [kind |-> "outcome", id |-> i, digest |-> FlushPayload]]
    /\ LET row == receipts[i]
           status == IF row.status = "none" THEN "unknown" ELSE row.status
           revision == IF row.seq > SnapshotSequence THEN row.seq ELSE SnapshotSequence
       IN  reply' = [reply EXCEPT ![c] =
                        [status |-> status, seq |-> row.seq, revision |-> revision]]
    /\ UNCHANGED <<durable, queue, recoveries, worker, readModel, base, published, crashes>>

-----------------------------------------------------------------------------
(* The process: crash, startup                                             *)

\* Nothing in memory survives; a caller still waiting loses its connection.
Crash ==
    /\ pc # "down" /\ crashes < MaxCrashes
    /\ crashes' = crashes + 1
    /\ pc' = "down" /\ ClearLocals
    /\ queue' = << >> /\ recoveries' = 0
    /\ readModel' = << >> /\ published' = << >> /\ base' = 0
    /\ reply' = [c \in Calls |->
                    IF reply[c].status = "pending" THEN Told("lost", 0) ELSE reply[c]]
    /\ UNCHANGED <<durable, req>>

\* projectionPipeline.bootstrap, then the read model at the log's frontier.
Start ==
    /\ pc = "down" /\ pc' = "startup"
    /\ readModel' = EventsAfter(0, Len(log)) /\ base' = Len(log)
    /\ recoveries' \in 0..MaxRecoveries
    /\ UNCHANGED <<durable, queue, env, start, err, result, unpublished, published, callers, crashes>>

\* Orphaned turn starts and queued prompts are offered before the worker exists.
OfferRecovery(i) ==
    /\ pc = "startup" /\ recoveries > 0
    /\ Len(queue) < Capacity
    /\ queue' = Append(queue, FlushEnvelope(i)) /\ recoveries' = recoveries - 1
    /\ UNCHANGED <<durable, worker, readModel, base, published, callers, crashes>>

ForkWorker ==
    /\ pc = "startup" /\ recoveries = 0 /\ pc' = "idle"
    /\ UNCHANGED <<durable, queue, recoveries, env, start, err, result, unpublished,
                   readModel, base, published, callers, crashes>>

-----------------------------------------------------------------------------
(* The worker: one envelope at a time                                      *)

Take ==
    /\ pc = "idle" /\ queue # << >>
    /\ pc' = "preflight" /\ env' = Head(queue) /\ queue' = Tail(queue)
    /\ UNCHANGED <<durable, recoveries, start, err, result, unpublished, readModel, base,
                   published, callers, crashes>>

\* Mutant: the failure is logged and the Deferred forgotten.
PreflightFailureUnanswered ==
    /\ pc = "preflight" /\ Rest
    /\ UNCHANGED <<durable, queue, recoveries, readModel, base, published, callers, crashes>>

\* Hydration failed: the caller is told so and nothing is written.
PreflightOperationalFailure ==
    /\ pc = "preflight" /\ Rest
    /\ reply' = Settled(env, Told("failed", 0))
    /\ UNCHANGED <<durable, queue, recoveries, readModel, base, published, req, crashes>>

\* A deletion fence or a worktree reservation forbids the command: the refusal is
\* recorded without a look at the claim.
PreflightRefused ==
    /\ pc = "preflight" /\ pc' = "rejecting" /\ err' = "invariant"
    /\ UNCHANGED <<durable, queue, recoveries, env, start, result, unpublished, readModel,
                   base, published, callers, crashes>>

\* Mutant: dispatchStartSequence is never set.
PreflightPassedStaleStart ==
    /\ pc = "preflight" /\ pc' = "claim"
    /\ UNCHANGED <<durable, queue, recoveries, env, start, err, result, unpublished, readModel,
                   base, published, callers, crashes>>

PreflightPassed ==
    /\ pc = "preflight" /\ pc' = "claim" /\ start' = SnapshotSequence
    /\ UNCHANGED <<durable, queue, recoveries, env, err, result, unpublished, readModel, base,
                   published, callers, crashes>>

\* claimOrInspect ran in its own transaction; an existing outcome is told again.
ClaimOrInspect ==
    /\ pc = "claim"
    /\ claims' = [claims EXCEPT ![env.id] = ClaimOf(env)]
    /\ LET row == receipts[env.id] status == InspectedStatus(env) IN
       \/ /\ status = "claimed" /\ pc' = "decide"
          /\ UNCHANGED <<env, start, err, result, unpublished, reply>>
       \/ /\ status = "conflict" /\ pc' = "failing" /\ err' = "conflict"
          /\ UNCHANGED <<env, start, result, unpublished, reply>>
       \/ /\ status = "existing" /\ row.status = "accepted"
          /\ pc' = "settle" /\ result' = row.seq
          /\ UNCHANGED <<env, start, err, unpublished, reply>>
       \/ /\ status = "existing" /\ row.status = "rejected"
          /\ Rest /\ reply' = Settled(env, Told("rejected", 0))
    /\ UNCHANGED <<log, receipts, queue, recoveries, readModel, base, published, req, crashes>>

\* Mutant: an event appended outside the transaction survives its failure.
StorageFailureTorn ==
    /\ pc \in {"claim", "decide"} /\ pc' = "failing" /\ err' = "operational"
    /\ log' = log \o Batch(env, 1)
    /\ UNCHANGED <<claims, receipts, queue, recoveries, env, start, result, unpublished,
                   readModel, base, published, callers, crashes>>

\* The claim's own transaction, or the command's, failed and was rolled back.
StorageFailure ==
    /\ pc \in {"claim", "decide"} /\ pc' = "failing" /\ err' = "operational"
    /\ UNCHANGED <<durable, queue, recoveries, env, start, result, unpublished, readModel,
                   base, published, callers, crashes>>

\* decideOrchestrationCommand raised an invariant error, or a flush decided nothing.
DecideRefused ==
    /\ pc = "decide" /\ pc' = "failing" /\ err' = "invariant"
    /\ UNCHANGED <<durable, queue, recoveries, env, start, result, unpublished, readModel,
                   base, published, callers, crashes>>

\* Mutant: the receipt points before the batch.
CommitStaleSequence(n) ==
    /\ pc = "decide" /\ pc' = "install"
    /\ log' = log \o Batch(env, n)
    /\ receipts' = Upsert(env.id, [status |-> "accepted", digest |-> env.digest,
                                   seq |-> SnapshotSequence])
    /\ result' = SnapshotSequence
    /\ unpublished' = EventsAfter(Len(log), Len(log) + n)
    /\ UNCHANGED <<claims, queue, recoveries, env, start, err, readModel, base, published,
                   callers, crashes>>

\* One transaction appends the events, projects them and writes the receipt.
Commit(n) ==
    /\ pc = "decide" /\ pc' = "install"
    /\ LET last == IF n = 0 THEN SnapshotSequence ELSE Len(log) + n IN
       /\ log' = log \o Batch(env, n)
       /\ receipts' = Upsert(env.id, [status |-> "accepted", digest |-> env.digest, seq |-> last])
       /\ result' = last
       /\ unpublished' = EventsAfter(Len(log), Len(log) + n)
    /\ UNCHANGED <<claims, queue, recoveries, env, start, err, readModel, base, published,
                   callers, crashes>>

\* setReadModel with the model computed inside the transaction.
InstallReadModel ==
    /\ pc = "install" /\ pc' = "publish"
    /\ readModel' = readModel \o unpublished
    /\ UNCHANGED <<durable, queue, recoveries, env, start, err, result, unpublished, base,
                   published, callers, crashes>>

PublishNext ==
    /\ pc = "publish" /\ unpublished # << >>
    /\ published' = Append(published, Head(unpublished))
    /\ unpublished' = Tail(unpublished)
    /\ UNCHANGED <<durable, queue, recoveries, pc, env, start, err, result, readModel, base,
                   callers, crashes>>

\* Mutant: only the first event of a batch is published.
PublishDoneEarly ==
    /\ pc = "publish" /\ pc' = "settle" /\ unpublished' = << >>
    /\ UNCHANGED <<durable, queue, recoveries, env, start, err, result, readModel, base,
                   published, callers, crashes>>

PublishDone ==
    /\ pc = "publish" /\ unpublished = << >> /\ pc' = "settle"
    /\ UNCHANGED <<durable, queue, recoveries, env, start, err, result, unpublished, readModel,
                   base, published, callers, crashes>>

SettleAccepted ==
    /\ pc = "settle" /\ pc' = "followup"
    /\ reply' = Settled(env, Told("accepted", result))
    /\ UNCHANGED <<durable, queue, recoveries, env, start, err, result, unpublished, readModel,
                   base, published, req, crashes>>

\* A lifecycle command may wake the thread's prompt queue.  The worker is the queue's
\* only consumer, so it must never wait for room here.
OfferFlush(i) ==
    /\ pc = "followup" /\ Rest
    /\ Len(queue) < Capacity
    /\ queue' = Append(queue, FlushEnvelope(i))
    /\ UNCHANGED <<durable, recoveries, readModel, base, published, callers, crashes>>

NoFlush ==
    /\ pc = "followup" /\ Rest
    /\ UNCHANGED <<durable, queue, recoveries, readModel, base, published, callers, crashes>>

\* reconcileReadModelAfterDispatchFailure: events past dispatchStartSequence are
\* projected and published; a read error is only logged.
Reconciled(found) ==
    /\ readModel' = readModel \o found
    /\ published' = published \o found

AfterReconcile ==
    \/ /\ err = "invariant" /\ pc' = "rejecting"
       /\ UNCHANGED <<env, start, err, result, unpublished, reply>>
    \/ /\ err # "invariant" /\ Rest
       /\ reply' = Settled(env, Told(IF err = "conflict" THEN "conflict" ELSE "failed", 0))

ReconcileFailure ==
    /\ pc = "failing"
    /\ Reconciled(EventsAfter(start, Len(log))) \/ Reconciled(<< >>)
    /\ AfterReconcile
    /\ UNCHANGED <<durable, queue, recoveries, base, req, crashes>>

\* persistRejectedCommandReceipt: the refusal is written, unless the row is accepted ...
PersistRejected ==
    /\ pc = "rejecting" /\ pc' = "readback"
    /\ receipts' = Upsert(env.id, [status |-> "rejected", digest |-> env.digest,
                                   seq |-> SnapshotSequence])
    /\ UNCHANGED <<log, claims, queue, recoveries, env, start, err, result, unpublished,
                   readModel, base, published, callers, crashes>>

\* ... and the caller is told what the row read back by ID says.
ReadBack ==
    /\ pc = "readback" /\ Rest
    /\ reply' = Settled(env, IF receipts[env.id].status = "accepted"
                               THEN Told("accepted", receipts[env.id].seq)
                               ELSE Told("rejected", 0))
    /\ UNCHANGED <<durable, queue, recoveries, readModel, base, published, req, crashes>>

\* Mutant: the refusal is told although its receipt was not written.
PersistRejectedFailureTold ==
    /\ pc \in {"rejecting", "readback"} /\ Rest
    /\ reply' = Settled(env, Told("rejected", 0))
    /\ UNCHANGED <<durable, queue, recoveries, readModel, base, published, req, crashes>>

\* The write or the read failed: the outcome is unknown to the caller.
PersistRejectedFailure ==
    /\ pc \in {"rejecting", "readback"} /\ Rest
    /\ reply' = Settled(env, Told("failed", 0))
    /\ UNCHANGED <<durable, queue, recoveries, readModel, base, published, req, crashes>>

-----------------------------------------------------------------------------
Startup == Start \/ ForkWorker \/ \E i \in FlushIds : OfferRecovery(i)

Process ==
    \/ Take \/ PreflightOperationalFailure \/ PreflightRefused \/ PreflightPassed
    \/ ClaimOrInspect \/ StorageFailure \/ DecideRefused
    \/ \E n \in 0..MaxEvents : Commit(n)
    \/ InstallReadModel \/ PublishNext \/ PublishDone \/ SettleAccepted
    \/ NoFlush \/ \E i \in FlushIds : OfferFlush(i)
    \/ ReconcileFailure \/ PersistRejected \/ ReadBack \/ PersistRejectedFailure

Caller ==
    \E c \in Calls :
       \/ \E i \in ClientIds, d \in Payloads : Dispatch(c, i, d)
       \/ DeadlineExceeded(c)
       \/ \E i \in ClientIds : GetCommandOutcome(c, i)

Next == Caller \/ Startup \/ Process \/ Crash

\* The worker fiber and the startup sequence keep running; callers and crashes owe nothing.
Fairness == WF_vars(Startup) /\ WF_vars(Process)

Spec == Init /\ [][Next]_vars
FairSpec == Spec /\ Fairness
-----------------------------------------------------------------------------
(* Properties                                                              *)

\* The commands' events and the receipts agree, durably and at every step: an event's
\* command has an accepted receipt and a claim for the same payload, and the receipt's
\* sequence is not before the event; an accepted receipt never points past the log.
ReceiptMatchesLog ==
    /\ \A s \in DOMAIN log :
          LET i == log[s].id IN
          /\ receipts[i].status = "accepted" /\ receipts[i].digest = log[s].digest
          /\ claims[i] = log[s].digest
          /\ s <= receipts[i].seq
    /\ \A i \in Ids : receipts[i].seq <= Len(log)

\* However often a command ID is retried, after a deadline, a lost connection or a crash,
\* its events are in the log at most once.
AtMostOnce ==
    \A s, t \in DOMAIN log :
       s # t => log[s].id # log[t].id \/ log[s].n # log[t].n

\* A terminal answer is durable: whoever was told accepted or rejected, by dispatch or by
\* getCommandOutcome, was told what the receipt says now and after every crash, so no two
\* answers for one ID disagree.
OutcomeIsDurable ==
    \A c \in Calls :
       LET row == receipts[req[c].id] IN
       /\ reply[c].status \in {"accepted", "rejected"} => row.status = reply[c].status
       /\ reply[c].status = "accepted" => row.seq = reply[c].seq

\* The in-memory read model never skips, repeats or invents an event: it is the log,
\* except between the commit and setReadModel.
ReadModelTracksLog ==
    /\ \A k \in DOMAIN readModel : readModel[k] = k
    /\ pc \notin {"down", "install"} => Len(readModel) = Len(log)

\* A server process publishes the events committed in its lifetime once each, in log
\* order, none before it is committed and none left out when the worker rests.
PublishedInOrder ==
    /\ \A k \in DOMAIN published : published[k] = base + k
    /\ base + Len(published) <= Len(log) \/ pc = "down"
    /\ pc = "idle" => base + Len(published) = Len(log)

\* Read your own write: once a caller is told accepted, the revision it can read is not
\* behind the sequence it was told.
AcceptedIsCovered ==
    \A c \in Calls :
       reply[c].status = "accepted" =>
          /\ reply[c].revision >= reply[c].seq
          /\ Serving /\ req[c].kind = "dispatch" => SnapshotSequence >= reply[c].seq

\* The worker, the queue's only consumer, always finds room for its follow-up command, and
\* startup finds room for its recovery commands: neither waits for itself.
WorkerNeverBlocks ==
    /\ pc = "followup" => Len(queue) < Capacity
    /\ pc = "startup" /\ recoveries > 0 => Len(queue) < Capacity

\* An accepted receipt is never rewritten, and a settled ID is never unsettled or turned
\* from rejected to accepted.
ReceiptsAreFinal ==
    [][\A i \in Ids :
          /\ receipts[i].status = "accepted" => receipts'[i] = receipts[i]
          /\ receipts[i].status = "rejected" => receipts'[i].status = "rejected"]_vars

\* An admitted command is settled by the worker (or lost with the process): no path of
\* processing forgets the caller.
EveryCallSettles == \A c \in Calls : reply[c].status = "pending" ~> reply[c].status # "pending"

\* Gate 6 of the systems-core plan: an existing outcome is returned only for the same
\* command, ID and payload digest both.
OutcomeOnlyForSameCommand ==
    \A c \in Calls :
       req[c].kind = "dispatch" /\ reply[c].status = "accepted"
          => receipts[req[c].id].digest = req[c].digest

-----------------------------------------------------------------------------
(* The inductive invariant behind the safety properties                    *)

\* A processing holds one slot of the queue free; startup has counted what it will offer.
QueueRoom ==
    /\ pc = "down" => queue = << >>
    /\ pc = "startup" => Len(queue) + recoveries <= Capacity
    /\ pc = "idle" => Len(queue) <= Capacity
    /\ pc \notin {"down", "startup", "idle"} => Len(queue) < Capacity

\* An envelope answers the call that dispatched it.
Answers(e) == e.call \in Calls => req[e.call].kind = "dispatch" /\ req[e.call].id = e.id

EnvelopesAnswerTheirCalls ==
    /\ Answers(env)
    /\ \A k \in DOMAIN queue : Answers(queue[k])

\* What the worker knows about the durable state at each point of a processing.
WorkerKnowledge ==
    /\ pc \in {"claim", "decide", "failing"} => start = Len(log)
    /\ pc = "decide" => receipts[env.id].status = "none" /\ claims[env.id] = env.digest
    /\ pc \in {"install", "publish", "settle"} =>
          receipts[env.id].status = "accepted" /\ receipts[env.id].seq = result
    /\ pc = "readback" => receipts[env.id].status # "none"

\* Where the read model and the publications stand while a batch is on its way.
BatchOnItsWay ==
    /\ pc = "install" =>
          /\ Len(readModel) + Len(unpublished) = Len(log)
          /\ \A k \in DOMAIN unpublished : unpublished[k] = Len(readModel) + k
    /\ pc \in {"install", "publish"} =>
          /\ base + Len(published) + Len(unpublished) = Len(log)
          /\ \A k \in DOMAIN unpublished : unpublished[k] = base + Len(published) + k
    /\ pc \notin {"down", "install", "publish"} => base + Len(published) = Len(log)
    /\ pc = "down" => published = << >>

IndInv ==
    /\ TypeOK /\ QueueRoom /\ EnvelopesAnswerTheirCalls /\ WorkerKnowledge /\ BatchOnItsWay
    /\ ReceiptMatchesLog /\ AtMostOnce /\ OutcomeIsDurable /\ ReadModelTracksLog
    /\ \A k \in DOMAIN published : published[k] = base + k

-----------------------------------------------------------------------------
\* The engine implements the ledger a caller may reason with.
Ledger == INSTANCE CommandLedger WITH
    log <- [s \in DOMAIN log |-> [id |-> log[s].id, n |-> log[s].n]],
    outcome <- [i \in Ids |-> [status |-> receipts[i].status,
                  seq |-> IF receipts[i].status = "accepted" THEN receipts[i].seq ELSE 0]]

ImplementsLedger == Ledger!LedgerSpec
=============================================================================
