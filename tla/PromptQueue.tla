---------------------------- MODULE PromptQueue ----------------------------
(***************************************************************************)
(* The prompt queue of one thread: the decider's rules for queueing,       *)
(* releasing, reserving and starting prompts, and the two projections of   *)
(* the events it emits - the read model in memory, which the decider       *)
(* reads, and the SQL rows, which the next process starts from.            *)
(*                                                                         *)
(* A message id is a sequence of the submitted messages it carries: <<m>>  *)
(* for one prompt under its own id, their concatenation for the follow-up  *)
(* that a flush builds from several; a transcript entry is an id and the   *)
(* messages its text carries.  Attachments and settings are abstracted to  *)
(* whether a prompt may share a turn (Solo).  A prompt's createdAt is      *)
(* fixed by its id and its `sent` flag: a retried submission carries the   *)
(* same payload.  The two projections differ only in the hold and the      *)
(* interrupt intent (stored); every other field is projected alike and is  *)
(* kept once.                                                              *)
(***************************************************************************)
EXTENDS Integers, Sequences, FiniteSets, SequencesExt

CONSTANTS
    Messages,            \* the messages users submit
    Solo,                \* those that must start a turn of their own
    MAX_QUEUED_PROMPTS,  \* prompts a user may have waiting
    QueueRoom            \* lifecycle flushes the command queue has room for

ASSUME PromptAssumption ==
    /\ Solo \subseteq Messages
    /\ MAX_QUEUED_PROMPTS \in Nat \ {0}
    /\ QueueRoom \in Nat \ {0}

VARIABLES
    thread,   \* the read model of the thread
    stored,   \* hold and intent as the SQL projection has them
    offered,  \* lifecycle flushes waiting in the engine's queue
    inbox,    \* committed events the command reactor has not handled
    ops,      \* turn-control operations requested so far
    submitted \* messages whose submission was executed

requests == <<ops, submitted>>
queueVars == <<thread, stored, offered, inbox, requests>>

NoStart == [id |-> <<>>, stale |-> FALSE]
NoIntent == [id |-> 0, ids |-> <<>>]
NoOp == [id |-> 0, reserved |-> <<>>, epoch |-> 0, turn |-> 0,
         strategy |-> "none", state |-> "completed"]
Terminal == {"completed", "failed", "superseded", "cancelled"}

EmptyThread ==
    [queue |-> <<>>, messages |-> {}, status |-> "none", turn |-> 0,
     epoch |-> 0, start |-> NoStart, hold |-> FALSE, intent |-> NoIntent,
     op |-> NoOp]

-----------------------------------------------------------------------------
(* Policy: which prompts may leave the queue, and when.                    *)

IdsOf(prompts) == [i \in DOMAIN prompts |-> prompts[i].id]
Queued(t, id) == \E i \in DOMAIN t.queue : t.queue[i].id = id
Sent(t, id) == \E msg \in t.messages : msg.id = id

\* The submitted messages that the text under an id carries.
TextOf(t, id) ==
    IF Sent(t, id) THEN (CHOOSE msg \in t.messages : msg.id = id).text ELSE id
Counted(prompts) == Cardinality({i \in DOMAIN prompts : ~prompts[i].sent})

OpenOperation(t) == t.op.state \notin Terminal
hasActiveQueueReservation(t) == t.op.reserved # <<>> /\ OpenOperation(t)

Idle(t) ==
    /\ t.turn = 0
    /\ t.status \notin {"starting", "running"}
    /\ t.start = NoStart

canAutoDispatch(t) ==
    /\ ~t.hold
    /\ ~hasActiveQueueReservation(t)
    /\ t.intent = NoIntent
    /\ Idle(t)

\* The prompts that an interrupt or an open operation has captured.
Captured(t) ==
    ToSet(t.intent.ids)
      \cup (IF hasActiveQueueReservation(t) THEN ToSet(t.op.reserved) ELSE {})

\* Mutant: a redelivery goes in front of prompts already captured.
redeliveryFirst(t) ==
    LET free == {i \in DOMAIN t.queue : ~t.queue[i].sent}
    IN  IF free = {} THEN Len(t.queue) + 1 ELSE Min(free)

redeliveryQueuePosition(t) ==
    LET free == {i \in DOMAIN t.queue : /\ t.queue[i].id \notin Captured(t)
                                        /\ ~t.queue[i].sent}
    IN  IF free = {} THEN Len(t.queue) + 1 ELSE Min(free)

\* Mutant: settings that need a turn of their own are not looked at.
NonCombinableSent(p) == p.sent

NonCombinable(p) == p.sent \/ p.id \in {<<m>> : m \in Solo}

compatibleQueuedPrefix(prompts) ==
    LET ends == {i \in DOMAIN prompts : NonCombinable(prompts[i])}
    IN  IF 1 \in ends THEN <<prompts[1]>>
        ELSE SubSeq(prompts, 1, IF ends = {} THEN Len(prompts) ELSE Min(ends) - 1)

exactQueuedPrefix(t, ids) ==
    IF ids # <<>> /\ IsPrefix(ids, IdsOf(t.queue))
    THEN SubSeq(t.queue, 1, Len(ids)) ELSE <<>>

\* Who asks for a flush: the server after a lifecycle change, the user's
\* "Send now", the reactor for an interrupt it settled (control), or for
\* prompts a native steer already delivered (consume).
Owned(kind) == kind \in {"control", "consume"}

userReleasesStalePendingTurnStart(t, kind) ==
    kind = "user" /\ t.start # NoStart /\ t.start.stale

OwnerMay(t, ids, kind) ==
    /\ OpenOperation(t) /\ t.op.state # "ambiguous"
    /\ t.op.epoch = t.epoch
    /\ t.op.reserved = ids
    /\ IF kind = "consume"
       THEN /\ t.op.strategy = "native-steer"
            /\ t.op.state = "provider-acknowledged"
            /\ t.turn \in {0, t.op.turn}
       ELSE t.op.strategy = "interrupt-continue"

AnyoneMay(t, kind) ==
    /\ ~hasActiveQueueReservation(t)
    /\ t.hold => kind = "user"

DispatchThread(t, kind) ==
    IF userReleasesStalePendingTurnStart(t, kind)
    THEN [t EXCEPT !.start = NoStart] ELSE t

IntentAllows(t, ids, kind) ==
    t.intent # NoIntent => /\ t.intent.ids = ids
                           /\ kind = "control" => t.intent.id = t.op.id

\* evaluateQueuedPromptFlush: the prompts the flush may take, or none.
consumableQueuedPrefix(t, ids, kind) ==
    LET prefix == exactQueuedPrefix(t, ids)
        compatible == compatibleQueuedPrefix(prefix)
        exact == Owned(kind) \/ t.intent # NoIntent
    IN  IF /\ IF Owned(kind) THEN OwnerMay(t, ids, kind) ELSE AnyoneMay(t, kind)
           /\ prefix # <<>>
           /\ kind = "consume" \/ Idle(DispatchThread(t, kind))
           /\ IntentAllows(t, ids, kind)
           /\ exact => compatible = prefix
        THEN compatible ELSE <<>>

-----------------------------------------------------------------------------
(* Events and their projections.                                           *)

\* PendingTurnStart.logic: the gate of a requested turn not yet bound.
nextPendingTurnStart(t, e) ==
    CASE e.type = "turn-start-requested" -> [id |-> e.id, stale |-> FALSE]
      [] e.type \in {"turn-start-failed", "user-turn-bound"} ->
            IF t.start.id = e.id THEN NoStart ELSE t.start
      [] e.type = "prompt-queued" ->
            IF e.sent /\ t.start.id = e.id THEN NoStart ELSE t.start
      [] e.type = "session-stop-requested" -> NoStart
      [] e.type = "session-set" ->
            IF e.turn # 0 \/ e.status \in {"stopped", "error"}
            THEN NoStart ELSE t.start
      [] OTHER -> t.start

insertQueuedPrompt(t, e) ==
    IF Queued(t, e.id) THEN t.queue
    ELSE LET p == [id |-> e.id, sent |-> e.sent]
         IN  IF e.sent THEN InsertAt(t.queue, e.at, p) ELSE Append(t.queue, p)

\* The queue without the prompts under the given ids, in its order.
Without(queue, ids) ==
    LET kept[i \in 0..Len(queue)] ==
          IF i = 0 THEN <<>>
          ELSE IF queue[i].id \in ids THEN kept[i - 1] ELSE Append(kept[i - 1], queue[i])
    IN  kept[Len(queue)]

\* Mutant: the queue is not updated for a flush.
nextQueueKept(t, e) ==
    CASE e.type = "prompt-queued" -> insertQueuedPrompt(t, e)
      [] e.type = "queued-prompt-removed" -> Without(t.queue, {e.id})
      [] OTHER -> t.queue

nextQueue(t, e) ==
    CASE e.type = "prompt-queued" -> insertQueuedPrompt(t, e)
      [] e.type = "queued-prompt-removed" -> Without(t.queue, {e.id})
      [] e.type = "queued-prompts-flushed" -> Without(t.queue, ToSet(e.ids))
      [] OTHER -> t.queue

\* What both projections make of the intent.
nextIntent(intent, e) ==
    CASE e.type = "turn-interrupt-requested" -> e.intent
      [] e.type = "queued-prompt-removed" ->
            IF e.id \in ToSet(intent.ids) THEN NoIntent ELSE intent
      [] e.type = "queued-prompts-flushed" ->
            IF intent.ids = e.ids THEN NoIntent ELSE intent
      [] OTHER -> intent

\* Mutant: a new session state lifts the hold.
nextHoldLifted(hold, e) ==
    CASE e.type = "session-stop-requested" -> TRUE
      [] e.type \in {"queued-prompts-flushed", "session-set"} -> FALSE
      [] OTHER -> hold

\* What both projections make of the hold.
nextHold(hold, e) ==
    CASE e.type = "session-stop-requested" -> TRUE
      [] e.type = "queued-prompts-flushed" -> FALSE
      [] OTHER -> hold

nextSession(t, e) ==
    CASE e.type = "turn-start-requested" ->
            [status |-> "starting", turn |-> 0, epoch |-> t.epoch]
      [] e.type = "turn-start-failed" ->
            [status |-> "error", turn |-> 0, epoch |-> t.epoch]
      [] e.type = "session-set" ->
            [status |-> e.status, turn |-> e.turn, epoch |-> e.epoch]
      [] OTHER -> [status |-> t.status, turn |-> t.turn, epoch |-> t.epoch]

\* The read model's projector: only it drops a cancelled intent, and only
\* it lifts the hold when a turn start is requested.
projectEvent(t, e) ==
    [queue |-> nextQueue(t, e),
     messages |-> IF e.type = "message-sent"
                  THEN {msg \in t.messages : msg.id # e.id}
                         \cup {[id |-> e.id, text |-> e.text]}
                  ELSE t.messages,
     status |-> nextSession(t, e).status,
     turn |-> nextSession(t, e).turn,
     epoch |-> nextSession(t, e).epoch,
     start |-> nextPendingTurnStart(t, e),
     hold |-> IF e.type = "turn-start-requested" THEN FALSE ELSE nextHold(t.hold, e),
     intent |-> IF e.type = "queued-prompt-flush-cancelled"
                THEN (IF t.intent.id = e.intent THEN NoIntent ELSE t.intent)
                ELSE nextIntent(t.intent, e),
     op |-> IF e.type \in {"turn-interrupt-requested", "turn-steer-requested",
                           "session-stop-requested", "turn-control-set"}
            THEN e.op ELSE t.op]

projectThreadQueueControlEvent(s, e) ==
    [hold |-> nextHold(s.hold, e), intent |-> nextIntent(s.intent, e)]

ForReactor(e) ==
    e.type \in {"turn-start-requested", "turn-interrupt-requested",
                "turn-steer-requested", "session-stop-requested"}

\* One event, in both projections and in what the reactor will handle.
Project(s, e) ==
    [thread |-> projectEvent(s.thread, e),
     stored |-> projectThreadQueueControlEvent(s.stored, e),
     inbox |-> IF ForReactor(e) THEN Append(s.inbox, e) ELSE s.inbox]

\* The one state that each number of the events leads to, in a set.
Projected(events) ==
    LET after[i \in 0..Len(events)] ==
          IF i = 0 THEN {[thread |-> thread, stored |-> stored, inbox |-> inbox]}
          ELSE {Project(s, events[i]) : s \in after[i - 1]}
    IN  after[Len(events)]

\* One command's events, committed and projected together.
Commit(events) ==
    \E batch \in {events} : \E s \in Projected(batch) :
        /\ thread' = s.thread
        /\ stored' = s.stored
        /\ inbox' = s.inbox

-----------------------------------------------------------------------------
(* Lifecycle flushes: offered after a command that may have made the       *)
(* thread idle; a full command queue drops them.                           *)

makeQueuedPromptFlushCommand(t) ==
    LET ids == IF t.intent # NoIntent THEN t.intent.ids
               ELSE IdsOf(compatibleQueuedPrefix(t.queue))
    IN  IF consumableQueuedPrefix(t, ids, "server") = <<>> THEN <<>>
        ELSE <<exactQueuedPrefix(t, ids)>>

\* Mutant: no flush is offered after a lifecycle change.
OfferNone(t, waiting) == waiting

Offer(t, waiting) ==
    IF Len(waiting) < QueueRoom THEN waiting \o makeQueuedPromptFlushCommand(t)
    ELSE waiting

\* A command that triggers a lifecycle flush once it has committed.
CommitTriggering(events) ==
    /\ Commit(events)
    /\ offered' = Offer(thread', offered)

-----------------------------------------------------------------------------
(* The decider.                                                            *)

TurnStart(id, text) ==
    <<[type |-> "message-sent", id |-> id, text |-> text],
      [type |-> "turn-start-requested", id |-> id]>>

PromptQueued(id, sent, at) ==
    <<[type |-> "prompt-queued", id |-> id, sent |-> sent, at |-> at]>>

Flushed(prompts) == <<[type |-> "queued-prompts-flushed", ids |-> IdsOf(prompts)]>>

\* One flushed prompt keeps its own id; several become one follow-up.
FollowUp(prompts) ==
    IF Len(prompts) = 1 THEN prompts[1].id ELSE FlattenSeq(IdsOf(prompts))

CombinedText(t, prompts) ==
    FlattenSeq([i \in DOMAIN prompts |-> TextOf(t, prompts[i].id)])

\* thread.turn.start: queued behind a busy thread, started on an idle one.
decideThreadTurnStart(t, id) ==
    IF Idle(t) THEN TurnStart(id, id)
    ELSE IF Queued(t, id) \/ Sent(t, id)
              \/ Counted(t.queue) >= MAX_QUEUED_PROMPTS THEN <<>>
    ELSE PromptQueued(id, FALSE, Len(t.queue) + 1)

\* thread.message.submit by a user.
decideSubmit(t, id, auto) ==
    LET queued == PromptQueued(id, FALSE, Len(t.queue) + 1)
        prompts == compatibleQueuedPrefix(
                       Append(t.queue, [id |-> id, sent |-> FALSE]))
    IN  IF Queued(t, id) \/ Sent(t, id) THEN <<>>
        ELSE IF auto /\ canAutoDispatch(t) /\ t.queue = <<>> THEN TurnStart(id, id)
        ELSE IF Counted(t.queue) >= MAX_QUEUED_PROMPTS THEN <<>>
        ELSE IF auto /\ canAutoDispatch(t)
        THEN queued \o Flushed(prompts) \o TurnStart(prompts[1].id, CombinedText(t, prompts))
        ELSE queued

\* thread.message.submit by the reactor, for a message the provider
\* refused as busy.
decideRedelivery(t, id) ==
    IF Queued(t, id) THEN <<>>
    ELSE PromptQueued(id, TRUE, redeliveryQueuePosition(t))

decideRemove(t, id) ==
    IF id \in Captured(t) THEN <<>>
    ELSE <<[type |-> "queued-prompt-removed", id |-> id]>>

decideFlushCancel(t, intent) ==
    IF t.intent.id # intent THEN <<>>
    ELSE <<[type |-> "queued-prompt-flush-cancelled", intent |-> intent]>>

\* Mutant: the flush of a settled interrupt only consumes its prompts.
decideFlushConsumes(t, ids, kind) ==
    LET prefix == consumableQueuedPrefix(t, ids, kind)
    IN  IF prefix = <<>> THEN <<>>
        ELSE IF Owned(kind) THEN Flushed(prefix)
        ELSE Flushed(prefix) \o TurnStart(FollowUp(prefix), CombinedText(t, prefix))

decideFlush(t, ids, kind) ==
    LET prefix == consumableQueuedPrefix(t, ids, kind)
    IN  IF prefix = <<>> THEN <<>>
        ELSE IF kind = "consume" THEN Flushed(prefix)
        ELSE Flushed(prefix) \o TurnStart(FollowUp(prefix), CombinedText(t, prefix))

\* A user's release of prompts while the observed turn runs becomes an
\* interrupt that flushes them once the turn has settled.
decideInterrupt(t, id, ids) ==
    LET prefix == compatibleQueuedPrefix(exactQueuedPrefix(t, ids))
    IN  IF t.intent # NoIntent \/ OpenOperation(t) \/ prefix = <<>> THEN <<>>
        ELSE <<[type |-> "turn-interrupt-requested",
                intent |-> [id |-> id, ids |-> IdsOf(prefix)],
                op |-> [id |-> id, reserved |-> IdsOf(prefix), epoch |-> t.epoch,
                        turn |-> t.turn, strategy |-> "interrupt-continue",
                        state |-> "requested"]]>>

decideSendNow(t, id, ids) ==
    IF t.turn = 0 THEN decideFlush(t, ids, "user")
    ELSE IF consumableQueuedPrefix([t EXCEPT !.turn = 0, !.status = "ready"],
                                   ids, "user") = <<>> THEN <<>>
    ELSE decideInterrupt(t, id, ids)

decideSteer(t, id, ids) ==
    LET prefix == compatibleQueuedPrefix(exactQueuedPrefix(t, ids))
    IN  IF \/ t.intent # NoIntent \/ OpenOperation(t)
           \/ t.turn = 0 \/ prefix = <<>> THEN <<>>
        ELSE <<[type |-> "turn-steer-requested",
                op |-> [id |-> id, reserved |-> IdsOf(prefix), epoch |-> t.epoch,
                        turn |-> t.turn, strategy |-> "pending-selection",
                        state |-> "requested"]]>>

decideStop(t, id) ==
    <<[type |-> "session-stop-requested",
       op |-> [id |-> id, reserved |-> <<>>, epoch |-> t.epoch, turn |-> t.turn,
               strategy |-> "stop-session", state |-> "requested"]]>>

\* thread.session.set: the epoch is the thread's own; a report of the same
\* state is no event.  expected is the turn the sender saw, 0 for none.
decideSessionSet(t, status, turn, expectedEpoch, expectedTurn) ==
    IF \/ expectedTurn # 0 /\ t.turn # expectedTurn
       \/ t.epoch # expectedEpoch
       \/ t.status = status /\ t.turn = turn THEN <<>>
    ELSE <<[type |-> "session-set", status |-> status, turn |-> turn,
            epoch |-> t.epoch]>>

\* The one session.set that opens a new epoch, before a session starts.
decideSessionStarting(t) ==
    <<[type |-> "session-set", status |-> "starting", turn |-> 0,
       epoch |-> t.epoch + 1]>>

decideTurnControlSet(t, op) ==
    IF \/ t.op.id # op.id
       \/ op.epoch # t.epoch /\ op.state \notin {"superseded", "completed"} THEN <<>>
    ELSE <<[type |-> "turn-control-set", op |-> op]>>

-----------------------------------------------------------------------------
(* Commands of users, and of the server on its own.                        *)

\* A retry comes under the same command id, which the receipts recognise;
\* under another one it is recognised by the message while that has its id.
MayRequest(m) == m \in submitted => Queued(thread, <<m>>) \/ Sent(thread, <<m>>)

Submit(m, auto) ==
    /\ MayRequest(m)
    /\ Commit(decideSubmit(thread, <<m>>, auto))
    /\ submitted' = IF thread' = thread THEN submitted ELSE submitted \cup {m}
    /\ UNCHANGED <<offered, ops>>

\* A turn start that does not go through the queue: the scheduler's, a
\* thread watch's, an automatic continuation's.
StartDirectly(m) ==
    /\ m \notin submitted
    /\ Commit(decideThreadTurnStart(thread, <<m>>))
    /\ submitted' = IF thread' = thread THEN submitted ELSE submitted \cup {m}
    /\ UNCHANGED <<offered, ops>>

RemovePrompt(i) ==
    /\ i \in DOMAIN thread.queue
    /\ Commit(decideRemove(thread, thread.queue[i].id))
    /\ UNCHANGED <<offered, requests>>

SendNow(n) ==
    /\ n \in DOMAIN thread.queue
    /\ Commit(decideSendNow(thread, ops + 1, IdsOf(SubSeq(thread.queue, 1, n))))
    /\ ops' = IF thread'.op.id = ops + 1 THEN ops + 1 ELSE ops
    /\ UNCHANGED <<offered, submitted>>

Steer(n) ==
    /\ n \in DOMAIN thread.queue
    /\ Commit(decideSteer(thread, ops + 1, IdsOf(SubSeq(thread.queue, 1, n))))
    /\ ops' = IF thread'.op.id = ops + 1 THEN ops + 1 ELSE ops
    /\ UNCHANGED <<offered, submitted>>

Stop ==
    /\ Commit(decideStop(thread, ops + 1))
    /\ ops' = ops + 1
    /\ UNCHANGED <<offered, submitted>>

\* The engine executes the oldest lifecycle flush.  It names the versions of
\* the prompts it was computed for; a prompt queued again since is not one.
LifecycleFlush ==
    /\ offered # <<>>
    /\ Commit(IF exactQueuedPrefix(thread, IdsOf(Head(offered))) = Head(offered)
              THEN decideFlush(thread, IdsOf(Head(offered)), "server") ELSE <<>>)
    /\ offered' = Tail(offered)
    /\ UNCHANGED requests

\* PENDING_TURN_START_RELEASE_AFTER_MS pass.
StartGrowsStale ==
    /\ thread.start # NoStart /\ ~thread.start.stale
    /\ thread' = [thread EXCEPT !.start.stale = TRUE]
    /\ UNCHANGED <<stored, offered, inbox, requests>>

QueueInit(hold, queue) ==
    /\ thread = [EmptyThread EXCEPT !.hold = hold, !.queue = queue]
    /\ stored = [hold |-> hold, intent |-> NoIntent]
    /\ offered = <<>>
    /\ inbox = <<>>
    /\ ops = 0
    /\ submitted = {p.id[1] : p \in ToSet(queue)}

\* What the next process of the server makes of the stored state: the gate
\* of a start that did not survive is settled as a stopped session.
Reloaded ==
    LET t == [thread EXCEPT !.hold = stored.hold, !.intent = stored.intent]
    IN  IF t.start = NoStart THEN t
        ELSE [t EXCEPT !.status = "stopped", !.turn = 0, !.start = NoStart]

ReloadQueue ==
    /\ thread' = Reloaded
    /\ offered' = Offer(Reloaded, <<>>)
    /\ inbox' = <<>>
    /\ UNCHANGED <<stored, requests>>
=============================================================================
