---------------------------- MODULE TurnControl ----------------------------
(***************************************************************************)
(* Who moves one thread's prompts to the provider and back: the command    *)
(* reactor (one worker per thread: starts, interrupts, steers, stops), the *)
(* runtime ingestion worker, the reconciliation and recovery pass, the     *)
(* start watchdog and the engine's lifecycle flushes.  Each reads the      *)
(* read model and the live provider session, awaits, and then dispatches   *)
(* commands that the decider (PromptQueue) judges against the state of     *)
(* that later moment.                                                      *)
(*                                                                         *)
(* A handler is a script: reactor.todo lists what it has still to do, and  *)
(* every entry is one step.  A read of the live session and the dispatch   *)
(* that uses it are different steps.  Approvals, user input and model      *)
(* choices, which also make a thread busy, are left out, and so are        *)
(* interrupts that release no prompts.                                     *)
(***************************************************************************)
EXTENDS PromptQueue

CONSTANTS
    Scenarios,    \* bounds: the kinds of step that occur together, on which messages,
                  \* with how many turn-control operations and faults
    RuntimeRoom,  \* bound on the provider events on their way
    MaxTurns      \* bound on the turns the provider starts

ASSUME ControlAssumption ==
    /\ \A c \in Scenarios : /\ c.who \subseteq Messages
                            /\ c.ops \in Nat /\ c.faults \in Nat
    /\ RuntimeRoom \in Nat \ {0}
    /\ MaxTurns \in Nat

VARIABLES
    live,       \* the provider's session for the thread
    runtime,    \* provider events that ingestion has not read
    ingest,     \* the session.set that ingestion is about to dispatch
    reactor,    \* the command reactor's worker for this thread
    pass,       \* the reconciliation and recovery pass
    scenario,   \* what may happen, and a history of what did
    delivered   \* how the provider has received each message

controlVars == <<live, runtime, ingest, reactor, pass, scenario, delivered>>
vars == <<queueVars, controlVars>>

\* last numbers the turns the provider has started, over all its sessions.
NoSession == [on |-> FALSE, epoch |-> 0, turn |-> 0, last |-> 0]
Ended(s) == [NoSession EXCEPT !.last = s.last]
NoSet == [status |-> "none", turn |-> 0, epoch |-> 0, expected |-> 0]

\* What a handler keeps of the thread it has read.
SessionOf(t) == [status |-> t.status, turn |-> t.turn, epoch |-> t.epoch, start |-> t.start]
Unread == SessionOf(EmptyThread)

\* The message or operation handled, the session it has read, the
\* session.set it will dispatch, the turn it started and whether that turn
\* was already over, and the recovery attempts made.
IdleReactor ==
    [todo |-> <<>>, id |-> <<>>, op |-> NoOp, seen |-> Unread, set |-> NoSet,
     turn |-> 0, idle |-> FALSE, tries |-> 0]

IdlePass ==
    [todo |-> <<>>, seen |-> Unread, live |-> NoSession, set |-> NoSet,
     op |-> NoOp, boot |-> FALSE, missing |-> FALSE]

LiveTurn == IF live.on THEN live.turn ELSE 0
Bound(t) == t.status \notin {"none", "stopped"}

\* What users, the clock, the provider and the periodic pass may do.
Allowed == scenario.bounds.may

\* An exit, a failed provider call or a restart.
Fault(kind) ==
    /\ kind \in Allowed
    /\ scenario.failed < scenario.bounds.faults
    /\ scenario' = [scenario EXCEPT !.failed = @ + 1]

-----------------------------------------------------------------------------
(* Commands shared by the handlers.                                        *)

\* The session.set that brings a thread in line with a provider session.
toReconciledSession(seen, s) ==
    LET at(status, turn) == [status |-> status, turn |-> turn,
                             epoch |-> seen.epoch, expected |-> seen.turn]
    IN  IF s.on /\ s.epoch # seen.epoch THEN NoSet
        ELSE IF s.on THEN at(IF s.turn # 0 THEN "running" ELSE "ready", s.turn)
        ELSE IF seen.status = "none" \/ seen.start # NoStart THEN NoSet
        ELSE at("stopped", 0)

SessionSetEvents(set) ==
    IF set = NoSet THEN <<>>
    ELSE decideSessionSet(thread, set.status, set.turn, set.epoch, set.expected)

setTurnControlOperation(op, strategy, state) ==
    decideTurnControlSet(thread, [op EXCEPT !.strategy = strategy, !.state = state])

completeTurnControlIfConsumed(op) ==
    IF \/ thread.op.id # op.id
       \/ \E i \in DOMAIN thread.queue : thread.queue[i].id \in ToSet(op.reserved)
    THEN <<>> ELSE setTurnControlOperation(thread.op, thread.op.strategy, "completed")

\* makeReservedQueuedPromptFlushCommand, and the flush it dispatches.
ReservedFlush(op, kind) ==
    IF thread.op.id # op.id THEN <<>> ELSE decideFlush(thread, op.reserved, kind)

\* What the steps that only dispatch a command send.
ScriptEvents(step, h) ==
    CASE step = "set" -> SessionSetEvents(h.set)
      [] step = "bound" ->
            IF h.idle THEN <<[type |-> "user-turn-bound", id |-> h.id]>> ELSE <<>>
      [] step = "start-failed" -> <<[type |-> "turn-start-failed", id |-> h.id]>>
      [] step = "cancel" -> decideFlushCancel(thread, h.op.id)
      [] step = "select" -> setTurnControlOperation(h.op, "native-steer", "requested")
      [] step \in {"provider-acknowledged", "ambiguous"} ->
            setTurnControlOperation(h.op, "native-steer", step)
      [] step \in {"waiting-for-settlement", "completed", "failed", "superseded"} ->
            setTurnControlOperation(h.op, h.op.strategy, step)
      [] step = "complete" -> completeTurnControlIfConsumed(h.op)

Scripted ==
    {"set", "bound", "start-failed", "cancel", "select", "provider-acknowledged",
     "ambiguous", "waiting-for-settlement", "completed", "failed", "superseded",
     "complete"}

-----------------------------------------------------------------------------
(* The reactor.                                                            *)

Doing(step) == reactor.todo # <<>> /\ Head(reactor.todo) = step

\* The rest of a script, and a worker that is free when it is done.
Continue(r) == IF r.todo = <<>> THEN IdleReactor ELSE r

Receives(type) ==
    /\ reactor.todo = <<>>
    /\ inbox # <<>> /\ Head(inbox).type = type

\* Every scripted command triggers a lifecycle flush when it has committed.
ReactorDispatches ==
    /\ reactor.todo # <<>> /\ Head(reactor.todo) \in Scripted
    /\ CommitTriggering(ScriptEvents(Head(reactor.todo), reactor))
    /\ reactor' = Continue([reactor EXCEPT !.todo = Tail(@)])
    /\ UNCHANGED <<requests, live, runtime, ingest, pass, scenario, delivered>>

\* processTurnStartRequested up to the provider session the turn needs.
ReceiveTurnStart ==
    /\ Receives("turn-start-requested")
    /\ inbox' = Tail(inbox)
    /\ reactor' = [IdleReactor EXCEPT !.todo = <<"ensure">>, !.id = Head(inbox).id]
    /\ UNCHANGED <<thread, stored, offered, requests>>
    /\ UNCHANGED <<live, runtime, ingest, pass, scenario, delivered>>

\* ensureSession: reuse the live session, refuse, or open a new epoch.
ensureSession ==
    /\ Doing("ensure")
    /\ \/ /\ live.on /\ Bound(thread)
          /\ reactor' = [reactor EXCEPT !.todo = <<"send">>]
          /\ UNCHANGED queueVars
       \/ /\ ~(live.on /\ Bound(thread))
          /\ LiveTurn # 0 \/ thread.turn # 0 \/ thread.status = "running"
          /\ reactor' = [reactor EXCEPT !.todo = <<"start-failed">>]
          /\ UNCHANGED queueVars
       \/ /\ ~(live.on /\ Bound(thread))
          /\ LiveTurn = 0 /\ thread.turn = 0 /\ thread.status # "running"
          /\ CommitTriggering(decideSessionStarting(thread))
          /\ reactor' = [reactor EXCEPT !.todo = <<"open">>,
                                        !.seen = SessionOf(thread')]
          /\ UNCHANGED requests
    /\ UNCHANGED <<live, runtime, ingest, pass, scenario, delivered>>

\* The provider opens the session, which is then bound to the thread.
OpenSession ==
    /\ Doing("open")
    /\ live' = [live EXCEPT !.on = TRUE, !.epoch = reactor.seen.epoch, !.turn = 0]
    /\ reactor' = [reactor EXCEPT
                     !.todo = <<"set", "send">>,
                     !.set = [status |-> "ready", turn |-> 0,
                              epoch |-> reactor.seen.epoch, expected |-> 0]]
    /\ UNCHANGED <<queueVars, runtime, ingest, pass, scenario, delivered>>

OpenFails ==
    /\ Doing("open")
    /\ Fault("fail")
    /\ reactor' = [reactor EXCEPT !.todo = <<"start-failed">>]
    /\ UNCHANGED <<queueVars, live, runtime, ingest, pass, delivered>>

\* The session as it was before the provider was asked.
SendTurn ==
    /\ Doing("send")
    /\ reactor' = [reactor EXCEPT !.todo = <<"sending">>, !.seen = SessionOf(thread)]
    /\ UNCHANGED <<queueVars, live, runtime, ingest, pass, scenario, delivered>>

\* Counts are kept up to 2, the epoch is that of the first steer.
Again(n) == IF n < 2 THEN n + 1 ELSE n
ReceivedByStart(d) == [d EXCEPT !.starts = Again(@)]
ReceivedBySteer(d) ==
    [d EXCEPT !.steers = Again(@), !.epoch = IF d.steers = 0 THEN live.epoch ELSE @]

StartDelivers(text) ==
    delivered' = [m \in Messages |->
        IF m \in ToSet(text) THEN ReceivedByStart(delivered[m]) ELSE delivered[m]]

SteerDelivers(text) ==
    delivered' = [m \in Messages |->
        IF m \in ToSet(text) THEN ReceivedBySteer(delivered[m]) ELSE delivered[m]]

ProviderAccepts ==
    /\ Doing("sending")
    /\ live.on /\ live.turn = 0 /\ live.epoch = reactor.seen.epoch
    /\ Len(runtime) < RuntimeRoom /\ live.last < MaxTurns
    /\ live' = [live EXCEPT !.turn = live.last + 1, !.last = live.last + 1]
    /\ runtime' = Append(runtime, [type |-> "started", turn |-> live.last + 1])
    /\ StartDelivers(TextOf(thread, reactor.id))
    /\ reactor' = [reactor EXCEPT !.todo = <<"accepted">>, !.turn = live.last + 1]
    /\ UNCHANGED <<queueVars, ingest, pass, scenario>>

ProviderRefuses ==
    /\ Doing("sending")
    /\ LiveTurn # 0
    /\ reactor' = [reactor EXCEPT !.todo = <<"requeue", "mark">>]
    /\ UNCHANGED <<queueVars, live, runtime, ingest, pass, scenario, delivered>>

\* withTurnStartRecovery: a session that died before the turn was handed
\* over is discarded, and the start is attempted again, twice at the most.
SendFails ==
    /\ Doing("sending")
    /\ IF live.on /\ live.epoch = reactor.seen.epoch THEN Fault("fail") ELSE UNCHANGED scenario
    /\ \/ /\ reactor.tries < 2
          /\ live' = Ended(live)
          /\ reactor' = [reactor EXCEPT !.todo = <<"ensure">>, !.tries = @ + 1]
       \/ /\ reactor' = [reactor EXCEPT !.todo = <<"start-failed">>]
          /\ UNCHANGED live
    /\ UNCHANGED <<queueVars, runtime, ingest, pass, delivered>>

\* The turn was accepted: show it as running unless the projection moved
\* meanwhile; then show the provider's own turn if no turn is shown.
TurnAccepted ==
    /\ Doing("accepted")
    /\ LET idle == ~live.on \/ live.turn = 0
           unchanged == /\ thread.status = reactor.seen.status
                        /\ thread.turn = reactor.seen.turn
           stamp == [status |-> "running", turn |-> reactor.turn,
                     epoch |-> reactor.seen.epoch, expected |-> 0]
           visible == toReconciledSession(SessionOf(thread), live)
           set == IF unchanged /\ ~(live.on /\ live.turn = 0) THEN stamp
                  ELSE IF ~idle /\ thread.turn = 0 /\ visible.turn # 0
                  THEN [visible EXCEPT !.expected = 0] ELSE NoSet
       IN  reactor' = [reactor EXCEPT !.todo = <<"set", "bound">>,
                                      !.set = set, !.idle = idle]
    /\ UNCHANGED <<queueVars, live, runtime, ingest, pass, scenario, delivered>>

\* queueTurnStart: the refused message goes back to the queue.
RequeueTurnStart ==
    /\ Doing("requeue")
    /\ Commit(decideRedelivery(thread, reactor.id))
    /\ reactor' = [reactor EXCEPT !.todo = Tail(@)]
    /\ UNCHANGED <<offered, requests, live, runtime, ingest, pass, scenario, delivered>>

\* markProviderTurnRunning: the turn that refused us becomes visible.
MarkProviderTurnRunning ==
    /\ Doing("mark")
    /\ reactor' = IF LiveTurn = 0 THEN IdleReactor
                  ELSE [reactor EXCEPT !.todo = <<"set">>,
                          !.set = toReconciledSession(SessionOf(thread), live)]
    /\ UNCHANGED <<queueVars, live, runtime, ingest, pass, scenario, delivered>>

Handles(type) ==
    /\ Receives(type)
    /\ inbox' = Tail(inbox)
    /\ UNCHANGED <<thread, stored, offered, requests>>
    /\ UNCHANGED <<live, runtime, ingest, pass, scenario, delivered>>

Starts(op, steps, set) ==
    reactor' = IF steps = <<>> THEN IdleReactor
               ELSE [IdleReactor EXCEPT !.todo = steps, !.op = op, !.set = set,
                                        !.seen = SessionOf(thread)]

\* processTurnInterruptRequested, up to the provider call.
InterruptIsCurrent(t, op) ==
    /\ t.op.id = op.id /\ t.op.state = "requested"
    /\ t.epoch = op.epoch
    /\ t.op.reserved = op.reserved
    /\ exactQueuedPrefix(t, op.reserved) # <<>>

processTurnInterruptRequested ==
    /\ Handles("turn-interrupt-requested")
    /\ LET op == Head(inbox).op
           turn == IF LiveTurn # 0 THEN LiveTurn
                   ELSE IF Bound(thread) THEN thread.turn ELSE 0
           stopped == [status |-> "stopped", turn |-> 0, epoch |-> thread.epoch,
                       expected |-> thread.turn]
       IN  IF ~InterruptIsCurrent(thread, op) THEN Starts(op, <<>>, NoSet)
           ELSE IF ~Bound(thread) /\ ~live.on
           THEN Starts(op, <<"cancel", "set">>, stopped)
           ELSE IF op.turn # turn THEN Starts(op, <<"cancel">>, NoSet)
           ELSE Starts(op, <<IF live.on THEN "interrupt" ELSE "recheck">>, NoSet)

\* 100 ms later the session is looked up again.
RecheckSession ==
    /\ Doing("recheck")
    /\ reactor' = [reactor EXCEPT
         !.todo = IF ~live.on THEN <<"set", "continue", "complete">>
                  ELSE IF live.turn # reactor.op.turn THEN <<"cancel">>
                  ELSE <<"interrupt">>,
         !.set = IF live.on THEN NoSet ELSE toReconciledSession(reactor.seen, live)]
    /\ UNCHANGED <<queueVars, live, runtime, ingest, pass, scenario, delivered>>

\* interruptTurn: acknowledged now, settled by the provider later.
InterruptTurn ==
    /\ Doing("interrupt")
    /\ \/ /\ reactor' = [reactor EXCEPT !.todo = <<"waiting-for-settlement", "settle",
                                                  "continue", "complete">>]
          /\ UNCHANGED scenario
       \/ /\ Fault("fail")
          /\ reactor' = [reactor EXCEPT !.todo = <<"cancel", "failed">>]
    /\ UNCHANGED <<queueVars, live, runtime, ingest, pass, delivered>>

\* settleInterruptAfterAcknowledgement.
SettleInterrupt ==
    /\ Doing("settle")
    /\ reactor' = IF LiveTurn # 0 THEN [reactor EXCEPT !.todo = Tail(@)]
                  ELSE [reactor EXCEPT !.todo = <<"set">> \o Tail(@),
                          !.set = toReconciledSession(reactor.seen, live)]
    /\ UNCHANGED <<queueVars, live, runtime, ingest, pass, scenario, delivered>>

\* completeInterruptContinue and the consuming flush of a native steer: a
\* flush that is not possible ends the handler.
FlushReserved ==
    /\ Doing("continue") \/ Doing("consume")
    /\ LET events == ReservedFlush(reactor.op,
                        IF Doing("consume") THEN "consume" ELSE "control")
       IN  /\ Commit(events)
           /\ reactor' = IF events = <<>> THEN IdleReactor
                         ELSE [reactor EXCEPT !.todo = Tail(@)]
    /\ UNCHANGED <<offered, requests, live, runtime, ingest, pass, scenario, delivered>>

\* processTurnSteerRequested, up to the provider call.
SteerIsCurrent(t, op) ==
    /\ t.op.id = op.id /\ t.op.state = "requested"
    /\ t.op.strategy = "pending-selection"
    /\ t.op.reserved = op.reserved
    /\ t.epoch = op.epoch /\ t.turn = op.turn
    /\ LET prefix == exactQueuedPrefix(t, op.reserved)
       IN  prefix # <<>> /\ compatibleQueuedPrefix(prefix) = prefix

processTurnSteerRequested ==
    /\ Handles("turn-steer-requested")
    /\ LET op == Head(inbox).op
           prefix == exactQueuedPrefix(thread, op.reserved)
       IN  IF ~SteerIsCurrent(thread, op) THEN Starts(op, <<>>, NoSet)
           ELSE \/ /\ \A i \in DOMAIN prefix : ~NonCombinable(prefix[i])
                   /\ Starts(op, <<"select", "steer">>, NoSet)
                \/ Starts(op, <<"failed">>, NoSet)

\* steerTurn: a call that failed may still have delivered the text.
SteerTurn ==
    /\ Doing("steer")
    /\ LET running == /\ LiveTurn = reactor.op.turn
                      /\ live.epoch = reactor.op.epoch
           text == FlattenSeq([i \in DOMAIN reactor.op.reserved |->
                                  TextOf(thread, reactor.op.reserved[i])])
       IN  \/ /\ running
              /\ SteerDelivers(text)
              /\ reactor' = [reactor EXCEPT
                    !.todo = <<"provider-acknowledged", "consume", "complete">>]
              /\ UNCHANGED scenario
           \/ /\ running
              /\ Fault("fail")
              /\ SteerDelivers(text) \/ UNCHANGED delivered
              /\ reactor' = [reactor EXCEPT !.todo = <<"ambiguous">>]
           \/ /\ ~running
              /\ reactor' = [reactor EXCEPT !.todo = <<"ambiguous">>]
              /\ UNCHANGED <<scenario, delivered>>
    /\ UNCHANGED <<queueVars, live, runtime, ingest, pass>>

\* processSessionStopRequested: a failed interrupt ends the handler.
processSessionStopRequested ==
    /\ Handles("session-stop-requested")
    /\ LET op == Head(inbox).op
       IN  IF thread.turn = 0 THEN Starts(op, <<"completed">>, NoSet)
           ELSE \/ Starts(op, <<"waiting-for-settlement">>, NoSet)
                \/ Starts(op, <<>>, NoSet)

-----------------------------------------------------------------------------
(* The provider, and ingestion of what it reports.                         *)

ProviderCompletes ==
    /\ LiveTurn # 0
    /\ Len(runtime) < RuntimeRoom
    /\ live' = [live EXCEPT !.turn = 0]
    /\ runtime' = Append(runtime, [type |-> "completed", turn |-> live.turn])
    /\ UNCHANGED <<queueVars, ingest, reactor, pass, scenario, delivered>>

ProviderExits ==
    /\ live.on
    /\ Fault("exit")
    /\ Len(runtime) < RuntimeRoom
    /\ live' = Ended(live)
    /\ runtime' = Append(runtime, [type |-> "exited", turn |-> live.turn])
    /\ UNCHANGED <<queueVars, ingest, reactor, pass, delivered>>

\* resolveProviderLifecycleGuard.  A turn of 0 stands for no turn id.
ShouldApply(t, e) ==
    LET conflicts(turn) == turn # 0 /\ e.turn # turn
    IN  /\ live.on => live.epoch = t.epoch
        /\ e.type = "started" => t.turn \in {0, e.turn}
        /\ e.type = "completed" => ~conflicts(t.turn) /\ ~conflicts(LiveTurn)
        /\ e.type = "exited" => ~conflicts(LiveTurn)

LifecycleSet(t, e) ==
    [status |-> CASE e.type = "started" -> "running"
                  [] e.type = "completed" -> "ready"
                  [] e.type = "exited" -> "stopped",
     turn |-> IF e.type = "started" THEN e.turn ELSE 0,
     epoch |-> t.epoch, expected |-> t.turn]

\* processRuntimeEvent reads the thread and the live session; a rejected
\* event reconciles the thread instead.
IngestRuntimeEvent ==
    /\ ingest = NoSet /\ runtime # <<>>
    /\ runtime' = Tail(runtime)
    /\ IF ShouldApply(thread, Head(runtime))
       THEN ingest' = LifecycleSet(thread, Head(runtime))
       ELSE \/ ingest' = toReconciledSession(SessionOf(thread), live)
            \/ /\ thread.turn # 0 /\ LiveTurn = 0
               /\ ingest' = NoSet
    /\ UNCHANGED <<queueVars, live, reactor, pass, scenario, delivered>>

IngestDispatches ==
    /\ ingest # NoSet
    /\ CommitTriggering(SessionSetEvents(ingest))
    /\ ingest' = NoSet
    /\ UNCHANGED <<requests, live, runtime, reactor, pass, scenario, delivered>>

-----------------------------------------------------------------------------
(* The reconciliation and recovery pass, every five seconds.               *)

PassDoing(step) == pass.todo # <<>> /\ Head(pass.todo) = step
PassEnd(p) ==
    IF p.todo = <<>> THEN [IdlePass EXCEPT !.missing = p.missing] ELSE p

\* selectPeriodicReconciliationThreads.
Eligible(t) ==
    t.intent # NoIntent \/ t.op # NoOp \/ t.turn # 0 \/ t.status = "running"

\* The thread is read first, the provider sessions after it.
ReconcileReads ==
    /\ "reconcile" \in Allowed
    /\ pass.todo = <<>>
    /\ pass.boot \/ Eligible(thread)
    /\ pass' = [pass EXCEPT !.todo = <<"discover", "recover">>,
                            !.seen = SessionOf(thread)]
    /\ UNCHANGED <<queueVars, live, runtime, ingest, reactor, scenario, delivered>>

\* A missing session is believed when it was already missing in the last
\* pass, and at once after a restart.
ReconcileDiscovers ==
    /\ PassDoing("discover")
    /\ pass' = [pass EXCEPT
         !.todo = (IF live.on \/ pass.missing \/ pass.boot THEN <<"set">> ELSE <<>>)
                    \o Tail(@),
         !.set = toReconciledSession(pass.seen, live),
         !.live = [live EXCEPT !.last = 0], !.missing = ~live.on]
    /\ UNCHANGED <<queueVars, live, runtime, ingest, reactor, scenario, delivered>>

\* recoverTurnControlOperations for the operation of this thread.
RecoveryScript(t, s) ==
    LET op == t.op
        gone == /\ op.reserved # <<>>
                /\ \A i \in DOMAIN t.queue : t.queue[i].id \notin ToSet(op.reserved)
    IN  CASE ~OpenOperation(t) -> <<>>
          [] OTHER ->
        IF op.epoch # t.epoch THEN <<"superseded">>
        ELSE IF /\ gone
                /\ \/ op.state \in {"provider-acknowledged", "waiting-for-settlement"}
                   \/ op.strategy = "interrupt-continue" /\ op.state = "requested"
        THEN <<"complete">>
        ELSE IF op.strategy = "native-steer" /\ op.state = "requested"
        THEN <<"ambiguous">>
        ELSE IF op.strategy = "native-steer" /\ op.state = "provider-acknowledged"
        THEN <<"consume", "complete">>
        ELSE IF op.strategy # "interrupt-continue" THEN <<>>
        ELSE IF s.on /\ s.epoch = op.epoch /\ s.turn = op.turn
        THEN (IF op.state = "requested" THEN <<"failed">> ELSE <<>>)
        ELSE IF t.turn # 0 \/ (s.on /\ s.turn # 0) THEN <<>>
        ELSE <<"continue", "complete">>

RecoverOperation ==
    /\ PassDoing("recover")
    /\ pass' = PassEnd([pass EXCEPT !.todo = RecoveryScript(thread, pass.live),
                                    !.op = thread.op])
    /\ UNCHANGED <<queueVars, live, runtime, ingest, reactor, scenario, delivered>>

PassDispatches ==
    /\ pass.todo # <<>> /\ Head(pass.todo) \in Scripted
    /\ CommitTriggering(ScriptEvents(Head(pass.todo), pass))
    /\ pass' = PassEnd([pass EXCEPT !.todo = Tail(@)])
    /\ UNCHANGED <<requests, live, runtime, ingest, reactor, scenario, delivered>>

\* flushReservedPrefix; a flush that is refused ends the pass.
PassFlushes ==
    /\ PassDoing("continue") \/ PassDoing("consume")
    /\ LET events == ReservedFlush(pass.op,
                        IF PassDoing("consume") THEN "consume" ELSE "control")
       IN  /\ Commit(events)
           /\ pass' = PassEnd([pass EXCEPT
                        !.todo = IF events = <<>> THEN <<>> ELSE Tail(@)])
    /\ UNCHANGED <<offered, requests, live, runtime, ingest, reactor, scenario, delivered>>

\* The watchdog fails a start that has neither bound nor failed.
WatchdogFails ==
    /\ "stale" \in Allowed
    /\ thread.start.stale
    /\ CommitTriggering(<<[type |-> "turn-start-failed", id |-> thread.start.id]>>)
    /\ UNCHANGED <<requests, controlVars>>

\* The server restarts; the provider's session survives or not.
Restart ==
    /\ "restart" \in Allowed
    /\ scenario.failed < scenario.bounds.faults
    /\ scenario' = [scenario EXCEPT !.failed = @ + 1,
                                    !.revived = @ \/ stored.intent # thread.intent]
    /\ ReloadQueue
    /\ live' \in {live, Ended(live)}
    /\ runtime' = <<>>
    /\ ingest' = NoSet
    /\ reactor' = IdleReactor
    /\ pass' = [IdlePass EXCEPT !.boot = TRUE]
    /\ UNCHANGED delivered

-----------------------------------------------------------------------------
UserStep ==
    \/ \E m \in scenario.bounds.who, auto \in BOOLEAN :
          (auto \/ "queue" \in Allowed) /\ Submit(m, auto)
    \/ "direct" \in Allowed /\ \E m \in scenario.bounds.who : StartDirectly(m)
    \/ "remove" \in Allowed /\ \E i \in DOMAIN thread.queue : RemovePrompt(i)
    \/ "send-now" \in Allowed /\ \E n \in DOMAIN thread.queue : SendNow(n)
    \/ "steer" \in Allowed /\ \E n \in DOMAIN thread.queue : Steer(n)
    \/ "stale" \in Allowed /\ StartGrowsStale

\* The messages that an open steer has reserved.
Steering(t) ==
    IF OpenOperation(t) /\ t.op.strategy \in {"pending-selection", "native-steer"}
    THEN UNION {ToSet(TextOf(t, id)) : id \in ToSet(t.op.reserved)} ELSE {}

\* The decider replaces the open operation by the stop, whatever it is.
StopStep ==
    /\ "stop" \in Allowed
    /\ Stop
    /\ scenario' = [scenario EXCEPT !.dropped = @ \cup Steering(thread)]
    /\ UNCHANGED <<live, runtime, ingest, reactor, pass, delivered>>

ReactorStep ==
    \/ ReactorDispatches
    \/ ReceiveTurnStart \/ ensureSession \/ OpenSession \/ OpenFails
    \/ SendTurn \/ ProviderAccepts \/ ProviderRefuses \/ SendFails
    \/ TurnAccepted \/ RequeueTurnStart \/ MarkProviderTurnRunning
    \/ processTurnInterruptRequested \/ RecheckSession \/ InterruptTurn
    \/ SettleInterrupt \/ FlushReserved
    \/ processTurnSteerRequested \/ SteerTurn
    \/ processSessionStopRequested

IngestStep == IngestRuntimeEvent \/ IngestDispatches

PassStep ==
    \/ ReconcileReads \/ ReconcileDiscovers \/ RecoverOperation
    \/ PassDispatches \/ PassFlushes

Init ==
    /\ QueueInit(FALSE, <<>>)
    /\ live = NoSession
    /\ runtime = <<>>
    /\ ingest = NoSet
    /\ reactor = IdleReactor
    /\ pass = IdlePass
    /\ scenario \in [bounds : Scenarios, failed : {0}, revived : {FALSE}, dropped : {{}}]
    /\ delivered = [m \in Messages |-> [starts |-> 0, steers |-> 0, epoch |-> 0]]

Next ==
    \/ UserStep /\ ops' <= scenario.bounds.ops /\ UNCHANGED controlVars
    \/ StopStep /\ ops' <= scenario.bounds.ops
    \/ LifecycleFlush /\ UNCHANGED controlVars
    \/ ReactorStep
    \/ ProviderCompletes \/ ProviderExits
    \/ IngestStep
    \/ PassStep
    \/ WatchdogFails
    \/ Restart

Spec == Init /\ [][Next]_vars

FairSpec ==
    /\ Spec
    /\ WF_vars(LifecycleFlush /\ UNCHANGED controlVars)
    /\ WF_vars(ReactorStep)
    /\ WF_vars(ProviderCompletes)
    /\ WF_vars(IngestStep)
    /\ WF_vars(PassStep)

-----------------------------------------------------------------------------
\* No two queued prompts have the same id, the prompts that count are within
\* MAX_QUEUED_PROMPTS (redelivered ones do not count), and every other value
\* is of its kind.
TypeOK ==
    /\ thread.status \in {"none", "starting", "ready", "running", "stopped", "error"}
    /\ \A i, j \in DOMAIN thread.queue :
          thread.queue[i].id = thread.queue[j].id => i = j
    /\ Counted(thread.queue) <= MAX_QUEUED_PROMPTS
    /\ delivered \in [Messages -> [starts : 0..2, steers : 0..2, epoch : Nat]]

\* A message that needs a turn of its own never shares one, whichever of
\* submission, flush and redelivery builds the turn.
SoloAlone ==
    \A msg \in thread.messages :
        \A m \in ToSet(msg.text) \cap Solo : msg.text = <<m>>

\* What an interrupt has captured is the head of the queue, in order, until
\* the flush that takes all of it, whatever is queued again or removed in
\* between.  A restart may bring an interrupt back that was cancelled.
IntentIsPrefix ==
    thread.intent # NoIntent =>
        exactQueuedPrefix(thread, thread.intent.ids) # <<>> \/ scenario.revived

\* No message starts two turns: neither a busy redelivery, nor the recovery
\* of a start, nor a restart hands over again what a turn has taken.
StartedOnce == \A m \in Messages : delivered[m].starts < 2

\* The invariants of the queue, as one invariant of the run.
QueueInv == TypeOK /\ SoloAlone /\ IntentIsPrefix /\ StartedOnce

\* The provider receives no message twice, be it by a steer and the turn that
\* flushes the queue, by a steer of uncertain outcome, or after a restart,
\* except where the code gives the operation up: a Stop has replaced the
\* steer, or a new epoch has superseded it.
DeliveredOnce ==
    \A m \in Messages :
        delivered[m].starts + delivered[m].steers > 1 =>
            m \in scenario.dropped \/ thread.epoch > delivered[m].epoch

\* What an open operation has reserved is the head of the queue, in order,
\* until all of it has left the queue.
ReservedIsPrefix ==
    hasActiveQueueReservation(thread) =>
        \/ exactQueuedPrefix(thread, thread.op.reserved) # <<>>
        \/ \A i \in DOMAIN thread.queue :
              thread.queue[i].id \notin ToSet(thread.op.reserved)

\* The messages whose text is in the queue or in the transcript.
Carried(t) ==
    (UNION {ToSet(TextOf(t, t.queue[i].id)) : i \in DOMAIN t.queue})
      \cup (UNION {ToSet(msg.text) : msg \in t.messages})

\* The messages that the provider has received.
Received == {m \in Messages : delivered[m].starts + delivered[m].steers > 0}

\* A message leaves the queue only for the transcript or for the provider,
\* unless its user removes it: no failed start, combined follow-up, flush or
\* restart loses its text.
KeepsMessages ==
    [][\/ Carried(thread) \subseteq Carried(thread') \cup Received
       \/ \E i \in DOMAIN thread.queue : RemovePrompt(i)]_vars

\* The hold that Stop puts on a queue with prompts is lifted only by sending
\* some of them, or by a turn that starts past the queue (the projector lifts
\* it on every turn start).
HeldUntilSent ==
    [][thread.hold /\ ~thread'.hold /\ thread.queue # <<>>
         => \/ Len(thread'.queue) < Len(thread.queue)
            \/ \E m \in Messages : StartDirectly(m)]_vars

\* A restart takes up the queue with the hold and the captured prompts that
\* the process before it had.
RestartKeepsQueueControl ==
    [][Restart => /\ thread'.hold = thread.hold
                  /\ thread'.intent = thread.intent]_vars

\* A "Send now" is recorded as failed only after a provider call failed, the
\* session exited or the server restarted.
FailedForAReason ==
    thread.op.strategy = "interrupt-continue" /\ thread.op.state = "failed" => scenario.failed > 0

\* Prompts waiting behind a turn are sent when the thread is free again.
QueueDrains ==
    (thread.queue # <<>>) ~> (thread.queue = <<>>)
=============================================================================
