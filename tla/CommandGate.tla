---------------------------- MODULE CommandGate ----------------------------
(***************************************************************************)
(* The startup command gate: commands that arrive while the server starts  *)
(* wait in a bounded queue until startup has succeeded or failed; later    *)
(* ones run, or are refused, at once.  The readiness that callers read (a  *)
(* Ref) and the one that queued commands await (a Deferred) are set one    *)
(* after the other, and a caller reads, offers and waits in separate       *)
(* steps.  A retry of a command is another call.                           *)
(***************************************************************************)
EXTENDS Integers, Sequences, FiniteSets

CONSTANTS
    Calls,     \* the calls of enqueueCommand
    Capacity,  \* STARTUP_COMMAND_QUEUE_CAPACITY
    NoCall

ASSUME GateAssumption ==
    /\ Capacity \in Nat \ {0}
    /\ NoCall \notin Calls

VARIABLES
    readiness,  \* commandReadinessState: pending, ready or error
    deferred,   \* commandReady: unset, ready or error
    call,       \* where each call stands
    answer,     \* what its caller was told
    queue,      \* commandAdmission
    worker,     \* the call whose entry the worker has taken
    ran         \* how often the command of each call was executed (up to 2)

vars == <<readiness, deferred, call, answer, queue, worker, ran>>

Init ==
    /\ readiness = "pending"
    /\ deferred = "unset"
    /\ call = [c \in Calls |-> "idle"]
    /\ answer = [c \in Calls |-> "none"]
    /\ queue = <<>>
    /\ worker = NoCall
    /\ ran = [c \in Calls |-> 0]

Answers(c, with) ==
    /\ call' = [call EXCEPT ![c] = "answered"]
    /\ answer' = [answer EXCEPT ![c] = with]

Executes(c) == ran' = [ran EXCEPT ![c] = IF @ = 0 THEN 1 ELSE 2]

-----------------------------------------------------------------------------
\* signalCommandReady and failCommandReady, each in two steps.
SetReadiness(outcome) ==
    /\ readiness = "pending"
    /\ readiness' = outcome
    /\ UNCHANGED <<deferred, call, answer, queue, worker, ran>>

\* Mutant: the callers learn of the outcome, the queued commands do not.
CompleteDeferredNever == FALSE

CompleteDeferred ==
    /\ readiness # "pending" /\ deferred = "unset"
    /\ deferred' = readiness
    /\ UNCHANGED <<readiness, call, answer, queue, worker, ran>>

\* enqueueCommand reads the readiness.
enqueueCommand(c) ==
    /\ call[c] = "idle"
    /\ call' = [call EXCEPT ![c] = CASE readiness = "ready" -> "running"
                                     [] readiness = "error" -> "refused"
                                     [] OTHER -> "offering"]
    /\ UNCHANGED <<readiness, deferred, answer, queue, worker, ran>>

\* The effect itself, when the server was ready.
RunAtOnce(c) ==
    /\ call[c] = "running"
    /\ Executes(c)
    /\ Answers(c, "result")
    /\ UNCHANGED <<readiness, deferred, queue, worker>>

Refuse(c) ==
    /\ call[c] = "refused"
    /\ Answers(c, "startup-error")
    /\ UNCHANGED <<readiness, deferred, queue, worker, ran>>

\* offer, under the admission semaphore.
offer(c) ==
    /\ call[c] = "offering"
    /\ IF Len(queue) < Capacity
       THEN /\ queue' = Append(queue, c)
            /\ call' = [call EXCEPT ![c] = "waiting"]
            /\ UNCHANGED answer
       ELSE /\ Answers(c, "overloaded")
            /\ UNCHANGED queue
    /\ UNCHANGED <<readiness, deferred, worker, ran>>

\* Mutant: a call past its deadline is told that it was not admitted.
DeadlineRefuses(c) ==
    /\ call[c] = "waiting"
    /\ Answers(c, "overloaded")
    /\ UNCHANGED <<readiness, deferred, queue, worker, ran>>

\* STARTUP_COMMAND_DEADLINE_MS pass; the queued entry stays where it is.
Deadline(c) ==
    /\ call[c] = "waiting"
    /\ Answers(c, "deadline")
    /\ UNCHANGED <<readiness, deferred, queue, worker, ran>>

\* commandWorker takes the next entry only when it is done with the last.
Take ==
    /\ worker = NoCall /\ queue # <<>>
    /\ worker' = Head(queue)
    /\ queue' = Tail(queue)
    /\ UNCHANGED <<readiness, deferred, call, answer, ran>>

\* What the worker settles the result with is lost on a caller that gave up.
Settles(c, with) ==
    IF call[c] = "waiting" THEN Answers(c, with) ELSE UNCHANGED <<call, answer>>

\* Mutant: the taken command does not await readiness.
RunQueuedAtOnce ==
    /\ worker # NoCall
    /\ Executes(worker)
    /\ Settles(worker, "result")
    /\ worker' = NoCall
    /\ UNCHANGED <<readiness, deferred, queue>>

RunQueued ==
    /\ worker # NoCall /\ deferred = "ready"
    /\ Executes(worker)
    /\ Settles(worker, "result")
    /\ worker' = NoCall
    /\ UNCHANGED <<readiness, deferred, queue>>

FailQueued ==
    /\ worker # NoCall /\ deferred = "error"
    /\ Settles(worker, "startup-error")
    /\ worker' = NoCall
    /\ UNCHANGED <<readiness, deferred, queue, ran>>

CallStep(c) == enqueueCommand(c) \/ RunAtOnce(c) \/ Refuse(c) \/ offer(c)
WorkerStep == Take \/ RunQueued \/ FailQueued
StartupEnds == SetReadiness("ready") \/ SetReadiness("error") \/ CompleteDeferred

Next ==
    \/ StartupEnds
    \/ \E c \in Calls : CallStep(c) \/ Deadline(c)
    \/ WorkerStep

Spec == Init /\ [][Next]_vars

\* Startup ends, and no fibre is starved; the deadline is not relied upon.
FairSpec ==
    /\ Spec
    /\ WF_vars(StartupEnds)
    /\ WF_vars(WorkerStep)
    /\ \A c \in Calls : WF_vars(CallStep(c))

-----------------------------------------------------------------------------
InQueue(c) == \E i \in DOMAIN queue : queue[i] = c

\* Every value is of its kind, and the queue is within its capacity.
TypeOK ==
    /\ readiness \in {"pending", "ready", "error"}
    /\ deferred \in {"unset", "ready", "error"}
    /\ call \in [Calls -> {"idle", "running", "refused", "offering", "waiting", "answered"}]
    /\ answer \in [Calls -> {"none", "result", "startup-error", "overloaded", "deadline"}]
    /\ queue \in Seq(Calls) /\ Len(queue) <= Capacity
    /\ worker \in Calls \cup {NoCall}
    /\ ran \in [Calls -> 0..2]

\* No command runs before startup has succeeded or after it has failed,
\* whichever way it came in and however the two readiness cells interleave.
RunsOnlyWhenReady == \A c \in Calls : ran[c] > 0 => readiness = "ready"

\* A call executes its command at most once, also when its caller has given
\* up at the deadline.
RunsOnce == \A c \in Calls : ran[c] < 2

\* The answer is true of what happens to the command: a result means that it
\* ran; a refusal (full queue or failed startup) means that it did not run
\* and never will, so a retry cannot be a duplicate.
AnswerIsTrue ==
    \A c \in Calls :
        /\ answer[c] = "result" => ran[c] > 0
        /\ answer[c] \in {"startup-error", "overloaded"} =>
              ran[c] = 0 /\ ~InQueue(c) /\ worker # c

\* Every call is answered once startup has ended, also one that read
\* "pending" and was queued only after the queued commands were released.
EveryCallAnswered ==
    \A c \in Calls : call[c] # "idle" ~> call[c] = "answered"
=============================================================================
