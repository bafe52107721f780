------------------------- MODULE CommandGateProofs -------------------------
(***************************************************************************)
(* The startup gate runs nothing too early, nothing twice, and answers     *)
(* truthfully, for any number of calls and any capacity.                   *)
(***************************************************************************)
EXTENDS CommandGate, TLAPS

\* What queued commands await is set after what callers read, to the same.
DeferredFollows == deferred # "unset" => deferred = readiness /\ readiness # "pending"

\* A call outside the queue that is not answered has no entry and no effect.
FreshCalls ==
    \A c \in Calls : call[c] \in {"idle", "running", "refused", "offering"} =>
        ran[c] = 0 /\ answer[c] = "none" /\ ~InQueue(c) /\ worker # c

\* What a caller read of the readiness is still so: it changes only once.
ReadIsFinal == \A c \in Calls : call[c] = "running" => readiness = "ready"

\* An entry was not run yet, and its caller still waits or has given up.
EntriesAreFresh ==
    \A c \in Calls : InQueue(c) \/ worker = c =>
        ran[c] = 0 /\ answer[c] \in {"none", "deadline"}

\* A call has at most one entry.
OneEntry ==
    /\ \A i, j \in DOMAIN queue : queue[i] = queue[j] => i = j
    /\ \A i \in DOMAIN queue : queue[i] # worker

\* A waiting call has no answer yet.
WaitingCalls == \A c \in Calls : call[c] = "waiting" => answer[c] = "none"

IndInv ==
    /\ TypeOK /\ DeferredFollows /\ FreshCalls /\ ReadIsFinal
    /\ EntriesAreFresh /\ OneEntry /\ WaitingCalls
    /\ RunsOnlyWhenReady /\ RunsOnce /\ AnswerIsTrue

-----------------------------------------------------------------------------
LEMMA AppendEntry ==
    ASSUME NEW S, NEW s \in Seq(S), NEW e \in S
    PROVE  /\ Append(s, e) \in Seq(S)
           /\ Len(Append(s, e)) = Len(s) + 1
           /\ \A n \in DOMAIN Append(s, e) :
                 \/ n = Len(s) + 1 /\ Append(s, e)[n] = e
                 \/ n \in DOMAIN s /\ Append(s, e)[n] = s[n]
    OBVIOUS

LEMMA TailEntries ==
    ASSUME NEW S, NEW s \in Seq(S), s # <<>>
    PROVE  /\ Head(s) \in S /\ Head(s) = s[1] /\ 1 \in DOMAIN s
           /\ Tail(s) \in Seq(S)
           /\ Len(Tail(s)) = Len(s) - 1
           /\ \A n \in DOMAIN Tail(s) : n \in Nat /\ n # 0 /\ n + 1 \in DOMAIN s /\ Tail(s)[n] = s[n + 1]
    OBVIOUS

LEMMA InitIndInv == Init => IndInv
  <1> SUFFICES ASSUME Init PROVE IndInv
    OBVIOUS
  <1>1. << >> \in Seq(Calls) /\ Len(<< >>) = 0 /\ DOMAIN << >> = {}
    OBVIOUS
  <1>2. TypeOK
    BY <1>1, GateAssumption DEF Init, TypeOK
  <1>3. DeferredFollows /\ ReadIsFinal /\ WaitingCalls /\ RunsOnlyWhenReady /\ RunsOnce
    BY DEF Init, DeferredFollows, ReadIsFinal, WaitingCalls, RunsOnlyWhenReady, RunsOnce
  <1>4. FreshCalls /\ EntriesAreFresh /\ OneEntry /\ AnswerIsTrue
    BY <1>1, GateAssumption DEF Init, FreshCalls, EntriesAreFresh, OneEntry, AnswerIsTrue, InQueue
  <1> QED
    BY <1>2, <1>3, <1>4 DEF IndInv

\* A step that leaves the calls, the queue and the effects alone.
LEMMA ReadinessIndInv ==
    ASSUME IndInv,
           \/ SetReadiness("ready") \/ SetReadiness("error")
           \/ CompleteDeferred
    PROVE  IndInv'
  <1>1. UNCHANGED <<call, answer, queue, worker, ran>>
    BY DEF SetReadiness, CompleteDeferred
  <1>2. readiness' = readiness \/ readiness = "pending"
    BY DEF SetReadiness, CompleteDeferred
  <1>3. TypeOK'
    BY <1>1 DEF IndInv, TypeOK, SetReadiness, CompleteDeferred
  <1>4. DeferredFollows'
    BY DEF IndInv, TypeOK, DeferredFollows, SetReadiness, CompleteDeferred
  <1>5. ReadIsFinal' /\ RunsOnlyWhenReady'
    BY <1>1, <1>2 DEF IndInv, ReadIsFinal, RunsOnlyWhenReady
  <1>6. FreshCalls' /\ EntriesAreFresh' /\ OneEntry' /\ WaitingCalls' /\ RunsOnce' /\ AnswerIsTrue'
    BY <1>1 DEF IndInv, FreshCalls, EntriesAreFresh, OneEntry, WaitingCalls, RunsOnce,
                AnswerIsTrue, InQueue
  <1> QED
    BY <1>3, <1>4, <1>5, <1>6 DEF IndInv

LEMMA CallIndInv ==
    ASSUME IndInv, NEW c \in Calls,
           enqueueCommand(c) \/ RunAtOnce(c) \/ Refuse(c) \/ Deadline(c)
    PROVE  IndInv'
  <1> USE DEF Answers, Executes
  <1>1. UNCHANGED <<readiness, deferred, queue, worker>>
    BY DEF enqueueCommand, RunAtOnce, Refuse, Deadline
  <1>2. \A d \in Calls : InQueue(d)' <=> InQueue(d)
    BY <1>1 DEF InQueue
  <1>3. TypeOK'
    BY <1>1 DEF IndInv, TypeOK, enqueueCommand, RunAtOnce, Refuse, Deadline
  <1>4. DeferredFollows' /\ OneEntry'
    BY <1>1 DEF IndInv, DeferredFollows, OneEntry
  <1>5. CASE enqueueCommand(c)
    BY <1>1, <1>2, <1>3, <1>4, <1>5
       DEF IndInv, TypeOK, enqueueCommand, FreshCalls, ReadIsFinal, EntriesAreFresh,
           WaitingCalls, RunsOnlyWhenReady, RunsOnce, AnswerIsTrue
  <1>6. CASE RunAtOnce(c)
    BY <1>1, <1>2, <1>3, <1>4, <1>6
       DEF IndInv, TypeOK, RunAtOnce, FreshCalls, ReadIsFinal, EntriesAreFresh,
           WaitingCalls, RunsOnlyWhenReady, RunsOnce, AnswerIsTrue
  <1>7. CASE Refuse(c)
    BY <1>1, <1>2, <1>3, <1>4, <1>7
       DEF IndInv, TypeOK, Refuse, FreshCalls, ReadIsFinal, EntriesAreFresh,
           WaitingCalls, RunsOnlyWhenReady, RunsOnce, AnswerIsTrue
  <1>8. CASE Deadline(c)
    BY <1>1, <1>2, <1>3, <1>4, <1>8
       DEF IndInv, TypeOK, Deadline, FreshCalls, ReadIsFinal, EntriesAreFresh,
           WaitingCalls, RunsOnlyWhenReady, RunsOnce, AnswerIsTrue
  <1> QED
    BY <1>5, <1>6, <1>7, <1>8

LEMMA OfferIndInv ==
    ASSUME IndInv, NEW c \in Calls, offer(c) PROVE IndInv'
  <1>1. UNCHANGED <<readiness, deferred, worker, ran>>
    BY DEF offer
  <1>2. queue \in Seq(Calls) /\ Len(queue) \in Nat /\ Capacity \in Nat
    BY GateAssumption DEF IndInv, TypeOK
  <1>3. CASE Len(queue) < Capacity
    <2>1. /\ queue' = Append(queue, c)
          /\ call' = [call EXCEPT ![c] = "waiting"]
          /\ answer' = answer
      BY <1>3 DEF offer
    <2>2. /\ queue' \in Seq(Calls)
          /\ Len(queue') = Len(queue) + 1
          /\ \A n \in DOMAIN queue' : \/ n = Len(queue) + 1 /\ queue'[n] = c
                                      \/ n \in DOMAIN queue /\ queue'[n] = queue[n]
      BY <2>1, <1>2, AppendEntry
    <2>3. ran[c] = 0 /\ answer[c] = "none" /\ ~InQueue(c) /\ worker # c
      BY DEF IndInv, FreshCalls, offer
    <2>4. \A d \in Calls : InQueue(d)' => InQueue(d) \/ d = c
      BY <2>2 DEF InQueue
    <2>5. TypeOK'
      BY <2>1, <2>2, <1>1, <1>2, <1>3 DEF IndInv, TypeOK
    <2>6. OneEntry'
      BY <2>2, <2>3, <1>1 DEF IndInv, OneEntry, InQueue
    <2>7. FreshCalls' /\ EntriesAreFresh' /\ WaitingCalls'
      BY <2>1, <2>3, <2>4, <1>1 DEF IndInv, TypeOK, FreshCalls, EntriesAreFresh, WaitingCalls
    <2>8. AnswerIsTrue'
      BY <2>1, <2>3, <2>4, <1>1 DEF IndInv, AnswerIsTrue
    <2>9. DeferredFollows' /\ ReadIsFinal' /\ RunsOnlyWhenReady' /\ RunsOnce'
      BY <2>1, <1>1 DEF IndInv, TypeOK, DeferredFollows, ReadIsFinal, RunsOnlyWhenReady, RunsOnce
    <2> QED
      BY <2>5, <2>6, <2>7, <2>8, <2>9 DEF IndInv
  <1>4. CASE ~(Len(queue) < Capacity)
    <2>1. /\ queue' = queue
          /\ call' = [call EXCEPT ![c] = "answered"]
          /\ answer' = [answer EXCEPT ![c] = "overloaded"]
      BY <1>4 DEF offer, Answers
    <2>2. ran[c] = 0 /\ answer[c] = "none" /\ ~InQueue(c) /\ worker # c
      BY DEF IndInv, FreshCalls, offer
    <2>3. \A d \in Calls : InQueue(d)' <=> InQueue(d)
      BY <2>1 DEF InQueue
    <2>4. TypeOK'
      BY <2>1, <1>1 DEF IndInv, TypeOK
    <2>5. DeferredFollows' /\ OneEntry'
      BY <2>1, <1>1 DEF IndInv, DeferredFollows, OneEntry
    <2> QED
      BY <2>1, <2>2, <2>3, <2>4, <2>5, <1>1
         DEF IndInv, TypeOK, FreshCalls, ReadIsFinal, EntriesAreFresh, WaitingCalls,
             RunsOnlyWhenReady, RunsOnce, AnswerIsTrue
  <1> QED
    BY <1>3, <1>4

LEMMA TakeIndInv ==
    ASSUME IndInv, Take PROVE IndInv'
  <1>1. UNCHANGED <<readiness, deferred, call, answer, ran>>
    BY DEF Take
  <1>2. queue \in Seq(Calls) /\ queue # <<>> /\ Len(queue) \in Nat /\ Capacity \in Nat
    BY GateAssumption DEF IndInv, TypeOK, Take
  <1>3. /\ worker' \in Calls /\ worker' = queue[1] /\ 1 \in DOMAIN queue
        /\ queue' \in Seq(Calls)
        /\ Len(queue') = Len(queue) - 1
        /\ \A n \in DOMAIN queue' : /\ n \in Nat /\ n # 0
                                    /\ n + 1 \in DOMAIN queue
                                    /\ queue'[n] = queue[n + 1]
    BY <1>2, TailEntries DEF Take
  <1>4. InQueue(worker')
    BY <1>3 DEF InQueue
  <1>5. \A d \in Calls : InQueue(d)' => InQueue(d)
    BY <1>3 DEF InQueue
  <1>6. TypeOK'
    BY <1>1, <1>2, <1>3 DEF IndInv, TypeOK
  <1>7. OneEntry'
    <2>1. \A i, j \in DOMAIN queue' : queue'[i] = queue'[j] => i = j
      BY <1>3 DEF IndInv, OneEntry
    <2>2. \A i \in DOMAIN queue' : queue'[i] # worker'
      BY <1>3 DEF IndInv, OneEntry
    <2> QED
      BY <2>1, <2>2 DEF OneEntry
  <1>8. FreshCalls' /\ EntriesAreFresh' /\ AnswerIsTrue'
    BY <1>1, <1>3, <1>4, <1>5 DEF IndInv, FreshCalls, EntriesAreFresh, AnswerIsTrue
  <1>9. DeferredFollows' /\ ReadIsFinal' /\ WaitingCalls' /\ RunsOnlyWhenReady' /\ RunsOnce'
    BY <1>1 DEF IndInv, DeferredFollows, ReadIsFinal, WaitingCalls, RunsOnlyWhenReady, RunsOnce
  <1> QED
    BY <1>6, <1>7, <1>8, <1>9 DEF IndInv

LEMMA SettleIndInv ==
    ASSUME IndInv, RunQueued \/ FailQueued PROVE IndInv'
  <1>1. UNCHANGED <<readiness, deferred, queue>> /\ worker' = NoCall /\ worker \in Calls
    BY DEF IndInv, TypeOK, RunQueued, FailQueued
  <1>2. PICK c \in Calls : c = worker
    BY <1>1
  <1>3. ran[c] = 0 /\ answer[c] \in {"none", "deadline"} /\ ~InQueue(c)
    BY <1>2 DEF IndInv, EntriesAreFresh, OneEntry, InQueue
  <1>4. \A d \in Calls : (InQueue(d)' <=> InQueue(d)) /\ d # worker'
    BY <1>1, GateAssumption DEF InQueue
  <1>5. DeferredFollows' /\ OneEntry'
    BY <1>1, GateAssumption DEF IndInv, TypeOK, DeferredFollows, OneEntry
  <1>6. call[c] \in {"waiting", "answered"}
    BY <1>2 DEF IndInv, TypeOK, FreshCalls
  <1>7. CASE RunQueued
    <2>1. ran' = [ran EXCEPT ![c] = 1] /\ readiness = "ready"
      BY <1>2, <1>3, <1>7 DEF RunQueued, Executes, IndInv, DeferredFollows, TypeOK
    <2>2. \/ /\ call' = [call EXCEPT ![c] = "answered"]
             /\ answer' = [answer EXCEPT ![c] = "result"]
          \/ call' = call /\ answer' = answer /\ call[c] # "waiting"
      BY <1>2, <1>7 DEF RunQueued, Settles, Answers
    <2>3. TypeOK'
      BY <1>1, <2>1, <2>2 DEF IndInv, TypeOK
    <2> QED
      BY <1>1, <1>3, <1>4, <1>5, <1>6, <2>1, <2>2, <2>3
         DEF IndInv, TypeOK, FreshCalls, ReadIsFinal, EntriesAreFresh, WaitingCalls,
             RunsOnlyWhenReady, RunsOnce, AnswerIsTrue
  <1>8. CASE FailQueued
    <2>1. ran' = ran
      BY <1>8 DEF FailQueued
    <2>2. \/ /\ call' = [call EXCEPT ![c] = "answered"]
             /\ answer' = [answer EXCEPT ![c] = "startup-error"]
          \/ call' = call /\ answer' = answer /\ call[c] # "waiting"
      BY <1>2, <1>8 DEF FailQueued, Settles, Answers
    <2>3. TypeOK'
      BY <1>1, <2>1, <2>2 DEF IndInv, TypeOK
    <2> QED
      BY <1>1, <1>3, <1>4, <1>5, <1>6, <2>1, <2>2, <2>3
         DEF IndInv, TypeOK, FreshCalls, ReadIsFinal, EntriesAreFresh, WaitingCalls,
             RunsOnlyWhenReady, RunsOnce, AnswerIsTrue
  <1> QED
    BY <1>7, <1>8

\* The induction over the steps of startup, the callers and the worker.
THEOREM Invariance == Spec => []IndInv
  <1>1. IndInv /\ [Next]_vars => IndInv'
    <2> SUFFICES ASSUME IndInv, [Next]_vars PROVE IndInv'
      OBVIOUS
    <2>1. CASE StartupEnds
      BY <2>1, ReadinessIndInv DEF StartupEnds
    <2>2. CASE \E c \in Calls : CallStep(c) \/ Deadline(c)
      BY <2>2, CallIndInv, OfferIndInv DEF CallStep
    <2>3. CASE WorkerStep
      BY <2>3, TakeIndInv, SettleIndInv DEF WorkerStep
    <2>4. CASE UNCHANGED vars
      BY <2>4 DEF vars, IndInv, TypeOK, DeferredFollows, FreshCalls, ReadIsFinal,
                  EntriesAreFresh, OneEntry, WaitingCalls, RunsOnlyWhenReady, RunsOnce,
                  AnswerIsTrue, InQueue
    <2> QED
      BY <2>1, <2>2, <2>3, <2>4 DEF Next
  <1> QED
    BY InitIndInv, <1>1, PTL DEF Spec

\* The values keep their kinds and the queue stays within its capacity.
THEOREM TypeCorrect == Spec => []TypeOK
  BY Invariance, PTL DEF IndInv

\* No command runs before startup has succeeded, nor after it has failed.
THEOREM GateHolds == Spec => []RunsOnlyWhenReady
  BY Invariance, PTL DEF IndInv

\* Each call executes its command at most once.
THEOREM AtMostOnce == Spec => []RunsOnce
  BY Invariance, PTL DEF IndInv

\* A refused call has not run and never will; a result means that it ran.
THEOREM TruthfulAnswers == Spec => []AnswerIsTrue
  BY Invariance, PTL DEF IndInv
=============================================================================
