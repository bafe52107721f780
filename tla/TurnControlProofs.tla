------------------------ MODULE TurnControlProofs ------------------------
(***************************************************************************)
(* The invariants of TurnControl, for any messages, scenarios and bounds:  *)
(* what is queued, what the transcript carries and what the reactor has in *)
(* hand never overlap, so that no message starts two turns, no text is     *)
(* lost, and what an interrupt has captured stays the head of the queue.   *)
(*                                                                         *)
(* CoreInv, the inductive part, is stated over the parts of a state that   *)
(* it relates; a lemma for each kind of change to those parts shows that   *)
(* it is kept, and a step is then shown to make changes of such kinds.     *)
(***************************************************************************)
EXTENDS TurnControl, FiniteSetTheorems, TLAPS

Ids == Seq(Messages)
Prompts == [id : Ids, sent : BOOLEAN]
Transcript == [id : Ids, text : Ids]
Statuses == {"none", "starting", "ready", "running", "stopped", "error"}
Starting == [id : Ids, stale : BOOLEAN]
Intents == [id : Nat, ids : Seq(Ids)]
Strategies ==
    {"none", "interrupt-continue", "pending-selection", "native-steer", "stop-session"}
OperationStates ==
    {"requested", "waiting-for-settlement", "provider-acknowledged", "ambiguous",
     "completed", "failed", "superseded"}
Operations ==
    [id : Nat, reserved : Seq(Ids), epoch : Nat, turn : Nat,
     strategy : Strategies, state : OperationStates]
Threads ==
    [queue : Seq(Prompts), messages : SUBSET Transcript, status : Statuses, turn : Nat,
     epoch : Nat, start : Starting, hold : BOOLEAN, intent : Intents, op : Operations]
Controls == [hold : BOOLEAN, intent : Intents]
Handled ==
    [type : {"turn-start-requested"}, id : Ids]
      \cup [type : {"turn-interrupt-requested"}, intent : Intents, op : Operations]
      \cup [type : {"turn-steer-requested", "session-stop-requested"}, op : Operations]
Sessions == [on : BOOLEAN, epoch : Nat, turn : Nat, last : Nat]
Views == [status : Statuses, turn : Nat, epoch : Nat, start : Starting]
Reports == [status : Statuses, turn : Nat, epoch : Nat, expected : Nat]
Steps ==
    {"set", "bound", "start-failed", "cancel", "select", "provider-acknowledged",
     "ambiguous", "waiting-for-settlement", "completed", "failed", "superseded",
     "complete", "ensure", "open", "send", "sending", "accepted", "requeue", "mark",
     "recheck", "interrupt", "settle", "continue", "consume", "steer"}
Reactors ==
    [todo : Seq(Steps), id : Ids, op : Operations, seen : Views, set : Reports,
     turn : Nat, idle : BOOLEAN, tries : Nat]
PassSteps ==
    {"set", "ambiguous", "failed", "superseded", "complete", "continue", "consume",
     "discover", "recover"}
Passes ==
    [todo : Seq(PassSteps), seen : Views, live : Sessions, set : Reports,
     op : Operations, boot : BOOLEAN, missing : BOOLEAN]
Notices == [type : {"started", "completed", "exited"}, turn : Nat]
Deliveries == [Messages -> [starts : 0..2, steers : 0..2, epoch : Nat]]

QueueShape ==
    /\ thread \in Threads
    /\ stored \in Controls
    /\ offered \in Seq(Seq(Prompts))
    /\ inbox \in Seq(Handled)
    /\ ops \in Nat
    /\ submitted \subseteq Messages

ControlShape ==
    /\ live \in Sessions
    /\ runtime \in Seq(Notices)
    /\ ingest \in Reports
    /\ reactor \in Reactors
    /\ pass \in Passes
    /\ scenario \in [bounds : Scenarios, failed : Nat, revived : BOOLEAN,
                     dropped : SUBSET Messages]
    /\ delivered \in Deliveries

-----------------------------------------------------------------------------
(* Q is the queue, M the transcript, S the submitted messages, B the       *)
(* reactor's inbox, H the ids of the starts it has in hand, D how the      *)
(* provider has received each message.                                     *)

QueuedIn(Q, id) == \E k \in 1..Len(Q) : Q[k].id = id
SentIn(M, id) == \E x \in M : x.id = id
TextIn(M, m) == \E x \in M : m \in ToSet(x.text)
StartsIn(B) == {k \in 1..Len(B) : B[k].type = "turn-start-requested"}

\* Distinct entries have distinct ids and disjoint texts, an id is part of
\* its text, and a message that needs a turn of its own is alone.
TranscriptInv(M, S) ==
    /\ \A x, y \in M : x.id = y.id => x = y
    /\ \A x, y \in M : (\E m \in ToSet(x.text) : m \in ToSet(y.text)) => x = y
    /\ \A x \in M : /\ x.id # <<>> /\ ToSet(x.id) \subseteq ToSet(x.text)
                    /\ ToSet(x.text) \subseteq S
                    /\ \A m \in ToSet(x.text) \cap Solo : x.text = <<m>>

\* A prompt is queued once: as one that was sent and is in the transcript,
\* or as a submitted message that the transcript does not carry.
QueuedInv(Q, M, S) ==
    /\ \A k, l \in 1..Len(Q) : Q[k].id = Q[l].id => k = l
    /\ Counted(Q) <= MAX_QUEUED_PROMPTS
    /\ \A k \in 1..Len(Q) :
          IF Q[k].sent THEN SentIn(M, Q[k].id)
          ELSE \E m \in S : Q[k].id = <<m>> /\ ~TextIn(M, m)

\* A sent message is in one place at most: in the queue again, on its way to
\* the reactor as a start, or in its hand.
OnceInv(Q, M, B, H) ==
    /\ \A k \in StartsIn(B) : /\ SentIn(M, B[k].id)
                              /\ ~QueuedIn(Q, B[k].id)
                              /\ B[k].id \notin H
    /\ \A k, l \in StartsIn(B) : B[k].id = B[l].id => k = l
    /\ \A id \in H : SentIn(M, id) /\ ~QueuedIn(Q, id)

Waiting(Q, B, H, id) ==
    QueuedIn(Q, id) \/ (\E k \in StartsIn(B) : B[k].id = id) \/ id \in H

\* What has started a turn is in the transcript, and waits nowhere.
StartedInv(Q, M, B, H, D) ==
    /\ \A m \in Messages : D[m].starts > 0 => TextIn(M, m)
    /\ \A x \in M : Waiting(Q, B, H, x.id) =>
          \A m \in ToSet(x.text) \cap Messages : D[m].starts = 0
    /\ \A m \in Messages : D[m].starts < 2

CoreInv(Q, M, S, B, H, D) ==
    /\ Q \in Seq(Prompts) /\ M \subseteq Transcript /\ S \subseteq Messages
    /\ B \in Seq(Handled) /\ H \subseteq Ids /\ D \in Deliveries
    /\ TranscriptInv(M, S)
    /\ QueuedInv(Q, M, S)
    /\ OnceInv(Q, M, B, H)
    /\ StartedInv(Q, M, B, H, D)

HandSteps == {"ensure", "open", "send", "sending", "requeue"}
Hand == IF ToSet(reactor.todo) \cap HandSteps # {} THEN {reactor.id} ELSE {}

Core == CoreInv(thread.queue, thread.messages, submitted, inbox, Hand, delivered)

-----------------------------------------------------------------------------
\* A redelivery is followed by nothing that needs the message in hand.
RequeueInv == "requeue" \in ToSet(reactor.todo) => reactor.todo = <<"requeue", "mark">>

ReceivedAll(ids) == \A id \in ToSet(ids) : ToSet(id) \subseteq Received
Acknowledged(op) == op.strategy = "native-steer" /\ op.state = "provider-acknowledged"

\* What is said to be acknowledged has reached the provider.
SteeredInv ==
    /\ "provider-acknowledged" \in ToSet(reactor.todo) => ReceivedAll(reactor.op.reserved)
    /\ Acknowledged(thread.op) => ReceivedAll(thread.op.reserved)

HoldIsStored == thread.hold => stored.hold

IntentHead(t) == t.intent # NoIntent => exactQueuedPrefix(t, t.intent.ids) # <<>>

IInv ==
    /\ QueueShape
    /\ ControlShape
    /\ Core
    /\ RequeueInv
    /\ SteeredInv
    /\ HoldIsStored
    /\ IntentIsPrefix


\* A set of natural numbers that is not empty has a least element.
LEMMA Least ==
    ASSUME NEW S \in SUBSET Nat, S # {}
    PROVE  \E x \in S : \A y \in S : x <= y
<1> DEFINE R == OpToRel(<, Nat)
<1>1. IsWellFoundedOn(R, Nat)
  BY NatLessThanWellFounded
<1>2. PICK x \in S : \A y \in S : <<y, x>> \notin R
  <2> HIDE DEF R
  <2> QED
    BY <1>1, WFMin
<1>3. ASSUME NEW y \in S PROVE x <= y
  <2>1. <<y, x>> \in Nat \X Nat /\ <<y, x>> \notin R
    BY <1>2
  <2>2. ~(y < x)
    BY <2>1 DEF OpToRel
  <2> QED
    BY <2>2
<1> QED
  BY <1>2, <1>3

\* A set that holds 0, and with each number the next, holds every number.
LEMMA Counting ==
    ASSUME NEW S, 0 \in S, \A n \in Nat : n \in S => n + 1 \in S
    PROVE  \A n \in Nat : n \in S
<1> SUFFICES ASSUME Nat \ S # {} PROVE FALSE
  OBVIOUS
<1>1. PICK x \in Nat \ S : \A y \in Nat \ S : x <= y
  BY Least
<1>2. x - 1 \in Nat /\ x - 1 \in S
  BY <1>1
<1> QED
  BY <1>1, <1>2

\* The recursion that filters a queue.
Filters(g, q, ids) ==
    g = [i \in 0..Len(q) |->
           IF i = 0 THEN <<>>
           ELSE IF q[i].id \in ids THEN g[i - 1] ELSE Append(g[i - 1], q[i])]

\* It has a solution.
LEMMA FilterExists ==
    ASSUME NEW q \in Seq(Prompts), NEW ids
    PROVE  \E g : Filters(g, q, ids)
<1> DEFINE Upto(n) == \E g : g = [i \in 0..n |->
                         IF i = 0 THEN <<>>
                         ELSE IF q[i].id \in ids THEN g[i - 1]
                         ELSE Append(g[i - 1], q[i])]
           S == {n \in Nat : Upto(n)}
<1>1. Upto(0)
  <2>1. [i \in 0..0 |-> <<>>] = [i \in 0..0 |->
           IF i = 0 THEN <<>>
           ELSE IF q[i].id \in ids THEN [j \in 0..0 |-> <<>>][i - 1]
           ELSE Append([j \in 0..0 |-> <<>>][i - 1], q[i])]
    OBVIOUS
  <2> QED
    BY <2>1
<1>2. ASSUME NEW n \in Nat, Upto(n) PROVE Upto(n + 1)
  <2>1. PICK g : g = [i \in 0..n |->
                         IF i = 0 THEN <<>>
                         ELSE IF q[i].id \in ids THEN g[i - 1]
                         ELSE Append(g[i - 1], q[i])]
    BY <1>2
  <2> DEFINE last == IF q[n + 1].id \in ids THEN g[n] ELSE Append(g[n], q[n + 1])
             h == [i \in 0..(n + 1) |-> IF i <= n THEN g[i] ELSE last]
             H(i) == IF i = 0 THEN <<>>
                     ELSE IF q[i].id \in ids THEN h[i - 1]
                     ELSE Append(h[i - 1], q[i])
  <2>2. ASSUME NEW i \in 0..(n + 1) PROVE h[i] = H(i)
    <3>1. CASE i = 0
      BY <2>1, <3>1
    <3>2. CASE i \in 1..n
      <4>1. h[i] = g[i] /\ h[i - 1] = g[i - 1] /\ i \in 0..n
        BY <3>2
      <4>2. g[i] = IF i = 0 THEN <<>>
                   ELSE IF q[i].id \in ids THEN g[i - 1]
                   ELSE Append(g[i - 1], q[i])
        BY <2>1, <4>1
      <4> QED
        BY <3>2, <4>1, <4>2
    <3>3. CASE i = n + 1
      <4>1. h[i] = last /\ h[i - 1] = g[n]
        BY <3>3
      <4> QED
        BY <3>3, <4>1
    <3> QED
      BY <3>1, <3>2, <3>3
  <2>3. h = [i \in 0..(n + 1) |-> H(i)]
    <3> HIDE DEF H
    <3> QED
      BY <2>2
  <2> QED
    BY <2>3
<1>3. Len(q) \in S
  <2> HIDE DEF Upto
  <2>1. 0 \in S /\ \A n \in Nat : n \in S => n + 1 \in S
    BY <1>1, <1>2
  <2> HIDE DEF S
  <2>2. Len(q) \in Nat
    OBVIOUS
  <2> QED
    BY <2>1, <2>2, Counting
<1> QED
  BY <1>3 DEF Filters

\* What Without keeps: the other prompts, at increasing positions, and all
\* of a head of the queue that it does not touch.
LEMMA WithoutKeeps ==
    ASSUME NEW q \in Seq(Prompts), NEW ids
    PROVE  LET w == Without(q, ids) IN
           /\ w \in Seq(Prompts)
           /\ \E f \in [1..Len(w) -> 1..Len(q)] :
                 /\ \A k \in 1..Len(w) : w[k] = q[f[k]] /\ q[f[k]].id \notin ids
                 /\ \A k, l \in 1..Len(w) : k < l => f[k] < f[l]
                 /\ \A j \in 1..Len(q) : q[j].id \notin ids => \E k \in 1..Len(w) : f[k] = j
           /\ Len(w) <= Len(q)
           /\ (\E j \in 1..Len(q) : q[j].id \in ids) => Len(w) < Len(q)
           /\ \A n \in 0..Len(q) : (\A j \in 1..n : q[j].id \notin ids) =>
                 Len(w) >= n /\ \A k \in 1..n : w[k] = q[k]
<1> DEFINE g == CHOOSE h : Filters(h, q, ids)
<1>0. Filters(g, q, ids)
  BY FilterExists
<1>1. Without(q, ids) = g[Len(q)]
  BY DEF Without, Filters
<1> HIDE DEF g
<1>n. Len(q) \in Nat
  OBVIOUS
<1>a. g[0] = <<>>
  BY <1>0, <1>n DEF Filters
<1>b. ASSUME NEW i \in 1..Len(q)
      PROVE  g[i] = IF q[i].id \in ids THEN g[i - 1] ELSE Append(g[i - 1], q[i])
  <2>1. i \in 0..Len(q) /\ i # 0
    BY <1>n
  <2> QED
    BY <1>0, <2>1 DEF Filters
<1> DEFINE w0 == Without(q, ids)
<1>c. w0 = g[Len(q)]
  BY <1>1
<1> HIDE DEF w0
<1> DEFINE Kept(i, w, f) ==
              /\ w \in Seq(Prompts)
              /\ f \in [1..Len(w) -> 1..i]
              /\ \A k \in 1..Len(w) : w[k] = q[f[k]] /\ q[f[k]].id \notin ids
              /\ \A k, l \in 1..Len(w) : k < l => f[k] < f[l]
              /\ \A j \in 1..i : q[j].id \notin ids => \E k \in 1..Len(w) : f[k] = j
              /\ Len(w) <= i
              /\ (\E j \in 1..i : q[j].id \in ids) => Len(w) < i
              /\ \A n \in 0..i : (\A j \in 1..n : q[j].id \notin ids) =>
                    Len(w) >= n /\ \A k \in 1..n : w[k] = q[k]
           Good(i) == i <= Len(q) => \E f : Kept(i, g[i], f)
           S == {i \in Nat : Good(i)}
<1> HIDE DEF Kept
<1>2. Good(0)
  <2>1. g[0] = <<>>
    BY <1>a
  <2>2. Kept(0, <<>>, [k \in 1..0 |-> k])
    BY DEF Kept
  <2> QED
    BY <2>1, <2>2
<1>3. ASSUME NEW i \in Nat, Good(i) PROVE Good(i + 1)
  <2> SUFFICES ASSUME i + 1 <= Len(q) PROVE \E f : Kept(i + 1, g[i + 1], f)
    OBVIOUS
  <2>0. i <= Len(q) /\ Len(q) \in Nat
    OBVIOUS
  <2>1. PICK f : Kept(i, g[i], f)
    BY <1>3, <2>0
  <2>2. g[i + 1] = IF q[i + 1].id \in ids THEN g[i] ELSE Append(g[i], q[i + 1])
    <3>1. i + 1 \in 1..Len(q) /\ (i + 1) - 1 = i
      BY <2>0
    <3> QED
      BY <1>b, <3>1
  <2>3. q[i + 1] \in Prompts
    OBVIOUS
  <2>4. CASE q[i + 1].id \in ids
    <3>1. Kept(i + 1, g[i], f)
      <4> DEFINE w == g[i]
      <4>0. w \in Seq(Prompts) /\ Len(w) \in Nat
        BY <2>1 DEF Kept
      <4>1. f \in [1..Len(w) -> 1..(i + 1)]
        <5>1. \A k \in 1..Len(w) : f[k] \in 1..(i + 1)
          BY <2>1 DEF Kept
        <5> QED
          BY <2>1, <5>1 DEF Kept
      <4>2. \A j \in 1..(i + 1) : q[j].id \notin ids => \E k \in 1..Len(w) : f[k] = j
        BY <2>1, <2>4 DEF Kept
      <4>3. Len(w) <= i + 1 /\ Len(w) < i + 1
        BY <2>1, <4>0 DEF Kept
      <4>4. ASSUME NEW n \in 0..(i + 1), \A j \in 1..n : q[j].id \notin ids
            PROVE  Len(w) >= n /\ \A k \in 1..n : w[k] = q[k]
        <5>1. n # i + 1
          BY <2>4, <4>4
        <5> QED
          BY <2>1, <4>4, <5>1 DEF Kept
      <4> QED
        BY <2>1, <4>1, <4>2, <4>3, <4>4 DEF Kept
    <3> QED
      BY <2>2, <2>4, <3>1
  <2>5. CASE q[i + 1].id \notin ids
    <3> DEFINE v == g[i]
               w == Append(v, q[i + 1])
               h == [k \in 1..Len(w) |-> IF k <= Len(v) THEN f[k] ELSE i + 1]
    <3>0. v \in Seq(Prompts) /\ Len(v) \in Nat /\ Len(v) <= i
      BY <2>1 DEF Kept
    <3>1. /\ v \in Seq(Prompts) /\ Len(v) \in Nat /\ Len(v) <= i
          /\ w \in Seq(Prompts) /\ Len(w) = Len(v) + 1
          /\ w[Len(v) + 1] = q[i + 1] /\ \A k \in 1..Len(v) : w[k] = v[k]
      BY <2>3, <3>0
    <3>f. f \in [1..Len(v) -> 1..i]
      BY <2>1 DEF Kept
    <3> HIDE DEF w
    <3>2. ASSUME NEW k \in 1..Len(v) PROVE h[k] = f[k] /\ f[k] \in 1..i
      <4>1. k \in 1..Len(w) /\ k <= Len(v)
        BY <3>1
      <4> QED
        BY <3>f, <4>1
    <3>3. h[Len(w)] = i + 1
      BY <3>1
    <3>h. \A k \in 1..Len(w) : k \in 1..Len(v) \/ k = Len(w)
      BY <3>1
    <3> HIDE DEF h
    <3>4. h \in [1..Len(w) -> 1..(i + 1)]
      <4>1. \A k \in 1..Len(w) : h[k] \in 1..(i + 1)
        BY <3>1, <3>2, <3>3, <3>h
      <4> QED
        BY <4>1 DEF h
    <3>5. \A k \in 1..Len(w) : w[k] = q[h[k]] /\ q[h[k]].id \notin ids
      BY <2>1, <2>5, <3>1, <3>2, <3>3, <3>h DEF Kept
    <3>6. \A k, l \in 1..Len(w) : k < l => h[k] < h[l]
      <4> SUFFICES ASSUME NEW k \in 1..Len(w), NEW l \in 1..Len(w), k < l PROVE h[k] < h[l]
        OBVIOUS
      <4>1. k \in 1..Len(v)
        BY <3>1
      <4>2. CASE l \in 1..Len(v)
        BY <2>1, <3>2, <4>1, <4>2 DEF Kept
      <4>3. CASE l = Len(w)
        BY <3>2, <3>3, <4>1, <4>3
      <4> QED
        BY <3>h, <4>2, <4>3
    <3>7. \A j \in 1..(i + 1) : q[j].id \notin ids => \E k \in 1..Len(w) : h[k] = j
      <4> SUFFICES ASSUME NEW j \in 1..(i + 1), q[j].id \notin ids
                   PROVE  \E k \in 1..Len(w) : h[k] = j
        OBVIOUS
      <4>1. CASE j = i + 1
        BY <3>1, <3>3, <4>1
      <4>2. CASE j \in 1..i
        <5>1. PICK k \in 1..Len(v) : f[k] = j
          BY <2>1, <4>2 DEF Kept
        <5>2. k \in 1..Len(w) /\ h[k] = j
          BY <3>1, <3>2, <5>1
        <5> QED
          BY <5>2
      <4> QED
        BY <4>1, <4>2
    <3>8. Len(w) <= i + 1
      BY <3>1
    <3>9. (\E j \in 1..(i + 1) : q[j].id \in ids) => Len(w) < i + 1
      <4> SUFFICES ASSUME NEW j \in 1..(i + 1), q[j].id \in ids PROVE Len(w) < i + 1
        OBVIOUS
      <4>1. j \in 1..i
        BY <2>5
      <4>2. Len(v) < i
        BY <2>1, <4>1 DEF Kept
      <4> QED
        BY <3>1, <4>2
    <3>10. ASSUME NEW n \in 0..(i + 1), \A j \in 1..n : q[j].id \notin ids
           PROVE  Len(w) >= n /\ \A k \in 1..n : w[k] = q[k]
      <4>1. CASE n <= i
        <5>1. Len(v) >= n /\ \A k \in 1..n : v[k] = q[k]
          BY <2>1, <3>10, <4>1 DEF Kept
        <5> QED
          BY <3>1, <5>1
      <4>2. CASE n = i + 1
        <5>1. \A j \in 1..i : q[j].id \notin ids
          BY <3>10, <4>2
        <5>2. Len(v) >= i /\ \A k \in 1..i : v[k] = q[k]
          BY <2>1, <5>1 DEF Kept
        <5>3. Len(v) = i
          BY <3>1, <5>2
        <5> QED
          BY <3>1, <4>2, <5>2, <5>3
      <4> QED
        BY <4>1, <4>2
    <3>11. Kept(i + 1, w, h)
      BY <2>0, <3>1, <3>4, <3>5, <3>6, <3>7, <3>8, <3>9, <3>10 DEF Kept
    <3> QED
      BY <2>2, <2>5, <3>11 DEF w
  <2> QED
    BY <2>4, <2>5
<1>4. \E f : Kept(Len(q), g[Len(q)], f)
  <2> HIDE DEF Good
  <2>1. 0 \in S /\ \A i \in Nat : i \in S => i + 1 \in S
    BY <1>2, <1>3
  <2>2. Len(q) \in S
    <3> HIDE DEF S
    <3>1. Len(q) \in Nat
      OBVIOUS
    <3> QED
      BY <2>1, <3>1, Counting
  <2> QED
    BY <2>2 DEF Good
<1>5. PICK f : Kept(Len(q), g[Len(q)], f)
  BY <1>4
<1>6. /\ w0 \in Seq(Prompts)
      /\ f \in [1..Len(w0) -> 1..Len(q)]
      /\ \A k \in 1..Len(w0) : w0[k] = q[f[k]] /\ q[f[k]].id \notin ids
      /\ \A k, l \in 1..Len(w0) : k < l => f[k] < f[l]
      /\ \A j \in 1..Len(q) : q[j].id \notin ids => \E k \in 1..Len(w0) : f[k] = j
      /\ Len(w0) <= Len(q)
      /\ (\E j \in 1..Len(q) : q[j].id \in ids) => Len(w0) < Len(q)
      /\ \A n \in 0..Len(q) : (\A j \in 1..n : q[j].id \notin ids) =>
            Len(w0) >= n /\ \A k \in 1..n : w0[k] = q[k]
  BY <1>5, <1>c DEF Kept
<1> QED
  BY <1>6 DEF w0

-----------------------------------------------------------------------------
(***************************************************************************)
(* What committing events does.                                            *)
(***************************************************************************)

Before == [thread |-> thread, stored |-> stored, inbox |-> inbox]

\* The recursion that projects events.
Projects(g, events) ==
    g = [i \in 0..Len(events) |->
           IF i = 0 THEN {Before} ELSE {Project(s, events[i]) : s \in g[i - 1]}]

\* It has a solution.
LEMMA ProjectionExists ==
    ASSUME NEW events, Len(events) \in Nat
    PROVE  \E g : Projects(g, events)
<1> DEFINE Upto(n) == \E g : g = [i \in 0..n |->
                 IF i = 0 THEN {Before} ELSE {Project(s, events[i]) : s \in g[i - 1]}]
           S == {n \in Nat : Upto(n)}
<1>1. Upto(0)
  <2>1. [i \in 0..0 |-> {Before}] = [i \in 0..0 |->
           IF i = 0 THEN {Before}
           ELSE {Project(s, events[i]) : s \in [j \in 0..0 |-> {Before}][i - 1]}]
    OBVIOUS
  <2> QED
    BY <2>1
<1>2. ASSUME NEW n \in Nat, Upto(n) PROVE Upto(n + 1)
  <2>1. PICK g : g = [i \in 0..n |->
                 IF i = 0 THEN {Before} ELSE {Project(s, events[i]) : s \in g[i - 1]}]
    BY <1>2
  <2> DEFINE last == {Project(s, events[n + 1]) : s \in g[n]}
             h == [i \in 0..(n + 1) |-> IF i <= n THEN g[i] ELSE last]
             H(i) == IF i = 0 THEN {Before} ELSE {Project(s, events[i]) : s \in h[i - 1]}
  <2>2. ASSUME NEW i \in 0..(n + 1) PROVE h[i] = H(i)
    <3>1. CASE i = 0
      BY <2>1, <3>1
    <3>2. CASE i \in 1..n
      <4>1. h[i] = g[i] /\ h[i - 1] = g[i - 1] /\ i \in 0..n
        BY <3>2
      <4>2. g[i] = IF i = 0 THEN {Before} ELSE {Project(s, events[i]) : s \in g[i - 1]}
        BY <2>1, <4>1
      <4> QED
        BY <3>2, <4>1, <4>2
    <3>3. CASE i = n + 1
      <4>1. h[i] = last /\ h[i - 1] = g[n] /\ i # 0
        BY <3>3
      <4> HIDE DEF h
      <4>2. {Project(s, events[i]) : s \in h[i - 1]} = last
        BY <3>3, <4>1
      <4> HIDE DEF last
      <4> QED
        BY <4>1, <4>2
    <3> QED
      BY <3>1, <3>2, <3>3
  <2>3. h = [i \in 0..(n + 1) |-> H(i)]
    <3> HIDE DEF H
    <3> QED
      BY <2>2
  <2> QED
    BY <2>3
<1>3. Len(events) \in S
  <2> HIDE DEF Upto
  <2>1. 0 \in S /\ \A n \in Nat : n \in S => n + 1 \in S
    BY <1>1, <1>2
  <2> HIDE DEF S
  <2> QED
    BY <2>1, Counting
<1> QED
  BY <1>3 DEF Projects

\* The state after a command is that of its events, one after the other.
LEMMA CommitIs ==
    ASSUME NEW events, Len(events) \in Nat, Commit(events)
    PROVE  \E u : /\ u[0] = Before
                  /\ \A i \in 1..Len(events) : u[i] = Project(u[i - 1], events[i])
                  /\ thread' = u[Len(events)].thread
                  /\ stored' = u[Len(events)].stored
                  /\ inbox' = u[Len(events)].inbox
<1> DEFINE g == CHOOSE h : Projects(h, events)
<1>0. Projects(g, events)
  BY ProjectionExists
<1>1. Projected(events) = g[Len(events)]
  BY DEF Projected, Projects, Before
<1> HIDE DEF g
<1>2. g[0] = {Before}
  BY <1>0 DEF Projects
<1>3. ASSUME NEW i \in 1..Len(events)
      PROVE  g[i] = {Project(s, events[i]) : s \in g[i - 1]}
  <2>1. i \in 0..Len(events) /\ i # 0
    OBVIOUS
  <2> QED
    BY <1>0, <2>1 DEF Projects
<1> DEFINE u == [i \in 0..Len(events) |-> CHOOSE s : s \in g[i]]
           Good(i) == i <= Len(events) => g[i] = {u[i]}
           S == {i \in Nat : Good(i)}
<1>4. Good(0)
  BY <1>2
<1>5. ASSUME NEW i \in Nat, Good(i) PROVE Good(i + 1)
  <2> SUFFICES ASSUME i + 1 <= Len(events) PROVE g[i + 1] = {u[i + 1]}
    OBVIOUS
  <2>1. i + 1 \in 1..Len(events) /\ (i + 1) - 1 = i /\ i + 1 \in 0..Len(events)
    OBVIOUS
  <2>2. g[i] = {u[i]}
    BY <1>5
  <2>3. g[i + 1] = {Project(s, events[i + 1]) : s \in g[i]}
    BY <1>3, <2>1
  <2> HIDE DEF u
  <2>4. g[i + 1] = {Project(u[i], events[i + 1])}
    BY <2>2, <2>3
  <2>5. u[i + 1] = CHOOSE s : s \in g[i + 1]
    BY <2>1 DEF u
  <2> QED
    BY <2>4, <2>5
<1>6. \A i \in 0..Len(events) : g[i] = {u[i]}
  <2> HIDE DEF Good
  <2>1. 0 \in S /\ \A n \in Nat : n \in S => n + 1 \in S
    BY <1>4, <1>5
  <2>2. \A n \in Nat : n \in S
    <3> HIDE DEF S
    <3> QED
      BY <2>1, Counting
  <2>3. ASSUME NEW i \in 0..Len(events) PROVE g[i] = {u[i]}
    <3>1. Good(i)
      BY <2>2
    <3> HIDE DEF u
    <3> QED
      BY <3>1 DEF Good
  <2> QED
    BY <2>3
<1> HIDE DEF u
<1>7. u[0] = Before
  BY <1>2, <1>6
<1>8. ASSUME NEW i \in 1..Len(events) PROVE u[i] = Project(u[i - 1], events[i])
  <2>1. i \in 0..Len(events) /\ i - 1 \in 0..Len(events)
    OBVIOUS
  <2>2. g[i] = {u[i]} /\ g[i - 1] = {u[i - 1]}
    BY <1>6, <2>1
  <2>3. {u[i]} = {Project(s, events[i]) : s \in {u[i - 1]}}
    BY <1>3, <2>2
  <2> QED
    BY <2>3
<1>9. PICK s \in Projected(events) : thread' = s.thread /\ stored' = s.stored /\ inbox' = s.inbox
  BY DEF Commit
<1>10. s = u[Len(events)]
  BY <1>1, <1>6, <1>9
<1> QED
  BY <1>7, <1>8, <1>9, <1>10

\* A command without events changes nothing.
LEMMA CommitNone ==
    ASSUME Commit(<<>>)
    PROVE  UNCHANGED <<thread, stored, inbox>>
BY CommitIs DEF Before

\* What one event leaves in the reactor's inbox.
Inboxed(events, e) == IF ForReactor(e) THEN Append(events, e) ELSE events

\* A command of one event.
LEMMA CommitOne ==
    ASSUME NEW e, Commit(<<e>>)
    PROVE  /\ thread' = projectEvent(thread, e)
           /\ stored' = projectThreadQueueControlEvent(stored, e)
           /\ inbox' = Inboxed(inbox, e)
<1>1. PICK u : /\ u[0] = Before
               /\ \A i \in 1..1 : u[i] = Project(u[i - 1], <<e>>[i])
               /\ thread' = u[1].thread /\ stored' = u[1].stored /\ inbox' = u[1].inbox
  BY CommitIs
<1>2. u[1] = Project(Before, e)
  BY <1>1
<1> QED
  BY <1>1, <1>2 DEF Project, Before, Inboxed

\* A command of three events.
LEMMA CommitThree ==
    ASSUME NEW e, NEW f, NEW h, Commit(<<e, f, h>>)
    PROVE  /\ thread' = projectEvent(projectEvent(projectEvent(thread, e), f), h)
           /\ stored' = projectThreadQueueControlEvent(projectThreadQueueControlEvent(
                            projectThreadQueueControlEvent(stored, e), f), h)
           /\ inbox' = Inboxed(Inboxed(Inboxed(inbox, e), f), h)
<1>1. PICK u : /\ u[0] = Before
               /\ \A i \in 1..3 : u[i] = Project(u[i - 1], <<e, f, h>>[i])
               /\ thread' = u[3].thread /\ stored' = u[3].stored /\ inbox' = u[3].inbox
  BY CommitIs
<1>2. /\ u[1] = Project(Before, e)
      /\ u[2] = Project(u[1], f)
      /\ u[3] = Project(u[2], h)
  BY <1>1
<1>3. /\ u[1].thread = projectEvent(thread, e)
      /\ u[1].stored = projectThreadQueueControlEvent(stored, e)
      /\ u[1].inbox = Inboxed(inbox, e)
  BY <1>2 DEF Project, Before, Inboxed
<1>4. /\ u[2].thread = projectEvent(u[1].thread, f)
      /\ u[2].stored = projectThreadQueueControlEvent(u[1].stored, f)
      /\ u[2].inbox = Inboxed(u[1].inbox, f)
  BY <1>2 DEF Project, Inboxed
<1>5. /\ u[3].thread = projectEvent(u[2].thread, h)
      /\ u[3].stored = projectThreadQueueControlEvent(u[2].stored, h)
      /\ u[3].inbox = Inboxed(u[2].inbox, h)
  BY <1>2 DEF Project, Inboxed
<1> QED
  BY <1>1, <1>3, <1>4, <1>5

\* A command of two events.
LEMMA CommitTwo ==
    ASSUME NEW e, NEW f, Commit(<<e, f>>)
    PROVE  /\ thread' = projectEvent(projectEvent(thread, e), f)
           /\ stored' = projectThreadQueueControlEvent(
                            projectThreadQueueControlEvent(stored, e), f)
           /\ inbox' = Inboxed(Inboxed(inbox, e), f)
<1>1. PICK u : /\ u[0] = Before
               /\ \A i \in 1..2 : u[i] = Project(u[i - 1], <<e, f>>[i])
               /\ thread' = u[2].thread /\ stored' = u[2].stored /\ inbox' = u[2].inbox
  BY CommitIs
<1>2. /\ u[1] = Project(Before, e)
      /\ u[2] = Project(u[1], f)
  BY <1>1
<1>3. /\ u[1].thread = projectEvent(thread, e)
      /\ u[1].stored = projectThreadQueueControlEvent(stored, e)
      /\ u[1].inbox = Inboxed(inbox, e)
  BY <1>2 DEF Project, Before, Inboxed
<1>4. /\ u[2].thread = projectEvent(u[1].thread, f)
      /\ u[2].stored = projectThreadQueueControlEvent(u[1].stored, f)
      /\ u[2].inbox = Inboxed(u[1].inbox, f)
  BY <1>2 DEF Project, Inboxed
<1> QED
  BY <1>1, <1>3, <1>4

\* A command of four events.
LEMMA CommitFour ==
    ASSUME NEW d, NEW e, NEW f, NEW h, Commit(<<d, e, f, h>>)
    PROVE  /\ thread' = projectEvent(projectEvent(projectEvent(projectEvent(thread, d), e), f), h)
           /\ stored' = projectThreadQueueControlEvent(projectThreadQueueControlEvent(
                            projectThreadQueueControlEvent(
                            projectThreadQueueControlEvent(stored, d), e), f), h)
           /\ inbox' = Inboxed(Inboxed(Inboxed(Inboxed(inbox, d), e), f), h)
<1>1. PICK u : /\ u[0] = Before
               /\ \A i \in 1..4 : u[i] = Project(u[i - 1], <<d, e, f, h>>[i])
               /\ thread' = u[4].thread /\ stored' = u[4].stored /\ inbox' = u[4].inbox
  BY CommitIs
<1>2. /\ u[1] = Project(Before, d)
      /\ u[2] = Project(u[1], e)
      /\ u[3] = Project(u[2], f)
      /\ u[4] = Project(u[3], h)
  BY <1>1
<1>3. /\ u[1].thread = projectEvent(thread, d)
      /\ u[1].stored = projectThreadQueueControlEvent(stored, d)
      /\ u[1].inbox = Inboxed(inbox, d)
  BY <1>2 DEF Project, Before, Inboxed
<1>4. /\ u[2].thread = projectEvent(u[1].thread, e)
      /\ u[2].stored = projectThreadQueueControlEvent(u[1].stored, e)
      /\ u[2].inbox = Inboxed(u[1].inbox, e)
  BY <1>2 DEF Project, Inboxed
<1>5. /\ u[3].thread = projectEvent(u[2].thread, f)
      /\ u[3].stored = projectThreadQueueControlEvent(u[2].stored, f)
      /\ u[3].inbox = Inboxed(u[2].inbox, f)
  BY <1>2 DEF Project, Inboxed
<1>6. /\ u[4].thread = projectEvent(u[3].thread, h)
      /\ u[4].stored = projectThreadQueueControlEvent(u[3].stored, h)
      /\ u[4].inbox = Inboxed(u[3].inbox, h)
  BY <1>2 DEF Project, Inboxed
<1> QED
  BY <1>1, <1>3, <1>4, <1>5, <1>6

-----------------------------------------------------------------------------
(***************************************************************************)
(* The operators on queues.                                                *)
(***************************************************************************)

\* Min picks an element of a set of numbers that is not empty.
LEMMA MinIn == ASSUME NEW S \in SUBSET Nat, S # {} PROVE Min(S) \in S /\ \A y \in S : Min(S) <= y
BY Least DEF Min

\* The length and the elements of two sequences, one after the other.
LEMMA Joined ==
    ASSUME NEW S, NEW x \in Seq(S), NEW y \in Seq(S)
    PROVE  /\ x \o y \in Seq(S)
           /\ Len(x \o y) = Len(x) + Len(y)
           /\ \A k \in 1..Len(x) : (x \o y)[k] = x[k]
           /\ \A k \in 1..Len(y) : (x \o y)[Len(x) + k] = y[k]
OBVIOUS

\* What an insertion does to each position.
LEMMA Inserted ==
    ASSUME NEW S, NEW q \in Seq(S), NEW i \in 1..(Len(q) + 1), NEW e \in S
    PROVE  LET r == InsertAt(q, i, e) IN
           /\ r \in Seq(S)
           /\ Len(r) = Len(q) + 1
           /\ \A j \in 1..(Len(q) + 1) :
                r[j] = IF j < i THEN q[j] ELSE IF j = i THEN e ELSE q[j - 1]
<1> DEFINE u == SubSeq(q, 1, i - 1)
           v == SubSeq(q, i, Len(q))
           w == u \o <<e>>
           r == w \o v
<1>1. /\ u \in Seq(S) /\ Len(u) = i - 1 /\ \A j \in 1..(i - 1) : u[j] = q[j]
  OBVIOUS
<1>2. v \in Seq(S) /\ Len(v) = Len(q) - i + 1 /\ \A j \in 1..Len(v) : v[j] = q[i + j - 1]
  OBVIOUS
<1> HIDE DEF u, v
<1>3. /\ w \in Seq(S) /\ Len(w) = i /\ w[i] = e /\ \A j \in 1..(i - 1) : w[j] = q[j]
  BY <1>1
<1> HIDE DEF w
<1>4. /\ r \in Seq(S) /\ Len(r) = Len(q) + 1
      /\ \A j \in 1..i : r[j] = w[j]
      /\ \A j \in (i + 1)..(Len(q) + 1) : r[j] = v[j - i]
  <2>1. /\ r \in Seq(S) /\ Len(r) = Len(w) + Len(v)
        /\ \A k \in 1..Len(w) : r[k] = w[k]
        /\ \A k \in 1..Len(v) : r[Len(w) + k] = v[k]
    <3>1. w \in Seq(S) /\ v \in Seq(S)
      BY <1>2, <1>3
    <3> QED
      BY <3>1, Joined
  <2> HIDE DEF r
  <2>2. Len(w) = i /\ Len(v) = Len(q) - i + 1
    BY <1>2, <1>3
  <2>3. ASSUME NEW j \in (i + 1)..(Len(q) + 1) PROVE r[j] = v[j - i]
    <3>1. j - i \in 1..Len(v) /\ Len(w) + (j - i) = j
      BY <2>2
    <3> QED
      BY <2>1, <3>1
  <2>4. Len(r) = Len(q) + 1
    BY <2>1, <2>2
  <2> QED
    BY <2>1, <2>2, <2>3, <2>4
<1>5. InsertAt(q, i, e) = r
  BY DEF InsertAt, u, v, w
<1> HIDE DEF r
<1>6. ASSUME NEW j \in 1..(Len(q) + 1)
      PROVE  r[j] = IF j < i THEN q[j] ELSE IF j = i THEN e ELSE q[j - 1]
  <2>1. CASE j <= i
    BY <1>3, <1>4, <2>1
  <2>2. CASE j > i
    <3>1. r[j] = v[j - i] /\ j - i \in 1..Len(v)
      BY <1>2, <1>4, <2>2
    <3>2. v[j - i] = q[i + (j - i) - 1] /\ i + (j - i) - 1 = j - 1
      BY <1>2, <3>1
    <3> QED
      BY <2>2, <3>1, <3>2
  <2> QED
    BY <2>1, <2>2
<1> QED
  BY <1>4, <1>5, <1>6

\* The recursion that joins sequences.
Joins(g, ss) ==
    g = [i \in 1..Len(ss) |-> IF i = 1 THEN ss[i] ELSE g[i - 1] \o ss[i]]

\* It has a solution.
LEMMA JoinExists ==
    ASSUME NEW ss, Len(ss) \in Nat
    PROVE  \E g : Joins(g, ss)
<1> DEFINE Upto(n) == \E g : g = [i \in 1..n |-> IF i = 1 THEN ss[i] ELSE g[i - 1] \o ss[i]]
           S == {n \in Nat : Upto(n)}
<1>1. Upto(0)
  <2>1. [i \in 1..0 |-> ss[i]] = [i \in 1..0 |->
           IF i = 1 THEN ss[i] ELSE [j \in 1..0 |-> ss[j]][i - 1] \o ss[i]]
    OBVIOUS
  <2> QED
    BY <2>1
<1>2. ASSUME NEW n \in Nat, Upto(n) PROVE Upto(n + 1)
  <2>1. PICK g : g = [i \in 1..n |-> IF i = 1 THEN ss[i] ELSE g[i - 1] \o ss[i]]
    BY <1>2
  <2> DEFINE last == IF n = 0 THEN ss[1] ELSE g[n] \o ss[n + 1]
             h == [i \in 1..(n + 1) |-> IF i <= n THEN g[i] ELSE last]
             H(i) == IF i = 1 THEN ss[i] ELSE h[i - 1] \o ss[i]
  <2>2. ASSUME NEW i \in 1..(n + 1) PROVE h[i] = H(i)
    <3>1. CASE i \in 1..n
      <4>1. h[i] = g[i] /\ (i # 1 => h[i - 1] = g[i - 1])
        BY <3>1
      <4>2. g[i] = IF i = 1 THEN ss[i] ELSE g[i - 1] \o ss[i]
        BY <2>1, <3>1
      <4> QED
        BY <4>1, <4>2
    <3>2. CASE i = n + 1 /\ n # 0
      <4>0. i \in 1..(n + 1) /\ ~(i <= n) /\ i - 1 \in 1..(n + 1) /\ i - 1 <= n /\ i - 1 = n
        BY <3>2
      <4>1. h[i] = last /\ h[i - 1] = g[n] /\ i # 1
        <5> HIDE DEF last
        <5> QED
          BY <3>2, <4>0
      <4>2. last = g[n] \o ss[i]
        BY <3>2
      <4>3. H(i) = h[i - 1] \o ss[i]
        <5> HIDE DEF h
        <5> QED
          BY <4>1
      <4> HIDE DEF h, last, H
      <4> QED
        BY <4>1, <4>2, <4>3
    <3>3. CASE i = n + 1 /\ n = 0
      BY <3>3
    <3> QED
      BY <3>1, <3>2, <3>3
  <2>3. h = [i \in 1..(n + 1) |-> H(i)]
    <3> HIDE DEF H
    <3> QED
      BY <2>2
  <2> QED
    BY <2>3
<1>3. Len(ss) \in S
  <2> HIDE DEF Upto
  <2>1. 0 \in S /\ \A n \in Nat : n \in S => n + 1 \in S
    BY <1>1, <1>2
  <2> HIDE DEF S
  <2> QED
    BY <2>1, Counting
<1> QED
  BY <1>3 DEF Joins

\* A joined sequence holds what its parts hold.
LEMMA FlattenIs ==
    ASSUME NEW ss \in Seq(Ids), ss # <<>>
    PROVE  /\ FlattenSeq(ss) \in Ids
           /\ \A x : x \in ToSet(FlattenSeq(ss)) <=> \E i \in 1..Len(ss) : x \in ToSet(ss[i])
<1> DEFINE g == CHOOSE h : Joins(h, ss)
<1>0. Len(ss) \in Nat /\ Len(ss) # 0
  OBVIOUS
<1>1. Joins(g, ss)
  BY <1>0, JoinExists
<1>2. FlattenSeq(ss) = g[Len(ss)]
  BY <1>0 DEF FlattenSeq, Joins
<1> HIDE DEF g
<1>3. ASSUME NEW i \in 1..Len(ss)
      PROVE  g[i] = IF i = 1 THEN ss[i] ELSE g[i - 1] \o ss[i]
  BY <1>1 DEF Joins
<1> DEFINE Good(i) == i \in 1..Len(ss) =>
                /\ g[i] \in Ids
                /\ \A x : x \in ToSet(g[i]) <=> \E j \in 1..i : x \in ToSet(ss[j])
           S == {i \in Nat : Good(i)}
<1>4. ASSUME NEW i \in Nat, Good(i) PROVE Good(i + 1)
  <2> SUFFICES ASSUME i + 1 \in 1..Len(ss)
               PROVE  /\ g[i + 1] \in Ids
                      /\ \A x : x \in ToSet(g[i + 1]) <=> \E j \in 1..(i + 1) : x \in ToSet(ss[j])
    OBVIOUS
  <2>0. ss[i + 1] \in Ids
    OBVIOUS
  <2>1. CASE i = 0
    <3>1. g[1] = ss[1] /\ 1..1 = {1}
      BY <1>3, <2>1
    <3> QED
      BY <2>0, <2>1, <3>1
  <2>2. CASE i # 0
    <3>1. i \in 1..Len(ss) /\ i + 1 # 1 /\ (i + 1) - 1 = i
      BY <2>2
    <3>2. g[i + 1] = g[i] \o ss[i + 1]
      BY <1>3, <3>1
    <3>3. g[i] \in Ids /\ (\A x : x \in ToSet(g[i]) <=> \E j \in 1..i : x \in ToSet(ss[j]))
      BY <1>4, <3>1
    <3>4. ASSUME NEW x \in Ids, NEW y \in Ids
          PROVE  x \o y \in Ids /\ ToSet(x \o y) = ToSet(x) \cup ToSet(y)
      <4>1. /\ x \o y \in Ids /\ Len(x \o y) = Len(x) + Len(y)
            /\ \A k \in 1..Len(x) : (x \o y)[k] = x[k]
            /\ \A k \in 1..Len(y) : (x \o y)[Len(x) + k] = y[k]
        BY Joined DEF Ids
      <4>2. \A k \in 1..(Len(x) + Len(y)) :
               k \in 1..Len(x) \/ (k - Len(x) \in 1..Len(y) /\ Len(x) + (k - Len(x)) = k)
        BY DEF Ids
      <4>3. DOMAIN (x \o y) = 1..(Len(x) + Len(y)) /\ DOMAIN x = 1..Len(x) /\ DOMAIN y = 1..Len(y)
        BY <4>1 DEF Ids
      <4>5. ToSet(x \o y) \subseteq ToSet(x) \cup ToSet(y)
        <5> SUFFICES ASSUME NEW k \in 1..(Len(x) + Len(y))
                     PROVE  (x \o y)[k] \in ToSet(x) \cup ToSet(y)
          BY <4>3 DEF ToSet
        <5> QED
          BY <4>1, <4>2, <4>3 DEF ToSet
      <4>6. \A k \in 1..Len(x) : k \in 1..(Len(x) + Len(y))
        BY DEF Ids
      <4>7. \A k \in 1..Len(y) : Len(x) + k \in 1..(Len(x) + Len(y))
        BY DEF Ids
      <4>8. ToSet(x) \cup ToSet(y) \subseteq ToSet(x \o y)
        BY <4>1, <4>3, <4>6, <4>7 DEF ToSet
      <4> QED
        BY <4>1, <4>5, <4>8
    <3>5. ToSet(g[i + 1]) = ToSet(g[i]) \cup ToSet(ss[i + 1]) /\ g[i + 1] \in Ids
      BY <2>0, <3>2, <3>3, <3>4
    <3>6. 1..(i + 1) = 1..i \cup {i + 1}
      OBVIOUS
    <3> QED
      BY <3>3, <3>5, <3>6
  <2> QED
    BY <2>1, <2>2
<1>5. Good(Len(ss))
  <2> HIDE DEF Good
  <2>1. Good(0)
    BY DEF Good
  <2>2. 0 \in S /\ \A n \in Nat : n \in S => n + 1 \in S
    BY <1>4, <2>1
  <2>3. Len(ss) \in S
    <3> HIDE DEF S
    <3> QED
      BY <1>0, <2>2, Counting
  <2> QED
    BY <2>3
<1>6. Len(ss) \in 1..Len(ss)
  BY <1>0
<1> QED
  BY <1>2, <1>5, <1>6

\* The ids of a sequence of prompts.
LEMMA IdsOfIs ==
    ASSUME NEW q \in Seq(Prompts)
    PROVE  /\ IdsOf(q) \in Seq(Ids) /\ Len(IdsOf(q)) = Len(q)
           /\ \A k \in 1..Len(q) : IdsOf(q)[k] = q[k].id /\ q[k].id \in Ids
           /\ ToSet(IdsOf(q)) = {q[k].id : k \in 1..Len(q)}
<1>0. DOMAIN q = 1..Len(q) /\ \A k \in 1..Len(q) : q[k] \in Prompts
  OBVIOUS
<1>1. DOMAIN q = 1..Len(q) /\ \A k \in 1..Len(q) : q[k].id \in Ids
  BY <1>0 DEF Prompts
<1>2. IdsOf(q) = [k \in 1..Len(q) |-> q[k].id]
  BY <1>1 DEF IdsOf
<1>3. IdsOf(q) \in Seq(Ids) /\ Len(IdsOf(q)) = Len(q)
  BY <1>1, <1>2
<1> QED
  BY <1>1, <1>2, <1>3 DEF ToSet

\* A head of a sequence.
LEMMA HeadIs ==
    ASSUME NEW S, NEW q \in Seq(S), NEW n \in 0..Len(q)
    PROVE  /\ SubSeq(q, 1, n) \in Seq(S)
           /\ Len(SubSeq(q, 1, n)) = n
           /\ \A k \in 1..n : SubSeq(q, 1, n)[k] = q[k]
OBVIOUS

\* A batch that may leave together: one prompt, or several that may share a turn.
Batch(p, q) ==
    \E n \in 1..Len(q) : /\ p = SubSeq(q, 1, n)
                         /\ n = 1 \/ \A k \in 1..n : ~NonCombinable(q[k])

\* compatibleQueuedPrefix cuts such a batch.
LEMMA CompatibleIs ==
    ASSUME NEW q \in Seq(Prompts)
    PROVE  IF q = <<>> THEN compatibleQueuedPrefix(q) = <<>>
           ELSE Batch(compatibleQueuedPrefix(q), q)
<1> DEFINE ends == {i \in DOMAIN q : NonCombinable(q[i])}
<1>0. DOMAIN q = 1..Len(q) /\ Len(q) \in Nat
  OBVIOUS
<1>1. CASE q = <<>>
  <2>1. ends = {} /\ SubSeq(q, 1, Len(q)) = <<>>
    BY <1>1
  <2> QED
    BY <1>1, <2>1 DEF compatibleQueuedPrefix
<1>2. CASE q # <<>>
  <2>0. 1 \in 1..Len(q) /\ Len(q) \in 1..Len(q)
    BY <1>0, <1>2
  <2>1. CASE 1 \in ends
    <3>1. compatibleQueuedPrefix(q) = <<q[1]>>
      BY <2>1 DEF compatibleQueuedPrefix
    <3>2. SubSeq(q, 1, 1) = <<q[1]>>
      <4> DEFINE x == SubSeq(q, 1, 1)
      <4>1. 1 \in 0..Len(q)
        BY <2>0
      <4>2. x \in Seq(Prompts) /\ Len(x) = 1 /\ \A k \in 1..1 : x[k] = q[k]
        BY <4>1, HeadIs
      <4> HIDE DEF x
      <4>3. x = <<q[1]>>
        BY <4>2
      <4> QED
        BY <4>3 DEF x
    <3> QED
      BY <1>2, <2>0, <3>1, <3>2 DEF Batch
  <2>2. CASE ends = {}
    <3>1. compatibleQueuedPrefix(q) = SubSeq(q, 1, Len(q))
      BY <2>2 DEF compatibleQueuedPrefix
    <3> QED
      BY <1>0, <1>2, <2>0, <2>2, <3>1 DEF Batch
  <2>3. CASE 1 \notin ends /\ ends # {}
    <3> DEFINE n == Min(ends) - 1
    <3>1. ends \in SUBSET Nat
      BY <1>0
    <3>2. Min(ends) \in ends /\ \A y \in ends : Min(ends) <= y
      BY <2>3, <3>1, MinIn
    <3>3. compatibleQueuedPrefix(q) = SubSeq(q, 1, n)
      BY <2>3 DEF compatibleQueuedPrefix
    <3>4. n \in 1..Len(q) /\ n < Min(ends)
      <4> DEFINE x == Min(ends)
      <4>1. x \in 1..Len(q) /\ x # 1
        BY <1>0, <2>3, <3>2
      <4> HIDE DEF x
      <4>2. x - 1 \in 1..Len(q) /\ x - 1 < x
        BY <1>0, <4>1
      <4> QED
        BY <4>2 DEF x
    <3>5. \A k \in 1..n : ~NonCombinable(q[k])
      <4> SUFFICES ASSUME NEW k \in 1..n, NonCombinable(q[k]) PROVE FALSE
        OBVIOUS
      <4>1. k \in ends
        BY <1>0, <3>4
      <4>2. Min(ends) <= k /\ Min(ends) \in Nat
        BY <3>1, <3>2, <4>1
      <4> HIDE DEF ends
      <4> QED
        BY <3>4, <4>2
    <3> HIDE DEF n, ends
    <3> DEFINE p == compatibleQueuedPrefix(q)
    <3>6. p = SubSeq(q, 1, n)
      BY <3>3
    <3> HIDE DEF p
    <3>7. Batch(p, q)
      BY <3>4, <3>5, <3>6 DEF Batch
    <3> QED
      BY <1>2, <3>7 DEF p
  <2> QED
    BY <2>1, <2>2, <2>3
<1> QED
  BY <1>1, <1>2

\* What an exact prefix is, and when there is one.
LEMMA ExactIs ==
    ASSUME NEW t, t.queue \in Seq(Prompts), NEW ids \in Seq(Ids)
    PROVE  /\ exactQueuedPrefix(t, ids) # <<>> =>
                /\ exactQueuedPrefix(t, ids) = SubSeq(t.queue, 1, Len(ids))
                /\ Len(ids) \in 1..Len(t.queue)
                /\ ids = IdsOf(SubSeq(t.queue, 1, Len(ids)))
           /\ exactQueuedPrefix(t, ids) # <<>> <=>
                /\ Len(ids) \in 1..Len(t.queue)
                /\ \A k \in 1..Len(ids) : t.queue[k].id = ids[k]
<1> DEFINE q == t.queue
           n == Len(ids)
           all == IdsOf(q)
<1> HIDE DEF q
<1>q. q \in Seq(Prompts) /\ Len(q) \in Nat /\ t.queue = q
  BY DEF q
<1>0. ids \in Seq(Ids) /\ n \in Nat /\ DOMAIN ids = 1..n
  OBVIOUS
<1>1. /\ all \in Seq(Ids) /\ Len(all) = Len(q)
      /\ \A k \in 1..Len(q) : all[k] = q[k].id
  BY <1>q, IdsOfIs
<1> HIDE DEF all
<1>2. IsPrefix(ids, all) <=> n <= Len(q) /\ \A k \in 1..n : q[k].id = ids[k]
  <2>1. n > Len(q) => ~IsPrefix(ids, all)
    BY <1>1, <1>0, <1>q DEF IsPrefix
  <2>2. CASE n <= Len(q)
    <3>0. n \in 0..Len(all) /\ n \in 0..Len(ids)
      BY <1>0, <1>1, <1>q, <2>2
    <3>1. /\ SubSeq(all, 1, n) \in Seq(Ids) /\ Len(SubSeq(all, 1, n)) = n
          /\ \A k \in 1..n : SubSeq(all, 1, n)[k] = all[k]
      BY <1>1, <3>0, HeadIs
    <3>2. /\ SubSeq(ids, 1, n) \in Seq(Ids) /\ Len(SubSeq(ids, 1, n)) = n
          /\ \A k \in 1..n : SubSeq(ids, 1, n)[k] = ids[k]
      BY <1>0, <3>0, HeadIs
    <3>3. SubSeq(ids, 1, n) = SubSeq(all, 1, n) <=> \A k \in 1..n : all[k] = ids[k]
      <4> DEFINE a1 == SubSeq(all, 1, n)
                 a2 == SubSeq(ids, 1, n)
      <4> HIDE DEF a1, a2
      <4>1. a1 \in Seq(Ids) /\ a2 \in Seq(Ids) /\ Len(a1) = n /\ Len(a2) = n
        BY <3>1, <3>2 DEF a1, a2
      <4>2. a1 = a2 <=> \A k \in 1..n : a1[k] = a2[k]
        BY <1>0, <4>1
      <4>3. \A k \in 1..n : a1[k] = all[k] /\ a2[k] = ids[k]
        BY <3>1, <3>2 DEF a1, a2
      <4>4. a1 = a2 <=> \A k \in 1..n : all[k] = ids[k]
        BY <4>2, <4>3
      <4> QED
        BY <4>4 DEF a1, a2
    <3>4. \A k \in 1..n : all[k] = q[k].id
      BY <1>1, <2>2, <1>0, <1>q
    <3>5. n <= Len(all)
      BY <1>1, <2>2
    <3> QED
      BY <2>2, <3>3, <3>4, <3>5 DEF IsPrefix
  <2> QED
    BY <1>0, <1>q, <2>1, <2>2
<1>3. ids # <<>> <=> n >= 1
  BY <1>0
<1>4. exactQueuedPrefix(t, ids) = IF ids # <<>> /\ IsPrefix(ids, all)
                                  THEN SubSeq(q, 1, n) ELSE <<>>
  BY DEF exactQueuedPrefix, all, q
<1>5. CASE n \in 1..Len(q) /\ \A k \in 1..n : q[k].id = ids[k]
  <2>1. exactQueuedPrefix(t, ids) = SubSeq(q, 1, n)
    BY <1>2, <1>3, <1>4, <1>5, <1>0, <1>q
  <2>h. n \in 0..Len(q)
    BY <1>5, <1>q
  <2>2. /\ SubSeq(q, 1, n) \in Seq(Prompts) /\ Len(SubSeq(q, 1, n)) = n
        /\ \A k \in 1..n : SubSeq(q, 1, n)[k] = q[k]
    BY <1>q, <2>h, HeadIs
  <2>3. SubSeq(q, 1, n) # <<>>
    BY <1>5, <2>2
  <2>4. ids = IdsOf(SubSeq(q, 1, n))
    <3> DEFINE s == SubSeq(q, 1, n)
               u == IdsOf(s)
    <3> HIDE DEF s
    <3>1. s \in Seq(Prompts) /\ Len(s) = n /\ \A k \in 1..n : s[k] = q[k]
      BY <2>2 DEF s
    <3>2. u \in Seq(Ids) /\ Len(u) = n /\ \A k \in 1..n : u[k] = s[k].id
      BY <3>1, IdsOfIs
    <3> HIDE DEF u
    <3>3. \A k \in 1..n : u[k] = ids[k]
      BY <1>5, <3>1, <3>2
    <3>4. u = ids
      BY <1>0, <3>2, <3>3
    <3> QED
      BY <3>4 DEF u, s
  <2> QED
    BY <1>5, <1>q, <2>1, <2>3, <2>4
<1>6. CASE ~(n \in 1..Len(q) /\ \A k \in 1..n : q[k].id = ids[k])
  <2>1. exactQueuedPrefix(t, ids) = <<>>
    BY <1>0, <1>q, <1>2, <1>3, <1>4, <1>6
  <2> QED
    BY <1>q, <1>6, <2>1
<1> QED
  BY <1>5, <1>6

\* A batch of a batch of an exact prefix is a batch of the queue.
LEMMA CompatibleExact ==
    ASSUME NEW t, t.queue \in Seq(Prompts), NEW ids \in Seq(Ids),
           exactQueuedPrefix(t, ids) # <<>>
    PROVE  Batch(compatibleQueuedPrefix(exactQueuedPrefix(t, ids)), t.queue)
<1> DEFINE q == t.queue
           m == Len(ids)
           e == SubSeq(q, 1, m)
           p == compatibleQueuedPrefix(e)
<1>1. exactQueuedPrefix(t, ids) = e /\ m \in 1..Len(q) /\ Len(q) \in Nat /\ q \in Seq(Prompts)
  BY ExactIs
<1> HIDE DEF q, m
<1>2. e \in Seq(Prompts) /\ Len(e) = m /\ \A k \in 1..m : e[k] = q[k]
  BY <1>1, HeadIs
<1>3. e # <<>>
  BY <1>1, <1>2
<1> HIDE DEF e
<1>4. Batch(p, e)
  BY <1>2, <1>3, CompatibleIs
<1> HIDE DEF p
<1>5. PICK n \in 1..m : p = SubSeq(e, 1, n) /\ (n = 1 \/ \A k \in 1..n : ~NonCombinable(e[k]))
  BY <1>2, <1>4 DEF Batch
<1>6. n \in 1..Len(q) /\ n \in 0..Len(q) /\ n \in 0..Len(e)
  BY <1>1, <1>2
<1>7. SubSeq(e, 1, n) = SubSeq(q, 1, n)
  <2> DEFINE x == SubSeq(e, 1, n)
             y == SubSeq(q, 1, n)
  <2> HIDE DEF x, y
  <2>1. x \in Seq(Prompts) /\ Len(x) = n /\ \A k \in 1..n : x[k] = e[k]
    BY <1>2, <1>6, HeadIs DEF x
  <2>2. y \in Seq(Prompts) /\ Len(y) = n /\ \A k \in 1..n : y[k] = q[k]
    BY <1>1, <1>6, HeadIs DEF y
  <2>3. \A k \in 1..n : x[k] = y[k]
    BY <1>2, <1>6, <2>1, <2>2
  <2>4. x = y
    BY <2>1, <2>2, <2>3
  <2> QED
    BY <2>4 DEF x, y
<1>8. n = 1 \/ \A k \in 1..n : ~NonCombinable(q[k])
  BY <1>1, <1>2, <1>5
<1>9. Batch(p, q)
  BY <1>5, <1>6, <1>7, <1>8 DEF Batch
<1> QED
  BY <1>1, <1>9 DEF p, q

-----------------------------------------------------------------------------
(***************************************************************************)
(* Events, and what each of them changes.                                  *)
(***************************************************************************)

Events ==
    [type : {"message-sent"}, id : Ids, text : Ids]
      \cup [type : {"turn-start-requested", "turn-start-failed", "user-turn-bound",
                    "queued-prompt-removed"}, id : Ids]
      \cup [type : {"prompt-queued"}, id : Ids, sent : BOOLEAN, at : Nat]
      \cup [type : {"queued-prompts-flushed"}, ids : Seq(Ids)]
      \cup [type : {"turn-interrupt-requested"}, intent : Intents, op : Operations]
      \cup [type : {"turn-steer-requested", "session-stop-requested", "turn-control-set"},
            op : Operations]
      \cup [type : {"session-set"}, status : Statuses, turn : Nat, epoch : Nat]
      \cup [type : {"queued-prompt-flush-cancelled"}, intent : Nat]

\* A redelivered prompt is inserted at a position of the queue.
Placed(t, e) == e.type = "prompt-queued" /\ e.sent => e.at \in 1..(Len(t.queue) + 1)

\* The empty values are of their kinds.
LEMMA Nothing ==
    /\ <<>> \in Ids
    /\ NoStart \in Starting /\ NoIntent \in Intents /\ NoOp \in Operations
    /\ NoSet \in Reports /\ NoSession \in Sessions
    /\ Unread \in Views /\ EmptyThread \in Threads
<1>1. <<>> \in Ids
  BY DEF Ids
<1>2. NoStart \in Starting
  BY <1>1 DEF NoStart, Starting
<1>3. NoIntent \in Intents /\ NoOp \in Operations
  <2>1. <<>> \in Seq(Ids)
    OBVIOUS
  <2>2. NoIntent \in Intents
    BY <2>1 DEF NoIntent, Intents
  <2>4. NoOp \in Operations
    BY <2>1 DEF NoOp, Operations, Strategies, OperationStates
  <2> QED
    BY <2>2, <2>4
<1>4. NoSet \in Reports /\ NoSession \in Sessions
  <2>1. NoSet \in Reports
    BY DEF NoSet, Reports, Statuses
  <2>2. NoSession \in Sessions
    BY DEF NoSession, Sessions
  <2> QED
    BY <2>1, <2>2
<1>5. EmptyThread \in Threads
  <2>1. <<>> \in Seq(Prompts) /\ {} \in SUBSET Transcript /\ "none" \in Statuses
    BY DEF Statuses
  <2> QED
    BY <1>2, <1>3, <2>1 DEF EmptyThread, Threads
<1>6. Unread \in Views
  BY <1>2 DEF Unread, SessionOf, EmptyThread, Views, Statuses
<1> QED
  BY <1>1, <1>2, <1>3, <1>4, <1>5, <1>6

\* The queue after an event.
LEMMA NextQueueShape ==
    ASSUME NEW t \in Threads, NEW e \in Events, Placed(t, e)
    PROVE  nextQueue(t, e) \in Seq(Prompts)
<1>0. t.queue \in Seq(Prompts)
  BY DEF Threads
<1>1. CASE e.type = "prompt-queued"
  <2>1. e.id \in Ids /\ e.sent \in BOOLEAN /\ e.at \in Nat
    BY <1>1 DEF Events
  <2>2. [id |-> e.id, sent |-> e.sent] \in Prompts
    BY <2>1 DEF Prompts
  <2>3. CASE Queued(t, e.id)
    BY <1>0, <1>1, <2>3 DEF nextQueue, insertQueuedPrompt
  <2>4. CASE ~Queued(t, e.id) /\ e.sent
    <3>1. e.at \in 1..(Len(t.queue) + 1)
      BY <1>1, <2>4 DEF Placed
    <3>2. InsertAt(t.queue, e.at, [id |-> e.id, sent |-> e.sent]) \in Seq(Prompts)
      BY <1>0, <2>2, <3>1, Inserted
    <3> QED
      BY <1>1, <2>4, <3>2 DEF nextQueue, insertQueuedPrompt
  <2>5. CASE ~Queued(t, e.id) /\ ~e.sent
    <3>1. Append(t.queue, [id |-> e.id, sent |-> e.sent]) \in Seq(Prompts)
      BY <1>0, <2>2
    <3> QED
      BY <1>1, <2>5, <3>1 DEF nextQueue, insertQueuedPrompt
  <2> QED
    BY <2>3, <2>4, <2>5
<1>2. CASE e.type = "queued-prompt-removed"
  <2>1. Without(t.queue, {e.id}) \in Seq(Prompts)
    BY <1>0, WithoutKeeps
  <2> QED
    BY <1>2, <2>1 DEF nextQueue
<1>3. CASE e.type = "queued-prompts-flushed"
  <2>1. Without(t.queue, ToSet(e.ids)) \in Seq(Prompts)
    BY <1>0, WithoutKeeps
  <2> QED
    BY <1>3, <2>1 DEF nextQueue
<1>4. CASE e.type \notin {"prompt-queued", "queued-prompt-removed", "queued-prompts-flushed"}
  BY <1>0, <1>4 DEF nextQueue
<1> QED
  BY <1>1, <1>2, <1>3, <1>4

\* The read model after an event.
LEMMA ProjectShape ==
    ASSUME NEW t \in Threads, NEW e \in Events, Placed(t, e)
    PROVE  projectEvent(t, e) \in Threads
<1>1. nextQueue(t, e) \in Seq(Prompts)
  BY NextQueueShape
<1>2. (IF e.type = "message-sent"
       THEN {msg \in t.messages : msg.id # e.id} \cup {[id |-> e.id, text |-> e.text]}
       ELSE t.messages) \in SUBSET Transcript
  <2>1. CASE e.type = "message-sent"
    <3>1. e.id \in Ids /\ e.text \in Ids
      BY <2>1 DEF Events
    <3> QED
      BY <2>1, <3>1 DEF Threads, Transcript
  <2> QED
    BY <2>1 DEF Threads
<1>3. /\ nextSession(t, e).status \in Statuses
      /\ nextSession(t, e).turn \in Nat
      /\ nextSession(t, e).epoch \in Nat
  <2>1. t.status \in Statuses /\ t.turn \in Nat /\ t.epoch \in Nat
    BY DEF Threads
  <2>2. CASE e.type = "session-set"
    <3>1. e.status \in Statuses /\ e.turn \in Nat /\ e.epoch \in Nat
      BY <2>2 DEF Events
    <3> QED
      BY <2>2, <3>1 DEF nextSession
  <2>3. CASE e.type = "turn-start-requested"
    BY <2>1, <2>3 DEF nextSession, Statuses
  <2>4. CASE e.type = "turn-start-failed"
    BY <2>1, <2>4 DEF nextSession, Statuses
  <2>5. CASE e.type \notin {"session-set", "turn-start-requested", "turn-start-failed"}
    BY <2>1, <2>5 DEF nextSession
  <2> QED
    BY <2>2, <2>3, <2>4, <2>5
<1>4. nextPendingTurnStart(t, e) \in Starting
  <2>1. t.start \in Starting
    BY DEF Threads
  <2>2. CASE e.type = "turn-start-requested"
    <3>1. e.id \in Ids
      BY <2>2 DEF Events
    <3> QED
      BY <2>2, <3>1 DEF nextPendingTurnStart, Starting
  <2>3. CASE e.type # "turn-start-requested"
    <3>1. nextPendingTurnStart(t, e) \in {t.start, NoStart}
      BY <2>3 DEF nextPendingTurnStart
    <3> QED
      BY <2>1, <3>1, Nothing
  <2> QED
    BY <2>2, <2>3
<1>5. (IF e.type = "turn-start-requested" THEN FALSE ELSE nextHold(t.hold, e)) \in BOOLEAN
  BY DEF Threads, nextHold
<1>6. (IF e.type = "queued-prompt-flush-cancelled"
       THEN (IF t.intent.id = e.intent THEN NoIntent ELSE t.intent)
       ELSE nextIntent(t.intent, e)) \in Intents
  <2>1. t.intent \in Intents
    BY DEF Threads
  <2>2. CASE e.type = "turn-interrupt-requested"
    <3>1. e.intent \in Intents
      BY <2>2 DEF Events
    <3> QED
      BY <2>2, <3>1 DEF nextIntent
  <2>3. CASE e.type # "turn-interrupt-requested"
    <3>1. nextIntent(t.intent, e) \in {t.intent, NoIntent}
      BY <2>3 DEF nextIntent
    <3> QED
      BY <2>1, <3>1, Nothing
  <2> QED
    BY <2>2, <2>3
<1>7. (IF e.type \in {"turn-interrupt-requested", "turn-steer-requested",
                      "session-stop-requested", "turn-control-set"}
       THEN e.op ELSE t.op) \in Operations
  <2>1. CASE e.type \in {"turn-interrupt-requested", "turn-steer-requested",
                         "session-stop-requested", "turn-control-set"}
    <3>1. e.op \in Operations
      BY <2>1 DEF Events
    <3> QED
      BY <2>1, <3>1
  <2> QED
    BY <2>1 DEF Threads
<1> QED
  BY <1>1, <1>2, <1>3, <1>4, <1>5, <1>6, <1>7 DEF projectEvent, Threads

\* What an event leaves as it is.
LEMMA ProjectKeeps ==
    ASSUME NEW t, NEW e
    PROVE  LET r == projectEvent(t, e) IN
           /\ e.type \notin {"prompt-queued", "queued-prompt-removed", "queued-prompts-flushed"}
                => r.queue = t.queue
           /\ e.type # "message-sent" => r.messages = t.messages
           /\ e.type \notin {"turn-start-requested", "session-stop-requested",
                             "queued-prompts-flushed"} => r.hold = t.hold
           /\ e.type \notin {"turn-interrupt-requested", "queued-prompt-removed",
                             "queued-prompts-flushed", "queued-prompt-flush-cancelled"}
                => r.intent = t.intent
           /\ e.type # "turn-interrupt-requested" => r.intent \in {t.intent, NoIntent}
           /\ e.type \notin {"turn-interrupt-requested", "turn-steer-requested",
                             "session-stop-requested", "turn-control-set"} => r.op = t.op
<1> DEFINE r == projectEvent(t, e)
<1>1. /\ r.queue = nextQueue(t, e)
      /\ r.messages = IF e.type = "message-sent"
                      THEN {msg \in t.messages : msg.id # e.id}
                             \cup {[id |-> e.id, text |-> e.text]}
                      ELSE t.messages
      /\ r.hold = IF e.type = "turn-start-requested" THEN FALSE ELSE nextHold(t.hold, e)
      /\ r.intent = IF e.type = "queued-prompt-flush-cancelled"
                    THEN (IF t.intent.id = e.intent THEN NoIntent ELSE t.intent)
                    ELSE nextIntent(t.intent, e)
      /\ r.op = IF e.type \in {"turn-interrupt-requested", "turn-steer-requested",
                               "session-stop-requested", "turn-control-set"}
                THEN e.op ELSE t.op
  BY DEF projectEvent
<1> HIDE DEF r
<1>2. e.type \notin {"prompt-queued", "queued-prompt-removed", "queued-prompts-flushed"}
        => r.queue = t.queue
  BY <1>1 DEF nextQueue
<1>3. e.type \notin {"turn-start-requested", "session-stop-requested",
                     "queued-prompts-flushed"} => r.hold = t.hold
  BY <1>1 DEF nextHold
<1>4. e.type \notin {"turn-interrupt-requested", "queued-prompt-removed",
                     "queued-prompts-flushed", "queued-prompt-flush-cancelled"}
        => r.intent = t.intent
  BY <1>1 DEF nextIntent
<1>5. e.type # "turn-interrupt-requested" => r.intent \in {t.intent, NoIntent}
  BY <1>1 DEF nextIntent
<1> QED
  BY <1>1, <1>2, <1>3, <1>4, <1>5 DEF r

\* The SQL rows after an event.
LEMMA StoredShape ==
    ASSUME NEW s \in Controls, NEW e \in Events
    PROVE  projectThreadQueueControlEvent(s, e) \in Controls
<1>1. nextHold(s.hold, e) \in BOOLEAN /\ s.intent \in Intents
  BY DEF nextHold, Controls
<1>2. CASE e.type = "turn-interrupt-requested"
  <2>1. e.intent \in Intents
    BY <1>2 DEF Events
  <2> QED
    BY <1>1, <1>2, <2>1 DEF nextIntent, projectThreadQueueControlEvent, Controls
<1>3. CASE e.type # "turn-interrupt-requested"
  <2>1. nextIntent(s.intent, e) \in {s.intent, NoIntent}
    BY <1>3 DEF nextIntent
  <2> QED
    BY <1>1, <2>1, Nothing DEF projectThreadQueueControlEvent, Controls
<1> QED
  BY <1>2, <1>3

\* The inbox after an event.
LEMMA InboxedShape ==
    ASSUME NEW b \in Seq(Handled), NEW e \in Events
    PROVE  Inboxed(b, e) \in Seq(Handled)
<1>1. ForReactor(e) => e \in Handled
  BY DEF ForReactor, Events, Handled
<1> QED
  BY <1>1 DEF Inboxed

-----------------------------------------------------------------------------
(***************************************************************************)
(* What keeps CoreInv.                                                     *)
(***************************************************************************)

\* Q2 is Q with some prompts left out.
Thins(Q, Q2) ==
    /\ Q2 \in Seq(Prompts)
    /\ \E f \in [1..Len(Q2) -> 1..Len(Q)] :
          /\ \A k \in 1..Len(Q2) : Q2[k] = Q[f[k]]
          /\ \A k, l \in 1..Len(Q2) : k < l => f[k] < f[l]

\* The starts in B2 are starts in B, each at another place.
Fewer(B, B2) ==
    /\ B2 \in Seq(Handled)
    /\ \E n \in Nat : \A k \in StartsIn(B2) :
          k + n \in StartsIn(B) /\ B2[k].id = B[k + n].id

\* A queue thins to itself.
LEMMA ThinsSelf == ASSUME NEW Q \in Seq(Prompts) PROVE Thins(Q, Q)
<1> DEFINE f == [k \in 1..Len(Q) |-> k]
<1>1. f \in [1..Len(Q) -> 1..Len(Q)]
  OBVIOUS
<1>2. \A k \in 1..Len(Q) : Q[k] = Q[f[k]]
  OBVIOUS
<1>3. \A k, l \in 1..Len(Q) : k < l => f[k] < f[l]
  OBVIOUS
<1> HIDE DEF f
<1> QED
  BY <1>1, <1>2, <1>3 DEF Thins

\* What is filtered out of a queue thins it.
LEMMA ThinsWithout == ASSUME NEW Q \in Seq(Prompts), NEW ids PROVE Thins(Q, Without(Q, ids))
<1> DEFINE w == Without(Q, ids)
<1>1. w \in Seq(Prompts)
  BY WithoutKeeps
<1>2. \E f \in [1..Len(w) -> 1..Len(Q)] :
          /\ \A k \in 1..Len(w) : w[k] = Q[f[k]] /\ Q[f[k]].id \notin ids
          /\ \A k, l \in 1..Len(w) : k < l => f[k] < f[l]
          /\ \A j \in 1..Len(Q) : Q[j].id \notin ids => \E k \in 1..Len(w) : f[k] = j
  BY WithoutKeeps
<1> HIDE DEF w
<1>3. Thins(Q, w)
  BY <1>1, <1>2 DEF Thins
<1> QED
  BY <1>3 DEF w

\* The prompts that count, as a finite set.
LEMMA CountedIs ==
    ASSUME NEW Q \in Seq(Prompts)
    PROVE  /\ {k \in DOMAIN Q : ~Q[k].sent} = {k \in 1..Len(Q) : ~Q[k].sent}
           /\ IsFiniteSet({k \in 1..Len(Q) : ~Q[k].sent})
           /\ Counted(Q) = Cardinality({k \in 1..Len(Q) : ~Q[k].sent})
           /\ Counted(Q) \in Nat
<1> DEFINE free == {k \in 1..Len(Q) : ~Q[k].sent}
<1>1. DOMAIN Q = 1..Len(Q)
  OBVIOUS
<1>2. IsFiniteSet(1..Len(Q))
  BY FS_Interval
<1>3. IsFiniteSet(free)
  BY <1>2, FS_Subset
<1> QED
  BY <1>1, <1>3, FS_CardinalityType DEF Counted

\* A thinner queue counts no more prompts.
LEMMA CountedThins ==
    ASSUME NEW Q \in Seq(Prompts), NEW Q2, Thins(Q, Q2)
    PROVE  Counted(Q2) <= Counted(Q)
<1> DEFINE free == {k \in 1..Len(Q) : ~Q[k].sent}
           free2 == {k \in 1..Len(Q2) : ~Q2[k].sent}
<1>1. Q2 \in Seq(Prompts)
  BY DEF Thins
<1>2. PICK f \in [1..Len(Q2) -> 1..Len(Q)] :
          /\ \A k \in 1..Len(Q2) : Q2[k] = Q[f[k]]
          /\ \A k, l \in 1..Len(Q2) : k < l => f[k] < f[l]
  BY DEF Thins
<1> DEFINE g == [k \in free2 |-> f[k]]
<1>3. Len(Q2) \in Nat
  BY <1>1
<1>4. g \in [free2 -> free]
  <2>1. \A k \in free2 : f[k] \in free
    BY <1>2
  <2> QED
    BY <2>1
<1>5. \A k, l \in free2 : g[k] = g[l] => k = l
  <2>1. \A k, l \in free2 : k \in Int /\ l \in Int /\ f[k] \in Int /\ f[l] \in Int
    BY <1>2, <1>3
  <2>2. \A k, l \in free2 : (k < l => f[k] < f[l]) /\ (l < k => f[l] < f[k])
    BY <1>2
  <2>3. \A k \in free2 : g[k] = f[k]
    OBVIOUS
  <2> HIDE DEF g, free2
  <2> QED
    BY <2>1, <2>2, <2>3
<1>6. IsFiniteSet(free) /\ Counted(Q) = Cardinality(free) /\ Counted(Q2) = Cardinality(free2)
  BY <1>1, CountedIs
<1> HIDE DEF g, free, free2
<1>7. g \in Injection(free2, free)
  BY <1>4, <1>5 DEF Injection, IsInjective
<1>8. Cardinality(free2) <= Cardinality(free)
  BY <1>6, <1>7, FS_Injection DEF ExistsInjection
<1> QED
  BY <1>6, <1>8

\* The ids of a thinner queue are ids of the queue.
LEMMA ThinsQueued ==
    ASSUME NEW Q, NEW Q2, Thins(Q, Q2), NEW id, QueuedIn(Q2, id)
    PROVE  QueuedIn(Q, id)
<1>1. PICK f \in [1..Len(Q2) -> 1..Len(Q)] : \A k \in 1..Len(Q2) : Q2[k] = Q[f[k]]
  BY DEF Thins
<1>2. PICK k \in 1..Len(Q2) : Q2[k].id = id
  BY DEF QueuedIn
<1>3. f[k] \in 1..Len(Q) /\ Q[f[k]].id = id
  BY <1>1, <1>2
<1> QED
  BY <1>3 DEF QueuedIn

\* A thinner queue is as well formed.
LEMMA ThinsInv ==
    ASSUME NEW Q \in Seq(Prompts), NEW M, NEW S, QueuedInv(Q, M, S), NEW Q2, Thins(Q, Q2)
    PROVE  QueuedInv(Q2, M, S)
<1>0. Q2 \in Seq(Prompts)
  BY DEF Thins
<1>1. PICK f \in [1..Len(Q2) -> 1..Len(Q)] :
          /\ \A k \in 1..Len(Q2) : Q2[k] = Q[f[k]]
          /\ \A k, l \in 1..Len(Q2) : k < l => f[k] < f[l]
  BY DEF Thins
<1>2. ASSUME NEW k \in 1..Len(Q2), NEW l \in 1..Len(Q2), Q2[k].id = Q2[l].id PROVE k = l
  <2>1. f[k] \in 1..Len(Q) /\ f[l] \in 1..Len(Q) /\ Q[f[k]].id = Q[f[l]].id
    BY <1>1, <1>2
  <2>2. f[k] = f[l]
    BY <2>1 DEF QueuedInv
  <2>3. (k < l => f[k] < f[l]) /\ (l < k => f[l] < f[k])
    BY <1>1
  <2>4. k \in Int /\ l \in Int /\ f[k] \in Int
    BY <1>0, <2>1
  <2> QED
    BY <2>2, <2>3, <2>4
<1>3. Counted(Q2) <= MAX_QUEUED_PROMPTS
  <2>1. Counted(Q2) \in Nat /\ Counted(Q) \in Nat
    BY <1>0, CountedIs
  <2>2. Counted(Q) <= MAX_QUEUED_PROMPTS
    BY DEF QueuedInv
  <2>3. Counted(Q2) <= Counted(Q)
    BY CountedThins
  <2> QED
    BY <2>1, <2>2, <2>3, PromptAssumption
<1>4. ASSUME NEW k \in 1..Len(Q2)
      PROVE  IF Q2[k].sent THEN SentIn(M, Q2[k].id)
             ELSE \E m \in S : Q2[k].id = <<m>> /\ ~TextIn(M, m)
  <2>1. f[k] \in 1..Len(Q) /\ Q2[k] = Q[f[k]]
    BY <1>1
  <2> QED
    BY <2>1 DEF QueuedInv
<1> QED
  BY <1>2, <1>3, <1>4 DEF QueuedInv

\* Prompts, starts and what is in hand may go.
LEMMA KeepsCore ==
    ASSUME NEW Q, NEW M, NEW S, NEW B, NEW H, NEW D, CoreInv(Q, M, S, B, H, D),
           NEW Q2, NEW B2, NEW H2, NEW D2,
           Thins(Q, Q2), Fewer(B, B2), H2 \subseteq H,
           D2 \in Deliveries, \A m \in Messages : D2[m].starts = D[m].starts
    PROVE  CoreInv(Q2, M, S, B2, H2, D2)
<1>0. Q2 \in Seq(Prompts) /\ B2 \in Seq(Handled) /\ Q \in Seq(Prompts) /\ H2 \subseteq Ids
  BY DEF Thins, Fewer, CoreInv
<1>1. QueuedInv(Q2, M, S)
  BY ThinsInv DEF CoreInv
<1>2. PICK n \in Nat : \A k \in StartsIn(B2) : k + n \in StartsIn(B) /\ B2[k].id = B[k + n].id
  BY DEF Fewer
<1>3. \A id : QueuedIn(Q2, id) => QueuedIn(Q, id)
  BY ThinsQueued
<1>4. OnceInv(Q2, M, B2, H2)
  <2>1. OnceInv(Q, M, B, H)
    BY DEF CoreInv
  <2>2. ASSUME NEW k \in StartsIn(B2)
        PROVE  SentIn(M, B2[k].id) /\ ~QueuedIn(Q2, B2[k].id) /\ B2[k].id \notin H2
    <3>1. k + n \in StartsIn(B) /\ B2[k].id = B[k + n].id
      BY <1>2
    <3>2. SentIn(M, B[k + n].id) /\ ~QueuedIn(Q, B[k + n].id) /\ B[k + n].id \notin H
      BY <2>1, <3>1 DEF OnceInv
    <3> QED
      BY <1>3, <3>1, <3>2
  <2>3. ASSUME NEW k \in StartsIn(B2), NEW l \in StartsIn(B2), B2[k].id = B2[l].id
        PROVE  k = l
    <3>1. k + n \in StartsIn(B) /\ l + n \in StartsIn(B) /\ B[k + n].id = B[l + n].id
      BY <1>2, <2>3
    <3>2. k + n = l + n
      BY <2>1, <3>1 DEF OnceInv
    <3>3. k \in Int /\ l \in Int
      BY <1>0 DEF StartsIn
    <3> QED
      BY <1>2, <3>2, <3>3
  <2>4. \A id \in H2 : SentIn(M, id) /\ ~QueuedIn(Q2, id)
    BY <1>3, <2>1 DEF OnceInv
  <2> QED
    BY <2>2, <2>3, <2>4 DEF OnceInv
<1>5. StartedInv(Q2, M, B2, H2, D2)
  <2>1. StartedInv(Q, M, B, H, D)
    BY DEF CoreInv
  <2>2. \A id : Waiting(Q2, B2, H2, id) => Waiting(Q, B, H, id)
    BY <1>2, <1>3 DEF Waiting
  <2> QED
    BY <2>1, <2>2 DEF StartedInv
<1> QED
  BY <1>0, <1>1, <1>4, <1>5 DEF CoreInv

\* A message that was not submitted before is queued.
LEMMA QueuesCore ==
    ASSUME NEW Q, NEW M, NEW S, NEW B, NEW H, NEW D, CoreInv(Q, M, S, B, H, D),
           NEW m \in Messages, m \notin S, Counted(Q) < MAX_QUEUED_PROMPTS
    PROVE  CoreInv(Append(Q, [id |-> <<m>>, sent |-> FALSE]), M, S \cup {m}, B, H, D)
<1> DEFINE p == [id |-> <<m>>, sent |-> FALSE]
           Q2 == Append(Q, p)
           S2 == S \cup {m}
<1>0. Q \in Seq(Prompts) /\ M \subseteq Transcript /\ S \subseteq Messages /\ B \in Seq(Handled)
  BY DEF CoreInv
<1>1. p \in Prompts /\ p.id = <<m>> /\ ~p.sent
  <2>1. <<m>> \in Ids
    BY DEF Ids
  <2> QED
    BY <2>1 DEF Prompts
<1> HIDE DEF p
<1>2. /\ Q2 \in Seq(Prompts) /\ Len(Q2) = Len(Q) + 1 /\ Len(Q) \in Nat
      /\ \A k \in 1..Len(Q) : Q2[k] = Q[k]
      /\ Q2[Len(Q) + 1] = p
  BY <1>0, <1>1
<1> HIDE DEF Q2
<1>3. ~TextIn(M, m)
  BY DEF CoreInv, TranscriptInv, TextIn
<1>4. \A x \in M : x.id # <<m>>
  <2>1. ASSUME NEW x \in M, x.id = <<m>> PROVE FALSE
    <3>1. m \in ToSet(x.id)
      BY <2>1 DEF ToSet
    <3> QED
      BY <1>3, <3>1 DEF CoreInv, TranscriptInv, TextIn
  <2> QED
    BY <2>1
<1>5. ~QueuedIn(Q, <<m>>)
  <2>1. ASSUME NEW k \in 1..Len(Q), Q[k].id = <<m>> PROVE FALSE
    <3>1. IF Q[k].sent THEN SentIn(M, Q[k].id)
          ELSE \E l \in S : Q[k].id = <<l>> /\ ~TextIn(M, l)
      BY DEF CoreInv, QueuedInv
    <3> QED
      BY <1>4, <2>1, <3>1 DEF SentIn
  <2> QED
    BY <2>1 DEF QueuedIn
<1>6. TranscriptInv(M, S2)
  BY DEF CoreInv, TranscriptInv
<1>7. Counted(Q2) <= MAX_QUEUED_PROMPTS
  <2> DEFINE free == {k \in 1..Len(Q) : ~Q[k].sent}
             free2 == {k \in 1..Len(Q2) : ~Q2[k].sent}
  <2>1. IsFiniteSet(free) /\ Counted(Q) = Cardinality(free) /\ Counted(Q2) = Cardinality(free2)
        /\ Counted(Q) \in Nat
    BY <1>0, <1>2, CountedIs
  <2>2. \A k : k \in free2 <=> k \in free \cup {Len(Q) + 1}
    BY <1>1, <1>2
  <2> HIDE DEF free, free2
  <2>3. free2 = free \cup {Len(Q) + 1}
    BY <2>2
  <2>4. Cardinality(free2) \in {Cardinality(free), Cardinality(free) + 1}
    BY <2>1, <2>3, FS_AddElement
  <2> QED
    BY <2>1, <2>4, PromptAssumption
<1>8. QueuedInv(Q2, M, S2)
  <2>1. QueuedInv(Q, M, S)
    BY DEF CoreInv
  <2>2. ASSUME NEW k \in 1..Len(Q2), NEW l \in 1..Len(Q2), Q2[k].id = Q2[l].id PROVE k = l
    <3>1. \A j \in 1..Len(Q2) : j \in 1..Len(Q) \/ j = Len(Q) + 1
      BY <1>2
    <3>2. \A j \in 1..Len(Q) : Q2[j].id # <<m>>
      BY <1>2, <1>5 DEF QueuedIn
    <3>3. CASE k \in 1..Len(Q) /\ l \in 1..Len(Q)
      BY <1>2, <2>1, <2>2, <3>3 DEF QueuedInv
    <3>4. CASE k = Len(Q) + 1
      BY <1>1, <1>2, <2>2, <3>1, <3>2, <3>4
    <3>5. CASE l = Len(Q) + 1
      BY <1>1, <1>2, <2>2, <3>1, <3>2, <3>5
    <3> QED
      BY <3>1, <3>3, <3>4, <3>5
  <2>3. ASSUME NEW k \in 1..Len(Q2)
        PROVE  IF Q2[k].sent THEN SentIn(M, Q2[k].id)
               ELSE \E l \in S2 : Q2[k].id = <<l>> /\ ~TextIn(M, l)
    <3>1. CASE k \in 1..Len(Q)
      <4>1. Q2[k] = Q[k]
        BY <1>2, <3>1
      <4>2. IF Q[k].sent THEN SentIn(M, Q[k].id)
            ELSE \E l \in S : Q[k].id = <<l>> /\ ~TextIn(M, l)
        BY <2>1, <3>1 DEF QueuedInv
      <4> QED
        BY <4>1, <4>2
    <3>2. CASE k = Len(Q) + 1
      BY <1>1, <1>2, <1>3, <3>2
    <3> QED
      BY <1>2, <3>1, <3>2
  <2> QED
    BY <1>7, <2>2, <2>3 DEF QueuedInv
<1>9. \A id : QueuedIn(Q2, id) <=> QueuedIn(Q, id) \/ id = <<m>>
  <2>1. ASSUME NEW id, QueuedIn(Q2, id) PROVE QueuedIn(Q, id) \/ id = <<m>>
    <3>1. PICK k \in 1..Len(Q2) : Q2[k].id = id
      BY <2>1 DEF QueuedIn
    <3>2. k \in 1..Len(Q) \/ k = Len(Q) + 1
      BY <1>2, <3>1
    <3> QED
      BY <1>1, <1>2, <3>1, <3>2 DEF QueuedIn
  <2>2. ASSUME NEW id, QueuedIn(Q, id) \/ id = <<m>> PROVE QueuedIn(Q2, id)
    <3>1. CASE QueuedIn(Q, id)
      <4>1. PICK k \in 1..Len(Q) : Q[k].id = id
        BY <3>1 DEF QueuedIn
      <4>2. k \in 1..Len(Q2) /\ Q2[k].id = id
        BY <1>2, <4>1
      <4> QED
        BY <4>2 DEF QueuedIn
    <3>2. CASE id = <<m>>
      <4>1. Len(Q) + 1 \in 1..Len(Q2) /\ Q2[Len(Q) + 1].id = <<m>>
        BY <1>1, <1>2
      <4> QED
        BY <3>2, <4>1 DEF QueuedIn
    <3> QED
      BY <2>2, <3>1, <3>2
  <2> QED
    BY <2>1, <2>2
<1>10. \A id : SentIn(M, id) => id # <<m>>
  BY <1>4 DEF SentIn
<1>11. OnceInv(Q2, M, B, H)
  <2>1. OnceInv(Q, M, B, H)
    BY DEF CoreInv
  <2> QED
    BY <1>9, <1>10, <2>1 DEF OnceInv
<1>12. StartedInv(Q2, M, B, H, D)
  <2>1. StartedInv(Q, M, B, H, D)
    BY DEF CoreInv
  <2>2. \A x \in M : Waiting(Q2, B, H, x.id) => Waiting(Q, B, H, x.id)
    BY <1>4, <1>9 DEF Waiting
  <2> QED
    BY <2>1, <2>2 DEF StartedInv
<1> QED
  BY <1>0, <1>2, <1>6, <1>8, <1>11, <1>12 DEF CoreInv, Q2, p

\* What a start that is appended to the inbox adds to its starts.
LEMMA StartsAppended ==
    ASSUME NEW B \in Seq(Handled), NEW e \in Handled, e.type = "turn-start-requested"
    PROVE  LET B2 == Append(B, e) IN
           /\ B2 \in Seq(Handled)
           /\ \A k : k \in StartsIn(B2) <=> k \in StartsIn(B) \/ k = Len(B) + 1
           /\ \A k \in StartsIn(B) : k # Len(B) + 1 /\ B2[k] = B[k]
           /\ B2[Len(B) + 1] = e
<1> DEFINE B2 == Append(B, e)
<1>1. /\ B2 \in Seq(Handled) /\ Len(B2) = Len(B) + 1 /\ Len(B) \in Nat
      /\ \A k \in 1..Len(B) : B2[k] = B[k]
      /\ B2[Len(B) + 1] = e
  OBVIOUS
<1> HIDE DEF B2
<1>2. \A k : k \in 1..Len(B2) <=> k \in 1..Len(B) \/ k = Len(B) + 1
  BY <1>1
<1>3. \A k : k \in StartsIn(B2) <=> k \in StartsIn(B) \/ k = Len(B) + 1
  BY <1>1, <1>2 DEF StartsIn
<1>4. \A k \in StartsIn(B) : k # Len(B) + 1 /\ B2[k] = B[k]
  BY <1>1 DEF StartsIn
<1> QED
  BY <1>1, <1>3, <1>4 DEF B2

\* A queued message that was sent before is on its way to the reactor again.
LEMMA ResendsCore ==
    ASSUME NEW Q, NEW M, NEW S, NEW B, NEW H, NEW D, CoreInv(Q, M, S, B, H, D),
           NEW id \in Ids, QueuedIn(Q, id), SentIn(M, id),
           NEW Q2, Thins(Q, Q2), ~QueuedIn(Q2, id)
    PROVE  CoreInv(Q2, M, S, Append(B, [type |-> "turn-start-requested", id |-> id]), H, D)
<1> DEFINE e == [type |-> "turn-start-requested", id |-> id]
           B2 == Append(B, e)
<1>1. e \in Handled /\ e.type = "turn-start-requested" /\ e.id = id
  BY DEF Handled
<1> HIDE DEF e
<1>0. Q2 \in Seq(Prompts) /\ B \in Seq(Handled) /\ Q \in Seq(Prompts)
  BY DEF Thins, CoreInv
<1>2. /\ B2 \in Seq(Handled)
      /\ \A k : k \in StartsIn(B2) <=> k \in StartsIn(B) \/ k = Len(B) + 1
      /\ \A k \in StartsIn(B) : k # Len(B) + 1 /\ B2[k] = B[k]
      /\ B2[Len(B) + 1] = e
  BY <1>0, <1>1, StartsAppended
<1> HIDE DEF B2
<1>3. QueuedInv(Q2, M, S)
  BY ThinsInv DEF CoreInv
<1>4. \A x : QueuedIn(Q2, x) => QueuedIn(Q, x)
  BY ThinsQueued
<1>5. OnceInv(Q, M, B, H)
  BY DEF CoreInv
<1>6. OnceInv(Q2, M, B2, H)
  <2>1. ASSUME NEW k \in StartsIn(B2)
        PROVE  SentIn(M, B2[k].id) /\ ~QueuedIn(Q2, B2[k].id) /\ B2[k].id \notin H
    BY <1>1, <1>2, <1>4, <1>5 DEF OnceInv
  <2>2. ASSUME NEW k \in StartsIn(B2), NEW l \in StartsIn(B2), B2[k].id = B2[l].id
        PROVE  k = l
    BY <1>1, <1>2, <1>5, <2>2 DEF OnceInv
  <2>3. \A x \in H : SentIn(M, x) /\ ~QueuedIn(Q2, x)
    BY <1>4, <1>5 DEF OnceInv
  <2> QED
    BY <2>1, <2>2, <2>3 DEF OnceInv
<1>7. StartedInv(Q2, M, B2, H, D)
  <2>1. StartedInv(Q, M, B, H, D)
    BY DEF CoreInv
  <2>2. \A x : Waiting(Q2, B2, H, x) => Waiting(Q, B, H, x)
    BY <1>1, <1>2, <1>4 DEF Waiting
  <2> QED
    BY <2>1, <2>2 DEF StartedInv
<1> QED
  BY <1>0, <1>2, <1>3, <1>6, <1>7 DEF CoreInv, B2, e

\* Messages that the transcript does not carry enter it as one new text,
\* which is on its way to the reactor, and are not queued any more.
LEMMA LaunchesCore ==
    ASSUME NEW Q, NEW M, NEW S, NEW B, NEW H, NEW D, CoreInv(Q, M, S, B, H, D),
           NEW S2 \in SUBSET Messages, S \subseteq S2,
           NEW id \in Ids, id # <<>>, NEW text \in Ids,
           ToSet(id) \subseteq ToSet(text), ToSet(text) \subseteq S2,
           \A m \in ToSet(text) : ~TextIn(M, m),
           \A m \in ToSet(text) \cap Solo : text = <<m>>,
           NEW Q2, Thins(Q, Q2), \A m \in ToSet(text) : ~QueuedIn(Q2, <<m>>)
    PROVE  CoreInv(Q2, M \cup {[id |-> id, text |-> text]}, S2,
                   Append(B, [type |-> "turn-start-requested", id |-> id]), H, D)
<1> DEFINE e == [type |-> "turn-start-requested", id |-> id]
           B2 == Append(B, e)
           new == [id |-> id, text |-> text]
           M2 == M \cup {new}
<1>1. e \in Handled /\ e.type = "turn-start-requested" /\ e.id = id
  BY DEF Handled
<1> HIDE DEF e
<1>2. new \in Transcript /\ new.id = id /\ new.text = text
  BY DEF Transcript
<1> HIDE DEF new
<1>3. /\ Q2 \in Seq(Prompts) /\ B \in Seq(Handled) /\ Q \in Seq(Prompts)
      /\ M \subseteq Transcript /\ S \subseteq Messages
  BY DEF Thins, CoreInv
<1>4. /\ B2 \in Seq(Handled)
      /\ \A k : k \in StartsIn(B2) <=> k \in StartsIn(B) \/ k = Len(B) + 1
      /\ \A k \in StartsIn(B) : k # Len(B) + 1 /\ B2[k] = B[k]
      /\ B2[Len(B) + 1] = e
  BY <1>1, <1>3, StartsAppended
<1> HIDE DEF B2
<1>5. TranscriptInv(M, S) /\ QueuedInv(Q, M, S) /\ OnceInv(Q, M, B, H) /\ StartedInv(Q, M, B, H, D)
  BY DEF CoreInv
<1>6. PICK i \in 1..Len(id) : id[i] \in ToSet(id)
  <2>1. Len(id) \in Nat /\ Len(id) # 0
    BY DEF Ids
  <2>2. 1 \in 1..Len(id) /\ DOMAIN id = 1..Len(id)
    BY <2>1 DEF Ids
  <2> QED
    BY <2>2 DEF ToSet
<1>7. ~SentIn(M, id)
  <2>1. ASSUME NEW x \in M, x.id = id PROVE FALSE
    <3>1. id[i] \in ToSet(x.text)
      BY <1>5, <1>6, <2>1 DEF TranscriptInv
    <3> QED
      BY <1>6, <3>1 DEF TextIn
  <2> QED
    BY <2>1 DEF SentIn
<1>8. \A x \in M : \A m \in ToSet(x.text) : m \notin ToSet(text)
  BY DEF TextIn
<1>9. \A x : x \in M2 <=> x \in M \/ x = new
  OBVIOUS
<1> HIDE DEF M2
<1>10. TranscriptInv(M2, S2)
  <2>1. ASSUME NEW x \in M2, NEW y \in M2, x.id = y.id PROVE x = y
    BY <1>2, <1>5, <1>7, <1>9, <2>1 DEF TranscriptInv, SentIn
  <2>2. ASSUME NEW x \in M2, NEW y \in M2, NEW m \in ToSet(x.text), m \in ToSet(y.text)
        PROVE  x = y
    BY <1>2, <1>5, <1>8, <1>9, <2>2 DEF TranscriptInv
  <2>3. ASSUME NEW x \in M2
        PROVE  /\ x.id # <<>> /\ ToSet(x.id) \subseteq ToSet(x.text)
               /\ ToSet(x.text) \subseteq S2
               /\ \A m \in ToSet(x.text) \cap Solo : x.text = <<m>>
    BY <1>2, <1>5, <1>9 DEF TranscriptInv
  <2> QED
    BY <2>1, <2>2, <2>3 DEF TranscriptInv
<1>11. \A m : TextIn(M2, m) <=> TextIn(M, m) \/ m \in ToSet(text)
  BY <1>2, <1>9 DEF TextIn
<1>12. \A x : SentIn(M2, x) <=> SentIn(M, x) \/ x = id
  BY <1>2, <1>9 DEF SentIn
<1>13. \A x : QueuedIn(Q2, x) => QueuedIn(Q, x)
  BY ThinsQueued
<1>14. QueuedInv(Q2, M, S)
  BY <1>3, <1>5, ThinsInv
<1>15. QueuedInv(Q2, M2, S2)
  <2>1. ASSUME NEW k \in 1..Len(Q2)
        PROVE  IF Q2[k].sent THEN SentIn(M2, Q2[k].id)
               ELSE \E m \in S2 : Q2[k].id = <<m>> /\ ~TextIn(M2, m)
    <3>1. CASE Q2[k].sent
      BY <1>12, <1>14, <3>1 DEF QueuedInv
    <3>2. CASE ~Q2[k].sent
      <4>1. PICK m \in S : Q2[k].id = <<m>> /\ ~TextIn(M, m)
        BY <1>14, <3>2 DEF QueuedInv
      <4>2. m \notin ToSet(text)
        BY <4>1 DEF QueuedIn
      <4> QED
        BY <1>11, <3>2, <4>1, <4>2
    <3> QED
      BY <3>1, <3>2
  <2> QED
    BY <1>14, <2>1 DEF QueuedInv
<1>16. ~QueuedIn(Q2, id)
  <2>1. ASSUME NEW k \in 1..Len(Q2), Q2[k].id = id PROVE FALSE
    <3>1. CASE Q2[k].sent
      BY <1>7, <1>14, <2>1, <3>1 DEF QueuedInv
    <3>2. CASE ~Q2[k].sent
      <4>1. PICK m \in S : Q2[k].id = <<m>>
        BY <1>14, <3>2 DEF QueuedInv
      <4>2. m \in ToSet(id)
        BY <2>1, <4>1 DEF ToSet
      <4> QED
        BY <2>1, <4>1, <4>2 DEF QueuedIn
    <3> QED
      BY <3>1, <3>2
  <2> QED
    BY <2>1 DEF QueuedIn
<1>17. OnceInv(Q2, M2, B2, H)
  <2>1. id \notin H /\ \A k \in StartsIn(B) : B[k].id # id
    BY <1>5, <1>7 DEF OnceInv
  <2>2. ASSUME NEW k \in StartsIn(B2)
        PROVE  SentIn(M2, B2[k].id) /\ ~QueuedIn(Q2, B2[k].id) /\ B2[k].id \notin H
    BY <1>1, <1>4, <1>5, <1>12, <1>13, <1>16, <2>1 DEF OnceInv
  <2>3. ASSUME NEW k \in StartsIn(B2), NEW l \in StartsIn(B2), B2[k].id = B2[l].id
        PROVE  k = l
    BY <1>1, <1>4, <1>5, <2>1, <2>3 DEF OnceInv
  <2>4. \A x \in H : SentIn(M2, x) /\ ~QueuedIn(Q2, x)
    BY <1>5, <1>12, <1>13 DEF OnceInv
  <2> QED
    BY <2>2, <2>3, <2>4 DEF OnceInv
<1>18. StartedInv(Q2, M2, B2, H, D)
  <2>1. \A m \in Messages : D[m].starts > 0 => TextIn(M2, m)
    BY <1>5, <1>11 DEF StartedInv
  <2>2. ASSUME NEW x \in M2, Waiting(Q2, B2, H, x.id), NEW m \in ToSet(x.text) \cap Messages
        PROVE  D[m].starts = 0
    <3>1. CASE x = new
      <4>1. ~TextIn(M, m) /\ m \in Messages
        BY <1>2, <2>2, <3>1
      <4>2. ~(D[m].starts > 0) /\ D[m].starts \in 0..2
        <5>1. D[m] \in [starts : 0..2, steers : 0..2, epoch : Nat]
          BY <4>1 DEF CoreInv, Deliveries
        <5> QED
          BY <1>5, <4>1, <5>1 DEF StartedInv
      <4> QED
        BY <4>2
    <3>2. CASE x \in M
      <4>1. x.id # id
        BY <1>7, <3>2 DEF SentIn
      <4>2. Waiting(Q, B, H, x.id)
        BY <1>1, <1>4, <1>13, <2>2, <4>1 DEF Waiting
      <4> QED
        BY <1>5, <2>2, <3>2, <4>2 DEF StartedInv
    <3> QED
      BY <1>9, <3>1, <3>2
  <2> QED
    BY <1>5, <2>1, <2>2 DEF StartedInv
<1>19. M2 \subseteq Transcript
  BY <1>2, <1>3, <1>9
<1>20. H \subseteq Ids /\ D \in Deliveries
  BY DEF CoreInv
<1> HIDE DEF CoreInv
<1>21. CoreInv(Q2, M2, S2, B2, H, D)
  BY <1>3, <1>4, <1>10, <1>15, <1>17, <1>18, <1>19, <1>20 DEF CoreInv
<1> QED
  BY <1>21 DEF M2, B2, e, new

\* The message in hand goes back to the queue, at any place.
LEMMA RequeuesCore ==
    ASSUME NEW Q, NEW M, NEW S, NEW B, NEW H, NEW D, CoreInv(Q, M, S, B, H, D),
           NEW id \in H, H = {id}, NEW at \in 1..(Len(Q) + 1)
    PROVE  CoreInv(InsertAt(Q, at, [id |-> id, sent |-> TRUE]), M, S, B, {}, D)
<1> DEFINE p == [id |-> id, sent |-> TRUE]
           Q2 == InsertAt(Q, at, p)
<1>0. Q \in Seq(Prompts) /\ Len(Q) \in Nat /\ id \in Ids
  BY DEF CoreInv
<1>1. p \in Prompts /\ p.id = id /\ p.sent
  BY <1>0 DEF Prompts
<1> HIDE DEF p
<1>2. /\ Q2 \in Seq(Prompts)
      /\ Len(Q2) = Len(Q) + 1
      /\ \A k \in 1..(Len(Q) + 1) :
            Q2[k] = IF k < at THEN Q[k] ELSE IF k = at THEN p ELSE Q[k - 1]
  BY <1>0, <1>1, Inserted
<1> HIDE DEF Q2
<1> DEFINE old(k) == IF k < at THEN k ELSE k - 1
<1>3. /\ at \in 1..Len(Q2) /\ Q2[at] = p
      /\ \A k \in 1..Len(Q2) : k # at => old(k) \in 1..Len(Q) /\ Q2[k] = Q[old(k)]
      /\ \A k, l \in 1..Len(Q2) : k # at /\ l # at /\ old(k) = old(l) => k = l
  <2>1. at \in 1..Len(Q2) /\ Q2[at] = p
    BY <1>0, <1>2
  <2>2. ASSUME NEW k \in 1..Len(Q2), k # at PROVE old(k) \in 1..Len(Q) /\ Q2[k] = Q[old(k)]
    BY <1>0, <1>2, <2>2
  <2>3. ASSUME NEW k \in 1..Len(Q2), NEW l \in 1..Len(Q2), k # at, l # at, old(k) = old(l)
        PROVE  k = l
    BY <1>0, <2>3
  <2> QED
    BY <2>1, <2>2, <2>3
<1>4. \A x : QueuedIn(Q2, x) => QueuedIn(Q, x) \/ x = id
  <2>1. ASSUME NEW x, QueuedIn(Q2, x) PROVE QueuedIn(Q, x) \/ x = id
    <3>1. PICK k \in 1..Len(Q2) : Q2[k].id = x
      BY <2>1 DEF QueuedIn
    <3>2. CASE k = at
      BY <1>1, <1>3, <3>1, <3>2
    <3>3. CASE k # at
      <4>1. old(k) \in 1..Len(Q) /\ Q[old(k)].id = x
        BY <1>3, <3>1, <3>3
      <4> QED
        BY <4>1 DEF QueuedIn
    <3> QED
      BY <3>2, <3>3
  <2> QED
    BY <2>1
<1>5. QueuedInv(Q, M, S) /\ OnceInv(Q, M, B, H) /\ StartedInv(Q, M, B, H, D)
  BY DEF CoreInv
<1>6. SentIn(M, id) /\ ~QueuedIn(Q, id) /\ \A k \in StartsIn(B) : B[k].id # id
  BY <1>5 DEF OnceInv
<1>7. Counted(Q2) <= MAX_QUEUED_PROMPTS
  <2> DEFINE free == {k \in 1..Len(Q) : ~Q[k].sent}
             free2 == {k \in 1..Len(Q2) : ~Q2[k].sent}
             f == [k \in free2 |-> old(k)]
  <2>1. IsFiniteSet(free) /\ Counted(Q) = Cardinality(free) /\ Counted(Q2) = Cardinality(free2)
        /\ Counted(Q) \in Nat /\ Counted(Q2) \in Nat
    BY <1>0, <1>2, CountedIs
  <2>2. \A k \in free2 : k \in 1..Len(Q2) /\ k # at
    BY <1>1, <1>3
  <2>3. \A k \in free2 : old(k) \in free
    BY <1>3, <2>2
  <2>4. f \in [free2 -> free]
    BY <2>3
  <2>5. \A k, l \in free2 : f[k] = f[l] => k = l
    <3>1. \A k \in free2 : f[k] = old(k)
      OBVIOUS
    <3> HIDE DEF f, free2, old
    <3> QED
      BY <1>3, <2>2, <3>1
  <2> HIDE DEF f, free, free2
  <2>6. f \in Injection(free2, free)
    BY <2>4, <2>5 DEF Injection, IsInjective
  <2>7. Cardinality(free2) <= Cardinality(free)
    BY <2>1, <2>6, FS_Injection
  <2>8. Counted(Q) <= MAX_QUEUED_PROMPTS
    BY <1>5 DEF QueuedInv
  <2> QED
    BY <2>1, <2>7, <2>8, PromptAssumption
<1>8. QueuedInv(Q2, M, S)
  <2>1. ASSUME NEW k \in 1..Len(Q2), NEW l \in 1..Len(Q2), Q2[k].id = Q2[l].id PROVE k = l
    <3>1. \A j \in 1..Len(Q2) : j # at => Q2[j].id # id
      BY <1>3, <1>6 DEF QueuedIn
    <3>2. CASE k = at \/ l = at
      BY <1>1, <1>3, <2>1, <3>1, <3>2
    <3>3. CASE k # at /\ l # at
      <4>1. old(k) \in 1..Len(Q) /\ old(l) \in 1..Len(Q) /\ Q[old(k)].id = Q[old(l)].id
        BY <1>3, <2>1, <3>3
      <4>2. old(k) = old(l)
        BY <1>5, <4>1 DEF QueuedInv
      <4> HIDE DEF old
      <4> QED
        BY <1>3, <3>3, <4>2
    <3> QED
      BY <3>2, <3>3
  <2>2. ASSUME NEW k \in 1..Len(Q2)
        PROVE  IF Q2[k].sent THEN SentIn(M, Q2[k].id)
               ELSE \E m \in S : Q2[k].id = <<m>> /\ ~TextIn(M, m)
    <3>1. CASE k = at
      BY <1>1, <1>3, <1>6, <3>1
    <3>2. CASE k # at
      <4>1. old(k) \in 1..Len(Q) /\ Q2[k] = Q[old(k)]
        BY <1>3, <3>2
      <4> HIDE DEF old
      <4> QED
        BY <1>5, <4>1 DEF QueuedInv
    <3> QED
      BY <3>1, <3>2
  <2> QED
    BY <1>7, <2>1, <2>2 DEF QueuedInv
<1> HIDE DEF old
<1>9. OnceInv(Q2, M, B, {})
  BY <1>4, <1>5, <1>6 DEF OnceInv
<1>10. StartedInv(Q2, M, B, {}, D)
  <2>1. \A x : Waiting(Q2, B, {}, x) => Waiting(Q, B, H, x)
    BY <1>4 DEF Waiting
  <2> QED
    BY <1>5, <2>1 DEF StartedInv
<1> QED
  BY <1>2, <1>8, <1>9, <1>10 DEF CoreInv, Q2, p

\* The reactor takes the oldest event, a start, in hand.
LEMMA ReceivesCore ==
    ASSUME NEW Q, NEW M, NEW S, NEW B, NEW D, CoreInv(Q, M, S, B, {}, D),
           B # <<>>, Head(B).type = "turn-start-requested"
    PROVE  CoreInv(Q, M, S, Tail(B), {Head(B).id}, D)
<1> DEFINE B2 == Tail(B)
           id == Head(B).id
<1>1. B \in Seq(Handled)
  BY DEF CoreInv
<1>2. /\ B2 \in Seq(Handled) /\ Len(B2) = Len(B) - 1 /\ Len(B) \in Nat \ {0}
      /\ \A k \in 1..Len(B2) : B2[k] = B[k + 1]
      /\ B[1] = Head(B)
  BY <1>1
<1> HIDE DEF B2
<1>3. 1 \in StartsIn(B) /\ B[1].id = id
  BY <1>2 DEF StartsIn
<1>4. \A k \in StartsIn(B2) : k + 1 \in StartsIn(B) /\ k + 1 # 1 /\ B2[k].id = B[k + 1].id
  BY <1>2 DEF StartsIn
<1>5. Head(B) \in Handled
  BY <1>1
<1>6. id \in Ids
  BY <1>5 DEF Handled
<1> HIDE DEF id
<1>7. OnceInv(Q, M, B, {}) /\ StartedInv(Q, M, B, {}, D)
  BY DEF CoreInv
<1>8. OnceInv(Q, M, B2, {id})
  <2>1. ASSUME NEW k \in StartsIn(B2)
        PROVE  SentIn(M, B2[k].id) /\ ~QueuedIn(Q, B2[k].id) /\ B2[k].id # id
    <3>1. k + 1 \in StartsIn(B) /\ k + 1 # 1 /\ B2[k].id = B[k + 1].id
      BY <1>4
    <3> QED
      BY <1>3, <1>7, <3>1 DEF OnceInv
  <2>2. ASSUME NEW k \in StartsIn(B2), NEW l \in StartsIn(B2), B2[k].id = B2[l].id
        PROVE  k = l
    <3>1. /\ k + 1 \in StartsIn(B) /\ B2[k].id = B[k + 1].id
          /\ l + 1 \in StartsIn(B) /\ B2[l].id = B[l + 1].id
      BY <1>4
    <3>2. k + 1 = l + 1
      BY <1>7, <2>2, <3>1 DEF OnceInv
    <3>3. k \in Int /\ l \in Int
      BY <1>2 DEF StartsIn
    <3> QED
      BY <3>2, <3>3
  <2>3. SentIn(M, id) /\ ~QueuedIn(Q, id)
    BY <1>3, <1>7 DEF OnceInv
  <2> QED
    BY <2>1, <2>2, <2>3 DEF OnceInv
<1>9. StartedInv(Q, M, B2, {id}, D)
  <2>1. \A x : Waiting(Q, B2, {id}, x) => Waiting(Q, B, {}, x)
    BY <1>3, <1>4 DEF Waiting
  <2> QED
    BY <1>7, <2>1 DEF StartedInv
<1> QED
  BY <1>2, <1>6, <1>8, <1>9 DEF CoreInv, B2, id

\* The provider takes the message in hand, for the first time.
LEMMA AcceptsCore ==
    ASSUME NEW Q, NEW M, NEW S, NEW B, NEW H, NEW D, CoreInv(Q, M, S, B, H, D),
           NEW id \in H, H = {id}, NEW x \in M, x.id = id,
           NEW D2 \in Deliveries,
           \A m \in Messages :
              D2[m].starts = IF m \in ToSet(x.text) THEN Again(D[m].starts) ELSE D[m].starts
    PROVE  CoreInv(Q, M, S, B, {}, D2)
<1>1. TranscriptInv(M, S) /\ OnceInv(Q, M, B, H) /\ StartedInv(Q, M, B, H, D)
  BY DEF CoreInv
<1>2. \A m \in ToSet(x.text) \cap Messages : D[m].starts = 0
  <2>1. Waiting(Q, B, H, x.id)
    BY DEF Waiting
  <2> QED
    BY <1>1, <2>1 DEF StartedInv
<1>3. \A m \in Messages : D2[m].starts = IF m \in ToSet(x.text) THEN 1 ELSE D[m].starts
  BY <1>2 DEF Again
<1>4. OnceInv(Q, M, B, {})
  BY <1>1 DEF OnceInv
<1>5. ~Waiting(Q, B, {}, id)
  BY <1>1 DEF Waiting, OnceInv
<1>6. StartedInv(Q, M, B, {}, D2)
  <2>1. \A m \in Messages : D2[m].starts > 0 => TextIn(M, m)
    BY <1>1, <1>3 DEF StartedInv, TextIn
  <2>2. ASSUME NEW y \in M, Waiting(Q, B, {}, y.id), NEW m \in ToSet(y.text) \cap Messages
        PROVE  D2[m].starts = 0
    <3>1. y # x
      BY <1>5, <2>2
    <3>2. m \notin ToSet(x.text)
      BY <1>1, <2>2, <3>1 DEF TranscriptInv
    <3>3. Waiting(Q, B, H, y.id)
      BY <2>2 DEF Waiting
    <3> QED
      BY <1>1, <1>3, <2>2, <3>2, <3>3 DEF StartedInv
  <2>3. \A m \in Messages : D2[m].starts < 2
    BY <1>1, <1>3 DEF StartedInv
  <2> QED
    BY <2>1, <2>2, <2>3 DEF StartedInv
<1> QED
  BY <1>4, <1>6 DEF CoreInv

-----------------------------------------------------------------------------
(***************************************************************************)
(* What is sent from the queue.                                            *)
(***************************************************************************)

\* The text under the id of an entry.
LEMMA TextIs ==
    ASSUME NEW t, NEW S, TranscriptInv(t.messages, S), NEW x \in t.messages
    PROVE  Sent(t, x.id) /\ TextOf(t, x.id) = x.text
<1>1. Sent(t, x.id)
  BY DEF Sent
<1>2. (CHOOSE msg \in t.messages : msg.id = x.id) = x
  BY DEF TranscriptInv
<1> QED
  BY <1>1, <1>2 DEF TextOf

\* The text of a prompt that was not sent is its id.
LEMMA FreshText ==
    ASSUME NEW t, NEW S, TranscriptInv(t.messages, S), NEW m, ~TextIn(t.messages, m)
    PROVE  ~Sent(t, <<m>>) /\ TextOf(t, <<m>>) = <<m>>
<1>1. ASSUME NEW x \in t.messages, x.id = <<m>> PROVE FALSE
  <2>1. m \in ToSet(x.id)
    BY <1>1 DEF ToSet
  <2> QED
    BY <2>1 DEF TranscriptInv, TextIn
<1> QED
  BY <1>1 DEF Sent, TextOf

\* One sequence, flattened.
LEMMA FlattenOne == ASSUME NEW ss \in Seq(Ids), Len(ss) = 1 PROVE FlattenSeq(ss) = ss[1]
<1> DEFINE g == CHOOSE h : Joins(h, ss)
<1>1. Joins(g, ss)
  BY JoinExists
<1>2. FlattenSeq(ss) = g[Len(ss)] /\ ss # <<>>
  BY DEF FlattenSeq, Joins
<1> HIDE DEF g
<1>3. g[1] = ss[1]
  BY <1>1 DEF Joins
<1> QED
  BY <1>2, <1>3

\* The transcript after message-sent.
Told(M, id, text) == {msg \in M : msg.id # id} \cup {[id |-> id, text |-> text]}

Start(id) == [type |-> "turn-start-requested", id |-> id]

\* What is true once p is flushed from Q and sent under id.
Sends(t, Q, S, B, H, D, p, id) ==
    LET text == CombinedText(t, p)
        M2 == Told(t.messages, id, text)
        Q2 == Without(Q, ToSet(IdsOf(p)))
    IN  /\ CoreInv(Q2, M2, S, Append(B, Start(id)), H, D)
        /\ id \in Ids /\ text \in Ids
        /\ t.messages \subseteq M2
        /\ \A k \in 1..Len(Q) : ~Q[k].sent /\ Q[k].id \in ToSet(IdsOf(p)) =>
              \E m : Q[k].id = <<m>> /\ TextIn(M2, m)

\* What a flushed batch makes of the transcript and the queue: a message that
\* was sent before goes out as it is, fresh prompts as one new text.
LEMMA SendsCore ==
    ASSUME NEW t, NEW Q, NEW S, NEW B, NEW H, NEW D,
           CoreInv(Q, t.messages, S, B, H, D),
           NEW p, Batch(p, Q),
           NEW id, id \in {p[1].id, FollowUp(p)}
    PROVE  Sends(t, Q, S, B, H, D, p, id)
<1> DEFINE M == t.messages
           text == CombinedText(t, p)
           M2 == Told(M, id, text)
           out == ToSet(IdsOf(p))
           Q2 == Without(Q, out)
<1>1. /\ Q \in Seq(Prompts) /\ M \subseteq Transcript /\ S \subseteq Messages
      /\ TranscriptInv(M, S) /\ QueuedInv(Q, M, S)
  BY DEF CoreInv
<1>2. PICK n \in 1..Len(Q) : p = SubSeq(Q, 1, n) /\ (n = 1 \/ \A k \in 1..n : ~NonCombinable(Q[k]))
  BY DEF Batch
<1>3. /\ p \in Seq(Prompts) /\ Len(p) = n /\ DOMAIN p = 1..n /\ n \in Nat \ {0}
      /\ \A k \in 1..n : p[k] = Q[k] /\ p[k] \in Prompts /\ k \in 1..Len(Q)
  <2>1. n \in 0..Len(Q) /\ Len(Q) \in Nat
    BY <1>1
  <2>2. p \in Seq(Prompts) /\ Len(p) = n /\ \A k \in 1..n : p[k] = Q[k]
    BY <1>1, <1>2, <2>1, HeadIs
  <2> QED
    BY <2>1, <2>2
<1>4. /\ IdsOf(p) \in Seq(Ids) /\ Len(IdsOf(p)) = n
      /\ \A k \in 1..n : IdsOf(p)[k] = p[k].id /\ p[k].id \in Ids
      /\ out = {p[k].id : k \in 1..n}
  BY <1>3, IdsOfIs
<1>5. Thins(Q, Q2)
  BY <1>1, ThinsWithout
<1>6. \A x \in out : ~QueuedIn(Q2, x)
  <2>1. \E f \in [1..Len(Q2) -> 1..Len(Q)] :
             \A k \in 1..Len(Q2) : Q2[k] = Q[f[k]] /\ Q[f[k]].id \notin out
    <3> HIDE DEF out
    <3> QED
      BY <1>1, WithoutKeeps
  <2> HIDE DEF Q2, out
  <2> QED
    BY <2>1 DEF QueuedIn
<1> HIDE DEF Q2, out
<1>7. CASE n = 1 /\ Q[1].sent
  <2>1. 1 \in 1..n /\ p[1].id = Q[1].id /\ Q[1].id \in Ids /\ Q[1].id \in out /\ 1 \in 1..Len(Q)
    BY <1>3, <1>4, <1>7
  <2>2. id = Q[1].id
    BY <1>3, <1>7, <2>1 DEF FollowUp
  <2>3. SentIn(M, id) /\ QueuedIn(Q, id)
    BY <1>1, <1>7, <2>1, <2>2 DEF QueuedInv, QueuedIn
  <2>4. PICK x \in M : x.id = id
    BY <2>3 DEF SentIn
  <2>5. TextOf(t, id) = x.text /\ x.text \in Ids /\ x \in Transcript
    BY <1>1, <2>4, TextIs DEF Transcript
  <2>6. text = x.text
    <3> DEFINE ss == [i \in DOMAIN p |-> TextOf(t, p[i].id)]
    <3>1. ss = <<x.text>>
      BY <1>3, <1>7, <2>1, <2>2, <2>5
    <3>2. ss \in Seq(Ids) /\ Len(ss) = 1 /\ ss[1] = x.text
      BY <2>5, <3>1
    <3> HIDE DEF ss
    <3>3. FlattenSeq(ss) = x.text
      BY <3>2, FlattenOne
    <3> QED
      BY <3>3 DEF ss, CombinedText
  <2>7. [id |-> id, text |-> text] = x
    BY <2>4, <2>5, <2>6 DEF Transcript
  <2>8. M2 = M
    <3>1. \A y \in M : y.id = id => y = x
      BY <1>1, <2>4 DEF TranscriptInv
    <3> HIDE DEF M
    <3> QED
      BY <2>4, <2>7, <3>1 DEF Told
  <2>9. CoreInv(Q2, M, S, Append(B, Start(id)), H, D)
    BY <1>5, <1>6, <2>1, <2>2, <2>3, ResendsCore DEF Start
  <2>10. \A k \in 1..Len(Q) : Q[k].id \in out => Q[k].sent
    <3>1. ASSUME NEW k \in 1..Len(Q), Q[k].id \in out PROVE Q[k].sent
      <4>1. Q[k].id = Q[1].id
        BY <1>3, <1>4, <1>7, <3>1
      <4>2. k = 1
        BY <1>1, <2>1, <4>1 DEF QueuedInv
      <4> QED
        BY <1>7, <4>2
    <3> QED
      BY <3>1
  <2> QED
    BY <2>1, <2>2, <2>5, <2>6, <2>8, <2>9, <2>10 DEF Q2, out, Sends
<1>8. CASE ~(n = 1 /\ Q[1].sent)
  <2>1. \A k \in 1..n : ~p[k].sent /\ (n = 1 \/ p[k].id \notin {<<m>> : m \in Solo})
    BY <1>2, <1>3, <1>8 DEF NonCombinable
  <2>2. \A k \in 1..n : \E m \in S : p[k].id = <<m>> /\ ~TextIn(M, m)
    BY <1>1, <1>3, <2>1 DEF QueuedInv
  <2>3. \A k \in 1..n : TextOf(t, p[k].id) = p[k].id
    <3>1. ASSUME NEW k \in 1..n PROVE TextOf(t, p[k].id) = p[k].id
      <4>1. PICK m \in S : p[k].id = <<m>> /\ ~TextIn(M, m)
        BY <2>2
      <4> QED
        BY <1>1, <4>1, FreshText
    <3> QED
      BY <3>1
  <2>4. text = FlattenSeq(IdsOf(p))
    <3>1. [i \in DOMAIN p |-> TextOf(t, p[i].id)] = IdsOf(p)
      BY <1>3, <2>3 DEF IdsOf
    <3> QED
      BY <3>1 DEF CombinedText
  <2>5. /\ text \in Ids
        /\ \A m : m \in ToSet(text) <=> \E k \in 1..n : m \in ToSet(p[k].id)
    <3>1. IdsOf(p) # <<>>
      BY <1>3, <1>4
    <3>2. \A m : m \in ToSet(FlattenSeq(IdsOf(p))) <=>
                    \E k \in 1..Len(IdsOf(p)) : m \in ToSet(IdsOf(p)[k])
      BY <1>4, <3>1, FlattenIs
    <3>3. FlattenSeq(IdsOf(p)) \in Ids
      BY <1>4, <3>1, FlattenIs
    <3> QED
      BY <1>4, <2>4, <3>2, <3>3
  <2>6. \A k \in 1..n : \A m : m \in ToSet(p[k].id) <=> p[k].id = <<m>>
    <3>1. ASSUME NEW k \in 1..n, NEW m PROVE m \in ToSet(p[k].id) <=> p[k].id = <<m>>
      <4>1. PICK l \in S : p[k].id = <<l>>
        BY <2>2
      <4>2. ToSet(<<l>>) = {l}
        BY DEF ToSet
      <4>3. <<l>> = <<m>> <=> l = m
        OBVIOUS
      <4> QED
        BY <4>1, <4>2, <4>3
    <3> QED
      BY <3>1
  <2>7. \A m : m \in ToSet(text) <=> \E k \in 1..n : p[k].id = <<m>>
    BY <2>5, <2>6
  <2>8. \A m \in ToSet(text) : m \in S /\ ~TextIn(M, m) /\ ~QueuedIn(Q2, <<m>>)
    <3>1. ASSUME NEW m \in ToSet(text) PROVE m \in S /\ ~TextIn(M, m) /\ ~QueuedIn(Q2, <<m>>)
      <4>1. PICK k \in 1..n : p[k].id = <<m>>
        BY <2>7
      <4>2. PICK l \in S : p[k].id = <<l>> /\ ~TextIn(M, l)
        BY <2>2
      <4>3. l = m
        <5>1. <<l>>[1] = <<m>>[1]
          BY <4>1, <4>2
        <5> QED
          BY <5>1
      <4>4. p[k].id \in out
        BY <1>4
      <4> QED
        BY <1>6, <4>1, <4>2, <4>3, <4>4
    <3> QED
      BY <3>1
  <2>9. id = p[1].id \/ id = text
    BY <1>3, <2>4 DEF FollowUp
  <2>10. /\ id \in Ids /\ ToSet(id) \subseteq ToSet(text)
         /\ id # <<>>
    <3>1. 1 \in 1..n
      BY <1>3
    <3>2. PICK m \in S : p[1].id = <<m>>
      BY <2>2, <3>1
    <3>3. m \in ToSet(p[1].id) /\ m \in ToSet(text)
      BY <2>6, <2>7, <3>1, <3>2
    <3>4. ToSet(<<>>) = {}
      BY DEF ToSet
    <3>5. ToSet(p[1].id) \subseteq ToSet(text)
      BY <2>5, <3>1
    <3> QED
      BY <1>4, <2>5, <2>9, <3>1, <3>3, <3>4, <3>5
  <2>11. \A m \in ToSet(text) \cap Solo : text = <<m>>
    <3>1. ASSUME NEW m \in ToSet(text) \cap Solo PROVE text = <<m>>
      <4>1. PICK k \in 1..n : p[k].id = <<m>>
        BY <2>7
      <4>2. n = 1 /\ k = 1
        <5>1. p[k].id \in {<<l>> : l \in Solo}
          BY <3>1, <4>1
        <5>2. n = 1
          BY <2>1, <5>1
        <5> QED
          BY <5>2
      <4>3. text = IdsOf(p)[1]
        BY <1>4, <2>4, <4>2, FlattenOne
      <4> QED
        BY <1>4, <4>1, <4>2, <4>3
    <3> QED
      BY <3>1
  <2>12. \A x \in M : x.id # id
    <3>1. ASSUME NEW x \in M, x.id = id PROVE FALSE
      <4>1. PICK m : m \in ToSet(id)
        <5>1. 1 \in DOMAIN id
          BY <2>10 DEF Ids
        <5> QED
          BY <5>1 DEF ToSet
      <4>2. m \in ToSet(x.text)
        BY <1>1, <3>1, <4>1 DEF TranscriptInv
      <4>3. m \in ToSet(text)
        BY <2>10, <4>1
      <4> QED
        BY <2>8, <4>2, <4>3 DEF TextIn
    <3> QED
      BY <3>1
  <2>13. M2 = M \cup {[id |-> id, text |-> text]}
    BY <2>12 DEF Told
  <2>14. CoreInv(Q2, M \cup {[id |-> id, text |-> text]}, S, Append(B, Start(id)), H, D)
    <3> HIDE DEF text, M, M2
    <3>1. S \in SUBSET Messages /\ S \subseteq S /\ ToSet(text) \subseteq S
      BY <1>1, <2>8
    <3>2. CoreInv(Q, M, S, B, H, D)
      BY DEF M
    <3> HIDE DEF CoreInv
    <3> QED
      BY <1>5, <2>5, <2>8, <2>10, <2>11, <3>1, <3>2, LaunchesCore DEF Start
  <2>15. \A k \in 1..Len(Q) : Q[k].id \in out => \E m : Q[k].id = <<m>> /\ TextIn(M2, m)
    <3>1. ASSUME NEW k \in 1..Len(Q), Q[k].id \in out
          PROVE  \E m : Q[k].id = <<m>> /\ TextIn(M2, m)
      <4>1. PICK l \in 1..n : Q[k].id = p[l].id
        BY <1>4, <3>1
      <4>2. PICK m \in S : p[l].id = <<m>>
        BY <2>2
      <4>3. m \in ToSet(text)
        BY <2>7, <4>2
      <4>4. TextIn(M2, m)
        <5>1. [id |-> id, text |-> text] \in M2
          BY DEF Told
        <5> QED
          BY <4>3, <5>1 DEF TextIn
      <4> QED
        BY <4>1, <4>2, <4>4
    <3> QED
      BY <3>1
  <2> QED
    BY <2>5, <2>10, <2>13, <2>14, <2>15 DEF Q2, out, Sends
<1> QED
  BY <1>7, <1>8

-----------------------------------------------------------------------------
(***************************************************************************)
(* What a committed command keeps.                                         *)
(***************************************************************************)

Plain(e) == ~(e.type = "prompt-queued" /\ e.sent)
States == [thread : Threads, stored : Controls, inbox : Seq(Handled)]

\* One event keeps the kinds, and the hold in the SQL rows.
LEMMA ProjectIs ==
    ASSUME NEW s \in States, NEW e \in Events, Plain(e)
    PROVE  /\ Project(s, e) \in States
           /\ (s.thread.hold => s.stored.hold) =>
                 (Project(s, e).thread.hold => Project(s, e).stored.hold)
<1>0. s.thread \in Threads /\ s.stored \in Controls /\ s.inbox \in Seq(Handled)
  BY DEF States
<1>1. projectEvent(s.thread, e) \in Threads
  BY <1>0, ProjectShape DEF Plain, Placed
<1>2. projectThreadQueueControlEvent(s.stored, e) \in Controls
  BY <1>0, StoredShape
<1>3. Inboxed(s.inbox, e) \in Seq(Handled)
  BY <1>0, InboxedShape
<1>4. /\ Project(s, e) = [thread |-> projectEvent(s.thread, e),
                          stored |-> projectThreadQueueControlEvent(s.stored, e),
                          inbox |-> Inboxed(s.inbox, e)]
  BY DEF Project, Inboxed
<1>5. projectEvent(s.thread, e).hold =
          IF e.type = "turn-start-requested" THEN FALSE ELSE nextHold(s.thread.hold, e)
  BY DEF projectEvent
<1>6. projectThreadQueueControlEvent(s.stored, e).hold = nextHold(s.stored.hold, e)
  BY DEF projectThreadQueueControlEvent
<1>7. (s.thread.hold => s.stored.hold) =>
         (projectEvent(s.thread, e).hold => projectThreadQueueControlEvent(s.stored, e).hold)
  BY <1>5, <1>6 DEF nextHold
<1> QED
  BY <1>1, <1>2, <1>3, <1>4, <1>7 DEF States

\* A command without redeliveries keeps the kinds, and the hold in the rows.
LEMMA CommitShape ==
    ASSUME QueueShape, NEW events \in Seq(Events), \A k \in 1..Len(events) : Plain(events[k]),
           Commit(events)
    PROVE  /\ thread' \in Threads /\ stored' \in Controls /\ inbox' \in Seq(Handled)
           /\ HoldIsStored => HoldIsStored'
<1>1. PICK u : /\ u[0] = Before
               /\ \A i \in 1..Len(events) : u[i] = Project(u[i - 1], events[i])
               /\ thread' = u[Len(events)].thread
               /\ stored' = u[Len(events)].stored
               /\ inbox' = u[Len(events)].inbox
  BY CommitIs
<1> DEFINE Good(n) == n <= Len(events) =>
             /\ u[n] \in States
             /\ HoldIsStored => (u[n].thread.hold => u[n].stored.hold)
           N == {n \in Nat : Good(n)}
<1>2. Good(0)
  <2>1. Before \in States
    BY DEF Before, States, QueueShape
  <2>2. HoldIsStored => (Before.thread.hold => Before.stored.hold)
    BY DEF Before, HoldIsStored
  <2> QED
    BY <1>1, <2>1, <2>2
<1>3. ASSUME NEW n \in Nat, Good(n) PROVE Good(n + 1)
  <2>1. SUFFICES ASSUME n + 1 <= Len(events) PROVE Good(n + 1)
    OBVIOUS
  <2>2. n <= Len(events) /\ n + 1 \in 1..Len(events) /\ (n + 1) - 1 = n
    BY <2>1
  <2>3. u[n] \in States /\ (HoldIsStored => (u[n].thread.hold => u[n].stored.hold))
    BY <1>3, <2>2
  <2>4. u[n + 1] = Project(u[n], events[n + 1])
    BY <1>1, <2>2
  <2>5. events[n + 1] \in Events /\ Plain(events[n + 1])
    BY <2>2
  <2> QED
    BY <2>3, <2>4, <2>5, ProjectIs
<1> HIDE DEF Good
<1>4. 0 \in N /\ \A n \in Nat : n \in N => n + 1 \in N
  BY <1>2, <1>3
<1> HIDE DEF N
<1>5. \A n \in Nat : n \in N
  BY <1>4, Counting
<1>6. Good(Len(events)) /\ Len(events) \in Nat
  BY <1>5 DEF N
<1>7. /\ u[Len(events)] \in States
      /\ HoldIsStored => (u[Len(events)].thread.hold => u[Len(events)].stored.hold)
  BY <1>6 DEF Good
<1> QED
  BY <1>1, <1>7 DEF States, HoldIsStored

\* What is the head of a queue stays it while the queue begins the same.
LEMMA HeadStays ==
    ASSUME NEW t \in Threads, NEW r \in Threads, NEW ids \in Seq(Ids),
           exactQueuedPrefix(t, ids) # <<>>, Len(ids) <= Len(r.queue),
           \A k \in 1..Len(ids) : r.queue[k].id = t.queue[k].id
    PROVE  exactQueuedPrefix(r, ids) # <<>>
<1>1. t.queue \in Seq(Prompts) /\ r.queue \in Seq(Prompts)
  BY DEF Threads
<1>2. Len(ids) \in 1..Len(t.queue) /\ \A k \in 1..Len(ids) : t.queue[k].id = ids[k]
  BY <1>1, ExactIs
<1>3. Len(ids) \in 1..Len(r.queue) /\ \A k \in 1..Len(ids) : r.queue[k].id = ids[k]
  BY <1>1, <1>2
<1> QED
  BY <1>1, <1>3, ExactIs

\* An inbox has the starts of the inbox it was, with another event, without
\* its oldest event, or emptied.
LEMMA FewerStarts ==
    ASSUME NEW B \in Seq(Handled)
    PROVE  /\ Fewer(B, B)
           /\ Fewer(B, <<>>)
           /\ B # <<>> => Fewer(B, Tail(B))
           /\ \A e \in Events : e.type # "turn-start-requested" => Fewer(B, Inboxed(B, e))
<1>0. 0 \in Nat /\ 1 \in Nat /\ \A k \in StartsIn(B) : k + 0 = k
  BY DEF StartsIn
<1>1. Fewer(B, B)
  BY <1>0 DEF Fewer
<1>2. Fewer(B, <<>>)
  BY <1>0 DEF Fewer, StartsIn
<1>3. ASSUME B # <<>> PROVE Fewer(B, Tail(B))
  <2>1. /\ Tail(B) \in Seq(Handled) /\ Len(Tail(B)) = Len(B) - 1
        /\ \A k \in 1..Len(Tail(B)) : Tail(B)[k] = B[k + 1]
    BY <1>3
  <2>2. \A k \in StartsIn(Tail(B)) : k + 1 \in StartsIn(B) /\ Tail(B)[k].id = B[k + 1].id
    BY <1>3, <2>1 DEF StartsIn
  <2> QED
    BY <1>0, <2>1, <2>2 DEF Fewer
<1>4. ASSUME NEW e \in Events, e.type # "turn-start-requested" PROVE Fewer(B, Inboxed(B, e))
  <2>1. CASE ~ForReactor(e)
    BY <1>1, <2>1 DEF Inboxed
  <2>2. CASE ForReactor(e)
    <3> DEFINE B2 == Append(B, e)
    <3>1. B2 \in Seq(Handled)
      BY <2>2, InboxedShape DEF Inboxed
    <3>2. /\ Len(B2) = Len(B) + 1 /\ Len(B) \in Nat
          /\ \A k \in 1..Len(B) : B2[k] = B[k]
          /\ B2[Len(B) + 1] = e
      OBVIOUS
    <3> HIDE DEF B2
    <3>3. \A k \in StartsIn(B2) : k + 0 \in StartsIn(B) /\ B2[k].id = B[k + 0].id
      BY <1>4, <3>2 DEF StartsIn
    <3>4. Fewer(B, B2)
      BY <1>0, <3>1, <3>3 DEF Fewer
    <3> QED
      BY <2>2, <3>4 DEF Inboxed, B2
  <2> QED
    BY <2>1, <2>2
<1> QED
  BY <1>1, <1>2, <1>3, <1>4

\* CoreInv after a command, before what its sender does next.
CoreThen == CoreInv(thread'.queue, thread'.messages, submitted', inbox', Hand, delivered)

\* Every text is still where it was, or in the transcript.
TextsKept ==
    /\ thread.messages \subseteq thread'.messages
    /\ \A k \in 1..Len(thread.queue) :
          ~thread.queue[k].sent =>
             \/ QueuedIn(thread'.queue, thread.queue[k].id)
             \/ \E m : thread.queue[k].id = <<m>> /\ TextIn(thread'.messages, m)

QuietTypes ==
    {"turn-start-failed", "user-turn-bound", "turn-interrupt-requested",
     "turn-steer-requested", "session-stop-requested", "turn-control-set",
     "session-set", "queued-prompt-flush-cancelled"}

\* Nothing is committed.
LEMMA KeptByNone ==
    ASSUME QueueShape, Core, HoldIsStored, submitted' = submitted,
           UNCHANGED <<thread, stored, inbox>>
    PROVE  /\ thread' \in Threads /\ stored' \in Controls /\ inbox' \in Seq(Handled)
           /\ HoldIsStored' /\ CoreThen /\ TextsKept
           /\ IntentHead(thread) => IntentHead(thread')
<1>1. CoreThen
  BY DEF Core, CoreThen
<1>2. TextsKept
  BY DEF TextsKept, QueuedIn
<1> QED
  BY <1>1, <1>2 DEF QueueShape, HoldIsStored

\* An event that is not about prompts.
LEMMA KeptByQuiet ==
    ASSUME QueueShape, Core, HoldIsStored, submitted' = submitted,
           NEW e \in Events, e.type \in QuietTypes, Commit(<<e>>),
           e.type = "turn-interrupt-requested" =>
              exactQueuedPrefix(thread, e.intent.ids) # <<>>
    PROVE  /\ thread' \in Threads /\ stored' \in Controls /\ inbox' \in Seq(Handled)
           /\ HoldIsStored' /\ CoreThen /\ TextsKept
           /\ IntentHead(thread) => IntentHead(thread')
           /\ thread'.queue = thread.queue
           /\ e.type # "session-stop-requested" => thread'.hold = thread.hold
           /\ thread.hold => thread'.hold
<1>0. thread \in Threads
  BY DEF QueueShape
<1>1. /\ thread' = projectEvent(thread, e)
      /\ inbox' = Inboxed(inbox, e)
  BY CommitOne
<1>2. Plain(e) /\ e.type # "turn-start-requested"
  BY DEF Plain, QuietTypes
<1>3. thread' \in Threads /\ stored' \in Controls /\ inbox' \in Seq(Handled) /\ HoldIsStored'
  <2>1. <<e>> \in Seq(Events) /\ \A k \in 1..Len(<<e>>) : Plain(<<e>>[k])
    BY <1>2
  <2> HIDE DEF Commit
  <2> QED
    BY <2>1, CommitShape
<1>4. thread'.queue = thread.queue /\ thread'.messages = thread.messages
  BY <1>1, ProjectKeeps DEF QuietTypes
<1>5. CoreThen
  <2>1. Fewer(inbox, inbox')
    BY <1>1, <1>2, FewerStarts DEF QueueShape
  <2>2. Thins(thread.queue, thread.queue)
    BY <1>0, ThinsSelf DEF Threads
  <2>3. delivered \in Deliveries
    BY DEF Core, CoreInv
  <2>4. CoreInv(thread.queue, thread.messages, submitted, inbox, Hand, delivered)
    BY DEF Core
  <2> HIDE DEF CoreInv
  <2> QED
    BY <1>4, <2>1, <2>2, <2>3, <2>4, KeepsCore DEF CoreThen
<1>6. TextsKept
  BY <1>4 DEF TextsKept, QueuedIn
<1>7. IntentHead(thread) => IntentHead(thread')
  <2>1. \A ids \in Seq(Ids) : exactQueuedPrefix(thread, ids) # <<>> =>
                                exactQueuedPrefix(thread', ids) # <<>>
    <3>1. \A ids : exactQueuedPrefix(thread', ids) = exactQueuedPrefix(thread, ids)
      BY <1>4 DEF exactQueuedPrefix
    <3> QED
      BY <3>1
  <2>2. CASE e.type = "turn-interrupt-requested"
    <3>1. thread'.intent = e.intent
      BY <1>1, <2>2 DEF projectEvent, nextIntent
    <3>2. e.intent.ids \in Seq(Ids)
      BY <2>2 DEF Events, Intents
    <3> QED
      BY <2>1, <2>2, <3>1, <3>2 DEF IntentHead
  <2>3. CASE e.type # "turn-interrupt-requested"
    <3>1. thread'.intent \in {thread.intent, NoIntent}
      BY <1>1, <2>3, ProjectKeeps
    <3>2. thread.intent.ids \in Seq(Ids)
      BY <1>0 DEF Threads, Intents
    <3> QED
      BY <2>1, <3>1, <3>2 DEF IntentHead
  <2> QED
    BY <2>2, <2>3
<1>8. /\ e.type # "session-stop-requested" => thread'.hold = thread.hold
      /\ e.type = "session-stop-requested" => thread'.hold
  <2>1. e.type # "session-stop-requested" => thread'.hold = thread.hold
    BY <1>1, ProjectKeeps DEF QuietTypes
  <2>2. e.type = "session-stop-requested" => thread'.hold
    BY <1>1 DEF projectEvent, nextHold
  <2> QED
    BY <2>1, <2>2
<1> QED
  BY <1>3, <1>4, <1>5, <1>6, <1>7, <1>8

\* The head of a queue is not filtered out with what does not touch it.
LEMMA WithoutHead ==
    ASSUME NEW Q \in Seq(Prompts), NEW ids, NEW n \in 0..Len(Q),
           \A j \in 1..n : Q[j].id \notin ids
    PROVE  Len(Without(Q, ids)) >= n /\ \A k \in 1..n : Without(Q, ids)[k] = Q[k]
<1> DEFINE w == Without(Q, ids)
<1>1. \A l \in 0..Len(Q) : (\A j \in 1..l : Q[j].id \notin ids) =>
          Len(w) >= l /\ \A k \in 1..l : w[k] = Q[k]
  BY WithoutKeeps
<1> HIDE DEF w
<1>2. Len(w) >= n /\ \A k \in 1..n : w[k] = Q[k]
  BY <1>1
<1> QED
  BY <1>2 DEF w

\* What is not filtered out stays queued.
LEMMA WithoutQueued ==
    ASSUME NEW Q \in Seq(Prompts), NEW ids, NEW k \in 1..Len(Q), Q[k].id \notin ids
    PROVE  QueuedIn(Without(Q, ids), Q[k].id)
<1> DEFINE w == Without(Q, ids)
<1>1. \E f \in [1..Len(w) -> 1..Len(Q)] :
          /\ \A i \in 1..Len(w) : w[i] = Q[f[i]] /\ Q[f[i]].id \notin ids
          /\ \A i, j \in 1..Len(w) : i < j => f[i] < f[j]
          /\ \A j \in 1..Len(Q) : Q[j].id \notin ids => \E i \in 1..Len(w) : f[i] = j
  BY WithoutKeeps
<1> HIDE DEF w
<1>2. QueuedIn(w, Q[k].id)
  BY <1>1 DEF QueuedIn
<1> QED
  BY <1>2 DEF w

\* A prompt that is not captured leaves the queue.
LEMMA KeptByRemove ==
    ASSUME QueueShape, Core, HoldIsStored, submitted' = submitted,
           NEW id \in Ids, id \notin ToSet(thread.intent.ids),
           Commit(<<[type |-> "queued-prompt-removed", id |-> id]>>)
    PROVE  /\ thread' \in Threads /\ stored' \in Controls /\ inbox' \in Seq(Handled)
           /\ HoldIsStored' /\ CoreThen
           /\ IntentHead(thread) => IntentHead(thread')
           /\ thread'.hold = thread.hold
<1> DEFINE e == [type |-> "queued-prompt-removed", id |-> id]
<1>0. thread \in Threads /\ thread.queue \in Seq(Prompts) /\ thread.intent.ids \in Seq(Ids)
  BY DEF QueueShape, Threads, Intents
<1>1. e \in Events /\ e.type = "queued-prompt-removed" /\ e.id = id
  BY DEF Events
<1>2. /\ thread' = projectEvent(thread, e)
      /\ inbox' = Inboxed(inbox, e)
  BY CommitOne
<1> HIDE DEF e
<1>3. Plain(e) /\ e.type # "turn-start-requested"
  BY <1>1 DEF Plain
<1>4. thread' \in Threads /\ stored' \in Controls /\ inbox' \in Seq(Handled) /\ HoldIsStored'
  <2>1. <<e>> \in Seq(Events) /\ \A k \in 1..Len(<<e>>) : Plain(<<e>>[k])
    BY <1>1, <1>3
  <2>2. Commit(<<e>>)
    BY DEF e
  <2> HIDE DEF Commit
  <2> QED
    BY <2>1, <2>2, CommitShape
<1>5. /\ thread'.queue = Without(thread.queue, {id}) /\ thread'.messages = thread.messages
      /\ thread'.hold = thread.hold
  <2>1. thread'.queue = nextQueue(thread, e)
    BY <1>2 DEF projectEvent
  <2>2. nextQueue(thread, e) = Without(thread.queue, {id})
    BY <1>1 DEF nextQueue
  <2> QED
    BY <1>1, <1>2, <2>1, <2>2, ProjectKeeps
<1>6. CoreThen
  <2>1. Fewer(inbox, inbox')
    BY <1>1, <1>2, <1>3, FewerStarts DEF QueueShape
  <2>2. Thins(thread.queue, thread'.queue)
    BY <1>0, <1>5, ThinsWithout
  <2>3. delivered \in Deliveries
    BY DEF Core, CoreInv
  <2>4. CoreInv(thread.queue, thread.messages, submitted, inbox, Hand, delivered)
    BY DEF Core
  <2> HIDE DEF CoreInv
  <2> QED
    BY <1>5, <2>1, <2>2, <2>3, <2>4, KeepsCore DEF CoreThen
<1>7. IntentHead(thread) => IntentHead(thread')
  <2>1. SUFFICES ASSUME IntentHead(thread), thread'.intent # NoIntent
                 PROVE  exactQueuedPrefix(thread', thread'.intent.ids) # <<>>
    BY DEF IntentHead
  <2>2. thread'.intent = thread.intent
    BY <1>1, <1>2, <2>1, ProjectKeeps
  <2> DEFINE ids == thread.intent.ids
  <2>3. exactQueuedPrefix(thread, ids) # <<>>
    BY <2>1, <2>2 DEF IntentHead
  <2>4. Len(ids) \in 1..Len(thread.queue) /\ \A k \in 1..Len(ids) : thread.queue[k].id = ids[k]
    BY <1>0, <2>3, ExactIs
  <2>5. \A k \in 1..Len(ids) : thread.queue[k].id \notin {id}
    BY <1>0, <2>4 DEF ToSet
  <2>6. /\ Len(thread'.queue) >= Len(ids)
        /\ \A k \in 1..Len(ids) : thread'.queue[k] = thread.queue[k]
    <3>1. Len(ids) \in 0..Len(thread.queue)
      BY <1>0, <2>4
    <3>2. \A j \in 1..Len(ids) : thread.queue[j].id \notin {id}
      BY <2>5
    <3> HIDE DEF ids
    <3> QED
      BY <1>0, <1>5, <3>1, <3>2, WithoutHead
  <2>7. Len(ids) <= Len(thread'.queue)
    <3>1. thread'.queue \in Seq(Prompts)
      BY <1>4 DEF Threads
    <3> QED
      BY <1>0, <2>6, <3>1
  <2>8. exactQueuedPrefix(thread', ids) # <<>>
    BY <1>0, <1>4, <2>3, <2>6, <2>7, HeadStays
  <2> QED
    BY <2>2, <2>8
<1> QED
  BY <1>4, <1>5, <1>6, <1>7

\* A batch leaves the queue: all of what is captured, or nothing was.
LEMMA FlushIs ==
    ASSUME NEW t \in Threads, NEW p, Batch(p, t.queue),
           t.intent = NoIntent \/ t.intent.ids = IdsOf(p)
    PROVE  LET e == [type |-> "queued-prompts-flushed", ids |-> IdsOf(p)]
               r == projectEvent(t, e)
           IN  /\ e \in Events /\ Plain(e) /\ r \in Threads
               /\ r.queue = Without(t.queue, ToSet(IdsOf(p)))
               /\ Len(r.queue) < Len(t.queue)
               /\ r.messages = t.messages
               /\ r.intent = NoIntent
<1> DEFINE e == [type |-> "queued-prompts-flushed", ids |-> IdsOf(p)]
           r == projectEvent(t, e)
<1>0. t.queue \in Seq(Prompts)
  BY DEF Threads
<1>1. PICK n \in 1..Len(t.queue) : p = SubSeq(t.queue, 1, n)
  BY DEF Batch
<1>2. /\ p \in Seq(Prompts) /\ Len(p) = n /\ \A k \in 1..n : p[k] = t.queue[k]
      /\ n \in 1..Len(t.queue) /\ 1 \in 1..Len(p) /\ 1 \in 1..Len(t.queue)
  <2>1. n \in 0..Len(t.queue) /\ Len(t.queue) \in Nat
    BY <1>0
  <2> QED
    BY <1>0, <1>1, <2>1, HeadIs
<1>3. IdsOf(p) \in Seq(Ids) /\ t.queue[1].id \in ToSet(IdsOf(p))
  BY <1>2, IdsOfIs
<1>4. e \in Events /\ e.type = "queued-prompts-flushed" /\ e.ids = IdsOf(p)
  BY <1>3 DEF Events
<1> HIDE DEF e
<1>5. Plain(e) /\ r \in Threads
  BY <1>4, ProjectShape DEF Plain, Placed
<1>6. r.queue = Without(t.queue, ToSet(IdsOf(p)))
  <2>1. r.queue = nextQueue(t, e)
    BY DEF projectEvent
  <2> QED
    BY <1>4, <2>1 DEF nextQueue
<1>7. Len(Without(t.queue, ToSet(IdsOf(p)))) < Len(t.queue)
  <2>1. \E j \in 1..Len(t.queue) : t.queue[j].id \in ToSet(IdsOf(p))
    BY <1>2, <1>3
  <2> QED
    BY <1>0, <2>1, WithoutKeeps
<1>8. r.messages = t.messages
  BY <1>4, ProjectKeeps
<1>9. r.intent = NoIntent
  <2>1. r.intent = nextIntent(t.intent, e)
    BY <1>4 DEF projectEvent
  <2> QED
    BY <1>4, <2>1 DEF nextIntent
<1> QED
  BY <1>4, <1>5, <1>6, <1>7, <1>8, <1>9 DEF e

\* A batch that the provider has received already leaves the queue.
LEMMA KeptByConsume ==
    ASSUME QueueShape, Core, HoldIsStored, submitted' = submitted,
           NEW p, Batch(p, thread.queue),
           thread.intent = NoIntent \/ thread.intent.ids = IdsOf(p),
           Commit(Flushed(p))
    PROVE  /\ thread' \in Threads /\ stored' \in Controls /\ inbox' \in Seq(Handled)
           /\ HoldIsStored' /\ CoreThen
           /\ IntentHead(thread')
           /\ Len(thread'.queue) < Len(thread.queue)
           /\ thread.messages = thread'.messages
           /\ \A k \in 1..Len(thread.queue) :
                 \/ QueuedIn(thread'.queue, thread.queue[k].id)
                 \/ thread.queue[k].id \in ToSet(IdsOf(p))
<1> DEFINE e == [type |-> "queued-prompts-flushed", ids |-> IdsOf(p)]
           r == projectEvent(thread, e)
<1>0. thread \in Threads /\ thread.queue \in Seq(Prompts)
  BY DEF QueueShape, Threads
<1>1. /\ e \in Events /\ Plain(e) /\ r \in Threads
      /\ r.queue = Without(thread.queue, ToSet(IdsOf(p)))
      /\ Len(r.queue) < Len(thread.queue)
      /\ r.messages = thread.messages
      /\ r.intent = NoIntent
  BY <1>0, FlushIs
<1>2. thread' = r /\ inbox' = Inboxed(inbox, e) /\ Commit(<<e>>)
  BY CommitOne DEF Flushed
<1>3. e.type # "turn-start-requested"
  OBVIOUS
<1> HIDE DEF e, r
<1>4. thread' \in Threads /\ stored' \in Controls /\ inbox' \in Seq(Handled) /\ HoldIsStored'
  <2>1. <<e>> \in Seq(Events) /\ \A k \in 1..Len(<<e>>) : Plain(<<e>>[k])
    BY <1>1
  <2> HIDE DEF Commit
  <2> QED
    BY <1>2, <2>1, CommitShape
<1>5. CoreThen
  <2>1. Fewer(inbox, inbox')
    BY <1>1, <1>2, <1>3, FewerStarts DEF QueueShape
  <2>2. Thins(thread.queue, thread'.queue)
    BY <1>0, <1>1, <1>2, ThinsWithout
  <2>3. delivered \in Deliveries
    BY DEF Core, CoreInv
  <2>4. CoreInv(thread.queue, thread.messages, submitted, inbox, Hand, delivered)
    BY DEF Core
  <2> HIDE DEF CoreInv
  <2> QED
    BY <1>1, <1>2, <2>1, <2>2, <2>3, <2>4, KeepsCore DEF CoreThen
<1>6. ASSUME NEW k \in 1..Len(thread.queue), thread.queue[k].id \notin ToSet(IdsOf(p))
      PROVE  QueuedIn(thread'.queue, thread.queue[k].id)
  <2>1. thread'.queue = Without(thread.queue, ToSet(IdsOf(p)))
    BY <1>1, <1>2
  <2> QED
    BY <1>0, <1>6, <2>1, WithoutQueued
<1> QED
  BY <1>1, <1>2, <1>4, <1>5, <1>6 DEF IntentHead

\* A new message is queued.
LEMMA QueueIs ==
    ASSUME NEW t \in Threads, NEW m \in Messages, NEW at \in Nat, ~Queued(t, <<m>>)
    PROVE  LET e == [type |-> "prompt-queued", id |-> <<m>>, sent |-> FALSE, at |-> at]
               r == projectEvent(t, e)
           IN  /\ e \in Events /\ Plain(e) /\ r \in Threads
               /\ r.queue = Append(t.queue, [id |-> <<m>>, sent |-> FALSE])
               /\ r.messages = t.messages /\ r.hold = t.hold /\ r.intent = t.intent
<1> DEFINE e == [type |-> "prompt-queued", id |-> <<m>>, sent |-> FALSE, at |-> at]
           r == projectEvent(t, e)
<1>1. <<m>> \in Ids
  BY DEF Ids
<1>2. /\ e \in Events /\ e.type = "prompt-queued" /\ e.id = <<m>> /\ e.sent = FALSE
  BY <1>1 DEF Events
<1> HIDE DEF e
<1>3. Plain(e) /\ r \in Threads
  BY <1>2, ProjectShape DEF Plain, Placed
<1>4. r.queue = Append(t.queue, [id |-> <<m>>, sent |-> FALSE])
  <2>1. r.queue = nextQueue(t, e)
    BY DEF projectEvent
  <2> QED
    BY <1>2, <2>1 DEF nextQueue, insertQueuedPrompt
<1>5. r.messages = t.messages /\ r.hold = t.hold /\ r.intent = t.intent
  BY <1>2, ProjectKeeps
<1> QED
  BY <1>2, <1>3, <1>4, <1>5 DEF e

\* A turn is requested for a text.
LEMMA StartIs ==
    ASSUME NEW t \in Threads, NEW id \in Ids, NEW text \in Ids
    PROVE  LET d == [type |-> "message-sent", id |-> id, text |-> text]
               e == Start(id)
               r == projectEvent(projectEvent(t, d), e)
           IN  /\ d \in Events /\ Plain(d) /\ e \in Events /\ Plain(e) /\ r \in Threads
               /\ r.queue = t.queue /\ r.intent = t.intent
               /\ r.messages = Told(t.messages, id, text)
<1> DEFINE d == [type |-> "message-sent", id |-> id, text |-> text]
           e == Start(id)
           u == projectEvent(t, d)
           r == projectEvent(u, e)
<1>1. /\ d \in Events /\ d.type = "message-sent" /\ d.id = id /\ d.text = text
      /\ e \in Events /\ e.type = "turn-start-requested" /\ e.id = id
  BY DEF Events, Start
<1> HIDE DEF d, e
<1>4. Plain(d) /\ Plain(e)
  BY <1>1 DEF Plain
<1>5. u \in Threads
  BY <1>1, ProjectShape DEF Placed
<1>6. /\ u.queue = t.queue /\ u.intent = t.intent
      /\ u.messages = Told(t.messages, id, text)
  <2>1. u.queue = t.queue /\ u.intent = t.intent
    BY <1>1, ProjectKeeps
  <2>2. u.messages = Told(t.messages, id, text)
    BY <1>1 DEF projectEvent, Told
  <2> QED
    BY <2>1, <2>2
<1> HIDE DEF u
<1>7. r \in Threads
  BY <1>1, <1>5, ProjectShape DEF Placed
<1>8. r.queue = u.queue /\ r.intent = u.intent /\ r.messages = u.messages
  BY <1>1, ProjectKeeps
<1> QED
  BY <1>1, <1>4, <1>6, <1>7, <1>8 DEF d, e, u

\* A message that was not submitted before is queued.
LEMMA KeptByQueue ==
    ASSUME QueueShape, Core, HoldIsStored,
           NEW m \in Messages, m \notin submitted, submitted' = submitted \cup {m},
           ~Queued(thread, <<m>>), Counted(thread.queue) < MAX_QUEUED_PROMPTS,
           NEW at \in Nat, Commit(PromptQueued(<<m>>, FALSE, at))
    PROVE  /\ thread' \in Threads /\ stored' \in Controls /\ inbox' \in Seq(Handled)
           /\ HoldIsStored' /\ CoreThen /\ TextsKept
           /\ IntentHead(thread) => IntentHead(thread')
           /\ thread'.hold = thread.hold
<1> DEFINE e == [type |-> "prompt-queued", id |-> <<m>>, sent |-> FALSE, at |-> at]
           r == projectEvent(thread, e)
           p == [id |-> <<m>>, sent |-> FALSE]
<1>0. thread \in Threads /\ thread.queue \in Seq(Prompts) /\ thread.intent.ids \in Seq(Ids)
  BY DEF QueueShape, Threads, Intents
<1>1. /\ e \in Events /\ Plain(e) /\ r \in Threads
      /\ r.queue = Append(thread.queue, p)
      /\ r.messages = thread.messages /\ r.hold = thread.hold /\ r.intent = thread.intent
  BY <1>0, QueueIs
<1>2. thread' = r /\ inbox' = Inboxed(inbox, e) /\ Commit(<<e>>)
  BY CommitOne DEF PromptQueued
<1>3. Inboxed(inbox, e) = inbox
  BY DEF Inboxed, ForReactor
<1>4. p \in Prompts /\ p.id = <<m>>
  <2>1. <<m>> \in Ids
    BY DEF Ids
  <2> QED
    BY <2>1 DEF Prompts
<1> HIDE DEF e, r
<1>5. thread' \in Threads /\ stored' \in Controls /\ inbox' \in Seq(Handled) /\ HoldIsStored'
  <2>1. <<e>> \in Seq(Events) /\ \A k \in 1..Len(<<e>>) : Plain(<<e>>[k])
    BY <1>1
  <2> HIDE DEF Commit
  <2> QED
    BY <1>2, <2>1, CommitShape
<1>6. CoreThen
  <2>1. CoreInv(thread.queue, thread.messages, submitted, inbox, Hand, delivered)
    BY DEF Core
  <2>2. CoreInv(Append(thread.queue, p), thread.messages, submitted \cup {m}, inbox, Hand,
                delivered)
    <3> HIDE DEF CoreInv
    <3> QED
      BY <2>1, QueuesCore
  <2> QED
    BY <1>1, <1>2, <1>3, <2>2 DEF CoreThen
<1> HIDE DEF p
<1>7. /\ Len(thread'.queue) = Len(thread.queue) + 1 /\ Len(thread.queue) \in Nat
      /\ \A k \in 1..Len(thread.queue) : thread'.queue[k] = thread.queue[k]
  BY <1>0, <1>1, <1>2, <1>4
<1>8. TextsKept
  <2>1. \A k \in 1..Len(thread.queue) : k \in 1..Len(thread'.queue)
    BY <1>7
  <2> QED
    BY <1>1, <1>2, <1>7, <2>1 DEF TextsKept, QueuedIn
<1>9. IntentHead(thread) => IntentHead(thread')
  <2>1. SUFFICES ASSUME exactQueuedPrefix(thread, thread.intent.ids) # <<>>
                 PROVE  exactQueuedPrefix(thread', thread.intent.ids) # <<>>
    BY <1>1, <1>2 DEF IntentHead
  <2> DEFINE ids == thread.intent.ids
  <2>2. Len(ids) \in 1..Len(thread.queue)
    BY <1>0, <2>1, ExactIs
  <2>3. /\ Len(ids) <= Len(thread'.queue)
        /\ \A k \in 1..Len(ids) : thread'.queue[k].id = thread.queue[k].id
    BY <1>7, <2>2
  <2> QED
    BY <1>0, <1>5, <2>1, <2>3, HeadStays
<1> QED
  BY <1>1, <1>2, <1>5, <1>6, <1>8, <1>9

\* A message that was not submitted before starts a turn past the queue.
LEMMA KeptByStart ==
    ASSUME QueueShape, Core, HoldIsStored,
           NEW m \in Messages, m \notin submitted, submitted' = submitted \cup {m},
           Commit(TurnStart(<<m>>, <<m>>))
    PROVE  /\ thread' \in Threads /\ stored' \in Controls /\ inbox' \in Seq(Handled)
           /\ HoldIsStored' /\ CoreThen /\ TextsKept
           /\ IntentHead(thread) => IntentHead(thread')
<1> DEFINE id == <<m>>
           d == [type |-> "message-sent", id |-> id, text |-> id]
           e == Start(id)
           r == projectEvent(projectEvent(thread, d), e)
           M2 == Told(thread.messages, id, id)
<1>0. thread \in Threads /\ thread.queue \in Seq(Prompts) /\ thread.intent.ids \in Seq(Ids)
  BY DEF QueueShape, Threads, Intents
<1>1. id \in Ids /\ id # <<>> /\ ToSet(id) = {m}
  BY DEF Ids, ToSet
<1>2. /\ d \in Events /\ Plain(d) /\ e \in Events /\ Plain(e) /\ r \in Threads
      /\ r.queue = thread.queue /\ r.intent = thread.intent
      /\ r.messages = M2
  <2> HIDE DEF id
  <2> QED
    BY <1>0, <1>1, StartIs
<1>2a. Inboxed(Inboxed(inbox, d), e) = Append(inbox, e)
  BY DEF Inboxed, ForReactor, Start
<1>3. Commit(<<d, e>>)
  BY DEF TurnStart, Start
<1>4. thread' = r /\ inbox' = Inboxed(Inboxed(inbox, d), e)
  <2> HIDE DEF d, e, Commit
  <2> QED
    BY <1>3, CommitTwo
<1>5. thread' \in Threads /\ stored' \in Controls /\ inbox' \in Seq(Handled) /\ HoldIsStored'
  <2> HIDE DEF d, e, Commit
  <2>1. <<d, e>> \in Seq(Events) /\ \A k \in 1..Len(<<d, e>>) : Plain(<<d, e>>[k])
    BY <1>2
  <2> QED
    BY <1>3, <2>1, CommitShape
<1>6. CoreInv(thread.queue, thread.messages, submitted, inbox, Hand, delivered)
  BY DEF Core
<1>7. ~TextIn(thread.messages, m)
  BY <1>6 DEF CoreInv, TranscriptInv, TextIn
<1>8. \A x \in thread.messages : x.id # id
  <2>1. ~Sent(thread, <<m>>)
    <3>1. TranscriptInv(thread.messages, submitted)
      BY <1>6 DEF CoreInv
    <3> QED
      BY <1>7, <3>1, FreshText
  <2> QED
    BY <2>1 DEF Sent
<1>9. ~QueuedIn(thread.queue, <<m>>)
  <2>1. ASSUME NEW k \in 1..Len(thread.queue), thread.queue[k].id = <<m>> PROVE FALSE
    <3>1. IF thread.queue[k].sent THEN SentIn(thread.messages, thread.queue[k].id)
          ELSE \E l \in submitted : thread.queue[k].id = <<l>> /\ ~TextIn(thread.messages, l)
      BY <1>6 DEF CoreInv, QueuedInv
    <3>2. \A l : <<l>> = <<m>> => l = m
      <4>1. ASSUME NEW l, <<l>> = <<m>> PROVE l = m
        <5>1. <<l>>[1] = <<m>>[1]
          BY <4>1
        <5> QED
          BY <5>1
      <4> QED
        BY <4>1
    <3> QED
      BY <1>8, <2>1, <3>1, <3>2 DEF SentIn
  <2> QED
    BY <2>1 DEF QueuedIn
<1>10. M2 = thread.messages \cup {[id |-> id, text |-> id]}
  BY <1>8 DEF Told
<1>11. CoreThen
  <2>1. /\ submitted \cup {m} \in SUBSET Messages /\ submitted \subseteq submitted \cup {m}
        /\ ToSet(id) \subseteq submitted \cup {m}
        /\ \A l \in ToSet(id) : ~TextIn(thread.messages, l) /\ ~QueuedIn(thread.queue, <<l>>)
        /\ \A l \in ToSet(id) \cap Solo : id = <<l>>
    BY <1>1, <1>7, <1>9 DEF QueueShape
  <2>2. Thins(thread.queue, thread.queue)
    BY <1>0, ThinsSelf
  <2>3. CoreInv(thread.queue, thread.messages \cup {[id |-> id, text |-> id]},
                submitted \cup {m}, Append(inbox, e), Hand, delivered)
    <3> HIDE DEF CoreInv, id
    <3> QED
      BY <1>1, <1>6, <2>1, <2>2, LaunchesCore DEF Start
  <2> HIDE DEF CoreInv, id, M2, r, e
  <2> QED
    BY <1>2, <1>4, <1>10, <1>2a, <2>3 DEF CoreThen
<1> HIDE DEF r, M2
<1>12. TextsKept
  BY <1>2, <1>4, <1>10 DEF TextsKept, QueuedIn
<1>13. IntentHead(thread) => IntentHead(thread')
  <2>1. \A ids : exactQueuedPrefix(thread', ids) = exactQueuedPrefix(thread, ids)
    BY <1>2, <1>4 DEF exactQueuedPrefix
  <2> QED
    BY <1>2, <1>4, <2>1 DEF IntentHead
<1> QED
  BY <1>5, <1>11, <1>12, <1>13

\* One event after another.
LEMMA OneOne ==
    ASSUME NEW a, NEW b
    PROVE  <<a>> \o <<b>> = <<a, b>>
<1> DEFINE S == {a, b}
           x == <<a>> \o <<b>>
           y == <<a, b>>
<1>1. <<a>> \in Seq(S) /\ <<b>> \in Seq(S) /\ y \in Seq(S)
  OBVIOUS
<1>2. x \in Seq(S) /\ Len(x) = 2 /\ x[1] = a /\ x[2] = b
  BY <1>1
<1>3. Len(y) = 2 /\ y[1] = a /\ y[2] = b
  OBVIOUS
<1>4. y \in Seq(S)
  BY <1>1
<1> HIDE DEF x, y
<1>5. \A k \in 1..2 : x[k] = y[k]
  BY <1>2, <1>3
<1>6. x = y
  BY <1>2, <1>3, <1>4, <1>5
<1> QED
  BY <1>6 DEF x, y

\* Two events after one.
LEMMA OneTwo ==
    ASSUME NEW a, NEW b, NEW c
    PROVE  <<a>> \o <<b, c>> = <<a, b, c>>
<1> DEFINE S == {a, b, c}
           x == <<a>> \o <<b, c>>
           y == <<a, b, c>>
<1>1. <<a>> \in Seq(S) /\ <<b, c>> \in Seq(S) /\ y \in Seq(S)
  OBVIOUS
<1>2. x \in Seq(S) /\ Len(x) = 3 /\ x[1] = a /\ x[2] = b /\ x[3] = c
  BY <1>1
<1>3. Len(y) = 3 /\ y[1] = a /\ y[2] = b /\ y[3] = c
  OBVIOUS
<1>4. y \in Seq(S)
  BY <1>1
<1> HIDE DEF x, y
<1>5. \A k \in 1..3 : x[k] = y[k]
  BY <1>2, <1>3
<1>6. x = y
  BY <1>2, <1>3, <1>4, <1>5
<1> QED
  BY <1>6 DEF x, y

\* Two events after two.
LEMMA TwoTwo ==
    ASSUME NEW a, NEW b, NEW c, NEW d
    PROVE  <<a, b>> \o <<c, d>> = <<a, b, c, d>>
<1> DEFINE S == {a, b, c, d}
           x == <<a, b>> \o <<c, d>>
           y == <<a, b, c, d>>
<1>1. <<a, b>> \in Seq(S) /\ <<c, d>> \in Seq(S) /\ y \in Seq(S)
  OBVIOUS
<1>2. x \in Seq(S) /\ Len(x) = 4 /\ x[1] = a /\ x[2] = b /\ x[3] = c /\ x[4] = d
  BY <1>1
<1>3. Len(y) = 4 /\ y[1] = a /\ y[2] = b /\ y[3] = c /\ y[4] = d
  OBVIOUS
<1>4. y \in Seq(S)
  BY <1>1
<1> HIDE DEF x, y
<1>5. \A k \in 1..4 : x[k] = y[k]
  BY <1>2, <1>3
<1>6. x = y
  BY <1>2, <1>3, <1>4, <1>5
<1> QED
  BY <1>6 DEF x, y

\* A flushed batch starts a turn.
LEMMA KeptBySend ==
    ASSUME QueueShape, Core, HoldIsStored, submitted' = submitted,
           NEW p, Batch(p, thread.queue),
           thread.intent = NoIntent \/ thread.intent.ids = IdsOf(p),
           NEW id \in {p[1].id, FollowUp(p)},
           Commit(Flushed(p) \o TurnStart(id, CombinedText(thread, p)))
    PROVE  /\ thread' \in Threads /\ stored' \in Controls /\ inbox' \in Seq(Handled)
           /\ HoldIsStored' /\ CoreThen /\ TextsKept
           /\ IntentHead(thread')
           /\ Len(thread'.queue) < Len(thread.queue)
<1> DEFINE text == CombinedText(thread, p)
           out == ToSet(IdsOf(p))
           f == [type |-> "queued-prompts-flushed", ids |-> IdsOf(p)]
           d == [type |-> "message-sent", id |-> id, text |-> text]
           e == Start(id)
           t == projectEvent(thread, f)
           r == projectEvent(projectEvent(t, d), e)
           M2 == Told(thread.messages, id, text)
           Q2 == Without(thread.queue, out)
<1>0. thread \in Threads /\ thread.queue \in Seq(Prompts)
  BY DEF QueueShape, Threads
<1>1. CoreInv(thread.queue, thread.messages, submitted, inbox, Hand, delivered)
  BY DEF Core
<1>2. /\ CoreInv(Q2, M2, submitted, Append(inbox, e), Hand, delivered)
      /\ id \in Ids /\ text \in Ids
      /\ thread.messages \subseteq M2
      /\ \A k \in 1..Len(thread.queue) :
            ~thread.queue[k].sent /\ thread.queue[k].id \in out =>
               \E m : thread.queue[k].id = <<m>> /\ TextIn(M2, m)
  <2> DEFINE Q == thread.queue
  <2>1. Batch(p, Q) /\ id \in {p[1].id, FollowUp(p)}
    OBVIOUS
  <2>2. CoreInv(Q, thread.messages, submitted, inbox, Hand, delivered)
    BY <1>1
  <2> HIDE DEF CoreInv, Q
  <2>3. /\ CoreInv(Without(Q, out), M2, submitted, Append(inbox, e), Hand, delivered)
        /\ id \in Ids /\ text \in Ids
        /\ thread.messages \subseteq M2
        /\ \A k \in 1..Len(Q) :
              ~Q[k].sent /\ Q[k].id \in out => \E m : Q[k].id = <<m>> /\ TextIn(M2, m)
    <3>1. Sends(thread, Q, submitted, inbox, Hand, delivered, p, id)
      BY <2>1, <2>2, SendsCore
    <3> QED
      BY <3>1 DEF Sends
  <2> QED
    BY <2>3 DEF Q
<1>3. /\ f \in Events /\ Plain(f) /\ t \in Threads
      /\ t.queue = Q2
      /\ Len(t.queue) < Len(thread.queue)
      /\ t.messages = thread.messages
      /\ t.intent = NoIntent
  BY <1>0, FlushIs
<1> HIDE DEF text, Q2
<1>4. Inboxed(Inboxed(Inboxed(inbox, f), d), e) = Append(inbox, e)
  BY DEF Inboxed, ForReactor, Start
<1>5. Commit(<<f, d, e>>)
  <2>1. Flushed(p) \o TurnStart(id, text) = <<f, d, e>>
    BY OneTwo DEF Flushed, TurnStart, Start
  <2> QED
    BY <2>1 DEF text
<1> HIDE DEF t, out
<1>6. /\ d \in Events /\ Plain(d) /\ e \in Events /\ Plain(e) /\ r \in Threads
      /\ r.queue = t.queue /\ r.intent = t.intent
      /\ r.messages = Told(t.messages, id, text)
  BY <1>2, <1>3, StartIs
<1>7. thread' = r /\ inbox' = Append(inbox, e)
  <2>1. thread' = r /\ inbox' = Inboxed(Inboxed(Inboxed(inbox, f), d), e)
    <3> HIDE DEF f, d, e, Commit
    <3> QED
      BY <1>5, CommitThree DEF t
  <2> QED
    BY <1>4, <2>1
<1>8. thread' \in Threads /\ stored' \in Controls /\ inbox' \in Seq(Handled) /\ HoldIsStored'
  <2> HIDE DEF f, d, e, Commit
  <2>1. <<f, d, e>> \in Seq(Events) /\ \A k \in 1..Len(<<f, d, e>>) : Plain(<<f, d, e>>[k])
    BY <1>3, <1>6
  <2> QED
    BY <1>5, <2>1, CommitShape
<1> HIDE DEF r
<1>9. thread'.queue = Q2 /\ thread'.messages = M2 /\ thread'.intent = NoIntent
  BY <1>3, <1>6, <1>7
<1> HIDE DEF M2
<1>10. CoreThen
  <2> HIDE DEF CoreInv
  <2> QED
    BY <1>2, <1>7, <1>9 DEF CoreThen
<1>11. TextsKept
  <2>1. ASSUME NEW k \in 1..Len(thread.queue), thread.queue[k].id \notin out
        PROVE  QueuedIn(thread'.queue, thread.queue[k].id)
    BY <1>0, <1>9, <2>1, WithoutQueued DEF Q2
  <2> QED
    BY <1>2, <1>9, <2>1 DEF TextsKept
<1> QED
  BY <1>3, <1>8, <1>9, <1>10, <1>11 DEF IntentHead

\* A new message is queued, and the batch it completes starts a turn.
LEMMA KeptBySubmit ==
    ASSUME QueueShape, Core, HoldIsStored,
           NEW m \in Messages, m \notin submitted, submitted' = submitted \cup {m},
           ~Queued(thread, <<m>>), Counted(thread.queue) < MAX_QUEUED_PROMPTS,
           thread.intent = NoIntent,
           NEW p, Batch(p, Append(thread.queue, [id |-> <<m>>, sent |-> FALSE])),
           NEW at \in Nat,
           Commit(PromptQueued(<<m>>, FALSE, at) \o Flushed(p)
                    \o TurnStart(p[1].id, CombinedText(thread, p)))
    PROVE  /\ thread' \in Threads /\ stored' \in Controls /\ inbox' \in Seq(Handled)
           /\ HoldIsStored' /\ CoreThen /\ TextsKept
           /\ IntentHead(thread')
<1> DEFINE id == p[1].id
           text == CombinedText(thread, p)
           out == ToSet(IdsOf(p))
           new == [id |-> <<m>>, sent |-> FALSE]
           Q == Append(thread.queue, new)
           q == [type |-> "prompt-queued", id |-> <<m>>, sent |-> FALSE, at |-> at]
           f == [type |-> "queued-prompts-flushed", ids |-> IdsOf(p)]
           d == [type |-> "message-sent", id |-> id, text |-> text]
           e == Start(id)
           s == projectEvent(thread, q)
           t == projectEvent(s, f)
           r == projectEvent(projectEvent(t, d), e)
           M2 == Told(thread.messages, id, text)
           Q2 == Without(Q, out)
           S2 == submitted \cup {m}
<1>0. thread \in Threads /\ thread.queue \in Seq(Prompts)
  BY DEF QueueShape, Threads
<1>1. CoreInv(Q, thread.messages, S2, inbox, Hand, delivered)
  <2>1. CoreInv(thread.queue, thread.messages, submitted, inbox, Hand, delivered)
    BY DEF Core
  <2> HIDE DEF CoreInv
  <2> QED
    BY <2>1, QueuesCore
<1>2. /\ q \in Events /\ Plain(q) /\ s \in Threads
      /\ s.queue = Q /\ s.messages = thread.messages /\ s.intent = NoIntent
  BY <1>0, QueueIs
<1>a. /\ Q \in Seq(Prompts) /\ Len(Q) = Len(thread.queue) + 1 /\ Len(thread.queue) \in Nat
      /\ \A k \in 1..Len(thread.queue) : Q[k] = thread.queue[k]
  <2>1. new \in Prompts
    <3>1. <<m>> \in Ids
      BY DEF Ids
    <3> QED
      BY <3>1 DEF Prompts
  <2> HIDE DEF new
  <2> QED
    BY <1>0, <2>1
<1> HIDE DEF s, Q, S2
<1>3. /\ CoreInv(Q2, M2, S2, Append(inbox, e), Hand, delivered)
      /\ id \in Ids /\ text \in Ids
      /\ thread.messages \subseteq M2
      /\ \A k \in 1..Len(Q) :
            ~Q[k].sent /\ Q[k].id \in out => \E l : Q[k].id = <<l>> /\ TextIn(M2, l)
  <2>1. Batch(p, Q)
    BY DEF Q
  <2>2. p[1].id \in {p[1].id, FollowUp(p)}
    OBVIOUS
  <2> HIDE DEF CoreInv
  <2>3. Sends(thread, Q, S2, inbox, Hand, delivered, p, id)
    BY <1>1, <2>1, <2>2, SendsCore
  <2> QED
    BY <2>3 DEF Sends
<1>4. /\ f \in Events /\ Plain(f) /\ t \in Threads
      /\ t.queue = Q2
      /\ t.messages = thread.messages
      /\ t.intent = NoIntent
  <2>1. Batch(p, s.queue)
    BY <1>2 DEF Q
  <2> QED
    BY <1>2, <2>1, FlushIs
<1> HIDE DEF text, Q2
<1>5. Inboxed(Inboxed(Inboxed(Inboxed(inbox, q), f), d), e) = Append(inbox, e)
  BY DEF Inboxed, ForReactor, Start
<1>6. Commit(<<q, f, d, e>>)
  <2>1. PromptQueued(<<m>>, FALSE, at) \o Flushed(p) \o TurnStart(id, text) = <<q, f, d, e>>
    <3>1. PromptQueued(<<m>>, FALSE, at) \o Flushed(p) = <<q, f>>
      BY OneOne DEF PromptQueued, Flushed
    <3>2. TurnStart(id, text) = <<d, e>>
      BY DEF TurnStart, Start
    <3> HIDE DEF q, f, d, e
    <3> QED
      BY <3>1, <3>2, TwoTwo
  <2> QED
    BY <2>1 DEF text
<1> HIDE DEF t, out, id
<1>7. /\ d \in Events /\ Plain(d) /\ e \in Events /\ Plain(e) /\ r \in Threads
      /\ r.queue = t.queue /\ r.intent = t.intent
      /\ r.messages = Told(t.messages, id, text)
  BY <1>3, <1>4, StartIs
<1>8. thread' = r /\ inbox' = Append(inbox, e)
  <2>1. thread' = r /\ inbox' = Inboxed(Inboxed(Inboxed(Inboxed(inbox, q), f), d), e)
    <3> HIDE DEF q, f, d, e, Commit
    <3> QED
      BY <1>6, CommitFour DEF s, t
  <2> QED
    BY <1>5, <2>1
<1>9. thread' \in Threads /\ stored' \in Controls /\ inbox' \in Seq(Handled) /\ HoldIsStored'
  <2> HIDE DEF q, f, d, e, Commit
  <2>1. <<q, f, d, e>> \in Seq(Events)
        /\ \A k \in 1..Len(<<q, f, d, e>>) : Plain(<<q, f, d, e>>[k])
    BY <1>2, <1>4, <1>7
  <2> QED
    BY <1>6, <2>1, CommitShape
<1> HIDE DEF r
<1>10. thread'.queue = Q2 /\ thread'.messages = M2 /\ thread'.intent = NoIntent
  BY <1>4, <1>7, <1>8
<1> HIDE DEF M2
<1>11. CoreThen
  <2> HIDE DEF CoreInv
  <2> QED
    BY <1>3, <1>8, <1>10 DEF CoreThen, S2
<1>12. TextsKept
  <2>1. ASSUME NEW k \in 1..Len(thread.queue), ~thread.queue[k].sent
        PROVE  \/ QueuedIn(thread'.queue, thread.queue[k].id)
               \/ \E l : thread.queue[k].id = <<l>> /\ TextIn(thread'.messages, l)
    <3>1. k \in 1..Len(Q) /\ Q[k] = thread.queue[k]
      BY <1>a
    <3>2. CASE Q[k].id \in out
      BY <1>3, <1>10, <2>1, <3>1, <3>2
    <3>3. CASE Q[k].id \notin out
      <4>1. QueuedIn(Without(Q, out), Q[k].id)
        BY <1>a, <3>1, <3>3, WithoutQueued
      <4> QED
        BY <1>10, <3>1, <4>1 DEF Q2
    <3> QED
      BY <3>2, <3>3
  <2> QED
    BY <1>3, <1>10, <2>1 DEF TextsKept
<1> QED
  BY <1>9, <1>10, <1>11, <1>12 DEF IntentHead

\* A redelivered message is put behind what an interrupt has captured.
LEMMA PositionIs ==
    ASSUME NEW t \in Threads
    PROVE  /\ redeliveryQueuePosition(t) \in 1..(Len(t.queue) + 1)
           /\ \A k \in 1..Len(t.intent.ids) :
                 exactQueuedPrefix(t, t.intent.ids) # <<>> => k < redeliveryQueuePosition(t)
<1> DEFINE free == {i \in DOMAIN t.queue : t.queue[i].id \notin Captured(t) /\ ~t.queue[i].sent}
           ids == t.intent.ids
           at == redeliveryQueuePosition(t)
<1>1. t.queue \in Seq(Prompts) /\ ids \in Seq(Ids) /\ DOMAIN t.queue = 1..Len(t.queue)
      /\ Len(t.queue) \in Nat
  BY DEF Threads, Intents
<1>2. IF free = {} THEN at = Len(t.queue) + 1 ELSE at \in free
  <2>1. free \in SUBSET Nat
    BY <1>1
  <2>2. at = IF free = {} THEN Len(t.queue) + 1 ELSE Min(free)
    BY DEF redeliveryQueuePosition
  <2> HIDE DEF free, at
  <2> QED
    BY <2>1, <2>2, MinIn
<1>3. at \in 1..(Len(t.queue) + 1)
  BY <1>1, <1>2
<1>4. ASSUME exactQueuedPrefix(t, ids) # <<>>, NEW k \in 1..Len(ids) PROVE k < at
  <2>1. Len(ids) \in 1..Len(t.queue) /\ \A l \in 1..Len(ids) : t.queue[l].id = ids[l]
    BY <1>1, <1>4, ExactIs
  <2>2. \A l \in 1..Len(ids) : l \notin free
    <3>1. \A l \in 1..Len(ids) : ids[l] \in Captured(t)
      BY <1>1 DEF Captured, ToSet
    <3> QED
      BY <2>1, <3>1
  <2> HIDE DEF free, at
  <2>3. at \notin 1..Len(ids)
    BY <1>1, <1>2, <2>1, <2>2
  <2> QED
    BY <1>1, <1>3, <2>1, <2>3
<1> QED
  BY <1>3, <1>4

\* The message in hand is queued again.
LEMMA KeptByRequeue ==
    ASSUME QueueShape, Core, HoldIsStored, submitted' = submitted,
           Hand = {reactor.id}, Commit(decideRedelivery(thread, reactor.id))
    PROVE  /\ thread' \in Threads /\ stored' \in Controls /\ inbox' \in Seq(Handled)
           /\ HoldIsStored' /\ TextsKept
           /\ CoreInv(thread'.queue, thread'.messages, submitted', inbox', {}, delivered)
           /\ IntentHead(thread) => IntentHead(thread')
           /\ thread'.hold = thread.hold
<1> DEFINE id == reactor.id
           at == redeliveryQueuePosition(thread)
           p == [id |-> id, sent |-> TRUE]
           e == [type |-> "prompt-queued", id |-> id, sent |-> TRUE, at |-> at]
           r == projectEvent(thread, e)
<1>0. /\ thread \in Threads /\ thread.queue \in Seq(Prompts) /\ thread.intent.ids \in Seq(Ids)
      /\ stored \in Controls /\ inbox \in Seq(Handled)
  BY DEF QueueShape, Threads, Intents
<1>1. CoreInv(thread.queue, thread.messages, submitted, inbox, {id}, delivered)
  BY DEF Core
<1>2. id \in Ids /\ ~QueuedIn(thread.queue, id)
  BY <1>1 DEF CoreInv, OnceInv
<1>3. ~Queued(thread, id)
  <2>1. DOMAIN thread.queue = 1..Len(thread.queue)
    BY <1>0
  <2> QED
    BY <1>2, <2>1 DEF Queued, QueuedIn
<1>4. Commit(<<e>>)
  BY <1>3 DEF decideRedelivery, PromptQueued
<1>5. at \in 1..(Len(thread.queue) + 1) /\ at \in Nat
  <2>1. at \in 1..(Len(thread.queue) + 1) /\ Len(thread.queue) \in Nat
    BY <1>0, PositionIs
  <2> HIDE DEF at
  <2> QED
    BY <2>1
<1> HIDE DEF at, id
<1>6. /\ e \in Events /\ e.type = "prompt-queued" /\ e.id = id /\ e.sent = TRUE /\ e.at = at
  BY <1>2, <1>5 DEF Events
<1>7. thread' = r /\ stored' = projectThreadQueueControlEvent(stored, e) /\ inbox' = Inboxed(inbox, e)
  <2> HIDE DEF e, Commit
  <2> QED
    BY <1>4, CommitOne
<1> HIDE DEF e
<1>8. r \in Threads /\ stored' \in Controls /\ inbox' = inbox
  <2>1. Placed(thread, e)
    BY <1>5, <1>6 DEF Placed
  <2>2. inbox' = inbox
    BY <1>6, <1>7 DEF Inboxed, ForReactor
  <2> QED
    BY <1>0, <1>6, <1>7, <2>1, <2>2, ProjectShape, StoredShape
<1>9. /\ r.queue = InsertAt(thread.queue, at, p)
      /\ r.messages = thread.messages /\ r.hold = thread.hold /\ r.intent = thread.intent
  <2>1. r.queue = nextQueue(thread, e)
    BY DEF projectEvent
  <2>2. nextQueue(thread, e) = InsertAt(thread.queue, at, p)
    BY <1>3, <1>6 DEF nextQueue, insertQueuedPrompt
  <2>3. r.messages = thread.messages /\ r.hold = thread.hold /\ r.intent = thread.intent
    BY <1>6, ProjectKeeps
  <2> QED
    BY <2>1, <2>2, <2>3
<1>10. stored'.hold = stored.hold
  BY <1>6, <1>7 DEF projectThreadQueueControlEvent, nextHold
<1>11. CoreInv(thread'.queue, thread'.messages, submitted', inbox', {}, delivered)
  <2> HIDE DEF CoreInv, r
  <2>1. id \in {id}
    OBVIOUS
  <2>2. CoreInv(InsertAt(thread.queue, at, p), thread.messages, submitted, inbox, {}, delivered)
    BY <1>1, <1>5, <2>1, RequeuesCore
  <2> QED
    BY <1>7, <1>8, <1>9, <2>2
<1>12. p \in Prompts
  BY <1>2 DEF Prompts
<1> HIDE DEF r, p
<1>13. /\ Len(thread'.queue) = Len(thread.queue) + 1 /\ Len(thread.queue) \in Nat
       /\ \A j \in 1..(Len(thread.queue) + 1) :
            thread'.queue[j] = IF j < at THEN thread.queue[j]
                               ELSE IF j = at THEN p ELSE thread.queue[j - 1]
  <2> DEFINE Q == thread.queue
             Q2 == thread'.queue
  <2>1. Q2 = InsertAt(Q, at, p)
    BY <1>7, <1>9
  <2>2. Q \in Seq(Prompts) /\ Len(Q) \in Nat /\ at \in 1..(Len(Q) + 1)
    BY <1>0, <1>5
  <2> HIDE DEF Q, Q2
  <2>3. /\ Len(Q2) = Len(Q) + 1
        /\ \A j \in 1..(Len(Q) + 1) :
             Q2[j] = IF j < at THEN Q[j] ELSE IF j = at THEN p ELSE Q[j - 1]
    BY <1>12, <2>1, <2>2, Inserted
  <2> QED
    BY <2>2, <2>3 DEF Q, Q2
<1>14. TextsKept
  <2>1. ASSUME NEW k \in 1..Len(thread.queue)
        PROVE  QueuedIn(thread'.queue, thread.queue[k].id)
    <3>1. CASE k < at
      <4>1. k \in 1..Len(thread'.queue) /\ thread'.queue[k] = thread.queue[k]
        BY <1>13, <3>1
      <4> QED
        BY <4>1 DEF QueuedIn
    <3>2. CASE ~(k < at)
      <4>1. k + 1 \in 1..Len(thread'.queue) /\ thread'.queue[k + 1] = thread.queue[k]
        BY <1>5, <1>13, <3>2
      <4> QED
        BY <4>1 DEF QueuedIn
    <3> QED
      BY <3>1, <3>2
  <2> QED
    BY <1>7, <1>9, <2>1 DEF TextsKept
<1>15. IntentHead(thread) => IntentHead(thread')
  <2> DEFINE ids == thread.intent.ids
  <2>1. SUFFICES ASSUME exactQueuedPrefix(thread, ids) # <<>>
                 PROVE  exactQueuedPrefix(thread', ids) # <<>>
    BY <1>7, <1>9 DEF IntentHead
  <2>2. Len(ids) \in 1..Len(thread.queue)
    BY <1>0, <2>1, ExactIs
  <2>3. \A k \in 1..Len(ids) : k < at
    BY <1>0, <2>1, PositionIs DEF at
  <2>4. /\ Len(ids) <= Len(thread'.queue)
        /\ \A k \in 1..Len(ids) : thread'.queue[k].id = thread.queue[k].id
    BY <1>13, <2>2, <2>3
  <2>5. thread' \in Threads
    BY <1>7, <1>8
  <2> QED
    BY <1>0, <2>1, <2>4, <2>5, HeadStays
<1> QED
  BY <1>7, <1>8, <1>9, <1>10, <1>11, <1>14, <1>15 DEF HoldIsStored, QueueShape

-----------------------------------------------------------------------------
(***************************************************************************)
(* What each command of the decider commits.                               *)
(***************************************************************************)

Others == {o \in Operations : ~Acknowledged(o)}
OpTypes ==
    {"turn-interrupt-requested", "turn-steer-requested", "session-stop-requested",
     "turn-control-set"}

\* At most one event, which is not about prompts; O holds the operation that
\* it may set.
Quiet(events, O) ==
    \/ events = <<>>
    \/ \E e \in Events :
          /\ e.type \in QuietTypes
          /\ e.type = "turn-interrupt-requested" =>
                exactQueuedPrefix(thread, e.intent.ids) # <<>>
          /\ e.type \in OpTypes => e.op \in O
          /\ events = <<e>>

\* What every command but a redelivery keeps.
Committed ==
    /\ thread' \in Threads /\ stored' \in Controls /\ inbox' \in Seq(Handled)
    /\ HoldIsStored' /\ CoreThen
    /\ IntentHead(thread) => IntentHead(thread')

\* The command acknowledges no steer that the provider has not received.
OpKept ==
    Acknowledged(thread'.op) =>
        thread'.op = thread.op \/ ReceivedAll(thread'.op.reserved)

\* No text is lost but what an acknowledged steer has reserved.
TextSafe ==
    \/ TextsKept
    \/ /\ Acknowledged(thread.op)
       /\ thread'.messages = thread.messages
       /\ \A k \in 1..Len(thread.queue) :
             \/ QueuedIn(thread'.queue, thread.queue[k].id)
             \/ thread.queue[k].id \in ToSet(thread.op.reserved)

HoldSafe == thread.hold /\ ~thread'.hold => Len(thread'.queue) < Len(thread.queue)

\* A command of at most one event that is not about prompts.
LEMMA KeptByCommand ==
    ASSUME QueueShape, Core, HoldIsStored, submitted' = submitted,
           NEW O, NEW events, Quiet(events, O), Commit(events)
    PROVE  /\ Committed /\ TextsKept /\ HoldSafe
           /\ thread'.op = thread.op \/ thread'.op \in O
<1>1. CASE events = <<>>
  <2>1. UNCHANGED <<thread, stored, inbox>>
    BY <1>1, CommitNone
  <2> QED
    BY <2>1, KeptByNone DEF Committed, HoldSafe
<1>2. CASE events # <<>>
  <2>1. PICK e \in Events : /\ e.type \in QuietTypes
                            /\ e.type = "turn-interrupt-requested" =>
                                 exactQueuedPrefix(thread, e.intent.ids) # <<>>
                            /\ e.type \in OpTypes => e.op \in O
                            /\ events = <<e>>
    BY <1>2 DEF Quiet
  <2>2. Commit(<<e>>)
    BY <2>1
  <2>3. /\ thread' \in Threads /\ stored' \in Controls /\ inbox' \in Seq(Handled)
        /\ HoldIsStored' /\ CoreThen /\ TextsKept
        /\ IntentHead(thread) => IntentHead(thread')
        /\ thread.hold => thread'.hold
    BY <2>1, <2>2, KeptByQuiet
  <2>4. thread' = projectEvent(thread, e)
    BY <2>2, CommitOne
  <2>5. thread'.op = thread.op \/ thread'.op \in O
    BY <2>1, <2>4 DEF projectEvent, OpTypes
  <2> QED
    BY <2>3, <2>5 DEF Committed, HoldSafe
<1> QED
  BY <1>1, <1>2

\* A batch of the queue is an exact prefix of it.
LEMMA BatchHead ==
    ASSUME NEW t, t.queue \in Seq(Prompts), NEW p, Batch(p, t.queue)
    PROVE  /\ p \in Seq(Prompts) /\ p # <<>> /\ IdsOf(p) \in Seq(Ids)
           /\ exactQueuedPrefix(t, IdsOf(p)) # <<>>
<1>1. PICK n \in 1..Len(t.queue) : p = SubSeq(t.queue, 1, n)
  BY DEF Batch
<1> DEFINE q == t.queue
<1>2. q \in Seq(Prompts) /\ n \in 0..Len(q) /\ n \in 1..Len(q) /\ p = SubSeq(q, 1, n)
  BY <1>1
<1> HIDE DEF q
<1>3. p \in Seq(Prompts) /\ Len(p) = n /\ \A k \in 1..n : p[k] = q[k]
  BY <1>2, HeadIs
<1>4. IdsOf(p) \in Seq(Ids) /\ Len(IdsOf(p)) = n /\ \A k \in 1..n : IdsOf(p)[k] = p[k].id
  BY <1>3, IdsOfIs
<1>5. exactQueuedPrefix(t, IdsOf(p)) # <<>>
  <2> DEFINE ids == IdsOf(p)
  <2>1. ids \in Seq(Ids) /\ Len(ids) \in 1..Len(q) /\ \A k \in 1..Len(ids) : q[k].id = ids[k]
    BY <1>2, <1>3, <1>4
  <2> HIDE DEF ids
  <2>2. exactQueuedPrefix(t, ids) # <<>>
    BY <2>1, ExactIs DEF q
  <2> QED
    BY <2>2 DEF ids
<1>6. p # <<>>
  BY <1>2, <1>3
<1> QED
  BY <1>3, <1>4, <1>5, <1>6

\* What may be released of an exact prefix is a batch of the queue.
LEMMA ReleasedIs ==
    ASSUME NEW t, t.queue \in Seq(Prompts), NEW ids \in Seq(Ids),
           compatibleQueuedPrefix(exactQueuedPrefix(t, ids)) # <<>>
    PROVE  /\ Batch(compatibleQueuedPrefix(exactQueuedPrefix(t, ids)), t.queue)
           /\ exactQueuedPrefix(t, ids) # <<>>
<1>1. compatibleQueuedPrefix(<<>>) = <<>>
  <2>1. <<>> \in Seq(Prompts)
    OBVIOUS
  <2> QED
    BY <2>1, CompatibleIs
<1>2. exactQueuedPrefix(t, ids) # <<>>
  BY <1>1
<1> QED
  BY <1>2, CompatibleExact

\* "Send now" on a running turn captures a batch, or does nothing.
LEMMA InterruptIs ==
    ASSUME thread \in Threads, NEW id \in Nat, NEW ids \in Seq(Ids)
    PROVE  Quiet(decideInterrupt(thread, id, ids), Others)
<1> DEFINE p == compatibleQueuedPrefix(exactQueuedPrefix(thread, ids))
           o == [id |-> id, reserved |-> IdsOf(p), epoch |-> thread.epoch,
                 turn |-> thread.turn, strategy |-> "interrupt-continue",
                 state |-> "requested"]
           e == [type |-> "turn-interrupt-requested",
                 intent |-> [id |-> id, ids |-> IdsOf(p)], op |-> o]
<1>1. decideInterrupt(thread, id, ids) \in {<<>>, <<e>>}
      /\ (decideInterrupt(thread, id, ids) # <<>> => p # <<>>)
  BY DEF decideInterrupt
<1>2. thread.queue \in Seq(Prompts) /\ thread.epoch \in Nat /\ thread.turn \in Nat
  BY DEF Threads
<1>3. ASSUME p # <<>> PROVE IdsOf(p) \in Seq(Ids) /\ exactQueuedPrefix(thread, IdsOf(p)) # <<>>
  <2>1. Batch(p, thread.queue)
    BY <1>2, <1>3, ReleasedIs
  <2> HIDE DEF p
  <2> QED
    BY <1>2, <2>1, BatchHead
<1> HIDE DEF p
<1>4. ASSUME p # <<>> PROVE e \in Events /\ e.op \in Others
  <2>1. o \in Operations /\ ~Acknowledged(o)
    BY <1>2, <1>3, <1>4 DEF Operations, Strategies, OperationStates, Acknowledged
  <2>2. [id |-> id, ids |-> IdsOf(p)] \in Intents
    BY <1>3, <1>4 DEF Intents
  <2> HIDE DEF o
  <2> QED
    BY <2>1, <2>2 DEF Events, Others
<1> QED
  BY <1>1, <1>3, <1>4 DEF Quiet, QuietTypes

\* "Steer" reserves a batch, or does nothing.
LEMMA SteerIs ==
    ASSUME thread \in Threads, NEW id \in Nat, NEW ids \in Seq(Ids)
    PROVE  Quiet(decideSteer(thread, id, ids), Others)
<1> DEFINE p == compatibleQueuedPrefix(exactQueuedPrefix(thread, ids))
           o == [id |-> id, reserved |-> IdsOf(p), epoch |-> thread.epoch,
                 turn |-> thread.turn, strategy |-> "pending-selection",
                 state |-> "requested"]
           e == [type |-> "turn-steer-requested", op |-> o]
<1>1. decideSteer(thread, id, ids) \in {<<>>, <<e>>}
      /\ (decideSteer(thread, id, ids) # <<>> => p # <<>>)
  BY DEF decideSteer
<1>2. thread.queue \in Seq(Prompts) /\ thread.epoch \in Nat /\ thread.turn \in Nat
  BY DEF Threads
<1>3. ASSUME p # <<>> PROVE IdsOf(p) \in Seq(Ids)
  <2>1. Batch(p, thread.queue)
    BY <1>2, <1>3, ReleasedIs
  <2> HIDE DEF p
  <2> QED
    BY <1>2, <2>1, BatchHead
<1> HIDE DEF p
<1>4. ASSUME p # <<>> PROVE e \in Events /\ e.op \in Others
  <2>1. o \in Operations /\ ~Acknowledged(o)
    BY <1>2, <1>3, <1>4 DEF Operations, Strategies, OperationStates, Acknowledged
  <2> HIDE DEF o
  <2> QED
    BY <2>1 DEF Events, Others
<1> QED
  BY <1>1, <1>4 DEF Quiet, QuietTypes

\* Stop replaces the open operation.
LEMMA StopIs ==
    ASSUME thread \in Threads, NEW id \in Nat
    PROVE  Quiet(decideStop(thread, id), Others)
<1> DEFINE o == [id |-> id, reserved |-> <<>>, epoch |-> thread.epoch, turn |-> thread.turn,
                 strategy |-> "stop-session", state |-> "requested"]
           e == [type |-> "session-stop-requested", op |-> o]
<1>1. decideStop(thread, id) = <<e>>
  BY DEF decideStop
<1>2. thread.epoch \in Nat /\ thread.turn \in Nat
  BY DEF Threads
<1>3. o \in Operations /\ ~Acknowledged(o)
  <2>1. <<>> \in Seq(Ids)
    OBVIOUS
  <2> QED
    BY <1>2, <2>1 DEF Operations, Strategies, OperationStates, Acknowledged
<1> HIDE DEF o
<1>4. e \in Events /\ e.op \in Others
  BY <1>3 DEF Events, Others
<1> QED
  BY <1>1, <1>4 DEF Quiet, QuietTypes

\* A session.set is one event, or none.
LEMMA SessionSetIs ==
    ASSUME thread \in Threads, NEW set \in Reports
    PROVE  /\ Quiet(SessionSetEvents(set), Others)
           /\ Quiet(decideSessionStarting(thread), Others)
<1> DEFINE e == [type |-> "session-set", status |-> set.status, turn |-> set.turn,
                 epoch |-> thread.epoch]
           f == [type |-> "session-set", status |-> "starting", turn |-> 0,
                 epoch |-> thread.epoch + 1]
<1>1. SessionSetEvents(set) \in {<<>>, <<e>>}
  BY DEF SessionSetEvents, decideSessionSet
<1>2. decideSessionStarting(thread) = <<f>>
  BY DEF decideSessionStarting
<1>3. thread.epoch \in Nat /\ set.status \in Statuses /\ set.turn \in Nat
  BY DEF Threads, Reports
<1>4. e \in Events /\ f \in Events
  BY <1>3 DEF Events, Statuses
<1>5. \A g \in {e, f} : g.type = "session-set"
  OBVIOUS
<1> HIDE DEF e, f
<1> QED
  BY <1>1, <1>2, <1>4, <1>5 DEF Quiet, QuietTypes, OpTypes

\* What a turn-control operation is set to.
SetTo(op, strategy, state) == {[op EXCEPT !.strategy = strategy, !.state = state]}

\* The operation that is set keeps what was reserved.
LEMMA ControlSetIs ==
    ASSUME thread \in Threads, NEW op \in Operations, NEW strategy \in Strategies,
           NEW state \in OperationStates
    PROVE  /\ Quiet(setTurnControlOperation(op, strategy, state), SetTo(op, strategy, state))
           /\ \A o \in SetTo(op, strategy, state) :
                 /\ o \in Operations /\ o.strategy = strategy /\ o.state = state
                 /\ o.reserved = op.reserved
<1> DEFINE o == [op EXCEPT !.strategy = strategy, !.state = state]
           e == [type |-> "turn-control-set", op |-> o]
<1>1. setTurnControlOperation(op, strategy, state) \in {<<>>, <<e>>}
  BY DEF setTurnControlOperation, decideTurnControlSet
<1>2. o \in Operations /\ o.strategy = strategy /\ o.state = state /\ o.reserved = op.reserved
  BY DEF Operations
<1>3. SetTo(op, strategy, state) = {o}
  BY DEF SetTo
<1> HIDE DEF o
<1>4. e \in Events /\ e.type = "turn-control-set" /\ e.op \in {o}
  BY <1>2 DEF Events
<1> HIDE DEF e
<1>5. Quiet(setTurnControlOperation(op, strategy, state), {o})
  BY <1>1, <1>4 DEF Quiet, QuietTypes, OpTypes
<1> QED
  BY <1>2, <1>3, <1>5

\* The open operation is completed once all of its prompts have left.
LEMMA CompleteIs ==
    ASSUME thread \in Threads, NEW op \in Operations
    PROVE  Quiet(completeTurnControlIfConsumed(op), Others)
<1> DEFINE old == thread.op
           s == old.strategy
           O == SetTo(old, s, "completed")
<1>1. old \in Operations /\ s \in Strategies
  BY DEF Threads, Operations
<1>2. "completed" \in OperationStates
  BY DEF OperationStates
<1> HIDE DEF old, s
<1>3. /\ Quiet(setTurnControlOperation(old, s, "completed"), O)
      /\ \A o \in O : o \in Operations /\ o.state = "completed"
  BY <1>1, <1>2, ControlSetIs
<1> HIDE DEF O
<1>4. O \subseteq Others
  BY <1>3 DEF Others, Acknowledged
<1>5. completeTurnControlIfConsumed(op) \in
          {<<>>, setTurnControlOperation(old, s, "completed")}
  BY DEF completeTurnControlIfConsumed, old, s
<1> QED
  BY <1>3, <1>4, <1>5 DEF Quiet

\* What the steps of a script commit: only the acknowledgement of a steer
\* sets an operation that is acknowledged, with what it has reserved.
LEMMA ScriptIs ==
    ASSUME thread \in Threads, NEW h, NEW step \in Scripted,
           h \in Reactors \/ (h \in Passes /\ step \in PassSteps)
    PROVE  \E O : /\ Quiet(ScriptEvents(step, h), O)
                  /\ \A o \in O : Acknowledged(o) =>
                        step = "provider-acknowledged" /\ o.reserved = h.op.reserved
<1>1. h.set \in Reports /\ h.op \in Operations
  BY DEF Reactors, Passes
<1>2. h.op.strategy \in Strategies
  BY <1>1 DEF Operations
<1>3. ~\E o \in Others : Acknowledged(o)
  BY DEF Others
<1>4. CASE step = "set"
  <2>1. ScriptEvents(step, h) = SessionSetEvents(h.set)
    BY <1>4 DEF ScriptEvents
  <2> QED
    BY <1>1, <1>3, <2>1, SessionSetIs
<1>5. CASE step \in {"bound", "start-failed"}
  <2>1. h.id \in Ids
    BY <1>5 DEF Reactors, PassSteps
  <2> DEFINE e == [type |-> "user-turn-bound", id |-> h.id]
             f == [type |-> "turn-start-failed", id |-> h.id]
  <2>2. ScriptEvents(step, h) \in {<<>>, <<e>>, <<f>>}
    BY <1>5 DEF ScriptEvents
  <2>3. e \in Events /\ f \in Events
    BY <2>1 DEF Events
  <2>4. e.type = "user-turn-bound" /\ f.type = "turn-start-failed"
    OBVIOUS
  <2> HIDE DEF e, f
  <2>5. Quiet(ScriptEvents(step, h), Others)
    BY <2>2, <2>3, <2>4 DEF Quiet, QuietTypes, OpTypes
  <2> QED
    BY <1>3, <2>5
<1>6. CASE step = "cancel"
  <2> DEFINE e == [type |-> "queued-prompt-flush-cancelled", intent |-> h.op.id]
  <2>1. ScriptEvents(step, h) \in {<<>>, <<e>>}
    BY <1>6 DEF ScriptEvents, decideFlushCancel
  <2>2. e \in Events /\ e.type = "queued-prompt-flush-cancelled"
    BY <1>1 DEF Events, Operations
  <2> HIDE DEF e
  <2>3. Quiet(ScriptEvents(step, h), Others)
    BY <2>1, <2>2 DEF Quiet, QuietTypes, OpTypes
  <2> QED
    BY <1>3, <2>3
<1>7. CASE step = "complete"
  <2>1. ScriptEvents(step, h) = completeTurnControlIfConsumed(h.op)
    BY <1>7 DEF ScriptEvents
  <2> QED
    BY <1>1, <1>3, <2>1, CompleteIs
<1>8. CASE step \in {"select", "provider-acknowledged", "ambiguous", "waiting-for-settlement",
                     "completed", "failed", "superseded"}
  <2>1. PICK strategy \in Strategies, state \in OperationStates :
              /\ ScriptEvents(step, h) = setTurnControlOperation(h.op, strategy, state)
              /\ strategy = "native-steer" /\ state = "provider-acknowledged" =>
                    step = "provider-acknowledged"
    <3>1. CASE step = "select"
      <4>1. ScriptEvents(step, h) = setTurnControlOperation(h.op, "native-steer", "requested")
        BY <3>1 DEF ScriptEvents
      <4> QED
        BY <4>1 DEF Strategies, OperationStates
    <3>2. CASE step \in {"provider-acknowledged", "ambiguous"}
      <4>1. ScriptEvents(step, h) = setTurnControlOperation(h.op, "native-steer", step)
        BY <3>2 DEF ScriptEvents
      <4> QED
        BY <3>2, <4>1 DEF Strategies, OperationStates
    <3>3. CASE step \in {"waiting-for-settlement", "completed", "failed", "superseded"}
      <4>1. ScriptEvents(step, h) = setTurnControlOperation(h.op, h.op.strategy, step)
        BY <3>3 DEF ScriptEvents
      <4> QED
        BY <1>2, <3>3, <4>1 DEF OperationStates
    <3> QED
      BY <1>8, <3>1, <3>2, <3>3
  <2> DEFINE old == h.op
             O == SetTo(old, strategy, state)
  <2>2. /\ old \in Operations
        /\ ScriptEvents(step, h) = setTurnControlOperation(old, strategy, state)
    BY <1>1, <2>1
  <2>3. old.reserved = h.op.reserved
    OBVIOUS
  <2> HIDE DEF old
  <2>4. /\ Quiet(setTurnControlOperation(old, strategy, state), O)
        /\ \A o \in O : /\ o.strategy = strategy /\ o.state = state
                        /\ o.reserved = old.reserved
    BY <2>2, ControlSetIs
  <2> HIDE DEF O
  <2> QED
    BY <2>1, <2>2, <2>3, <2>4 DEF Acknowledged
<1> QED
  BY <1>4, <1>5, <1>6, <1>7, <1>8 DEF Scripted

\* What a flush may take: a batch of the queue, all of what an interrupt has
\* captured or an operation has reserved, and for the steer of a provider
\* that has acknowledged it.
LEMMA ConsumableIs ==
    ASSUME NEW t \in Threads, NEW ids \in Seq(Ids), NEW kind,
           consumableQueuedPrefix(t, ids, kind) # <<>>
    PROVE  LET p == consumableQueuedPrefix(t, ids, kind) IN
           /\ Batch(p, t.queue)
           /\ t.intent = NoIntent \/ t.intent.ids = IdsOf(p)
           /\ kind = "consume" => Acknowledged(t.op) /\ t.op.reserved = IdsOf(p)
<1> DEFINE prefix == exactQueuedPrefix(t, ids)
           p == compatibleQueuedPrefix(prefix)
<1>1. /\ consumableQueuedPrefix(t, ids, kind) = p
      /\ IF Owned(kind) THEN OwnerMay(t, ids, kind) ELSE AnyoneMay(t, kind)
      /\ prefix # <<>>
      /\ IntentAllows(t, ids, kind)
      /\ Owned(kind) \/ t.intent # NoIntent => p = prefix
  BY DEF consumableQueuedPrefix
<1>2. t.queue \in Seq(Prompts)
  BY DEF Threads
<1>3. Batch(p, t.queue)
  BY <1>1, <1>2, CompatibleExact
<1>4. IdsOf(prefix) = ids
  BY <1>1, <1>2, ExactIs
<1>5. t.intent = NoIntent \/ t.intent.ids = IdsOf(p)
  BY <1>1, <1>4 DEF IntentAllows
<1>6. kind = "consume" => Acknowledged(t.op) /\ t.op.reserved = IdsOf(p)
  BY <1>1, <1>4 DEF Owned, OwnerMay, Acknowledged
<1> QED
  BY <1>1, <1>3, <1>5, <1>6

\* A flush, whoever asks for it.
LEMMA KeptByFlush ==
    ASSUME QueueShape, Core, HoldIsStored, submitted' = submitted,
           NEW ids \in Seq(Ids), NEW kind, Commit(decideFlush(thread, ids, kind))
    PROVE  Committed /\ TextSafe /\ HoldSafe /\ thread'.op = thread.op
<1> DEFINE p == consumableQueuedPrefix(thread, ids, kind)
<1>1. thread \in Threads
  BY DEF QueueShape
<1>2. CASE p = <<>>
  <2>1. UNCHANGED <<thread, stored, inbox>>
    BY <1>2, CommitNone DEF decideFlush
  <2> QED
    BY <2>1, KeptByNone DEF Committed, HoldSafe, TextSafe
<1>3. CASE p # <<>>
  <2>1. /\ Batch(p, thread.queue)
        /\ thread.intent = NoIntent \/ thread.intent.ids = IdsOf(p)
        /\ kind = "consume" => Acknowledged(thread.op) /\ thread.op.reserved = IdsOf(p)
    BY <1>1, <1>3, ConsumableIs
  <2>2. CASE kind = "consume"
    <3>1. Commit(Flushed(p))
      BY <1>3, <2>2 DEF decideFlush
    <3> HIDE DEF p
    <3>2. thread' = projectEvent(thread, [type |-> "queued-prompts-flushed", ids |-> IdsOf(p)])
      BY <3>1, CommitOne DEF Flushed
    <3>3. thread'.op = thread.op
      BY <3>2 DEF projectEvent
    <3>4. /\ thread' \in Threads /\ stored' \in Controls /\ inbox' \in Seq(Handled)
          /\ HoldIsStored' /\ CoreThen
          /\ IntentHead(thread')
          /\ Len(thread'.queue) < Len(thread.queue)
          /\ thread.messages = thread'.messages
          /\ \A k \in 1..Len(thread.queue) :
                \/ QueuedIn(thread'.queue, thread.queue[k].id)
                \/ thread.queue[k].id \in ToSet(IdsOf(p))
      BY <2>1, <3>1, KeptByConsume
    <3> QED
      BY <2>1, <2>2, <3>3, <3>4 DEF Committed, HoldSafe, TextSafe
  <2>3. CASE kind # "consume"
    <3> DEFINE id == FollowUp(p)
               text == CombinedText(thread, p)
    <3>1. Commit(Flushed(p) \o TurnStart(id, text))
      BY <1>3, <2>3 DEF decideFlush
    <3> HIDE DEF p
    <3>2. /\ thread' \in Threads /\ stored' \in Controls /\ inbox' \in Seq(Handled)
          /\ HoldIsStored' /\ CoreThen /\ TextsKept
          /\ IntentHead(thread')
          /\ Len(thread'.queue) < Len(thread.queue)
      BY <2>1, <3>1, KeptBySend
    <3> HIDE DEF id, text
    <3>3. Commit(<<[type |-> "queued-prompts-flushed", ids |-> IdsOf(p)],
                   [type |-> "message-sent", id |-> id, text |-> text], Start(id)>>)
      BY <3>1, OneTwo DEF Flushed, TurnStart, Start
    <3> DEFINE d == [type |-> "queued-prompts-flushed", ids |-> IdsOf(p)]
               e == [type |-> "message-sent", id |-> id, text |-> text]
               f == Start(id)
    <3>4. /\ d.type = "queued-prompts-flushed" /\ e.type = "message-sent"
          /\ f.type = "turn-start-requested" /\ Commit(<<d, e, f>>)
      BY <3>3 DEF Start
    <3> HIDE DEF d, e, f
    <3>5. thread' = projectEvent(projectEvent(projectEvent(thread, d), e), f)
      BY <3>4, CommitThree
    <3>6. thread'.op = thread.op
      BY <3>4, <3>5, ProjectKeeps
    <3> QED
      BY <3>2, <3>6 DEF Committed, HoldSafe, TextSafe
  <2> QED
    BY <2>2, <2>3
<1> QED
  BY <1>2, <1>3

\* The flush of what an operation has reserved.
LEMMA KeptByReserved ==
    ASSUME QueueShape, Core, HoldIsStored, submitted' = submitted,
           NEW op \in Operations, NEW kind, Commit(ReservedFlush(op, kind))
    PROVE  Committed /\ TextSafe /\ HoldSafe /\ thread'.op = thread.op
<1>1. CASE thread.op.id # op.id
  <2>1. UNCHANGED <<thread, stored, inbox>>
    BY <1>1, CommitNone DEF ReservedFlush
  <2> QED
    BY <2>1, KeptByNone DEF Committed, HoldSafe, TextSafe
<1>2. CASE thread.op.id = op.id
  <2>1. op.reserved \in Seq(Ids)
    BY DEF Operations
  <2>2. Commit(decideFlush(thread, op.reserved, kind))
    BY <1>2 DEF ReservedFlush
  <2> QED
    BY <2>1, <2>2, KeptByFlush
<1> QED
  BY <1>1, <1>2

-----------------------------------------------------------------------------
(***************************************************************************)
(* The steps of users and of the server that only execute a command.       *)
(***************************************************************************)

TextStep == TextSafe \/ \E i \in DOMAIN thread.queue : RemovePrompt(i)
HoldStep == HoldSafe \/ \E m \in Messages : StartDirectly(m)
Requested ==
    /\ submitted' \in SUBSET Messages
    /\ ops' \in Nat
    /\ offered' \in Seq(Seq(Prompts))

\* What every step but the redelivery and a restart does to the queue.
Executed == Committed /\ OpKept /\ TextStep /\ HoldStep /\ Requested

\* The operation after a turn start.
LEMMA StartKeepsOp ==
    ASSUME NEW id, NEW text, Commit(TurnStart(id, text))
    PROVE  /\ thread'.op = thread.op
           /\ [id |-> id, text |-> text] \in thread'.messages
<1> DEFINE d == [type |-> "message-sent", id |-> id, text |-> text]
           e == Start(id)
<1>1. Commit(<<d, e>>)
  BY DEF TurnStart, Start
<1>2. d.type = "message-sent" /\ e.type = "turn-start-requested" /\ d.id = id /\ d.text = text
  BY DEF Start
<1> HIDE DEF d, e
<1>3. thread' = projectEvent(projectEvent(thread, d), e)
  BY <1>1, CommitTwo
<1>4. [id |-> id, text |-> text] \in projectEvent(thread, d).messages
  BY <1>2 DEF projectEvent
<1> QED
  BY <1>2, <1>3, <1>4, ProjectKeeps

\* The operation and the queue after a message is queued.
LEMMA QueueKeepsOp ==
    ASSUME thread \in Threads, NEW m \in Messages, NEW at, ~Queued(thread, <<m>>),
           Commit(PromptQueued(<<m>>, FALSE, at))
    PROVE  thread'.op = thread.op /\ thread' # thread
<1> DEFINE e == [type |-> "prompt-queued", id |-> <<m>>, sent |-> FALSE, at |-> at]
           p == [id |-> <<m>>, sent |-> FALSE]
           q == thread.queue
<1>1. Commit(<<e>>)
  BY DEF PromptQueued
<1>2. e.type = "prompt-queued" /\ e.id = <<m>> /\ e.sent = FALSE
  OBVIOUS
<1> HIDE DEF e
<1>3. thread' = projectEvent(thread, e)
  BY <1>1, CommitOne
<1>4. thread'.op = thread.op
  BY <1>2, <1>3, ProjectKeeps
<1>5. thread'.queue = Append(q, p)
  BY <1>2, <1>3 DEF projectEvent, nextQueue, insertQueuedPrompt
<1>6. q \in Seq(Prompts)
  BY DEF Threads
<1> HIDE DEF p
<1>7. Append(q, p) # q
  <2>1. Len(Append(q, p)) = Len(q) + 1 /\ Len(q) \in Nat
    BY <1>6
  <2> QED
    BY <2>1
<1> QED
  BY <1>4, <1>5, <1>7

\* The operation and the queue after a message has completed a batch.
LEMMA SubmitKeepsOp ==
    ASSUME thread \in Threads, thread.queue # <<>>,
           NEW m \in Messages, ~Queued(thread, <<m>>), NEW at \in Nat,
           NEW p, Batch(p, Append(thread.queue, [id |-> <<m>>, sent |-> FALSE])),
           NEW id, NEW text,
           Commit(PromptQueued(<<m>>, FALSE, at) \o Flushed(p) \o TurnStart(id, text))
    PROVE  thread'.op = thread.op /\ thread' # thread
<1> DEFINE c == [type |-> "prompt-queued", id |-> <<m>>, sent |-> FALSE, at |-> at]
           d == [type |-> "queued-prompts-flushed", ids |-> IdsOf(p)]
           e == [type |-> "message-sent", id |-> id, text |-> text]
           f == Start(id)
           q == thread.queue
           P == Append(q, [id |-> <<m>>, sent |-> FALSE])
           ids == ToSet(IdsOf(p))
<1>1. Commit(<<c, d, e, f>>)
  <2>1. PromptQueued(<<m>>, FALSE, at) \o Flushed(p) = <<c, d>>
    BY OneOne DEF PromptQueued, Flushed
  <2>2. TurnStart(id, text) = <<e, f>>
    BY DEF TurnStart, Start
  <2> HIDE DEF c, d, e, f
  <2>3. PromptQueued(<<m>>, FALSE, at) \o Flushed(p) \o TurnStart(id, text) = <<c, d, e, f>>
    BY <2>1, <2>2, TwoTwo
  <2> QED
    BY <2>3
<1>2. /\ c.type = "prompt-queued" /\ c.id = <<m>> /\ c.sent = FALSE
      /\ d.type = "queued-prompts-flushed" /\ d.ids = IdsOf(p)
      /\ e.type = "message-sent" /\ f.type = "turn-start-requested"
  BY DEF Start
<1> HIDE DEF c, d, e, f
<1>3. thread' = projectEvent(projectEvent(projectEvent(projectEvent(thread, c), d), e), f)
  BY <1>1, CommitFour
<1>4. thread'.op = thread.op
  BY <1>2, <1>3, ProjectKeeps
<1>5. projectEvent(thread, c).queue = P
  BY <1>2 DEF projectEvent, nextQueue, insertQueuedPrompt
<1>6. projectEvent(projectEvent(thread, c), d).queue = Without(P, ids)
  BY <1>2, <1>5 DEF projectEvent, nextQueue
<1>7. thread'.queue = Without(P, ids)
  BY <1>2, <1>3, <1>6, ProjectKeeps
<1>8. q \in Seq(Prompts) /\ q # <<>> /\ Len(q) \in Nat
  BY DEF Threads
<1>9. P \in Seq(Prompts) /\ Len(P) = Len(q) + 1 /\ P[1] = q[1] /\ 1 \in 1..Len(q)
  <2>1. [id |-> <<m>>, sent |-> FALSE] \in Prompts
    BY DEF Prompts, Ids
  <2> QED
    BY <1>8, <2>1
<1>10. q[1].id \in ids
  <2>1. Batch(p, P)
    OBVIOUS
  <2> HIDE DEF P, q
  <2>2. PICK n \in 1..Len(P) : p = SubSeq(P, 1, n)
    BY <2>1 DEF Batch
  <2>3. n \in 0..Len(P) /\ n \in Nat /\ 1 \in 1..n
    BY <1>8, <1>9, <2>2
  <2>4. p \in Seq(Prompts) /\ Len(p) = n /\ p[1] = P[1]
    BY <1>9, <2>2, <2>3, HeadIs
  <2>5. ids = {p[k].id : k \in 1..n}
    BY <2>4, IdsOfIs
  <2> HIDE DEF ids
  <2> QED
    BY <1>9, <2>3, <2>4, <2>5
<1> HIDE DEF P, q, ids
<1>11. \A k \in 1..Len(Without(P, ids)) : Without(P, ids)[k].id \notin ids
  BY <1>9, WithoutKeeps
<1>12. Without(P, ids) # q
  BY <1>9, <1>10, <1>11
<1> QED
  BY <1>4, <1>7, <1>12 DEF q

\* A user submits a message.
LEMMA SubmitExecutes ==
    ASSUME QueueShape, Core, HoldIsStored, NEW m \in Messages, NEW auto \in BOOLEAN,
           Submit(m, auto)
    PROVE  Executed
<1> DEFINE q == thread.queue
           p == compatibleQueuedPrefix(Append(q, [id |-> <<m>>, sent |-> FALSE]))
           at == Len(q) + 1
           done == decideSubmit(thread, <<m>>, auto)
<1>0. /\ thread \in Threads /\ submitted \subseteq Messages
      /\ offered' = offered /\ ops' = ops
      /\ offered \in Seq(Seq(Prompts)) /\ ops \in Nat
  BY DEF Submit, QueueShape
<1>1. /\ q \in Seq(Prompts) /\ at \in Nat
      /\ Counted(q) >= MAX_QUEUED_PROMPTS \/ Counted(q) < MAX_QUEUED_PROMPTS
  <2>1. q \in Seq(Prompts) /\ at \in Nat
    BY <1>0 DEF Threads
  <2> HIDE DEF q
  <2>2. Counted(q) \in Nat
    BY <2>1, CountedIs
  <2>3. MAX_QUEUED_PROMPTS \in Nat
    BY PromptAssumption
  <2> QED
    BY <2>1, <2>2, <2>3
<1>2. Requested
  BY <1>0 DEF Submit, Requested
<1>3. CASE done = <<>>
  <2>1. UNCHANGED <<thread, stored, inbox>>
    BY <1>3, CommitNone DEF Submit
  <2>2. submitted' = submitted
    BY <2>1 DEF Submit
  <2>3. /\ thread' \in Threads /\ stored' \in Controls /\ inbox' \in Seq(Handled)
        /\ HoldIsStored' /\ CoreThen /\ TextsKept
        /\ IntentHead(thread) => IntentHead(thread')
    BY <2>1, <2>2, KeptByNone
  <2> QED
    BY <1>2, <2>1, <2>3
    DEF Executed, Committed, OpKept, TextStep, TextSafe, HoldStep, HoldSafe
<1>4. CASE done # <<>>
  <2>1. ~Queued(thread, <<m>>) /\ ~Sent(thread, <<m>>) /\ m \notin submitted
    BY <1>4 DEF decideSubmit, Submit, MayRequest
  <2>2. \/ /\ canAutoDispatch(thread)
           /\ done = TurnStart(<<m>>, <<m>>)
        \/ /\ canAutoDispatch(thread) /\ q # <<>>
           /\ Counted(q) < MAX_QUEUED_PROMPTS
           /\ done = PromptQueued(<<m>>, FALSE, at) \o Flushed(p)
                       \o TurnStart(p[1].id, CombinedText(thread, p))
        \/ /\ Counted(q) < MAX_QUEUED_PROMPTS
           /\ done = PromptQueued(<<m>>, FALSE, at)
    BY <1>1, <1>4, Zenon DEF decideSubmit
  <2>3. Commit(done)
    BY DEF Submit
  <2>4. thread' # thread => submitted' = submitted \cup {m}
    BY DEF Submit
  <2>5. CASE canAutoDispatch(thread) /\ done = TurnStart(<<m>>, <<m>>)
    <3>1. Commit(TurnStart(<<m>>, <<m>>))
      BY <2>3, <2>5
    <3> HIDE DEF done
    <3>2. thread'.op = thread.op /\ [id |-> <<m>>, text |-> <<m>>] \in thread'.messages
      BY <3>1, StartKeepsOp
    <3>3. submitted' = submitted \cup {m}
      BY <2>1, <2>4, <3>2 DEF Sent
    <3>4. /\ thread' \in Threads /\ stored' \in Controls /\ inbox' \in Seq(Handled)
          /\ HoldIsStored' /\ CoreThen /\ TextsKept
          /\ IntentHead(thread) => IntentHead(thread')
      BY <2>1, <3>1, <3>3, KeptByStart
    <3>5. ~thread.hold
      BY <2>5 DEF canAutoDispatch
    <3> QED
      BY <1>2, <3>2, <3>4, <3>5
      DEF Executed, Committed, OpKept, TextStep, TextSafe, HoldStep, HoldSafe
  <2>6. CASE /\ canAutoDispatch(thread) /\ q # <<>>
             /\ Counted(q) < MAX_QUEUED_PROMPTS
             /\ done = PromptQueued(<<m>>, FALSE, at) \o Flushed(p)
                         \o TurnStart(p[1].id, CombinedText(thread, p))
    <3> DEFINE text == CombinedText(thread, p)
               P == Append(q, [id |-> <<m>>, sent |-> FALSE])
    <3>1. Commit(PromptQueued(<<m>>, FALSE, at) \o Flushed(p) \o TurnStart(p[1].id, text))
      BY <2>3, <2>6
    <3>2. ~thread.hold /\ thread.intent = NoIntent
      BY <2>6 DEF canAutoDispatch
    <3>3. Batch(p, P)
      <4>1. P \in Seq(Prompts) /\ P # <<>>
        <5>1. [id |-> <<m>>, sent |-> FALSE] \in Prompts
          BY DEF Prompts, Ids
        <5>2. P \in Seq(Prompts) /\ Len(P) = Len(q) + 1 /\ Len(q) \in Nat
          BY <1>1, <5>1
        <5> QED
          BY <5>2
      <4> HIDE DEF P
      <4>2. Batch(compatibleQueuedPrefix(P), P)
        BY <4>1, CompatibleIs
      <4> QED
        BY <4>2 DEF P
    <3> HIDE DEF p, done, at, text
    <3>4. thread'.op = thread.op /\ thread' # thread
      BY <1>0, <1>1, <2>1, <2>6, <3>1, <3>3, SubmitKeepsOp
    <3>5. submitted' = submitted \cup {m}
      BY <2>4, <3>4
    <3>6. /\ thread' \in Threads /\ stored' \in Controls /\ inbox' \in Seq(Handled)
          /\ HoldIsStored' /\ CoreThen /\ TextsKept
          /\ IntentHead(thread')
      BY <1>1, <2>1, <2>6, <3>1, <3>2, <3>3, <3>5, KeptBySubmit DEF text
    <3> QED
      BY <1>2, <3>2, <3>4, <3>6
      DEF Executed, Committed, OpKept, TextStep, TextSafe, HoldStep, HoldSafe
  <2>7. CASE /\ Counted(q) < MAX_QUEUED_PROMPTS
             /\ done = PromptQueued(<<m>>, FALSE, at)
    <3>1. Commit(PromptQueued(<<m>>, FALSE, at))
      BY <2>3, <2>7
    <3> HIDE DEF done, at
    <3>2. thread'.op = thread.op /\ thread' # thread
      BY <1>0, <2>1, <3>1, QueueKeepsOp
    <3>3. submitted' = submitted \cup {m}
      BY <2>4, <3>2
    <3>4. /\ thread' \in Threads /\ stored' \in Controls /\ inbox' \in Seq(Handled)
          /\ HoldIsStored' /\ CoreThen /\ TextsKept
          /\ IntentHead(thread) => IntentHead(thread')
          /\ thread'.hold = thread.hold
      BY <1>1, <2>1, <2>7, <3>1, <3>3, KeptByQueue
    <3> QED
      BY <1>2, <3>2, <3>4
      DEF Executed, Committed, OpKept, TextStep, TextSafe, HoldStep, HoldSafe
  <2> QED
    BY <2>2, <2>5, <2>6, <2>7
<1> QED
  BY <1>3, <1>4

\* A turn is requested past the queue.
LEMMA DirectExecutes ==
    ASSUME QueueShape, Core, HoldIsStored, NEW m \in Messages, StartDirectly(m)
    PROVE  Executed
<1> DEFINE q == thread.queue
           at == Len(q) + 1
           done == decideThreadTurnStart(thread, <<m>>)
<1>0. /\ thread \in Threads /\ submitted \subseteq Messages
      /\ offered' = offered /\ ops' = ops
      /\ offered \in Seq(Seq(Prompts)) /\ ops \in Nat
      /\ m \notin submitted /\ Commit(done)
      /\ thread' # thread => submitted' = submitted \cup {m}
  BY DEF StartDirectly, QueueShape
<1>1. /\ q \in Seq(Prompts) /\ at \in Nat
      /\ Counted(q) >= MAX_QUEUED_PROMPTS \/ Counted(q) < MAX_QUEUED_PROMPTS
  <2>1. q \in Seq(Prompts) /\ at \in Nat
    BY <1>0 DEF Threads
  <2> HIDE DEF q
  <2>2. Counted(q) \in Nat
    BY <2>1, CountedIs
  <2>3. MAX_QUEUED_PROMPTS \in Nat
    BY PromptAssumption
  <2> QED
    BY <2>1, <2>2, <2>3
<1>2. Requested /\ HoldStep
  BY <1>0 DEF StartDirectly, Requested, HoldStep
<1>3. \/ done = <<>>
      \/ done = TurnStart(<<m>>, <<m>>)
      \/ /\ ~Queued(thread, <<m>>)
         /\ Counted(q) < MAX_QUEUED_PROMPTS
         /\ done = PromptQueued(<<m>>, FALSE, at)
  BY <1>1, Zenon DEF decideThreadTurnStart
<1> HIDE DEF done, at
<1>4. CASE done = <<>>
  <2>1. UNCHANGED <<thread, stored, inbox>>
    BY <1>0, <1>4, CommitNone
  <2>2. submitted' = submitted
    BY <2>1 DEF StartDirectly
  <2>3. /\ thread' \in Threads /\ stored' \in Controls /\ inbox' \in Seq(Handled)
        /\ HoldIsStored' /\ CoreThen /\ TextsKept
        /\ IntentHead(thread) => IntentHead(thread')
    BY <2>1, <2>2, KeptByNone
  <2> QED
    BY <1>2, <2>1, <2>3 DEF Executed, Committed, OpKept, TextStep, TextSafe
<1>5. CASE done = TurnStart(<<m>>, <<m>>)
  <2>1. Commit(TurnStart(<<m>>, <<m>>))
    BY <1>0, <1>5
  <2>2. thread'.op = thread.op /\ [id |-> <<m>>, text |-> <<m>>] \in thread'.messages
    BY <2>1, StartKeepsOp
  <2>3. [id |-> <<m>>, text |-> <<m>>] \notin thread.messages
    <3>1. TranscriptInv(thread.messages, submitted)
      BY DEF Core, CoreInv
    <3>2. m \in ToSet(<<m>>)
      BY DEF ToSet
    <3> DEFINE x == [id |-> <<m>>, text |-> <<m>>]
    <3>3. x \in thread.messages => ToSet(x.text) \subseteq submitted
      BY <3>1 DEF TranscriptInv
    <3> QED
      BY <1>0, <3>2, <3>3
  <2>4. submitted' = submitted \cup {m}
    BY <1>0, <2>2, <2>3
  <2>5. /\ thread' \in Threads /\ stored' \in Controls /\ inbox' \in Seq(Handled)
        /\ HoldIsStored' /\ CoreThen /\ TextsKept
        /\ IntentHead(thread) => IntentHead(thread')
    BY <1>0, <2>1, <2>4, KeptByStart
  <2> QED
    BY <1>2, <2>2, <2>5 DEF Executed, Committed, OpKept, TextStep, TextSafe
<1>6. CASE /\ ~Queued(thread, <<m>>)
           /\ Counted(q) < MAX_QUEUED_PROMPTS
           /\ done = PromptQueued(<<m>>, FALSE, at)
  <2>1. Commit(PromptQueued(<<m>>, FALSE, at))
    BY <1>0, <1>6
  <2>2. thread'.op = thread.op /\ thread' # thread
    BY <1>0, <1>6, <2>1, QueueKeepsOp
  <2>3. submitted' = submitted \cup {m}
    BY <1>0, <2>2
  <2>4. /\ thread' \in Threads /\ stored' \in Controls /\ inbox' \in Seq(Handled)
        /\ HoldIsStored' /\ CoreThen /\ TextsKept
        /\ IntentHead(thread) => IntentHead(thread')
    BY <1>0, <1>1, <1>6, <2>1, <2>3, KeptByQueue
  <2> QED
    BY <1>2, <2>2, <2>4 DEF Executed, Committed, OpKept, TextStep, TextSafe
<1> QED
  BY <1>3, <1>4, <1>5, <1>6

\* What the commands that request nothing new leave as it is.
LEMMA NothingRequested ==
    ASSUME QueueShape, submitted' = submitted, ops' \in Nat, offered' \in Seq(Seq(Prompts))
    PROVE  Requested
BY DEF QueueShape, Requested

\* A user removes a prompt.
LEMMA RemoveExecutes ==
    ASSUME QueueShape, Core, HoldIsStored, NEW i \in DOMAIN thread.queue, RemovePrompt(i)
    PROVE  Executed
<1> DEFINE id == thread.queue[i].id
<1>0. /\ thread \in Threads /\ submitted' = submitted
      /\ ops' \in Nat /\ offered' \in Seq(Seq(Prompts))
  BY DEF RemovePrompt, QueueShape, requests
<1>1. Requested /\ TextStep
  BY <1>0, NothingRequested DEF TextStep
<1>2. id \in Ids
  <2>1. thread.queue \in Seq(Prompts)
    BY <1>0 DEF Threads
  <2>2. thread.queue[i] \in Prompts
    BY <2>1
  <2> QED
    BY <2>2 DEF Prompts
<1>3. Commit(decideRemove(thread, id))
  BY DEF RemovePrompt
<1>4. CASE id \in Captured(thread)
  <2>1. UNCHANGED <<thread, stored, inbox>>
    BY <1>3, <1>4, CommitNone DEF decideRemove
  <2> QED
    BY <1>0, <1>1, <2>1, KeptByNone DEF Executed, Committed, OpKept, HoldStep, HoldSafe
<1>5. CASE id \notin Captured(thread)
  <2> DEFINE e == [type |-> "queued-prompt-removed", id |-> id]
  <2>1. Commit(<<e>>)
    BY <1>3, <1>5 DEF decideRemove
  <2>2. id \notin ToSet(thread.intent.ids)
    BY <1>5 DEF Captured
  <2>3. thread' = projectEvent(thread, e)
    BY <2>1, CommitOne
  <2>4. thread'.op = thread.op
    BY <2>3 DEF projectEvent
  <2> HIDE DEF id
  <2>5. /\ thread' \in Threads /\ stored' \in Controls /\ inbox' \in Seq(Handled)
        /\ HoldIsStored' /\ CoreThen
        /\ IntentHead(thread) => IntentHead(thread')
        /\ thread'.hold = thread.hold
    BY <1>0, <1>2, <2>1, <2>2, KeptByRemove
  <2> QED
    BY <1>1, <2>4, <2>5 DEF Executed, Committed, OpKept, HoldStep, HoldSafe
<1> QED
  BY <1>4, <1>5

\* The ids of the first prompts, which a user names.
LEMMA NamedIds ==
    ASSUME QueueShape, NEW n \in DOMAIN thread.queue
    PROVE  IdsOf(SubSeq(thread.queue, 1, n)) \in Seq(Ids)
<1> DEFINE q == thread.queue
<1>1. q \in Seq(Prompts) /\ n \in 0..Len(q)
  BY DEF QueueShape, Threads
<1> HIDE DEF q
<1>2. SubSeq(q, 1, n) \in Seq(Prompts)
  BY <1>1, HeadIs
<1> QED
  BY <1>2, IdsOfIs DEF q

\* A command of at most one event that is not about prompts.
LEMMA QuietExecutes ==
    ASSUME QueueShape, Core, HoldIsStored, Requested, submitted' = submitted,
           NEW events, Quiet(events, Others), Commit(events)
    PROVE  Executed
<1>1. /\ Committed /\ TextsKept /\ HoldSafe
      /\ thread'.op = thread.op \/ thread'.op \in Others
  BY KeptByCommand
<1> QED
  BY <1>1 DEF Executed, OpKept, Others, TextStep, TextSafe, HoldStep

\* A flush.
LEMMA FlushExecutes ==
    ASSUME QueueShape, Core, HoldIsStored, Requested, submitted' = submitted,
           NEW ids \in Seq(Ids), NEW kind, Commit(decideFlush(thread, ids, kind))
    PROVE  Executed
BY KeptByFlush DEF Executed, OpKept, TextStep, HoldStep

\* A user's "Send now".
LEMMA SendNowExecutes ==
    ASSUME QueueShape, Core, HoldIsStored, NEW n \in DOMAIN thread.queue, SendNow(n)
    PROVE  Executed
<1> DEFINE ids == IdsOf(SubSeq(thread.queue, 1, n))
<1>1. ids \in Seq(Ids)
  BY NamedIds
<1>2. /\ thread \in Threads /\ ops + 1 \in Nat /\ submitted' = submitted
      /\ ops' \in Nat /\ offered' \in Seq(Seq(Prompts))
      /\ Commit(decideSendNow(thread, ops + 1, ids))
  BY DEF SendNow, QueueShape
<1>3. Requested
  BY <1>2, NothingRequested
<1> HIDE DEF ids
<1>4. CASE thread.turn = 0
  <2>1. Commit(decideFlush(thread, ids, "user"))
    BY <1>2, <1>4 DEF decideSendNow
  <2> QED
    BY <1>1, <1>2, <1>3, <2>1, FlushExecutes
<1>5. CASE thread.turn # 0
  <2> DEFINE done == decideSendNow(thread, ops + 1, ids)
  <2>1. done \in {<<>>, decideInterrupt(thread, ops + 1, ids)}
    BY <1>5 DEF decideSendNow
  <2>2. Quiet(decideInterrupt(thread, ops + 1, ids), Others)
    BY <1>1, <1>2, InterruptIs
  <2>3. Quiet(done, Others) /\ Commit(done)
    BY <1>2, <2>1, <2>2 DEF Quiet
  <2> HIDE DEF done
  <2> QED
    BY <1>2, <1>3, <2>3, QuietExecutes
<1> QED
  BY <1>4, <1>5

\* A user's "Steer".
LEMMA SteerExecutes ==
    ASSUME QueueShape, Core, HoldIsStored, NEW n \in DOMAIN thread.queue, Steer(n)
    PROVE  Executed
<1> DEFINE ids == IdsOf(SubSeq(thread.queue, 1, n))
<1>1. ids \in Seq(Ids)
  BY NamedIds
<1>2. /\ thread \in Threads /\ ops + 1 \in Nat /\ submitted' = submitted
      /\ ops' \in Nat /\ offered' \in Seq(Seq(Prompts))
      /\ Commit(decideSteer(thread, ops + 1, ids))
  BY DEF Steer, QueueShape
<1>3. Requested
  BY <1>2, NothingRequested
<1> HIDE DEF ids
<1>4. Quiet(decideSteer(thread, ops + 1, ids), Others)
  BY <1>1, <1>2, SteerIs
<1> QED
  BY <1>2, <1>3, <1>4, QuietExecutes

\* A user's Stop.
LEMMA StopExecutes ==
    ASSUME QueueShape, Core, HoldIsStored, Stop
    PROVE  Executed
<1>1. /\ thread \in Threads /\ ops + 1 \in Nat /\ submitted' = submitted
      /\ ops' \in Nat /\ offered' \in Seq(Seq(Prompts))
      /\ Commit(decideStop(thread, ops + 1))
  BY DEF Stop, QueueShape
<1>2. Requested
  BY <1>1, NothingRequested
<1> QED
  BY <1>1, <1>2, StopIs, QuietExecutes

\* The engine executes a lifecycle flush that it had offered itself.
LEMMA LifecycleExecutes ==
    ASSUME QueueShape, Core, HoldIsStored, LifecycleFlush
    PROVE  Executed
<1> DEFINE p == Head(offered)
           ids == IdsOf(p)
<1>1. /\ offered \in Seq(Seq(Prompts)) /\ offered # <<>> /\ offered' = Tail(offered)
      /\ submitted' = submitted /\ ops' \in Nat
  BY DEF LifecycleFlush, QueueShape, requests
<1>2. p \in Seq(Prompts) /\ offered' \in Seq(Seq(Prompts))
  BY <1>1
<1>3. Requested
  BY <1>1, <1>2, NothingRequested
<1> HIDE DEF p
<1>4. ids \in Seq(Ids)
  BY <1>2, IdsOfIs
<1>5. Commit(decideFlush(thread, ids, "server")) \/ Commit(<<>>)
  BY DEF LifecycleFlush, p
<1> HIDE DEF ids
<1>6. CASE Commit(<<>>)
  BY <1>1, <1>3, <1>6, QuietExecutes DEF Quiet
<1> QED
  BY <1>1, <1>3, <1>4, <1>5, <1>6, FlushExecutes

\* The gate of a start is found stale.
LEMMA StaleExecutes ==
    ASSUME QueueShape, Core, HoldIsStored, StartGrowsStale
    PROVE  Executed
<1>1. /\ thread \in Threads /\ submitted' = submitted /\ stored' = stored /\ inbox' = inbox
      /\ ops' \in Nat /\ offered' \in Seq(Seq(Prompts))
      /\ thread' = [thread EXCEPT !.start.stale = TRUE]
  BY DEF StartGrowsStale, QueueShape, requests
<1>2. Requested
  BY <1>1, NothingRequested
<1>3. /\ thread'.queue = thread.queue /\ thread'.messages = thread.messages
      /\ thread'.hold = thread.hold /\ thread'.intent = thread.intent /\ thread'.op = thread.op
      /\ thread' \in Threads
  BY <1>1 DEF Threads, Starting
<1>4. CoreThen
  BY <1>1, <1>3 DEF Core, CoreThen
<1>5. TextsKept
  BY <1>3 DEF TextsKept, QueuedIn
<1>6. IntentHead(thread) => IntentHead(thread')
  BY <1>3 DEF IntentHead, exactQueuedPrefix
<1> QED
  BY <1>1, <1>2, <1>3, <1>4, <1>5, <1>6
  DEF QueueShape, Executed, Committed, HoldIsStored, OpKept, TextStep, TextSafe,
      HoldStep, HoldSafe

\* Whatever users do.
LEMMA UsersExecute ==
    ASSUME QueueShape, Core, HoldIsStored, scenario.bounds \in Scenarios, UserStep
    PROVE  Executed
<1>1. scenario.bounds.who \subseteq Messages
  BY ControlAssumption
<1>2. ASSUME NEW m \in scenario.bounds.who, NEW auto \in BOOLEAN, Submit(m, auto)
      PROVE  Executed
  BY <1>1, <1>2, SubmitExecutes
<1>3. ASSUME NEW m \in scenario.bounds.who, StartDirectly(m)
      PROVE  Executed
  BY <1>1, <1>3, DirectExecutes
<1> QED
  BY <1>2, <1>3, RemoveExecutes, SendNowExecutes, SteerExecutes, StaleExecutes
  DEF UserStep

-----------------------------------------------------------------------------
(***************************************************************************)
(* From what a step does to each part of the state to the invariant.       *)
(***************************************************************************)

\* A step keeps the invariant, no text is lost, and no hold is lifted early.
Stepped == IInv' /\ TextStep /\ HoldStep

\* r is a reactor that has nothing in hand that it did not have before.
Keeps(r) ==
    /\ r \in Reactors
    /\ ToSet(r.todo) \cap HandSteps # {} =>
          r.id = reactor.id /\ ToSet(reactor.todo) \cap HandSteps # {}
    /\ "requeue" \in ToSet(r.todo) => r.todo = <<"requeue", "mark">>
    /\ "provider-acknowledged" \in ToSet(r.todo) => ReceivedAll(r.op.reserved)

\* The parts of the invariant, one by one.
LEMMA StepsBy ==
    ASSUME IInv, thread' \in Threads, stored' \in Controls, inbox' \in Seq(Handled),
           Requested, ControlShape', Core', HoldIsStored', RequeueInv',
           OpKept, Received \subseteq Received', TextStep, HoldStep,
           IntentIsPrefix => IntentIsPrefix',
           ("provider-acknowledged" \in ToSet(reactor.todo) =>
                ReceivedAll(reactor.op.reserved))'
    PROVE  Stepped
<1>1. QueueShape'
  BY DEF QueueShape, Requested
<1>2. ASSUME NEW ids, ReceivedAll(ids) PROVE \A id \in ToSet(ids) : ToSet(id) \subseteq Received'
  BY <1>2 DEF ReceivedAll
<1>3. Acknowledged(thread'.op) =>
         \A id \in ToSet(thread'.op.reserved) : ToSet(id) \subseteq Received'
  BY <1>2 DEF OpKept, IInv, SteeredInv
<1>4. SteeredInv'
  BY <1>3 DEF SteeredInv, ReceivedAll, Acknowledged
<1> QED
  BY <1>1, <1>4 DEF Stepped, IInv

\* What was executed, and then forgotten by a reactor that keeps the rest.
LEMMA StepsFrom ==
    ASSUME IInv, Executed, ControlShape', Keeps(reactor'),
           \A m \in Messages : delivered'[m].starts = delivered[m].starts,
           Received \subseteq Received',
           scenario.revived => scenario'.revived
    PROVE  Stepped
<1>1. Hand' \subseteq Hand
  BY DEF Keeps, Hand
<1>2. Core'
  <2> DEFINE Q2 == thread'.queue
             M2 == thread'.messages
             S2 == submitted'
             B2 == inbox'
             D2 == delivered'
             H2 == Hand'
  <2>1. CoreInv(Q2, M2, S2, B2, Hand, delivered)
    BY DEF Executed, Committed, CoreThen
  <2>2. D2 \in Deliveries /\ H2 \subseteq Hand
    BY <1>1 DEF ControlShape
  <2>3. \A m \in Messages : D2[m].starts = delivered[m].starts
    OBVIOUS
  <2> HIDE DEF Q2, M2, S2, B2, D2, H2
  <2>4. Q2 \in Seq(Prompts) /\ B2 \in Seq(Handled)
    BY <2>1 DEF CoreInv
  <2>5. Thins(Q2, Q2) /\ Fewer(B2, B2)
    BY <2>4, ThinsSelf, FewerStarts
  <2>6. CoreInv(Q2, M2, S2, B2, H2, D2)
    BY <2>1, <2>2, <2>3, <2>5, KeepsCore
  <2> QED
    BY <2>6 DEF Core, Q2, M2, S2, B2, D2, H2
<1>3. RequeueInv'
  BY DEF Keeps, RequeueInv
<1>4. IntentIsPrefix => IntentIsPrefix'
  BY DEF Executed, Committed, IntentHead, IntentIsPrefix
<1>5. ("provider-acknowledged" \in ToSet(reactor.todo) => ReceivedAll(reactor.op.reserved))'
  BY DEF Keeps, ReceivedAll
<1> QED
  BY <1>2, <1>3, <1>4, <1>5, StepsBy DEF Executed, Committed

\* The flushes that the server offers itself.
LEMMA OfferIs ==
    ASSUME NEW t \in Threads, NEW w \in Seq(Seq(Prompts))
    PROVE  Offer(t, w) \in Seq(Seq(Prompts))
<1> DEFINE q == t.queue
           c == compatibleQueuedPrefix(q)
           ids == IF t.intent # NoIntent THEN t.intent.ids ELSE IdsOf(c)
           p == exactQueuedPrefix(t, ids)
           f == makeQueuedPromptFlushCommand(t)
<1>1. t.intent.ids \in Seq(Ids) /\ t.queue \in Seq(Prompts)
  BY DEF Threads, Intents
<1>2. IdsOf(c) \in Seq(Ids)
  <2>1. c \in Seq(Prompts)
    <3>1. CASE q = <<>>
      <4>1. c = <<>>
        BY <1>1, <3>1, CompatibleIs
      <4> HIDE DEF c
      <4> QED
        BY <4>1
    <3>2. CASE q # <<>>
      <4>1. Batch(c, t.queue)
        BY <1>1, <3>2, CompatibleIs
      <4> HIDE DEF c
      <4> QED
        BY <1>1, <4>1, BatchHead
    <3> QED
      BY <3>1, <3>2
  <2> HIDE DEF c
  <2> QED
    BY <2>1, IdsOfIs
<1>3. ids \in Seq(Ids)
  BY <1>1, <1>2
<1> HIDE DEF c
<1>4. f \in {<<>>, <<p>>}
  BY DEF makeQueuedPromptFlushCommand, c
<1> HIDE DEF ids
<1>5. p \in Seq(Prompts)
  <2>1. CASE p = <<>>
    <3> HIDE DEF p
    <3> QED
      BY <2>1
  <2>2. CASE p # <<>>
    <3>1. p = SubSeq(q, 1, Len(ids)) /\ Len(ids) \in 1..Len(q) /\ q \in Seq(Prompts)
      BY <1>1, <1>3, <2>2, ExactIs
    <3> HIDE DEF p, q
    <3>2. Len(ids) \in 0..Len(q)
      BY <3>1
    <3> QED
      BY <3>1, <3>2, HeadIs
  <2> QED
    BY <2>1, <2>2
<1> HIDE DEF p, f
<1>6. f \in Seq(Seq(Prompts))
  <2> DEFINE S == Seq(Prompts)
  <2>1. p \in S
    BY <1>5
  <2> HIDE DEF S
  <2>2. <<>> \in Seq(S) /\ <<p>> \in Seq(S)
    BY <2>1
  <2> QED
    BY <1>4, <2>2 DEF S
<1>7. w \o f \in Seq(Seq(Prompts))
  BY <1>6, Joined
<1> QED
  BY <1>7 DEF Offer, f

\* A command that a lifecycle flush may follow.
LEMMA DispatchExecutes ==
    ASSUME QueueShape, Core, HoldIsStored, UNCHANGED requests,
           NEW O, NEW events, Quiet(events, O), CommitTriggering(events),
           \A o \in O : Acknowledged(o) => ReceivedAll(o.reserved)
    PROVE  Executed
<1>1. /\ Commit(events) /\ submitted' = submitted /\ ops' \in Nat
      /\ offered' = Offer(thread', offered) /\ offered \in Seq(Seq(Prompts))
  BY DEF CommitTriggering, requests, QueueShape
<1>2. /\ Committed /\ TextsKept /\ HoldSafe
      /\ thread'.op = thread.op \/ thread'.op \in O
  BY <1>1, KeptByCommand
<1>3. offered' \in Seq(Seq(Prompts))
  BY <1>1, <1>2, OfferIs DEF Committed
<1>4. Requested
  BY <1>1, <1>3, NothingRequested
<1> QED
  BY <1>2, <1>4 DEF Executed, OpKept, TextStep, TextSafe, HoldStep

\* A step that leaves the queue alone.
LEMMA IdleExecutes ==
    ASSUME QueueShape, Core, HoldIsStored, UNCHANGED queueVars
    PROVE  Executed
<1>1. /\ UNCHANGED <<thread, stored, inbox>> /\ submitted' = submitted
      /\ ops' \in Nat /\ offered' \in Seq(Seq(Prompts))
  BY DEF queueVars, requests, QueueShape
<1>2. Requested
  BY <1>1, NothingRequested
<1>3. /\ thread' \in Threads /\ stored' \in Controls /\ inbox' \in Seq(Handled)
      /\ HoldIsStored' /\ CoreThen /\ TextsKept
      /\ IntentHead(thread) => IntentHead(thread')
  BY <1>1, KeptByNone
<1> QED
  BY <1>1, <1>2, <1>3
  DEF Executed, Committed, OpKept, TextStep, TextSafe, HoldStep, HoldSafe

\* A step that takes the oldest event out of the inbox.
LEMMA TailExecutes ==
    ASSUME QueueShape, Core, HoldIsStored, UNCHANGED <<thread, stored, offered, requests>>,
           inbox # <<>>, inbox' = Tail(inbox)
    PROVE  Executed
<1>1. /\ thread' = thread /\ stored' = stored /\ submitted' = submitted
      /\ ops' \in Nat /\ offered' \in Seq(Seq(Prompts))
      /\ thread \in Threads /\ stored \in Controls
      /\ inbox \in Seq(Handled) /\ inbox' \in Seq(Handled)
      /\ thread.queue \in Seq(Prompts) /\ delivered \in Deliveries
  BY DEF requests, QueueShape, Threads, Core, CoreInv
<1>2. Requested
  BY <1>1, NothingRequested
<1>3. CoreThen
  <2>1. Thins(thread.queue, thread.queue) /\ Fewer(inbox, Tail(inbox))
    BY <1>1, ThinsSelf, FewerStarts
  <2>2. CoreInv(thread.queue, thread.messages, submitted, inbox, Hand, delivered)
    BY DEF Core
  <2>3. CoreInv(thread.queue, thread.messages, submitted, Tail(inbox), Hand, delivered)
    BY <1>1, <2>1, <2>2, KeepsCore
  <2> QED
    BY <1>1, <2>3 DEF CoreThen
<1>4. TextsKept
  BY <1>1 DEF TextsKept, QueuedIn
<1> QED
  BY <1>1, <1>2, <1>3, <1>4
  DEF Executed, Committed, HoldIsStored, OpKept, TextStep, TextSafe, HoldStep, HoldSafe

-----------------------------------------------------------------------------
(***************************************************************************)
(* The reactor's scripts.                                                  *)
(***************************************************************************)

\* The elements of short sequences.
LEMMA ToSets ==
    /\ ToSet(<<>>) = {}
    /\ \A a : ToSet(<<a>>) = {a}
    /\ \A a, b : ToSet(<<a, b>>) = {a, b}
    /\ \A a, b, c : ToSet(<<a, b, c>>) = {a, b, c}
    /\ \A a, b, c, d : ToSet(<<a, b, c, d>>) = {a, b, c, d}
BY DEF ToSet

\* The rest of a sequence.
LEMMA TailIs ==
    ASSUME NEW S, NEW s \in Seq(S), s # <<>>
    PROVE  /\ Tail(s) \in Seq(S) /\ Head(s) \in S /\ Head(s) \in ToSet(s)
           /\ ToSet(Tail(s)) \subseteq ToSet(s)
<1>1. /\ Tail(s) \in Seq(S) /\ Head(s) = s[1] /\ 1 \in 1..Len(s) /\ Len(s) \in Nat
      /\ Len(Tail(s)) = Len(s) - 1
      /\ \A k \in 1..Len(Tail(s)) : Tail(s)[k] = s[k + 1]
  OBVIOUS
<1>2. DOMAIN s = 1..Len(s) /\ DOMAIN Tail(s) = 1..Len(Tail(s))
  BY <1>1
<1>3. \A k \in 1..Len(Tail(s)) : k + 1 \in 1..Len(s)
  BY <1>1
<1>4. ToSet(Tail(s)) \subseteq ToSet(s)
  BY <1>1, <1>2, <1>3 DEF ToSet
<1>5. Head(s) \in S /\ Head(s) \in ToSet(s)
  BY <1>1, <1>2 DEF ToSet
<1> QED
  BY <1>1, <1>4, <1>5

\* One step before a script.
LEMMA ConsIs ==
    ASSUME NEW S, NEW a \in S, NEW s \in Seq(S)
    PROVE  <<a>> \o s \in Seq(S) /\ ToSet(<<a>> \o s) = {a} \cup ToSet(s)
<1> DEFINE x == <<a>>
           y == x \o s
<1>1. x \in Seq(S) /\ Len(x) = 1 /\ x[1] = a
  OBVIOUS
<1> HIDE DEF x
<1>2. /\ y \in Seq(S) /\ Len(y) = 1 + Len(s) /\ Len(s) \in Nat
      /\ y[1] = a /\ \A k \in 1..Len(s) : y[1 + k] = s[k]
  <2>0. x \in Seq(S) /\ s \in Seq(S)
    BY <1>1
  <2>1. y \in Seq(S) /\ Len(y) = Len(x) + Len(s)
    BY <2>0, Joined
  <2>3. \A k \in 1..Len(x) : y[k] = x[k]
    BY <2>0, Joined
  <2>4. \A k \in 1..Len(s) : y[Len(x) + k] = s[k]
    BY <2>0, Joined
  <2> HIDE DEF y
  <2>2. 1 \in 1..Len(x) /\ Len(s) \in Nat
    BY <1>1
  <2> QED
    BY <1>1, <2>1, <2>2, <2>3, <2>4
<1> HIDE DEF y
<1>3. DOMAIN y = 1..Len(y) /\ DOMAIN s = 1..Len(s)
  BY <1>2
<1>4. ToSet(y) \subseteq {a} \cup ToSet(s)
  <2>1. ASSUME NEW k \in 1..Len(y) PROVE y[k] \in {a} \cup ToSet(s)
    <3>1. CASE k = 1
      BY <1>2, <3>1
    <3>2. CASE k # 1
      <4>1. k - 1 \in 1..Len(s) /\ y[1 + (k - 1)] = s[k - 1] /\ 1 + (k - 1) = k
        BY <1>2, <3>2
      <4> QED
        BY <1>3, <4>1 DEF ToSet
    <3> QED
      BY <3>1, <3>2
  <2> QED
    BY <1>3, <2>1 DEF ToSet
<1>5. {a} \cup ToSet(s) \subseteq ToSet(y)
  <2>1. 1 \in 1..Len(y) /\ \A k \in 1..Len(s) : 1 + k \in 1..Len(y)
    BY <1>2
  <2> QED
    BY <1>2, <1>3, <2>1 DEF ToSet
<1> QED
  BY <1>2, <1>4, <1>5 DEF x, y

\* A reactor that does nothing.
LEMMA IdleIs == IdleReactor \in Reactors /\ IdlePass \in Passes /\ Keeps(IdleReactor)
<1>1. IdleReactor \in Reactors /\ IdlePass \in Passes
  <2>1. <<>> \in Seq(Steps) /\ <<>> \in Seq(PassSteps)
    OBVIOUS
  <2> QED
    BY <2>1, Nothing DEF IdleReactor, IdlePass, Reactors, Passes
<1>2. ToSet(IdleReactor.todo) = {}
  BY ToSets DEF IdleReactor
<1> QED
  BY <1>1, <1>2 DEF Keeps

\* The steps that need neither the message in hand nor a steer.
Harmless ==
    Steps \ (HandSteps \cup {"provider-acknowledged"})

\* A script without them.
LEMMA HarmlessKeeps ==
    ASSUME NEW r \in Reactors, ToSet(r.todo) \subseteq Harmless
    PROVE  Keeps(r)
BY DEF Keeps, Harmless, HandSteps

\* The rest of the reactor's script.
LEMMA RestKeeps ==
    ASSUME reactor \in Reactors, RequeueInv, SteeredInv, reactor.todo # <<>>
    PROVE  /\ Keeps([reactor EXCEPT !.todo = Tail(@)])
           /\ Keeps(Continue([reactor EXCEPT !.todo = Tail(@)]))
<1> DEFINE s == reactor.todo
           r == [reactor EXCEPT !.todo = Tail(@)]
<1>1. s \in Seq(Steps)
  BY DEF Reactors
<1>2. /\ r.todo = Tail(s) /\ r.id = reactor.id /\ r.op = reactor.op
      /\ Tail(s) \in Seq(Steps) => r \in Reactors
  BY DEF Reactors
<1> HIDE DEF s, r
<1>3. Tail(s) \in Seq(Steps) /\ ToSet(Tail(s)) \subseteq ToSet(s)
  BY <1>1, TailIs DEF s
<1>4. "requeue" \notin ToSet(Tail(s))
  <2>1. CASE "requeue" \in ToSet(s)
    <3>1. s = <<"requeue", "mark">>
      BY <2>1 DEF RequeueInv, s
    <3>2. Tail(<<"requeue", "mark">>) = <<"mark">>
      OBVIOUS
    <3>3. ToSet(<<"mark">>) = {"mark"}
      BY ToSets
    <3> QED
      BY <3>1, <3>2, <3>3
  <2> QED
    BY <1>3, <2>1
<1>5. Keeps(r)
  BY <1>2, <1>3, <1>4 DEF Keeps, SteeredInv, s
<1>6. Keeps(Continue(r))
  BY <1>5, IdleIs DEF Continue
<1> QED
  BY <1>5, <1>6 DEF r

-----------------------------------------------------------------------------
(***************************************************************************)
(* The reactor's steps.                                                    *)
(***************************************************************************)

\* A step that delivers nothing.
LEMMA StepsWith ==
    ASSUME IInv, Executed, ControlShape', Keeps(reactor'), UNCHANGED delivered,
           scenario.revived => scenario'.revived
    PROVE  Stepped
<1>1. Received \subseteq Received'
  BY DEF Received
<1> QED
  BY <1>1, StepsFrom

\* A reactor that does not move.
LEMMA SameKeeps == ASSUME IInv PROVE Keeps(reactor)
BY DEF IInv, ControlShape, Keeps, RequeueInv, SteeredInv

\* A step in which nobody but the reactor moves, apart from what it commits.
LEMMA ReactorSteps ==
    ASSUME IInv, Executed, Keeps(reactor'),
           UNCHANGED <<live, runtime, ingest, pass, scenario, delivered>>
    PROVE  Stepped
<1>1. ControlShape'
  BY DEF IInv, ControlShape, Keeps
<1> QED
  BY <1>1, StepsWith

\* The same, when nothing is committed.
LEMMA ReactorThinks ==
    ASSUME IInv, Keeps(reactor'),
           UNCHANGED <<queueVars, live, runtime, ingest, pass, scenario, delivered>>
    PROVE  Stepped
<1>1. UNCHANGED queueVars /\ UNCHANGED <<live, runtime, ingest, pass, scenario, delivered>>
  OBVIOUS
<1>2. Executed
  BY <1>1, IdleExecutes DEF IInv
<1> QED
  BY <1>1, <1>2, ReactorSteps

\* A fault is recorded.
LEMMA FaultIs ==
    ASSUME ControlShape, NEW kind, Fault(kind)
    PROVE  /\ scenario' \in [bounds : Scenarios, failed : Nat, revived : BOOLEAN,
                             dropped : SUBSET Messages]
           /\ scenario'.revived = scenario.revived
BY DEF ControlShape, Fault

\* What handlers read.
LEMMA ReadIs ==
    ASSUME NEW t \in Threads, NEW seen \in Views, NEW s \in Sessions
    PROVE  SessionOf(t) \in Views /\ toReconciledSession(seen, s) \in Reports
<1>1. SessionOf(t) \in Views
  BY DEF SessionOf, Threads, Views
<1>2. toReconciledSession(seen, s) \in Reports
  <2> DEFINE at(status, turn) == [status |-> status, turn |-> turn,
                                  epoch |-> seen.epoch, expected |-> seen.turn]
  <2>1. ASSUME NEW status \in Statuses, NEW turn \in Nat PROVE at(status, turn) \in Reports
    BY DEF Views, Reports
  <2>2. toReconciledSession(seen, s) \in
            {NoSet, at("running", s.turn), at("ready", s.turn), at("stopped", 0)}
    BY DEF toReconciledSession
  <2> HIDE DEF at
  <2>3. s.turn \in Nat /\ {"running", "ready", "stopped"} \subseteq Statuses
    BY DEF Sessions, Statuses
  <2> QED
    BY <2>1, <2>2, <2>3, Nothing
<1> QED
  BY <1>1, <1>2

\* The kinds of what a step reads.
Reads ==
    /\ QueueShape /\ ControlShape /\ Core /\ HoldIsStored
    /\ thread \in Threads /\ live \in Sessions /\ reactor \in Reactors /\ pass \in Passes
    /\ reactor.todo \in Seq(Steps) /\ reactor.op \in Operations /\ reactor.seen \in Views
    /\ reactor.set \in Reports /\ reactor.id \in Ids /\ reactor.turn \in Nat
    /\ reactor.tries \in Nat /\ inbox \in Seq(Handled) /\ SessionOf(thread) \in Views
    /\ toReconciledSession(SessionOf(thread), live) \in Reports
    /\ toReconciledSession(reactor.seen, live) \in Reports

\* They follow from the invariant.
LEMMA ReadsIs == ASSUME IInv PROVE Reads
<1>1. /\ QueueShape /\ ControlShape /\ Core /\ HoldIsStored
      /\ thread \in Threads /\ live \in Sessions /\ reactor \in Reactors /\ pass \in Passes
      /\ inbox \in Seq(Handled)
  BY DEF IInv, QueueShape, ControlShape
<1>2. /\ reactor.todo \in Seq(Steps) /\ reactor.op \in Operations /\ reactor.seen \in Views
      /\ reactor.set \in Reports /\ reactor.id \in Ids /\ reactor.turn \in Nat
      /\ reactor.tries \in Nat
  BY <1>1 DEF Reactors
<1>3. SessionOf(thread) \in Views
  BY <1>1, <1>2, ReadIs
<1>4. /\ toReconciledSession(SessionOf(thread), live) \in Reports
      /\ toReconciledSession(reactor.seen, live) \in Reports
  BY <1>1, <1>2, <1>3, ReadIs
<1> QED
  BY <1>1, <1>2, <1>3, <1>4 DEF Reads

\* A step of a script that only dispatches a command.
LEMMA DispatchSteps == ASSUME IInv, ReactorDispatches PROVE Stepped
<1> DEFINE step == Head(reactor.todo)
           events == ScriptEvents(step, reactor)
<1>1. /\ QueueShape /\ Core /\ HoldIsStored /\ thread \in Threads
      /\ reactor \in Reactors /\ reactor.todo \in Seq(Steps)
      /\ UNCHANGED requests /\ reactor.todo # <<>> /\ step \in Scripted
      /\ CommitTriggering(events)
      /\ reactor' = Continue([reactor EXCEPT !.todo = Tail(@)])
      /\ UNCHANGED <<live, runtime, ingest, pass, scenario, delivered>>
  BY ReadsIs DEF Reads, ReactorDispatches
<1>2. step \in ToSet(reactor.todo)
  BY <1>1, TailIs
<1> HIDE DEF step
<1>3. PICK O : /\ Quiet(events, O)
               /\ \A o \in O : Acknowledged(o) =>
                     step = "provider-acknowledged" /\ o.reserved = reactor.op.reserved
  BY <1>1, ScriptIs
<1>4. \A o \in O : Acknowledged(o) => ReceivedAll(o.reserved)
  BY <1>2, <1>3 DEF IInv, SteeredInv
<1> HIDE DEF events
<1>5. Executed
  BY <1>1, <1>3, <1>4, DispatchExecutes
<1>6. Keeps(reactor')
  BY <1>1, RestKeeps DEF IInv
<1> QED
  BY <1>1, <1>5, <1>6, ReactorSteps

\* The reactor opens, reuses or refuses a session for what it has in hand.
LEMMA EnsureSteps == ASSUME IInv, ensureSession PROVE Stepped
<1>1. Reads
  BY ReadsIs
<1>2. "ensure" \in ToSet(reactor.todo)
  BY <1>1, TailIs DEF Reads, ensureSession, Doing
<1>3. UNCHANGED <<live, runtime, ingest, pass, scenario, delivered>>
  BY DEF ensureSession
<1>4. ASSUME NEW todo \in {<<"send">>, <<"start-failed">>, <<"open">>}, NEW seen \in Views
      PROVE  /\ Keeps([reactor EXCEPT !.todo = todo, !.seen = seen])
             /\ Keeps([reactor EXCEPT !.todo = todo])
  <2>1. /\ todo \in Seq(Steps)
        /\ ToSet(todo) \subseteq {"send", "start-failed", "open"}
    <3>1. <<"send">> \in Seq(Steps) /\ ToSet(<<"send">>) = {"send"}
      BY ToSets DEF Steps
    <3>2. <<"start-failed">> \in Seq(Steps) /\ ToSet(<<"start-failed">>) = {"start-failed"}
      BY ToSets DEF Steps
    <3>3. <<"open">> \in Seq(Steps) /\ ToSet(<<"open">>) = {"open"}
      BY ToSets DEF Steps
    <3> QED
      BY <1>4, <3>1, <3>2, <3>3, Zenon
  <2> DEFINE r == [reactor EXCEPT !.todo = todo, !.seen = seen]
             s == [reactor EXCEPT !.todo = todo]
  <2>2. /\ r \in Reactors /\ r.todo = todo /\ r.id = reactor.id
        /\ s \in Reactors /\ s.todo = todo /\ s.id = reactor.id
    BY <1>1, <2>1 DEF Reads, Reactors
  <2> HIDE DEF r, s
  <2>3. Keeps(r) /\ Keeps(s)
    BY <1>2, <2>1, <2>2 DEF Keeps, HandSteps
  <2> QED
    BY <2>3 DEF r, s
<1>5. CASE /\ reactor' \in {[reactor EXCEPT !.todo = <<"send">>],
                            [reactor EXCEPT !.todo = <<"start-failed">>]}
           /\ UNCHANGED queueVars
  <2>1. Keeps(reactor')
    BY <1>1, <1>4, <1>5 DEF Reads
  <2> QED
    BY <1>3, <1>5, <2>1, ReactorThinks
<1>6. CASE /\ CommitTriggering(decideSessionStarting(thread))
           /\ reactor' = [reactor EXCEPT !.todo = <<"open">>, !.seen = SessionOf(thread')]
           /\ UNCHANGED requests
  <2>1. Quiet(decideSessionStarting(thread), Others)
    BY <1>1, SessionSetIs DEF Reads
  <2>2. Executed
    BY <1>1, <1>6, <2>1, DispatchExecutes DEF Others, Reads
  <2>3. SessionOf(thread') \in Views
    BY <1>1, <2>2, ReadIs DEF Reads, Executed, Committed
  <2>4. Keeps(reactor')
    BY <1>4, <1>6, <2>3
  <2> QED
    BY <1>3, <2>2, <2>4, ReactorSteps
<1> QED
  BY <1>5, <1>6 DEF ensureSession

\* The provider opens the session.
LEMMA OpenSteps == ASSUME IInv, OpenSession PROVE Stepped
<1>1. Reads
  BY ReadsIs
<1>2. "open" \in ToSet(reactor.todo)
  BY <1>1, TailIs DEF Reads, OpenSession, Doing
<1> DEFINE set == [status |-> "ready", turn |-> 0, epoch |-> reactor.seen.epoch, expected |-> 0]
           r == [reactor EXCEPT !.todo = <<"set", "send">>, !.set = set]
<1>3. /\ UNCHANGED queueVars /\ reactor' = r /\ UNCHANGED <<runtime, ingest, pass, scenario, delivered>>
      /\ live' = [live EXCEPT !.on = TRUE, !.epoch = reactor.seen.epoch, !.turn = 0]
  BY DEF OpenSession
<1>4. reactor.seen.epoch \in Nat
  BY <1>1 DEF Reads, Views
<1>5. live' \in Sessions /\ set \in Reports
  BY <1>1, <1>3, <1>4 DEF Reads, Sessions, Reports, Statuses
<1> HIDE DEF set
<1>6. <<"set", "send">> \in Seq(Steps) /\ ToSet(<<"set", "send">>) = {"set", "send"}
  BY ToSets DEF Steps
<1>7. r \in Reactors /\ r.todo = <<"set", "send">> /\ r.id = reactor.id
  BY <1>1, <1>5, <1>6 DEF Reads, Reactors
<1> HIDE DEF r
<1>8. Keeps(reactor')
  BY <1>2, <1>3, <1>6, <1>7 DEF Keeps, HandSteps
<1>9. Executed
  BY <1>1, <1>3, IdleExecutes DEF Reads
<1>10. ControlShape'
  BY <1>1, <1>3, <1>5, <1>8 DEF Reads, ControlShape, Keeps
<1> QED
  BY <1>3, <1>8, <1>9, <1>10, StepsWith

\* The reactor is left with a step that it does for the same message.
LEMMA InHand ==
    ASSUME ToSet(reactor.todo) \cap HandSteps # {}, NEW r \in Reactors, r.id = reactor.id,
           NEW step, r.todo = <<step>>, step \notin {"requeue", "provider-acknowledged"}
    PROVE  Keeps(r)
<1>1. ToSet(<<step>>) = {step}
  BY ToSets
<1> QED
  BY <1>1 DEF Keeps

\* The provider session after it has ended.
LEMMA EndedIs == ASSUME NEW s \in Sessions PROVE Ended(s) \in Sessions
<1>1. s.last \in Nat
  BY DEF Sessions
<1> QED
  BY <1>1 DEF Ended, NoSession, Sessions

\* Opening the session fails.
LEMMA OpenFailsSteps == ASSUME IInv, OpenFails PROVE Stepped
<1>1. Reads
  BY ReadsIs
<1>2. ToSet(reactor.todo) \cap HandSteps # {}
  BY <1>1, TailIs DEF Reads, OpenFails, Doing, HandSteps
<1>3. /\ UNCHANGED queueVars /\ UNCHANGED <<live, runtime, ingest, pass, delivered>>
      /\ Fault("fail")
      /\ reactor' = [reactor EXCEPT !.todo = <<"start-failed">>]
  BY DEF OpenFails
<1>4. Keeps(reactor')
  <2>1. <<"start-failed">> \in Seq(Steps)
    BY DEF Steps
  <2>2. /\ reactor' \in Reactors /\ reactor'.id = reactor.id
        /\ reactor'.todo = <<"start-failed">>
    BY <1>1, <1>3, <2>1 DEF Reads, Reactors
  <2> QED
    BY <1>2, <2>2, InHand
<1>5. Executed
  BY <1>1, <1>3, IdleExecutes DEF Reads
<1>6. ControlShape' /\ scenario'.revived = scenario.revived
  BY <1>1, <1>3, <1>4, FaultIs DEF Reads, ControlShape, Keeps
<1> QED
  BY <1>3, <1>4, <1>5, <1>6, StepsWith

\* The reactor asks the provider for a turn.
LEMMA SendSteps == ASSUME IInv, SendTurn PROVE Stepped
<1>1. Reads
  BY ReadsIs
<1>2. ToSet(reactor.todo) \cap HandSteps # {}
  BY <1>1, TailIs DEF Reads, SendTurn, Doing, HandSteps
<1>3. /\ UNCHANGED <<queueVars, live, runtime, ingest, pass, scenario, delivered>>
      /\ reactor' = [reactor EXCEPT !.todo = <<"sending">>, !.seen = SessionOf(thread)]
  BY DEF SendTurn
<1>4. Keeps(reactor')
  <2>1. <<"sending">> \in Seq(Steps)
    BY DEF Steps
  <2>2. /\ reactor' \in Reactors /\ reactor'.id = reactor.id
        /\ reactor'.todo = <<"sending">>
    BY <1>1, <1>3, <2>1 DEF Reads, Reactors
  <2> QED
    BY <1>2, <2>2, InHand
<1> QED
  BY <1>3, <1>4, ReactorThinks

\* The provider is busy.
LEMMA RefuseSteps == ASSUME IInv, ProviderRefuses PROVE Stepped
<1>1. Reads
  BY ReadsIs
<1>2. ToSet(reactor.todo) \cap HandSteps # {}
  BY <1>1, TailIs DEF Reads, ProviderRefuses, Doing, HandSteps
<1> DEFINE todo == <<"requeue", "mark">>
           r == [reactor EXCEPT !.todo = todo]
<1>3. /\ UNCHANGED <<queueVars, live, runtime, ingest, pass, scenario, delivered>>
      /\ reactor' = r
  BY DEF ProviderRefuses
<1>4. todo \in Seq(Steps) /\ ToSet(todo) = {"requeue", "mark"}
  BY ToSets DEF Steps
<1>5. r \in Reactors /\ r.todo = todo /\ r.id = reactor.id
  BY <1>1, <1>4 DEF Reads, Reactors
<1> HIDE DEF r
<1>6. Keeps(reactor')
  BY <1>2, <1>3, <1>4, <1>5 DEF Keeps
<1> QED
  BY <1>3, <1>6, ReactorThinks

\* The call to the provider fails.
LEMMA FailSteps == ASSUME IInv, SendFails PROVE Stepped
<1>1. Reads
  BY ReadsIs
<1>2. ToSet(reactor.todo) \cap HandSteps # {}
  BY <1>1, TailIs DEF Reads, SendFails, Doing, HandSteps
<1>3. /\ UNCHANGED queueVars /\ UNCHANGED <<runtime, ingest, pass, delivered>>
      /\ Fault("fail") \/ UNCHANGED scenario
      /\ live' \in {live, Ended(live)}
      /\ reactor' \in {[reactor EXCEPT !.todo = <<"ensure">>, !.tries = @ + 1],
                       [reactor EXCEPT !.todo = <<"start-failed">>]}
  BY DEF SendFails
<1>4. Keeps(reactor')
  <2>1. <<"ensure">> \in Seq(Steps) /\ <<"start-failed">> \in Seq(Steps)
    BY DEF Steps
  <2>2. /\ reactor' \in Reactors /\ reactor'.id = reactor.id
        /\ reactor'.todo = <<"ensure">> \/ reactor'.todo = <<"start-failed">>
    <3>1. CASE reactor' = [reactor EXCEPT !.todo = <<"ensure">>, !.tries = @ + 1]
      <4>1. reactor.tries + 1 \in Nat
        BY <1>1 DEF Reads
      <4> QED
        BY <1>1, <2>1, <3>1, <4>1 DEF Reads, Reactors
    <3>2. CASE reactor' = [reactor EXCEPT !.todo = <<"start-failed">>]
      BY <1>1, <2>1, <3>2 DEF Reads, Reactors
    <3> QED
      BY <1>3, <3>1, <3>2
  <2> QED
    BY <1>2, <2>2, InHand
<1>5. Executed
  BY <1>1, <1>3, IdleExecutes DEF Reads
<1>6. live' \in Sessions
  BY <1>1, <1>3, EndedIs DEF Reads
<1>7. /\ scenario' \in [bounds : Scenarios, failed : Nat, revived : BOOLEAN,
                        dropped : SUBSET Messages]
      /\ scenario'.revived = scenario.revived
  <2>1. CASE Fault("fail")
    BY <1>1, <2>1, FaultIs DEF Reads
  <2>2. CASE UNCHANGED scenario
    BY <1>1, <2>2 DEF Reads, ControlShape
  <2> QED
    BY <1>3, <2>1, <2>2
<1>8. ControlShape'
  BY <1>1, <1>3, <1>4, <1>6, <1>7 DEF Reads, ControlShape, Keeps
<1> QED
  BY <1>3, <1>4, <1>5, <1>7, <1>8, StepsWith

\* The reactor takes the oldest event, a turn start, in hand.
LEMMA ReceiveSteps == ASSUME IInv, ReceiveTurnStart PROVE Stepped
<1>1. Reads
  BY ReadsIs
<1> DEFINE e == Head(inbox)
           r == [IdleReactor EXCEPT !.todo = <<"ensure">>, !.id = e.id]
<1>2. /\ reactor.todo = <<>> /\ inbox # <<>> /\ e.type = "turn-start-requested"
      /\ inbox' = Tail(inbox) /\ reactor' = r
      /\ UNCHANGED <<thread, stored, offered, requests>>
      /\ UNCHANGED <<live, runtime, ingest, pass, scenario, delivered>>
  BY DEF ReceiveTurnStart, Receives
<1>3. Executed
  BY <1>1, <1>2, TailExecutes DEF Reads
<1>4. e \in Handled
  BY <1>1, <1>2, TailIs DEF Reads
<1> HIDE DEF e
<1>5. e.id \in Ids
  BY <1>2, <1>4 DEF Handled
<1>6. <<"ensure">> \in Seq(Steps) /\ ToSet(<<"ensure">>) = {"ensure"}
  BY ToSets DEF Steps
<1>7. r \in Reactors /\ r.todo = <<"ensure">> /\ r.id = e.id
  BY <1>5, <1>6, IdleIs DEF Reactors, IdleReactor
<1> HIDE DEF r
<1>8. Hand = {} /\ Hand' = {e.id}
  <2>1. ToSet(reactor.todo) = {}
    BY <1>2, ToSets
  <2>2. ToSet(reactor'.todo) = {"ensure"}
    BY <1>2, <1>6, <1>7
  <2>3. reactor'.id = e.id
    BY <1>2, <1>7
  <2> QED
    BY <2>1, <2>2, <2>3 DEF Hand, HandSteps
<1>9. Core'
  <2>1. CoreInv(thread.queue, thread.messages, submitted, inbox, {}, delivered)
    BY <1>1, <1>8 DEF Reads, Core
  <2>2. CoreInv(thread.queue, thread.messages, submitted, Tail(inbox), {e.id}, delivered)
    BY <1>2, <2>1, ReceivesCore DEF e
  <2> QED
    BY <1>2, <1>8, <2>2 DEF Core, requests
<1>10. ControlShape'
  BY <1>1, <1>2, <1>7 DEF Reads, ControlShape
<1>11. RequeueInv'
       /\ ("provider-acknowledged" \in ToSet(reactor.todo) => ReceivedAll(reactor.op.reserved))'
  BY <1>2, <1>6, <1>7 DEF RequeueInv
<1>12. Received \subseteq Received'
  BY <1>2 DEF Received
<1>13. IntentIsPrefix => IntentIsPrefix'
  BY <1>2 DEF IntentIsPrefix, exactQueuedPrefix
<1>14. OpKept /\ TextStep /\ HoldStep /\ Requested
       /\ thread' \in Threads /\ stored' \in Controls /\ inbox' \in Seq(Handled) /\ HoldIsStored'
  BY <1>3 DEF Executed, Committed
<1> QED
  BY <1>9, <1>10, <1>11, <1>12, <1>13, <1>14, StepsBy

\* The provider starts a turn for the message in hand.
LEMMA AcceptSteps == ASSUME IInv, ProviderAccepts PROVE Stepped
<1>1. Reads
  BY ReadsIs
<1> DEFINE id == reactor.id
           text == TextOf(thread, id)
           turn == live.last + 1
           r == [reactor EXCEPT !.todo = <<"accepted">>, !.turn = turn]
<1>2. /\ UNCHANGED queueVars /\ UNCHANGED <<ingest, pass, scenario>>
      /\ live' = [live EXCEPT !.turn = turn, !.last = turn]
      /\ runtime' = Append(runtime, [type |-> "started", turn |-> turn])
      /\ StartDelivers(text)
      /\ reactor' = r
  BY DEF ProviderAccepts
<1>3. "sending" \in ToSet(reactor.todo)
  BY <1>1, TailIs DEF Reads, ProviderAccepts, Doing
<1>4. Hand = {id}
  BY <1>3 DEF Hand, HandSteps
<1>5. Executed
  BY <1>1, <1>2, IdleExecutes DEF Reads
<1>6. turn \in Nat
  BY <1>1 DEF Reads, Sessions
<1> HIDE DEF turn
<1>7. <<"accepted">> \in Seq(Steps) /\ ToSet(<<"accepted">>) = {"accepted"}
  BY ToSets DEF Steps
<1>8. r \in Reactors /\ r.todo = <<"accepted">>
  BY <1>1, <1>6, <1>7 DEF Reads, Reactors
<1> HIDE DEF r, id, text
<1>9. ToSet(reactor'.todo) = {"accepted"}
  BY <1>2, <1>7, <1>8
<1>10. Hand' = {}
  BY <1>9 DEF Hand, HandSteps
<1>11. /\ delivered \in Deliveries /\ delivered' \in Deliveries
       /\ \A m \in Messages :
             delivered'[m].starts = IF m \in ToSet(text) THEN Again(delivered[m].starts)
                                    ELSE delivered[m].starts
       /\ Received \subseteq Received'
  <2>1. delivered \in Deliveries
    BY <1>1 DEF Reads, ControlShape
  <2>2. \A m \in Messages :
          /\ delivered[m] \in [starts : 0..2, steers : 0..2, epoch : Nat]
          /\ delivered'[m] = IF m \in ToSet(text) THEN ReceivedByStart(delivered[m])
                             ELSE delivered[m]
    BY <1>2, <2>1 DEF StartDelivers, Deliveries
  <2>3. ASSUME NEW d \in [starts : 0..2, steers : 0..2, epoch : Nat]
        PROVE  /\ ReceivedByStart(d) \in [starts : 0..2, steers : 0..2, epoch : Nat]
               /\ ReceivedByStart(d).starts = Again(d.starts)
               /\ ReceivedByStart(d).steers = d.steers
               /\ ReceivedByStart(d).starts > 0
    BY DEF ReceivedByStart, Again
  <2>4. delivered' \in Deliveries
    BY <1>2, <2>1, <2>2, <2>3 DEF StartDelivers, Deliveries
  <2>5. \A m \in Messages : delivered'[m].starts = IF m \in ToSet(text) THEN Again(delivered[m].starts)
                                                   ELSE delivered[m].starts
    BY <2>2, <2>3
  <2>6. ASSUME NEW m \in Messages, delivered[m].starts + delivered[m].steers > 0
        PROVE  delivered'[m].starts + delivered'[m].steers > 0
    <3>1. CASE m \in ToSet(text)
      <4>1. /\ delivered'[m].starts > 0 /\ delivered'[m].steers = delivered[m].steers
            /\ delivered[m].steers \in 0..2 /\ delivered'[m].starts \in 0..2
        BY <2>2, <2>3, <3>1
      <4> QED
        BY <4>1
    <3>2. CASE m \notin ToSet(text)
      BY <2>2, <2>6, <3>2
    <3> QED
      BY <3>1, <3>2
  <2>7. Received \subseteq Received'
    BY <2>6 DEF Received
  <2> QED
    BY <2>1, <2>4, <2>5, <2>7
<1>12. Core'
  <2>1. CoreInv(thread.queue, thread.messages, submitted, inbox, {id}, delivered)
    BY <1>1, <1>4 DEF Reads, Core
  <2>2. SentIn(thread.messages, id) /\ TranscriptInv(thread.messages, submitted)
    BY <2>1 DEF CoreInv, OnceInv
  <2>3. PICK x \in thread.messages : x.id = id
    BY <2>2 DEF SentIn
  <2>4. text = x.text
    <3>1. TextOf(thread, x.id) = x.text
      BY <2>2, TextIs
    <3> QED
      BY <2>3, <3>1 DEF text
  <2> DEFINE D2 == delivered'
             H == {id}
  <2>5. /\ D2 \in Deliveries /\ id \in H /\ H = {id}
        /\ \A m \in Messages : D2[m].starts = IF m \in ToSet(x.text) THEN Again(delivered[m].starts)
                                              ELSE delivered[m].starts
        /\ CoreInv(thread.queue, thread.messages, submitted, inbox, H, delivered)
    BY <1>11, <2>1, <2>4
  <2> HIDE DEF D2, H
  <2>6. CoreInv(thread.queue, thread.messages, submitted, inbox, {}, D2)
    BY <2>3, <2>5, AcceptsCore
  <2> QED
    BY <1>2, <1>10, <2>6 DEF Core, D2, queueVars, requests
<1>13. ControlShape'
  <2>1. live' \in Sessions
    BY <1>1, <1>2, <1>6 DEF Reads, Sessions
  <2>2. runtime' \in Seq(Notices)
    <3>1. [type |-> "started", turn |-> turn] \in Notices
      BY <1>6 DEF Notices
    <3>2. runtime \in Seq(Notices)
      BY <1>1 DEF Reads, ControlShape
    <3> QED
      BY <1>2, <3>1, <3>2
  <2> QED
    BY <1>1, <1>2, <1>8, <1>11, <2>1, <2>2 DEF Reads, ControlShape
<1>14. RequeueInv'
       /\ ("provider-acknowledged" \in ToSet(reactor.todo) => ReceivedAll(reactor.op.reserved))'
  BY <1>9 DEF RequeueInv
<1>15. IntentIsPrefix => IntentIsPrefix'
  BY <1>2 DEF IntentIsPrefix, exactQueuedPrefix, queueVars
<1>16. OpKept /\ TextStep /\ HoldStep /\ Requested
       /\ thread' \in Threads /\ stored' \in Controls /\ inbox' \in Seq(Handled) /\ HoldIsStored'
  BY <1>5 DEF Executed, Committed
<1> QED
  BY <1>11, <1>12, <1>13, <1>14, <1>15, <1>16, StepsBy

\* A script of such steps.
Tame(s) == s \in Seq(Steps) /\ ToSet(s) \subseteq Harmless

\* Short scripts of such steps.
LEMMA TameScripts ==
    /\ \A a \in Harmless : Tame(<<a>>)
    /\ \A a, b \in Harmless : Tame(<<a, b>>)
    /\ \A a, b, c \in Harmless : Tame(<<a, b, c>>)
    /\ \A a, b, c, d \in Harmless : Tame(<<a, b, c, d>>)
<1>1. Harmless \subseteq Steps
  BY DEF Harmless
<1>2. ASSUME NEW a \in Harmless PROVE Tame(<<a>>)
  <2>1. <<a>> \in Seq(Steps) /\ ToSet(<<a>>) = {a}
    BY <1>1, ToSets
  <2> QED
    BY <2>1 DEF Tame
<1>3. ASSUME NEW a \in Harmless, NEW b \in Harmless PROVE Tame(<<a, b>>)
  <2>1. <<a, b>> \in Seq(Steps) /\ ToSet(<<a, b>>) = {a, b}
    BY <1>1, ToSets
  <2> QED
    BY <2>1 DEF Tame
<1>4. ASSUME NEW a \in Harmless, NEW b \in Harmless, NEW c \in Harmless PROVE Tame(<<a, b, c>>)
  <2>1. <<a, b, c>> \in Seq(Steps) /\ ToSet(<<a, b, c>>) = {a, b, c}
    BY <1>1, ToSets
  <2> QED
    BY <2>1 DEF Tame
<1>5. ASSUME NEW a \in Harmless, NEW b \in Harmless, NEW c \in Harmless, NEW d \in Harmless
      PROVE  Tame(<<a, b, c, d>>)
  <2>1. <<a, b, c, d>> \in Seq(Steps) /\ ToSet(<<a, b, c, d>>) = {a, b, c, d}
    BY <1>1, ToSets
  <2> QED
    BY <2>1 DEF Tame
<1> QED
  BY <1>2, <1>3, <1>4, <1>5

\* The reactor goes on with such a script.
LEMMA TameKeeps ==
    ASSUME reactor \in Reactors, NEW s, Tame(s), NEW set \in Reports, NEW idle \in BOOLEAN
    PROVE  /\ Keeps([reactor EXCEPT !.todo = s])
           /\ Keeps([reactor EXCEPT !.todo = s, !.set = set])
           /\ Keeps([reactor EXCEPT !.todo = s, !.set = set, !.idle = idle])
<1> DEFINE r == [reactor EXCEPT !.todo = s]
           r1 == [reactor EXCEPT !.todo = s, !.set = set]
           r2 == [reactor EXCEPT !.todo = s, !.set = set, !.idle = idle]
<1>1. s \in Seq(Steps) /\ ToSet(s) \subseteq Harmless
  BY DEF Tame
<1>2. r \in Reactors /\ r.todo = s
  BY <1>1 DEF Reactors
<1>3. r1 \in Reactors /\ r1.todo = s
  BY <1>1 DEF Reactors
<1>4. r2 \in Reactors /\ r2.todo = s
  BY <1>1 DEF Reactors
<1> HIDE DEF r, r1, r2
<1>5. Keeps(r) /\ Keeps(r1) /\ Keeps(r2)
  BY <1>1, <1>2, <1>3, <1>4, HarmlessKeeps
<1> QED
  BY <1>5 DEF r, r1, r2

\* A handler starts with such a script.
LEMMA StartsKeeps ==
    ASSUME Reads, NEW op \in Operations, NEW s, Tame(s) \/ s = <<>>, NEW set \in Reports,
           Starts(op, s, set)
    PROVE  Keeps(reactor')
<1>1. CASE s = <<>>
  BY <1>1, IdleIs DEF Starts
<1>2. CASE s # <<>>
  <2> DEFINE seen == SessionOf(thread)
             r == [IdleReactor EXCEPT !.todo = s, !.op = op, !.set = set, !.seen = seen]
  <2>1. reactor' = r
    BY <1>2 DEF Starts
  <2>2. s \in Seq(Steps) /\ ToSet(s) \subseteq Harmless /\ seen \in Views
    BY <1>2 DEF Tame, Reads
  <2> HIDE DEF seen
  <2>3. r \in Reactors /\ r.todo = s
    BY <2>2, IdleIs DEF Reactors, IdleReactor
  <2> HIDE DEF r
  <2> QED
    BY <2>1, <2>2, <2>3, HarmlessKeeps
<1> QED
  BY <1>1, <1>2

\* A handler takes its event and starts with such a script.
LEMMA HandlesSteps ==
    ASSUME IInv, NEW type, Handles(type), Keeps(reactor')
    PROVE  Stepped
<1>1. /\ QueueShape /\ Core /\ HoldIsStored
      /\ UNCHANGED <<thread, stored, offered, requests>> /\ inbox # <<>> /\ inbox' = Tail(inbox)
      /\ UNCHANGED <<live, runtime, ingest, pass, scenario, delivered>>
  BY DEF IInv, Handles, Receives
<1>2. Executed
  BY <1>1, TailExecutes
<1> QED
  BY <1>1, <1>2, ReactorSteps

\* The operation of the event that is handled.
LEMMA HandledOp ==
    ASSUME Reads, NEW type, Receives(type), type # "turn-start-requested"
    PROVE  Head(inbox).op \in Operations
<1>1. Head(inbox) \in Handled /\ Head(inbox).type # "turn-start-requested"
  BY TailIs DEF Reads, Receives
<1> QED
  BY <1>1 DEF Handled

\* The provider has accepted the turn.
LEMMA AcceptedSteps == ASSUME IInv, TurnAccepted PROVE Stepped
<1>1. Reads
  BY ReadsIs
<1> DEFINE visible == toReconciledSession(SessionOf(thread), live)
           stamp == [status |-> "running", turn |-> reactor.turn,
                     epoch |-> reactor.seen.epoch, expected |-> 0]
           late == [visible EXCEPT !.expected = 0]
           idle == ~live.on \/ live.turn = 0
<1>2. PICK set \in {stamp, late, NoSet} :
         reactor' = [reactor EXCEPT !.todo = <<"set", "bound">>, !.set = set, !.idle = idle]
  BY DEF TurnAccepted
<1>3. stamp \in Reports
  <2>1. reactor.turn \in Nat /\ reactor.seen.epoch \in Nat
    BY <1>1 DEF Reads, Views
  <2> QED
    BY <2>1 DEF Reports, Statuses
<1>4. late \in Reports
  <2>1. visible \in Reports
    BY <1>1 DEF Reads
  <2> HIDE DEF visible
  <2> QED
    BY <2>1 DEF Reports
<1> HIDE DEF stamp, late
<1>5. set \in Reports /\ idle \in BOOLEAN
  BY <1>2, <1>3, <1>4, Nothing
<1>6. Tame(<<"set", "bound">>)
  BY TameScripts DEF Harmless, Steps, HandSteps
<1> HIDE DEF idle
<1>7. Keeps(reactor')
  BY <1>1, <1>2, <1>5, <1>6, TameKeeps DEF Reads
<1>8. UNCHANGED <<queueVars, live, runtime, ingest, pass, scenario, delivered>>
  BY DEF TurnAccepted
<1> QED
  BY <1>7, <1>8, ReactorThinks

\* The turn that refused the message becomes visible.
LEMMA MarkSteps == ASSUME IInv, MarkProviderTurnRunning PROVE Stepped
<1>1. Reads
  BY ReadsIs
<1> DEFINE set == toReconciledSession(SessionOf(thread), live)
<1>2. reactor' = IdleReactor \/ reactor' = [reactor EXCEPT !.todo = <<"set">>, !.set = set]
  BY DEF MarkProviderTurnRunning
<1>3. set \in Reports
  BY <1>1 DEF Reads
<1> HIDE DEF set
<1>4. Tame(<<"set">>)
  BY TameScripts DEF Harmless, Steps, HandSteps
<1>5. Keeps(reactor')
  <2>1. reactor \in Reactors /\ TRUE \in BOOLEAN
    BY <1>1 DEF Reads
  <2>2. Keeps([reactor EXCEPT !.todo = <<"set">>, !.set = set])
    BY <1>3, <1>4, <2>1, TameKeeps
  <2> QED
    BY <1>2, <2>2, IdleIs
<1>6. UNCHANGED <<queueVars, live, runtime, ingest, pass, scenario, delivered>>
  BY DEF MarkProviderTurnRunning
<1> QED
  BY <1>5, <1>6, ReactorThinks

\* An interrupt is requested, and is still the thread's operation or not.
LEMMA InterruptSteps == ASSUME IInv, processTurnInterruptRequested PROVE Stepped
<1>1. Reads
  BY ReadsIs
<1> DEFINE op == Head(inbox).op
           stopped == [status |-> "stopped", turn |-> 0, epoch |-> thread.epoch,
                       expected |-> thread.turn]
<1>2. Handles("turn-interrupt-requested")
  BY DEF processTurnInterruptRequested
<1>3. op \in Operations
  BY <1>1, <1>2, HandledOp DEF Handles
<1>4. stopped \in Reports
  <2>1. thread.epoch \in Nat /\ thread.turn \in Nat
    BY <1>1 DEF Reads, Threads
  <2> QED
    BY <2>1 DEF Reports, Statuses
<1>5. \/ Starts(op, <<>>, NoSet) \/ Starts(op, <<"cancel", "set">>, stopped)
      \/ Starts(op, <<"cancel">>, NoSet)
      \/ Starts(op, <<"interrupt">>, NoSet) \/ Starts(op, <<"recheck">>, NoSet)
  BY DEF processTurnInterruptRequested
<1>6. /\ Tame(<<"cancel", "set">>) /\ Tame(<<"cancel">>)
      /\ Tame(<<"interrupt">>) /\ Tame(<<"recheck">>)
  BY TameScripts DEF Harmless, Steps, HandSteps
<1> HIDE DEF op, stopped
<1>7. Keeps(reactor')
  BY <1>1, <1>3, <1>4, <1>5, <1>6, Nothing, StartsKeeps
<1> QED
  BY <1>2, <1>7, HandlesSteps

\* The session is looked up again.
LEMMA RecheckSteps == ASSUME IInv, RecheckSession PROVE Stepped
<1>1. Reads
  BY ReadsIs
<1>2. PICK s \in {<<"set", "continue", "complete">>, <<"cancel">>, <<"interrupt">>},
           set \in {NoSet, toReconciledSession(reactor.seen, live)} :
              reactor' = [reactor EXCEPT !.todo = s, !.set = set]
  BY DEF RecheckSession
<1>3. Tame(<<"set", "continue", "complete">>) /\ Tame(<<"cancel">>) /\ Tame(<<"interrupt">>)
  BY TameScripts DEF Harmless, Steps, HandSteps
<1>4. Tame(s)
  BY <1>2, <1>3
<1>5. set \in Reports /\ TRUE \in BOOLEAN
  BY <1>1, <1>2, Nothing DEF Reads
<1>6. Keeps(reactor')
  BY <1>1, <1>2, <1>4, <1>5, TameKeeps DEF Reads
<1>7. UNCHANGED <<queueVars, live, runtime, ingest, pass, scenario, delivered>>
  BY DEF RecheckSession
<1> QED
  BY <1>6, <1>7, ReactorThinks

\* The provider is asked to interrupt its turn.
LEMMA InterruptTurnSteps == ASSUME IInv, InterruptTurn PROVE Stepped
<1>1. Reads
  BY ReadsIs
<1> DEFINE s1 == <<"waiting-for-settlement", "settle", "continue", "complete">>
           s2 == <<"cancel", "failed">>
<1>2. /\ UNCHANGED queueVars /\ UNCHANGED <<live, runtime, ingest, pass, delivered>>
      /\ Fault("fail") \/ UNCHANGED scenario
      /\ reactor' = [reactor EXCEPT !.todo = s1] \/ reactor' = [reactor EXCEPT !.todo = s2]
  BY DEF InterruptTurn
<1>3. Tame(s1) /\ Tame(s2)
  BY TameScripts DEF Harmless, Steps, HandSteps
<1> HIDE DEF s1, s2
<1>4. Keeps(reactor')
  <2>1. reactor \in Reactors /\ reactor.set \in Reports /\ TRUE \in BOOLEAN
    BY <1>1 DEF Reads
  <2>2. Keeps([reactor EXCEPT !.todo = s1]) /\ Keeps([reactor EXCEPT !.todo = s2])
    BY <1>3, <2>1, TameKeeps
  <2> QED
    BY <1>2, <2>2
<1>5. Executed
  BY <1>1, <1>2, IdleExecutes DEF Reads
<1>6. /\ scenario' \in [bounds : Scenarios, failed : Nat, revived : BOOLEAN,
                        dropped : SUBSET Messages]
      /\ scenario'.revived = scenario.revived
  <2>1. CASE Fault("fail")
    BY <1>1, <2>1, FaultIs DEF Reads
  <2>2. CASE UNCHANGED scenario
    BY <1>1, <2>2 DEF Reads, ControlShape
  <2> QED
    BY <1>2, <2>1, <2>2
<1>7. ControlShape'
  BY <1>1, <1>2, <1>4, <1>6 DEF Reads, ControlShape, Keeps
<1> QED
  BY <1>2, <1>4, <1>5, <1>6, <1>7, StepsWith

\* The interrupt is settled by the provider, or at once.
LEMMA SettleSteps == ASSUME IInv, SettleInterrupt PROVE Stepped
<1>1. Reads
  BY ReadsIs
<1> DEFINE old == reactor.todo
           s == <<"set">> \o Tail(old)
           set == toReconciledSession(reactor.seen, live)
           r == [reactor EXCEPT !.todo = s, !.set = set]
<1>2. /\ reactor' = [reactor EXCEPT !.todo = Tail(@)] \/ reactor' = r
      /\ UNCHANGED <<queueVars, live, runtime, ingest, pass, scenario, delivered>>
      /\ old # <<>> /\ Head(old) = "settle"
  BY DEF SettleInterrupt, Doing
<1>3. old \in Seq(Steps) /\ set \in Reports
  BY <1>1 DEF Reads
<1> HIDE DEF set
<1>4. /\ Tail(old) \in Seq(Steps) /\ ToSet(Tail(old)) \subseteq ToSet(old)
      /\ "requeue" \notin ToSet(Tail(old))
  <2> HIDE DEF old
  <2>1. Tail(old) \in Seq(Steps) /\ ToSet(Tail(old)) \subseteq ToSet(old)
    BY <1>2, <1>3, TailIs
  <2>2. "requeue" \notin ToSet(old)
    <3>1. SUFFICES ASSUME old = <<"requeue", "mark">> PROVE FALSE
      BY DEF IInv, RequeueInv, old
    <3>2. Head(<<"requeue", "mark">>) = "requeue"
      OBVIOUS
    <3> QED
      BY <1>2, <3>1, <3>2
  <2> QED
    BY <2>1, <2>2
<1>5. s \in Seq(Steps) /\ ToSet(s) = {"set"} \cup ToSet(Tail(old))
  <2> DEFINE rest == Tail(old)
  <2>1. rest \in Seq(Steps) /\ "set" \in Steps
    BY <1>4 DEF Steps
  <2> HIDE DEF rest
  <2>2. <<"set">> \o rest \in Seq(Steps) /\ ToSet(<<"set">> \o rest) = {"set"} \cup ToSet(rest)
    BY <2>1, ConsIs
  <2> QED
    BY <2>2 DEF rest
<1> HIDE DEF s
<1>6. r \in Reactors /\ r.todo = s /\ r.id = reactor.id /\ r.op = reactor.op
  BY <1>1, <1>3, <1>5 DEF Reads, Reactors
<1> HIDE DEF r
<1>7. Keeps(r)
  BY <1>4, <1>5, <1>6 DEF Keeps, IInv, SteeredInv, HandSteps
<1>8. Keeps(reactor')
  BY <1>1, <1>2, <1>7, RestKeeps DEF Reads, IInv
<1> QED
  BY <1>2, <1>8, ReactorThinks

\* The reactor flushes what the operation has reserved.
LEMMA FlushReservedSteps == ASSUME IInv, FlushReserved PROVE Stepped
<1>1. Reads
  BY ReadsIs
<1> DEFINE kind == IF Doing("consume") THEN "consume" ELSE "control"
<1>2. /\ Commit(ReservedFlush(reactor.op, kind))
      /\ reactor' \in {IdleReactor, [reactor EXCEPT !.todo = Tail(@)]}
      /\ UNCHANGED <<offered, requests>>
      /\ UNCHANGED <<live, runtime, ingest, pass, scenario, delivered>>
      /\ reactor.todo # <<>>
  BY DEF FlushReserved, Doing
<1>3. Requested
  BY <1>1, <1>2, NothingRequested DEF requests, Reads, QueueShape
<1> HIDE DEF kind
<1>4. Committed /\ TextSafe /\ HoldSafe /\ thread'.op = thread.op
  BY <1>1, <1>2, KeptByReserved DEF Reads, requests
<1>5. Executed
  BY <1>3, <1>4 DEF Executed, OpKept, TextStep, HoldStep
<1>6. Keeps(reactor')
  BY <1>1, <1>2, IdleIs, RestKeeps DEF Reads, IInv
<1> QED
  BY <1>2, <1>5, <1>6, ReactorSteps

\* The refused message goes back to the queue.
LEMMA RequeueSteps == ASSUME IInv, RequeueTurnStart PROVE Stepped
<1>1. Reads
  BY ReadsIs
<1> DEFINE id == reactor.id
           done == decideRedelivery(thread, id)
<1>2. /\ Commit(done)
      /\ reactor' = [reactor EXCEPT !.todo = Tail(@)]
      /\ UNCHANGED <<offered, requests>>
      /\ UNCHANGED <<live, runtime, ingest, pass, scenario, delivered>>
      /\ reactor.todo # <<>> /\ Head(reactor.todo) = "requeue"
  BY DEF RequeueTurnStart, Doing
<1>3. "requeue" \in ToSet(reactor.todo)
  BY <1>1, <1>2, TailIs DEF Reads
<1>4. reactor.todo = <<"requeue", "mark">> /\ Hand = {id}
  BY <1>3 DEF IInv, RequeueInv, Hand, HandSteps
<1>5. ToSet(reactor'.todo) = {"mark"}
  <2>1. Tail(<<"requeue", "mark">>) = <<"mark">>
    OBVIOUS
  <2>2. ToSet(<<"mark">>) = {"mark"}
    BY ToSets
  <2>3. reactor'.todo = Tail(reactor.todo)
    BY <1>1, <1>2 DEF Reads, Reactors
  <2> QED
    BY <1>4, <2>1, <2>2, <2>3
<1>6. Hand' = {}
  BY <1>5 DEF Hand, HandSteps
<1>7. /\ thread' \in Threads /\ stored' \in Controls /\ inbox' \in Seq(Handled)
      /\ HoldIsStored' /\ TextsKept
      /\ CoreInv(thread'.queue, thread'.messages, submitted', inbox', {}, delivered)
      /\ IntentHead(thread) => IntentHead(thread')
      /\ thread'.hold = thread.hold
  BY <1>1, <1>2, <1>4, KeptByRequeue DEF Reads, requests
<1>8. thread'.op = thread.op
  <2>1. CASE done = <<>>
    BY <1>2, <2>1, CommitNone
  <2>2. CASE done # <<>>
    <3> DEFINE e == [type |-> "prompt-queued", id |-> id, sent |-> TRUE,
                     at |-> redeliveryQueuePosition(thread)]
    <3>1. Commit(<<e>>)
      BY <1>2, <2>2 DEF decideRedelivery, PromptQueued
    <3>2. e.type = "prompt-queued"
      OBVIOUS
    <3> HIDE DEF e
    <3>3. thread' = projectEvent(thread, e)
      BY <3>1, CommitOne
    <3> QED
      BY <3>2, <3>3, ProjectKeeps
  <2> QED
    BY <2>1, <2>2
<1>9. Keeps(reactor')
  BY <1>1, <1>2, RestKeeps DEF Reads, IInv
<1>10. ControlShape'
  BY <1>1, <1>2, <1>9 DEF Reads, ControlShape, Keeps
<1>11. Requested
  BY <1>1, <1>2, NothingRequested DEF requests, Reads, QueueShape
<1>12. Core'
  BY <1>2, <1>6, <1>7 DEF Core
<1>13. RequeueInv'
       /\ ("provider-acknowledged" \in ToSet(reactor.todo) => ReceivedAll(reactor.op.reserved))'
  BY <1>5 DEF RequeueInv
<1>14. Received \subseteq Received' /\ OpKept /\ TextStep /\ HoldStep
  BY <1>2, <1>7, <1>8 DEF Received, OpKept, TextStep, TextSafe, HoldStep, HoldSafe
<1>15. IntentIsPrefix => IntentIsPrefix'
  BY <1>2, <1>7 DEF IntentIsPrefix, IntentHead
<1> QED
  BY <1>7, <1>10, <1>11, <1>12, <1>13, <1>14, <1>15, StepsBy

\* A steer is requested.
LEMMA SteerRequestSteps == ASSUME IInv, processTurnSteerRequested PROVE Stepped
<1>1. Reads
  BY ReadsIs
<1> DEFINE op == Head(inbox).op
<1>2. Handles("turn-steer-requested")
  BY DEF processTurnSteerRequested
<1>3. op \in Operations
  BY <1>1, <1>2, HandledOp DEF Handles
<1>4. Starts(op, <<>>, NoSet) \/ Starts(op, <<"select", "steer">>, NoSet)
      \/ Starts(op, <<"failed">>, NoSet)
  BY DEF processTurnSteerRequested
<1>5. Tame(<<"select", "steer">>) /\ Tame(<<"failed">>)
  BY TameScripts DEF Harmless, Steps, HandSteps
<1> HIDE DEF op
<1>6. Keeps(reactor')
  BY <1>1, <1>3, <1>4, <1>5, Nothing, StartsKeeps
<1> QED
  BY <1>2, <1>6, HandlesSteps

\* A stop is requested.
LEMMA StopRequestSteps == ASSUME IInv, processSessionStopRequested PROVE Stepped
<1>1. Reads
  BY ReadsIs
<1> DEFINE op == Head(inbox).op
<1>2. Handles("session-stop-requested")
  BY DEF processSessionStopRequested
<1>3. op \in Operations
  BY <1>1, <1>2, HandledOp DEF Handles
<1>4. Starts(op, <<>>, NoSet) \/ Starts(op, <<"completed">>, NoSet)
      \/ Starts(op, <<"waiting-for-settlement">>, NoSet)
  BY DEF processSessionStopRequested
<1>5. Tame(<<"completed">>) /\ Tame(<<"waiting-for-settlement">>)
  BY TameScripts DEF Harmless, Steps, HandSteps
<1> HIDE DEF op
<1>6. Keeps(reactor')
  BY <1>1, <1>3, <1>4, <1>5, Nothing, StartsKeeps
<1> QED
  BY <1>2, <1>6, HandlesSteps

\* A text is steered into the running turn.
LEMMA SteerDelivered ==
    ASSUME delivered \in Deliveries, live \in Sessions, NEW text, SteerDelivers(text)
    PROVE  /\ delivered' \in Deliveries
           /\ \A m \in Messages : delivered'[m].starts = delivered[m].starts
           /\ Received \subseteq Received'
           /\ ToSet(text) \cap Messages \subseteq Received'
<1> DEFINE Counts == [starts : 0..2, steers : 0..2, epoch : Nat]
<1>1. \A m \in Messages :
        /\ delivered[m] \in Counts
        /\ delivered'[m] = IF m \in ToSet(text) THEN ReceivedBySteer(delivered[m])
                           ELSE delivered[m]
  BY DEF SteerDelivers, Deliveries
<1>2. ASSUME NEW d \in Counts
      PROVE  /\ ReceivedBySteer(d) \in Counts
             /\ ReceivedBySteer(d).starts = d.starts
             /\ ReceivedBySteer(d).steers > 0
  <2>1. live.epoch \in Nat
    BY DEF Sessions
  <2> DEFINE at == IF d.steers = 0 THEN live.epoch ELSE d.epoch
             n == Again(d.steers)
  <2>2. at \in Nat /\ n \in 0..2 /\ n > 0
    BY <2>1 DEF Again
  <2>3. ReceivedBySteer(d) = [d EXCEPT !.steers = n, !.epoch = at]
    BY DEF ReceivedBySteer
  <2> HIDE DEF at, n
  <2> QED
    BY <2>2, <2>3
<1>3. delivered' \in Deliveries
  BY <1>1, <1>2 DEF SteerDelivers, Deliveries
<1>4. \A m \in Messages : delivered'[m].starts = delivered[m].starts
  BY <1>1, <1>2
<1>5. ASSUME NEW m \in Messages, m \in ToSet(text) \/ m \in Received
      PROVE  m \in Received'
  <2>1. CASE m \in ToSet(text)
    <3>1. delivered'[m].steers > 0 /\ delivered'[m] \in Counts
      BY <1>1, <1>2, <2>1
    <3> QED
      BY <3>1 DEF Received
  <2>2. CASE m \notin ToSet(text)
    BY <1>1, <1>5, <2>2 DEF Received
  <2> QED
    BY <2>1, <2>2
<1>6. Received \subseteq Received'
  BY <1>5 DEF Received
<1> QED
  BY <1>3, <1>4, <1>5, <1>6

\* The text of what an operation has reserved carries all of it.
LEMMA ReservedText ==
    ASSUME NEW t, NEW S, t.messages \subseteq Transcript, TranscriptInv(t.messages, S),
           NEW ids \in Seq(Ids)
    PROVE  \A id \in ToSet(ids) :
              /\ ToSet(id) \subseteq Messages
              /\ ToSet(id) \subseteq ToSet(FlattenSeq([i \in DOMAIN ids |-> TextOf(t, ids[i])]))
<1> DEFINE ss == [i \in DOMAIN ids |-> TextOf(t, ids[i])]
<1>1. ASSUME NEW id \in Ids PROVE TextOf(t, id) \in Ids /\ ToSet(id) \subseteq ToSet(TextOf(t, id))
  <2>1. CASE Sent(t, id)
    <3>1. PICK x \in t.messages : x.id = id
      BY <2>1 DEF Sent
    <3>2. TextOf(t, x.id) = x.text
      BY <3>1, TextIs
    <3>3. x.text \in Ids /\ ToSet(x.id) \subseteq ToSet(x.text)
      BY <3>1 DEF Transcript, TranscriptInv
    <3> QED
      BY <3>1, <3>2, <3>3
  <2>2. CASE ~Sent(t, id)
    <3>1. TextOf(t, id) = id
      BY <2>2 DEF TextOf
    <3> QED
      BY <3>1
  <2> QED
    BY <2>1, <2>2
<1>2. /\ Len(ids) \in Nat /\ DOMAIN ids = 1..Len(ids)
      /\ \A i \in 1..Len(ids) : ids[i] \in Ids
  OBVIOUS
<1>3. ss \in Seq(Ids) /\ Len(ss) = Len(ids) /\ \A i \in 1..Len(ids) : ss[i] = TextOf(t, ids[i])
  <2>1. ss \in [1..Len(ids) -> Ids]
    BY <1>1, <1>2
  <2> QED
    BY <1>2, <2>1
<1> HIDE DEF ss
<1>4. SUFFICES ASSUME NEW i \in 1..Len(ids)
               PROVE  ToSet(ids[i]) \subseteq Messages /\ ToSet(ids[i]) \subseteq ToSet(FlattenSeq(ss))
  BY <1>2 DEF ToSet, ss
<1>5. ToSet(ids[i]) \subseteq Messages
  <2> DEFINE id == ids[i]
  <2>1. id \in Seq(Messages)
    BY <1>2 DEF Ids
  <2> HIDE DEF id
  <2>2. DOMAIN id = 1..Len(id) /\ \A k \in 1..Len(id) : id[k] \in Messages
    BY <2>1
  <2> QED
    BY <2>2 DEF ToSet, id
<1>6. ss # <<>>
  BY <1>2, <1>3
<1>7. ToSet(ss[i]) \subseteq ToSet(FlattenSeq(ss))
  BY <1>3, <1>6, FlattenIs
<1> QED
  BY <1>1, <1>2, <1>3, <1>5, <1>7

\* The provider is asked to steer its turn.
LEMMA SteerTurnSteps == ASSUME IInv, SteerTurn PROVE Stepped
<1>1. Reads
  BY ReadsIs
<1> DEFINE ids == reactor.op.reserved
           text == FlattenSeq([i \in DOMAIN ids |-> TextOf(thread, ids[i])])
           s1 == <<"provider-acknowledged", "consume", "complete">>
           s2 == <<"ambiguous">>
           r == [reactor EXCEPT !.todo = s1]
<1>2. /\ UNCHANGED <<queueVars, live, runtime, ingest, pass>>
      /\ \/ SteerDelivers(text) /\ reactor' = r /\ UNCHANGED scenario
         \/ /\ SteerDelivers(text) \/ UNCHANGED delivered
            /\ reactor' = [reactor EXCEPT !.todo = s2]
            /\ Fault("fail") \/ UNCHANGED scenario
  BY DEF SteerTurn
<1>3. UNCHANGED queueVars /\ UNCHANGED <<live, runtime, ingest, pass>>
  BY <1>2
<1> HIDE DEF text
<1>4. /\ delivered' \in Deliveries
      /\ \A m \in Messages : delivered'[m].starts = delivered[m].starts
      /\ Received \subseteq Received'
  <2>1. delivered \in Deliveries
    BY <1>1 DEF Reads, ControlShape
  <2>2. CASE SteerDelivers(text)
    BY <1>1, <2>1, <2>2, SteerDelivered DEF Reads
  <2>3. CASE UNCHANGED delivered
    BY <2>1, <2>3 DEF Received
  <2> QED
    BY <1>2, <2>2, <2>3
<1>5. Executed
  BY <1>1, <1>3, IdleExecutes DEF Reads
<1>6. /\ scenario' \in [bounds : Scenarios, failed : Nat, revived : BOOLEAN,
                        dropped : SUBSET Messages]
      /\ scenario'.revived = scenario.revived
  <2>1. CASE Fault("fail")
    BY <1>1, <2>1, FaultIs DEF Reads
  <2>2. CASE UNCHANGED scenario
    BY <1>1, <2>2 DEF Reads, ControlShape
  <2> QED
    BY <1>2, <2>1, <2>2
<1>7. CASE reactor' = [reactor EXCEPT !.todo = s2]
  <2>1. Tame(s2)
    BY TameScripts DEF Harmless, Steps, HandSteps
  <2>2. reactor \in Reactors /\ reactor.set \in Reports /\ TRUE \in BOOLEAN
    BY <1>1 DEF Reads
  <2> HIDE DEF s2
  <2>3. Keeps(reactor')
    BY <1>7, <2>1, <2>2, TameKeeps
  <2>4. ControlShape'
    BY <1>1, <1>3, <1>4, <1>6, <2>3 DEF Reads, ControlShape, Keeps
  <2> QED
    BY <1>4, <1>5, <1>6, <2>3, <2>4, StepsFrom
<1>8. CASE SteerDelivers(text) /\ reactor' = r
  <2>1. s1 \in Seq(Steps) /\ ToSet(s1) = {"provider-acknowledged", "consume", "complete"}
    BY ToSets DEF Steps
  <2>2. r \in Reactors /\ r.todo = s1 /\ r.op = reactor.op
    BY <1>1, <2>1 DEF Reads, Reactors
  <2> HIDE DEF s1, r
  <2>3. \A id \in ToSet(ids) : ToSet(id) \subseteq Received'
    <3>1. ToSet(text) \cap Messages \subseteq Received'
      <4>1. delivered \in Deliveries /\ live \in Sessions
        BY <1>1 DEF Reads, ControlShape
      <4> QED
        BY <1>8, <4>1, SteerDelivered
    <3>2. thread.messages \subseteq Transcript /\ TranscriptInv(thread.messages, submitted)
      BY <1>1 DEF Reads, Core, CoreInv
    <3>3. ids \in Seq(Ids)
      BY <1>1 DEF Reads, Operations
    <3> HIDE DEF ids
    <3>4. \A id \in ToSet(ids) : ToSet(id) \subseteq Messages /\ ToSet(id) \subseteq ToSet(text)
      BY <3>2, <3>3, ReservedText DEF text
    <3> QED
      BY <3>1, <3>4
  <2>4. Hand' = {}
    BY <1>8, <2>1, <2>2 DEF Hand, HandSteps
  <2>5. Core'
    <3>1. CoreInv(thread.queue, thread.messages, submitted, inbox, Hand, delivered)
      BY <1>1 DEF Reads, Core
    <3> DEFINE Q == thread.queue
               B == inbox
               D2 == delivered'
    <3>2. /\ Q \in Seq(Prompts) /\ B \in Seq(Handled) /\ D2 \in Deliveries
          /\ \A m \in Messages : D2[m].starts = delivered[m].starts
          /\ CoreInv(Q, thread.messages, submitted, B, Hand, delivered)
      BY <1>4, <3>1 DEF CoreInv
    <3> HIDE DEF Q, B, D2
    <3>3. Thins(Q, Q) /\ Fewer(B, B) /\ {} \subseteq Hand
      BY <3>2, ThinsSelf, FewerStarts
    <3>4. CoreInv(Q, thread.messages, submitted, B, {}, D2)
      BY <3>2, <3>3, KeepsCore
    <3> QED
      BY <1>3, <2>4, <3>4 DEF Core, Q, B, D2, queueVars, requests
  <2>6. RequeueInv'
        /\ ("provider-acknowledged" \in ToSet(reactor.todo) => ReceivedAll(reactor.op.reserved))'
    BY <1>8, <2>1, <2>2, <2>3 DEF RequeueInv, ReceivedAll
  <2>7. ControlShape'
    BY <1>1, <1>3, <1>4, <1>6, <1>8, <2>2 DEF Reads, ControlShape
  <2>8. IntentIsPrefix => IntentIsPrefix'
    BY <1>3, <1>6 DEF IntentIsPrefix, exactQueuedPrefix, queueVars
  <2>9. OpKept /\ TextStep /\ HoldStep /\ Requested
        /\ thread' \in Threads /\ stored' \in Controls /\ inbox' \in Seq(Handled) /\ HoldIsStored'
    BY <1>5 DEF Executed, Committed
  <2> QED
    BY <1>4, <2>5, <2>6, <2>7, <2>8, <2>9, StepsBy
<1> QED
  BY <1>2, <1>7, <1>8

\* Whatever the reactor does.
LEMMA ReactorKeeps == ASSUME IInv, ReactorStep PROVE Stepped
BY DispatchSteps, ReceiveSteps, EnsureSteps, OpenSteps, OpenFailsSteps, SendSteps,
   AcceptSteps, RefuseSteps, FailSteps, AcceptedSteps, RequeueSteps, MarkSteps,
   InterruptSteps, RecheckSteps, InterruptTurnSteps, SettleSteps, FlushReservedSteps,
   SteerRequestSteps, SteerTurnSteps, StopRequestSteps DEF ReactorStep

-----------------------------------------------------------------------------
(***************************************************************************)
(* The provider, ingestion, the pass, the watchdog and a restart.          *)
(***************************************************************************)

\* A step in which the queue, the reactor and the history do not move.
LEMMA OutsideSteps ==
    ASSUME IInv, UNCHANGED queueVars, UNCHANGED <<reactor, delivered>>,
           live' \in Sessions, runtime' \in Seq(Notices), ingest' \in Reports, pass' \in Passes,
           scenario' \in [bounds : Scenarios, failed : Nat, revived : BOOLEAN,
                          dropped : SUBSET Messages],
           scenario'.revived = scenario.revived
    PROVE  Stepped
<1>1. Executed
  BY IdleExecutes DEF IInv
<1>2. Keeps(reactor')
  <2>1. Keeps(reactor) /\ reactor' = reactor
    BY SameKeeps
  <2> QED
    BY <2>1
<1>3. ControlShape'
  BY DEF IInv, ControlShape
<1> QED
  BY <1>1, <1>2, <1>3, StepsWith

\* The provider's turn is over, or its session is.
LEMMA ProviderSteps == ASSUME IInv, ProviderCompletes \/ ProviderExits PROVE Stepped
<1>1. Reads
  BY ReadsIs
<1> DEFINE n == [type |-> "completed", turn |-> live.turn]
           o == [type |-> "exited", turn |-> live.turn]
<1>2. /\ UNCHANGED queueVars /\ UNCHANGED <<reactor, delivered>> /\ UNCHANGED <<ingest, pass>>
      /\ live' \in {[live EXCEPT !.turn = 0], Ended(live)}
      /\ runtime' \in {Append(runtime, n), Append(runtime, o)}
      /\ Fault("exit") \/ UNCHANGED scenario
  BY DEF ProviderCompletes, ProviderExits
<1>3. [live EXCEPT !.turn = 0] \in Sessions /\ Ended(live) \in Sessions
  BY <1>1, EndedIs DEF Reads, Sessions
<1>4. n \in Notices /\ o \in Notices /\ runtime \in Seq(Notices)
  <2>1. live.turn \in Nat /\ runtime \in Seq(Notices)
    BY <1>1 DEF Reads, ControlShape, Sessions
  <2> QED
    BY <2>1 DEF Notices
<1> HIDE DEF n, o
<1>5. runtime' \in Seq(Notices)
  BY <1>2, <1>4
<1>6. /\ scenario' \in [bounds : Scenarios, failed : Nat, revived : BOOLEAN,
                        dropped : SUBSET Messages]
      /\ scenario'.revived = scenario.revived
  <2>1. CASE Fault("exit")
    BY <1>1, <2>1, FaultIs DEF Reads
  <2>2. CASE UNCHANGED scenario
    BY <1>1, <2>2 DEF Reads, ControlShape
  <2> QED
    BY <1>2, <2>1, <2>2
<1>7. ingest' \in Reports /\ pass' \in Passes /\ live' \in Sessions
  BY <1>1, <1>2, <1>3 DEF Reads, ControlShape
<1> QED
  BY <1>2, <1>5, <1>6, <1>7, OutsideSteps

\* Ingestion reads what the provider reports.
LEMMA IngestReadSteps == ASSUME IInv, IngestRuntimeEvent PROVE Stepped
<1>1. Reads
  BY ReadsIs
<1> DEFINE e == Head(runtime)
           set == LifecycleSet(thread, e)
           other == toReconciledSession(SessionOf(thread), live)
<1>2. /\ UNCHANGED queueVars /\ UNCHANGED <<reactor, delivered>> /\ UNCHANGED <<live, pass, scenario>>
      /\ runtime # <<>> /\ runtime' = Tail(runtime)
      /\ ingest' \in {set, other, NoSet}
  BY DEF IngestRuntimeEvent
<1>3. /\ runtime \in Seq(Notices) /\ live \in Sessions /\ pass \in Passes
      /\ scenario \in [bounds : Scenarios, failed : Nat, revived : BOOLEAN,
                       dropped : SUBSET Messages]
      /\ other \in Reports /\ thread.epoch \in Nat /\ thread.turn \in Nat
  BY <1>1 DEF Reads, ControlShape, Threads
<1>4. e \in Notices /\ runtime' \in Seq(Notices)
  BY <1>2, <1>3, TailIs
<1> HIDE DEF e, other
<1>5. set \in Reports
  <2>1. e.turn \in Nat /\ e.type \in {"started", "completed", "exited"}
    BY <1>4 DEF Notices
  <2> QED
    BY <1>3, <2>1 DEF LifecycleSet, Reports, Statuses
<1> HIDE DEF set
<1>6. ingest' \in Reports
  BY <1>2, <1>3, <1>5, Nothing
<1> QED
  BY <1>2, <1>3, <1>4, <1>6, OutsideSteps

\* A command of a session report, an acknowledgement or a start that failed,
\* dispatched by others than the reactor.
LEMMA OthersDispatch ==
    ASSUME IInv, NEW O, NEW events, Quiet(events, O), CommitTriggering(events),
           \A o \in O : Acknowledged(o) => ReceivedAll(o.reserved),
           UNCHANGED requests, UNCHANGED <<live, runtime, reactor, scenario, delivered>>,
           ingest' \in Reports, pass' \in Passes
    PROVE  Stepped
<1>1. Executed
  BY DispatchExecutes DEF IInv
<1>2. Keeps(reactor')
  <2>1. Keeps(reactor) /\ reactor' = reactor
    BY SameKeeps
  <2> QED
    BY <2>1
<1>3. ControlShape'
  BY DEF IInv, ControlShape
<1> QED
  BY <1>1, <1>2, <1>3, StepsWith

\* Ingestion dispatches.
LEMMA IngestDispatchSteps == ASSUME IInv, IngestDispatches PROVE Stepped
<1>1. Reads
  BY ReadsIs
<1> DEFINE events == SessionSetEvents(ingest)
<1>2. /\ CommitTriggering(events) /\ ingest' = NoSet
      /\ UNCHANGED requests /\ UNCHANGED <<live, runtime, reactor, scenario, delivered>>
      /\ UNCHANGED pass
  BY DEF IngestDispatches
<1>3. Quiet(events, Others)
  BY <1>1, SessionSetIs DEF Reads, ControlShape
<1>4. ingest' \in Reports /\ pass' \in Passes
  BY <1>1, <1>2, Nothing DEF Reads
<1>5. \A o \in Others : Acknowledged(o) => ReceivedAll(o.reserved)
  BY DEF Others
<1> HIDE DEF events
<1> QED
  BY <1>2, <1>3, <1>4, <1>5, OthersDispatch

\* The watchdog fails a start.
LEMMA WatchdogSteps == ASSUME IInv, WatchdogFails PROVE Stepped
<1>1. Reads
  BY ReadsIs
<1> DEFINE e == [type |-> "turn-start-failed", id |-> thread.start.id]
<1>2. /\ CommitTriggering(<<e>>) /\ UNCHANGED requests
      /\ UNCHANGED <<live, runtime, reactor, scenario, delivered>>
      /\ ingest' = ingest /\ pass' = pass
  BY DEF WatchdogFails, controlVars
<1>3. thread.start.id \in Ids
  BY <1>1 DEF Reads, Threads, Starting
<1>4. e \in Events /\ e.type = "turn-start-failed"
  BY <1>3 DEF Events
<1> HIDE DEF e
<1>5. Quiet(<<e>>, Others)
  BY <1>4 DEF Quiet, QuietTypes, OpTypes
<1>6. ingest' \in Reports /\ pass' \in Passes
  BY <1>1, <1>2 DEF Reads, ControlShape
<1>7. \A o \in Others : Acknowledged(o) => ReceivedAll(o.reserved)
  BY DEF Others
<1> QED
  BY <1>2, <1>5, <1>6, <1>7, OthersDispatch

\* The end of the pass's script.
LEMMA PassEndIs ==
    ASSUME NEW p \in Passes, NEW todo \in Seq(PassSteps), NEW op \in Operations
    PROVE  /\ PassEnd([p EXCEPT !.todo = todo]) \in Passes
           /\ PassEnd([p EXCEPT !.todo = todo, !.op = op]) \in Passes
<1>1. ASSUME NEW x \in Passes PROVE PassEnd(x) \in Passes
  <2>1. x.missing \in BOOLEAN /\ IdlePass \in Passes
    BY IdleIs DEF Passes
  <2> QED
    BY <2>1 DEF PassEnd, Passes
<1>2. [p EXCEPT !.todo = todo] \in Passes /\ [p EXCEPT !.todo = todo, !.op = op] \in Passes
  BY DEF Passes
<1> QED
  BY <1>1, <1>2

\* A step in which only the pass moves.
LEMMA PassMoves ==
    ASSUME IInv, pass' \in Passes,
           UNCHANGED <<queueVars, live, runtime, ingest, reactor, scenario, delivered>>
    PROVE  Stepped
<1>1. /\ UNCHANGED queueVars /\ UNCHANGED <<reactor, delivered>>
      /\ UNCHANGED <<live, runtime, ingest, scenario>>
  OBVIOUS
<1>2. /\ live \in Sessions /\ runtime \in Seq(Notices) /\ ingest \in Reports
      /\ scenario \in [bounds : Scenarios, failed : Nat, revived : BOOLEAN,
                       dropped : SUBSET Messages]
  BY DEF IInv, ControlShape
<1> QED
  BY <1>1, <1>2, OutsideSteps

\* The pass reads the thread.
LEMMA ReconcileReadSteps == ASSUME IInv, ReconcileReads PROVE Stepped
<1>1. Reads
  BY ReadsIs
<1> DEFINE todo == <<"discover", "recover">>
           seen == SessionOf(thread)
<1>2. /\ UNCHANGED <<queueVars, live, runtime, ingest, reactor, scenario, delivered>>
      /\ pass' = [pass EXCEPT !.todo = todo, !.seen = seen]
  BY DEF ReconcileReads
<1>3. todo \in Seq(PassSteps) /\ seen \in Views /\ pass \in Passes
  BY <1>1 DEF PassSteps, Reads
<1> HIDE DEF todo, seen
<1>4. pass' \in Passes
  BY <1>2, <1>3 DEF Passes
<1> QED
  BY <1>2, <1>4, PassMoves

\* The pass reads the provider sessions.
LEMMA ReconcileDiscoverSteps == ASSUME IInv, ReconcileDiscovers PROVE Stepped
<1>1. Reads
  BY ReadsIs
<1> DEFINE rest == Tail(pass.todo)
           first == IF live.on \/ pass.missing \/ pass.boot THEN <<"set">> ELSE <<>>
           todo == first \o rest
           set == toReconciledSession(pass.seen, live)
           s == [live EXCEPT !.last = 0]
           missing == ~live.on
<1>2. /\ UNCHANGED <<queueVars, live, runtime, ingest, reactor, scenario, delivered>>
      /\ pass' = [pass EXCEPT !.todo = todo, !.set = set, !.live = s, !.missing = missing]
      /\ pass.todo # <<>>
  BY DEF ReconcileDiscovers, PassDoing
<1>3. pass.todo \in Seq(PassSteps) /\ pass.seen \in Views /\ live \in Sessions /\ pass \in Passes
  BY <1>1 DEF Reads, Passes
<1>4. todo \in Seq(PassSteps)
  <2>1. rest \in Seq(PassSteps)
    BY <1>2, <1>3, TailIs
  <2>2. first \in Seq(PassSteps)
    <3>1. <<>> \in Seq(PassSteps) /\ <<"set">> \in Seq(PassSteps)
      BY DEF PassSteps
    <3> QED
      BY <3>1
  <2> HIDE DEF rest, first
  <2> QED
    BY <2>1, <2>2, Joined
<1>5. set \in Reports
  BY <1>1, <1>3, ReadIs DEF Reads
<1>6. s \in Sessions /\ missing \in BOOLEAN
  BY <1>3 DEF Sessions
<1> HIDE DEF todo, set, s, missing
<1>7. pass' \in Passes
  BY <1>2, <1>3, <1>4, <1>5, <1>6 DEF Passes
<1> QED
  BY <1>2, <1>7, PassMoves

\* The pass decides what becomes of the thread's operation.
LEMMA RecoverSteps == ASSUME IInv, RecoverOperation PROVE Stepped
<1>1. Reads
  BY ReadsIs
<1> DEFINE todo == RecoveryScript(thread, pass.live)
           op == thread.op
<1>2. /\ UNCHANGED <<queueVars, live, runtime, ingest, reactor, scenario, delivered>>
      /\ pass' = PassEnd([pass EXCEPT !.todo = todo, !.op = op])
  BY DEF RecoverOperation
<1>3. op \in Operations /\ pass \in Passes
  BY <1>1 DEF Reads, Threads
<1>4. todo \in {<<>>, <<"superseded">>, <<"complete">>, <<"ambiguous">>,
                <<"consume", "complete">>, <<"failed">>, <<"continue", "complete">>}
  BY DEF RecoveryScript
<1> HIDE DEF todo, op
<1>5. todo \in Seq(PassSteps)
  <2>1. /\ <<>> \in Seq(PassSteps) /\ <<"superseded">> \in Seq(PassSteps)
        /\ <<"complete">> \in Seq(PassSteps) /\ <<"ambiguous">> \in Seq(PassSteps)
        /\ <<"failed">> \in Seq(PassSteps)
    BY DEF PassSteps
  <2>2. <<"consume", "complete">> \in Seq(PassSteps) /\ <<"continue", "complete">> \in Seq(PassSteps)
    BY DEF PassSteps
  <2> QED
    BY <1>4, <2>1, <2>2, Zenon
<1>6. pass' \in Passes
  BY <1>2, <1>3, <1>5, PassEndIs
<1> QED
  BY <1>2, <1>6, PassMoves

\* A step of the pass that only dispatches a command.
LEMMA PassDispatchSteps == ASSUME IInv, PassDispatches PROVE Stepped
<1>1. Reads
  BY ReadsIs
<1> DEFINE step == Head(pass.todo)
           rest == Tail(pass.todo)
           events == ScriptEvents(step, pass)
<1>2. /\ pass.todo # <<>> /\ step \in Scripted /\ CommitTriggering(events)
      /\ pass' = PassEnd([pass EXCEPT !.todo = rest])
      /\ UNCHANGED requests /\ UNCHANGED <<live, runtime, reactor, scenario, delivered>>
      /\ ingest' = ingest
  BY DEF PassDispatches
<1>3. pass \in Passes /\ pass.todo \in Seq(PassSteps) /\ thread \in Threads
      /\ pass.op \in Operations /\ ingest \in Reports
  BY <1>1 DEF Reads, Passes, ControlShape
<1>4. step \in PassSteps /\ rest \in Seq(PassSteps)
  BY <1>2, <1>3, TailIs
<1> HIDE DEF step, rest
<1>5. PICK O : /\ Quiet(events, O)
               /\ \A o \in O : Acknowledged(o) => step = "provider-acknowledged"
  BY <1>2, <1>3, <1>4, ScriptIs
<1>6. \A o \in O : Acknowledged(o) => ReceivedAll(o.reserved)
  BY <1>4, <1>5 DEF PassSteps
<1>7. pass' \in Passes /\ ingest' \in Reports
  BY <1>2, <1>3, <1>4, PassEndIs
<1> HIDE DEF events
<1> QED
  BY <1>2, <1>5, <1>6, <1>7, OthersDispatch

\* The pass flushes what the operation has reserved.
LEMMA PassFlushSteps == ASSUME IInv, PassFlushes PROVE Stepped
<1>1. Reads
  BY ReadsIs
<1> DEFINE kind == IF PassDoing("consume") THEN "consume" ELSE "control"
           events == ReservedFlush(pass.op, kind)
           rest == Tail(pass.todo)
           todo == IF events = <<>> THEN <<>> ELSE rest
<1>2. /\ Commit(events) /\ pass.todo # <<>>
      /\ pass' = PassEnd([pass EXCEPT !.todo = todo])
      /\ UNCHANGED <<offered, requests>>
      /\ UNCHANGED <<live, runtime, ingest, reactor, scenario, delivered>>
  BY DEF PassFlushes, PassDoing
<1>3. pass \in Passes /\ pass.todo \in Seq(PassSteps) /\ pass.op \in Operations
  BY <1>1 DEF Reads, Passes
<1> HIDE DEF kind
<1>4. Requested
  BY <1>1, <1>2, NothingRequested DEF requests, Reads, QueueShape
<1>5. Committed /\ TextSafe /\ HoldSafe /\ thread'.op = thread.op
  BY <1>1, <1>2, <1>3, KeptByReserved DEF Reads, requests
<1>6. Executed
  BY <1>4, <1>5 DEF Executed, OpKept, TextStep, HoldStep
<1>7. todo \in Seq(PassSteps)
  <2>1. rest \in Seq(PassSteps) /\ <<>> \in Seq(PassSteps)
    BY <1>2, <1>3, TailIs
  <2> QED
    BY <2>1
<1> HIDE DEF todo
<1>8. pass' \in Passes
  BY <1>2, <1>3, <1>7, PassEndIs
<1>9. ControlShape'
  BY <1>1, <1>2, <1>8 DEF Reads, ControlShape
<1>10. Keeps(reactor')
  <2>1. Keeps(reactor) /\ reactor' = reactor
    BY <1>2, SameKeeps
  <2> QED
    BY <2>1
<1> QED
  BY <1>2, <1>6, <1>9, <1>10, StepsWith

\* What users do, and a lifecycle flush.
LEMMA UserSteps ==
    ASSUME IInv, \/ UserStep /\ UNCHANGED controlVars
                 \/ LifecycleFlush /\ UNCHANGED controlVars
                 \/ StopStep
    PROVE  Stepped
<1>1. Reads
  BY ReadsIs
<1>2. scenario.bounds \in Scenarios
  BY <1>1 DEF Reads, ControlShape
<1>3. Executed
  BY <1>1, <1>2, UsersExecute, LifecycleExecutes, StopExecutes DEF Reads, StopStep
<1>4. /\ UNCHANGED <<live, runtime, ingest, reactor, pass, delivered>>
      /\ scenario' = scenario
           \/ scenario' = [scenario EXCEPT !.dropped = @ \cup Steering(thread)]
  BY DEF controlVars, StopStep
<1>5. Steering(thread) \subseteq Messages
  <2>1. \A id \in Ids : ToSet(TextOf(thread, id)) \subseteq Messages
    <3>1. TranscriptInv(thread.messages, submitted) /\ submitted \subseteq Messages
      BY <1>1 DEF Reads, Core, CoreInv
    <3>2. ASSUME NEW id \in Ids PROVE ToSet(TextOf(thread, id)) \subseteq Messages
      <4>1. CASE Sent(thread, id)
        <5>1. PICK x \in thread.messages : x.id = id
          BY <4>1 DEF Sent
        <5>2. TextOf(thread, x.id) = x.text
          BY <3>1, TextIs
        <5>3. ToSet(x.text) \subseteq submitted
          BY <3>1 DEF TranscriptInv
        <5> QED
          BY <3>1, <5>1, <5>2, <5>3
      <4>2. CASE ~Sent(thread, id)
        <5>1. TextOf(thread, id) = id
          BY <4>2 DEF TextOf
        <5>2. id \in Seq(Messages)
          BY DEF Ids
        <5>3. DOMAIN id = 1..Len(id) /\ \A k \in 1..Len(id) : id[k] \in Messages
          BY <5>2
        <5> QED
          BY <5>1, <5>3 DEF ToSet
      <4> QED
        BY <4>1, <4>2
    <3> QED
      BY <3>2
  <2>2. ToSet(thread.op.reserved) \subseteq Ids
    <3> DEFINE ids == thread.op.reserved
    <3>1. ids \in Seq(Ids)
      BY <1>1 DEF Reads, Threads, Operations
    <3> HIDE DEF ids
    <3>2. DOMAIN ids = 1..Len(ids) /\ \A k \in 1..Len(ids) : ids[k] \in Ids
      BY <3>1
    <3> QED
      BY <3>2 DEF ToSet, ids
  <2> QED
    BY <2>1, <2>2 DEF Steering
<1>6. /\ scenario' \in [bounds : Scenarios, failed : Nat, revived : BOOLEAN,
                        dropped : SUBSET Messages]
      /\ scenario'.revived = scenario.revived
  <2> DEFINE more == Steering(thread)
             Histories == [bounds : Scenarios, failed : Nat, revived : BOOLEAN,
                           dropped : SUBSET Messages]
  <2>1. scenario \in Histories /\ more \subseteq Messages
    BY <1>1, <1>5 DEF Reads, ControlShape
  <2> HIDE DEF more
  <2>2. ASSUME scenario' = [scenario EXCEPT !.dropped = @ \cup more]
        PROVE  scenario' \in Histories /\ scenario'.revived = scenario.revived
    BY <2>1, <2>2
  <2> QED
    BY <1>4, <2>1, <2>2 DEF more
<1>7. ControlShape'
  BY <1>1, <1>4, <1>6 DEF Reads, ControlShape
<1>8. Keeps(reactor')
  <2>1. Keeps(reactor) /\ reactor' = reactor
    BY <1>4, SameKeeps
  <2> QED
    BY <2>1
<1> QED
  BY <1>3, <1>4, <1>6, <1>7, <1>8, StepsWith

\* The thread that the next process of the server reads.
LEMMA ReloadedIs ==
    ASSUME thread \in Threads, stored \in Controls
    PROVE  /\ Reloaded \in Threads
           /\ Reloaded.queue = thread.queue /\ Reloaded.messages = thread.messages
           /\ Reloaded.hold = stored.hold /\ Reloaded.intent = stored.intent
           /\ Reloaded.op = thread.op
<1> DEFINE t == [thread EXCEPT !.hold = stored.hold, !.intent = stored.intent]
           u == [t EXCEPT !.status = "stopped", !.turn = 0, !.start = NoStart]
<1>1. stored.hold \in BOOLEAN /\ stored.intent \in Intents /\ NoStart \in Starting
  BY Nothing DEF Controls
<1>2. /\ t \in Threads
      /\ t.queue = thread.queue /\ t.messages = thread.messages /\ t.op = thread.op
      /\ t.hold = stored.hold /\ t.intent = stored.intent
  BY <1>1 DEF Threads
<1>3. Reloaded = IF t.start = NoStart THEN t ELSE u
  BY DEF Reloaded
<1> HIDE DEF t
<1>4. "stopped" \in Statuses /\ 0 \in Nat
  BY DEF Statuses
<1>5. /\ u \in Threads
      /\ u.queue = t.queue /\ u.messages = t.messages /\ u.op = t.op
      /\ u.hold = t.hold /\ u.intent = t.intent
  BY <1>1, <1>2, <1>4 DEF Threads
<1> HIDE DEF u
<1> QED
  BY <1>2, <1>3, <1>5

\* The server restarts.
LEMMA RestartSteps == ASSUME IInv, Restart PROVE Stepped
<1>1. Reads
  BY ReadsIs
<1>2. /\ thread' = Reloaded /\ offered' = Offer(Reloaded, <<>>) /\ inbox' = <<>>
      /\ UNCHANGED <<stored, requests, delivered>>
      /\ runtime' = <<>> /\ ingest' = NoSet /\ reactor' = IdleReactor
      /\ pass' = [IdlePass EXCEPT !.boot = TRUE]
      /\ live' \in {live, Ended(live)}
  BY DEF Restart, ReloadQueue
<1>3. thread \in Threads /\ stored \in Controls /\ inbox \in Seq(Handled)
      /\ submitted \subseteq Messages /\ ops \in Nat
  BY <1>1 DEF Reads, QueueShape
<1>4. /\ thread' \in Threads /\ thread'.queue = thread.queue
      /\ thread'.messages = thread.messages /\ thread'.hold = stored.hold
      /\ thread'.intent = stored.intent /\ thread'.op = thread.op
  BY <1>2, <1>3, ReloadedIs
<1>5. stored' \in Controls /\ HoldIsStored'
  BY <1>2, <1>3, <1>4 DEF HoldIsStored
<1>6. inbox' \in Seq(Handled) /\ Fewer(inbox, inbox')
  BY <1>2, <1>3, FewerStarts
<1>7. Requested
  <2>1. <<>> \in Seq(Seq(Prompts))
    OBVIOUS
  <2>2. Offer(Reloaded, <<>>) \in Seq(Seq(Prompts))
    BY <1>2, <1>4, <2>1, OfferIs
  <2> QED
    BY <1>2, <1>3, <2>2 DEF Requested, requests
<1>8. Hand' = {}
  <2>1. ToSet(IdleReactor.todo) = {}
    BY ToSets DEF IdleReactor
  <2> QED
    BY <1>2, <2>1 DEF Hand
<1>9. Core'
  <2>1. Core /\ delivered \in Deliveries
    BY <1>1 DEF Reads, ControlShape
  <2>2. Thins(thread.queue, thread.queue)
    BY <1>3, ThinsSelf DEF Threads
  <2>3. CoreInv(thread.queue, thread.messages, submitted, inbox', {}, delivered)
    BY <1>6, <2>1, <2>2, KeepsCore DEF Core
  <2>4. CoreInv(thread'.queue, thread'.messages, submitted', inbox', Hand', delivered')
    BY <1>2, <1>4, <1>8, <2>3 DEF requests
  <2> QED
    BY <2>4 DEF Core
<1>10. RequeueInv' /\ ("provider-acknowledged" \in ToSet(reactor.todo) =>
                          ReceivedAll(reactor.op.reserved))'
  <2>1. ToSet(reactor'.todo) = {}
    BY <1>2, ToSets DEF IdleReactor
  <2> QED
    BY <2>1 DEF RequeueInv
<1>11. ControlShape'
  <2>1. live' \in Sessions
    BY <1>1, <1>2, EndedIs DEF Reads
  <2>2. runtime' \in Seq(Notices) /\ ingest' \in Reports /\ reactor' \in Reactors
    BY <1>2, Nothing, IdleIs
  <2>3. pass' \in Passes
    BY <1>2, IdleIs DEF Passes
  <2>4. scenario' \in [bounds : Scenarios, failed : Nat, revived : BOOLEAN,
                       dropped : SUBSET Messages]
    <3> DEFINE more == scenario.failed + 1
               back == scenario.revived \/ stored.intent # thread.intent
               Histories == [bounds : Scenarios, failed : Nat, revived : BOOLEAN,
                             dropped : SUBSET Messages]
    <3>1. scenario' = [scenario EXCEPT !.failed = more, !.revived = back]
      BY DEF Restart
    <3>2. scenario \in Histories /\ back \in BOOLEAN
      BY <1>1 DEF Reads, ControlShape
    <3>3. more \in Nat
      BY <3>2
    <3> HIDE DEF more, back
    <3> QED
      BY <3>1, <3>2, <3>3
  <2>5. delivered' \in Deliveries
    BY <1>1, <1>2 DEF Reads, ControlShape
  <2> QED
    BY <2>1, <2>2, <2>3, <2>4, <2>5 DEF ControlShape
<1>12. OpKept
  BY <1>4 DEF OpKept
<1>13. TextStep
  <2>1. TextsKept
    BY <1>4 DEF TextsKept, QueuedIn
  <2> QED
    BY <2>1 DEF TextStep, TextSafe
<1>14. HoldStep
  BY <1>4 DEF HoldStep, HoldSafe, HoldIsStored, IInv
<1>15. IntentIsPrefix => IntentIsPrefix'
  <2>1. scenario \in [bounds : Scenarios, failed : Nat, revived : BOOLEAN,
                      dropped : SUBSET Messages]
    BY <1>1 DEF Reads, ControlShape
  <2>2. scenario'.revived <=> scenario.revived \/ stored.intent # thread.intent
    BY <2>1 DEF Restart
  <2>3. \A ids : exactQueuedPrefix(thread, ids) = exactQueuedPrefix(thread', ids)
    BY <1>4 DEF exactQueuedPrefix
  <2> QED
    BY <1>4, <2>2, <2>3 DEF IntentIsPrefix
<1>16. Received \subseteq Received'
  BY <1>2 DEF Received
<1> QED
  BY <1>4, <1>5, <1>6, <1>7, <1>9, <1>10, <1>11, <1>12, <1>13, <1>14, <1>15, <1>16, StepsBy

\* A step that changes nothing.
LEMMA StutterSteps == ASSUME IInv, UNCHANGED vars PROVE Stepped
<1>1. Keeps(reactor) /\ reactor' = reactor
  BY SameKeeps DEF vars, controlVars
<1>2. Keeps(reactor')
  BY <1>1
<1>3. UNCHANGED <<queueVars, live, runtime, ingest, pass, scenario, delivered>>
  BY DEF vars, controlVars
<1> QED
  BY <1>2, <1>3, ReactorThinks

\* Every step keeps the invariant.
LEMMA NextKeeps == ASSUME IInv, [Next]_vars PROVE Stepped
<1>1. CASE UserStep /\ ops' <= scenario.bounds.ops /\ UNCHANGED controlVars
  BY <1>1, UserSteps
<1>2. CASE StopStep /\ ops' <= scenario.bounds.ops
  BY <1>2, UserSteps
<1>3. CASE LifecycleFlush /\ UNCHANGED controlVars
  BY <1>3, UserSteps
<1>4. CASE ReactorStep
  BY <1>4, ReactorKeeps
<1>5. CASE ProviderCompletes \/ ProviderExits
  BY <1>5, ProviderSteps
<1>6. CASE IngestStep
  BY <1>6, IngestReadSteps, IngestDispatchSteps DEF IngestStep
<1>7. CASE PassStep
  BY <1>7, ReconcileReadSteps, ReconcileDiscoverSteps, RecoverSteps, PassDispatchSteps,
     PassFlushSteps DEF PassStep
<1>8. CASE WatchdogFails
  BY <1>8, WatchdogSteps
<1>9. CASE Restart
  BY <1>9, RestartSteps
<1>10. CASE UNCHANGED vars
  BY <1>10, StutterSteps
<1> QED
  BY <1>1, <1>2, <1>3, <1>4, <1>5, <1>6, <1>7, <1>8, <1>9, <1>10 DEF Next

-----------------------------------------------------------------------------
(***************************************************************************)
(* The theorems.                                                           *)
(***************************************************************************)

\* The initial states satisfy the invariant.
LEMMA InitHolds == ASSUME Init PROVE IInv
<1> USE DEF Init, QueueInit
<1>1. /\ thread = EmptyThread /\ stored = [hold |-> FALSE, intent |-> NoIntent]
      /\ offered = <<>> /\ inbox = <<>> /\ ops = 0
  BY DEF EmptyThread
<1>2. submitted = {}
  BY DEF ToSet
<1>3. /\ thread \in Threads /\ thread.queue = <<>> /\ thread.messages = {}
      /\ thread.hold = FALSE /\ thread.intent = NoIntent /\ thread.op = NoOp
  BY <1>1, Nothing DEF EmptyThread
<1>4. QueueShape
  <2>1. stored \in Controls
    BY <1>1, Nothing DEF Controls
  <2>2. offered \in Seq(Seq(Prompts)) /\ inbox \in Seq(Handled)
    BY <1>1
  <2> QED
    BY <1>1, <1>2, <1>3, <2>1, <2>2 DEF QueueShape
<1>5. delivered \in Deliveries /\ \A m \in Messages : delivered[m].starts = 0
  BY DEF Deliveries
<1>6. ControlShape
  <2>1. scenario \in [bounds : Scenarios, failed : Nat, revived : BOOLEAN,
                      dropped : SUBSET Messages]
    <3>1. scenario \in [bounds : Scenarios, failed : {0}, revived : {FALSE}, dropped : {{}}]
      BY DEF Init
    <3>2. PICK b \in Scenarios :
             scenario = [bounds |-> b, failed |-> 0, revived |-> FALSE, dropped |-> {}]
      BY <3>1
    <3> QED
      BY <3>2
  <2>2. reactor \in Reactors /\ pass \in Passes
    BY IdleIs
  <2>3. live \in Sessions /\ ingest \in Reports /\ runtime \in Seq(Notices)
    BY Nothing
  <2> QED
    BY <1>5, <2>1, <2>2, <2>3 DEF ControlShape
<1>7. ToSet(reactor.todo) = {}
  BY ToSets DEF IdleReactor
<1>8. Core
  <2>1. Hand = {}
    BY <1>7 DEF Hand
  <2>2. Counted(<<>>) <= MAX_QUEUED_PROMPTS
    <3> DEFINE none == <<>>
    <3>1. none \in Seq(Prompts) /\ Len(none) = 0
      OBVIOUS
    <3> HIDE DEF none
    <3>2. {k \in 1..Len(none) : ~none[k].sent} = {}
      BY <3>1
    <3>3. Counted(none) = Cardinality({})
      BY <3>1, <3>2, CountedIs
    <3> QED
      BY <3>3, FS_EmptySet, PromptAssumption DEF none
  <2>3. QueuedInv(<<>>, {}, {})
    BY <2>2 DEF QueuedInv
  <2>4. TranscriptInv({}, {})
    BY DEF TranscriptInv
  <2>5. StartsIn(<<>>) = {}
    BY DEF StartsIn
  <2>6. OnceInv(<<>>, {}, <<>>, {})
    BY <2>5 DEF OnceInv
  <2>7. StartedInv(<<>>, {}, <<>>, {}, delivered)
    BY <1>5 DEF StartedInv
  <2>8. CoreInv(<<>>, {}, {}, <<>>, {}, delivered)
    BY <1>5, <2>3, <2>4, <2>6, <2>7 DEF CoreInv
  <2> QED
    BY <1>1, <1>2, <1>3, <2>1, <2>8 DEF Core
<1>9. RequeueInv /\ HoldIsStored /\ IntentIsPrefix
  BY <1>1, <1>3, <1>7 DEF RequeueInv, HoldIsStored, IntentIsPrefix
<1>10. SteeredInv
  BY <1>3, <1>7 DEF SteeredInv, Acknowledged, NoOp
<1> QED
  BY <1>4, <1>6, <1>8, <1>9, <1>10 DEF IInv

\* Every state that can be reached satisfies the invariant.
THEOREM InvariantHolds == Spec => []IInv
<1>1. Init => IInv
  BY InitHolds
<1>2. IInv /\ [Next]_vars => IInv'
  BY NextKeeps DEF Stepped
<1> QED
  BY <1>1, <1>2, PTL DEF Spec

\* Every value is of its kind, no two queued prompts have the same id, and
\* those that count are within the bound.
THEOREM TypeCorrect == Spec => []TypeOK
<1>1. IInv => TypeOK
  <2> SUFFICES ASSUME IInv PROVE TypeOK
    OBVIOUS
  <2>1. thread \in Threads /\ delivered \in Deliveries
    BY DEF IInv, QueueShape, ControlShape
  <2>2. QueuedInv(thread.queue, thread.messages, submitted)
    BY DEF IInv, Core, CoreInv
  <2>3. thread.queue \in Seq(Prompts) /\ thread.status \in Statuses
    BY <2>1 DEF Threads
  <2>4. DOMAIN thread.queue = 1..Len(thread.queue)
    BY <2>3
  <2> QED
    BY <2>1, <2>2, <2>3, <2>4 DEF TypeOK, QueuedInv, Statuses, Deliveries
<1> QED
  BY <1>1, InvariantHolds, PTL

\* A message that needs a turn of its own never shares one.
THEOREM SoloMessagesAlone == Spec => []SoloAlone
<1>1. IInv => SoloAlone
  BY DEF IInv, Core, CoreInv, TranscriptInv, SoloAlone
<1> QED
  BY <1>1, InvariantHolds, PTL

\* What an interrupt has captured stays the head of the queue.
THEOREM CapturedStaysHead == Spec => []IntentIsPrefix
<1>1. IInv => IntentIsPrefix
  BY DEF IInv
<1> QED
  BY <1>1, InvariantHolds, PTL

\* No message starts two turns.
THEOREM MessagesStartOnce == Spec => []StartedOnce
<1>1. IInv => StartedOnce
  BY DEF IInv, Core, CoreInv, StartedInv, StartedOnce
<1> QED
  BY <1>1, InvariantHolds, PTL

\* The invariants of the queue together, as the run checks them.
THEOREM QueueInvariant == Spec => []QueueInv
<1>1. TypeOK /\ SoloAlone /\ IntentIsPrefix /\ StartedOnce => QueueInv
  BY DEF QueueInv
<1> QED
  BY <1>1, TypeCorrect, SoloMessagesAlone, CapturedStaysHead, MessagesStartOnce, PTL

\* What a thread carries: the text of its transcript, and the messages that
\* are queued for the first time.
LEMMA CarriedIs ==
    ASSUME NEW t, NEW S, t.queue \in Seq(Prompts),
           TranscriptInv(t.messages, S), QueuedInv(t.queue, t.messages, S)
    PROVE  \A m : m \in Carried(t) <=> TextIn(t.messages, m) \/ QueuedIn(t.queue, <<m>>)
<1> DEFINE Q == t.queue
           Text(k) == ToSet(TextOf(t, Q[k].id))
<1>1. DOMAIN Q = 1..Len(Q)
  OBVIOUS
<1>2. \A m : m \in Carried(t) <=> (\E k \in 1..Len(Q) : m \in Text(k)) \/ TextIn(t.messages, m)
  <2> DEFINE waiting == UNION {Text(k) : k \in 1..Len(Q)}
             told == UNION {ToSet(x.text) : x \in t.messages}
  <2>1. Carried(t) = waiting \cup told
    BY <1>1 DEF Carried
  <2>2. \A m : m \in told <=> TextIn(t.messages, m)
    BY DEF TextIn
  <2> HIDE DEF Text
  <2>3. \A m : m \in waiting <=> \E k \in 1..Len(Q) : m \in Text(k)
    OBVIOUS
  <2> HIDE DEF waiting, told
  <2> QED
    BY <2>1, <2>2, <2>3
<1>3. ASSUME NEW k \in 1..Len(Q), Q[k].sent
      PROVE  \A m : m \in Text(k) => TextIn(t.messages, m)
  <2>1. PICK x \in t.messages : x.id = Q[k].id
    BY <1>3 DEF QueuedInv, SentIn
  <2>2. TextOf(t, x.id) = x.text
    BY TextIs
  <2> QED
    BY <2>1, <2>2 DEF TextIn
<1>4. ASSUME NEW k \in 1..Len(Q), ~Q[k].sent
      PROVE  \E m : Q[k].id = <<m>> /\ Text(k) = {m}
  <2>1. PICK m : Q[k].id = <<m>> /\ ~TextIn(t.messages, m)
    BY <1>4 DEF QueuedInv
  <2>2. TextOf(t, <<m>>) = <<m>>
    BY <2>1, FreshText
  <2> QED
    BY <2>1, <2>2, ToSets
<1>5. ASSUME NEW m, NEW k \in 1..Len(Q), m \in Text(k)
      PROVE  TextIn(t.messages, m) \/ QueuedIn(Q, <<m>>)
  BY <1>3, <1>4, <1>5 DEF QueuedIn
<1>6. ASSUME NEW m, NEW k \in 1..Len(Q), Q[k].id = <<m>>
      PROVE  m \in Text(k) \/ TextIn(t.messages, m)
  <2>1. CASE Q[k].sent
    <3>1. PICK x \in t.messages : x.id = <<m>>
      BY <1>6, <2>1 DEF QueuedInv, SentIn
    <3>2. m \in ToSet(x.id)
      BY <3>1, ToSets
    <3>3. m \in ToSet(x.text)
      BY <3>2 DEF TranscriptInv
    <3> QED
      BY <3>3 DEF TextIn
  <2>2. CASE ~Q[k].sent
    <3>1. PICK n : Q[k].id = <<n>> /\ Text(k) = {n}
      BY <1>4, <2>2
    <3>2. n = m
      BY <1>6, <3>1
    <3> QED
      BY <3>1, <3>2
  <2> QED
    BY <2>1, <2>2
<1> HIDE DEF Text
<1> QED
  BY <1>2, <1>5, <1>6 DEF QueuedIn

\* A step whose texts are safe keeps every message.
LEMMA TextsCarried ==
    ASSUME IInv, IInv', TextSafe
    PROVE  Carried(thread) \subseteq Carried(thread') \cup Received
<1>1. \A m : m \in Carried(thread) <=>
                TextIn(thread.messages, m) \/ QueuedIn(thread.queue, <<m>>)
  <2>1. /\ thread.queue \in Seq(Prompts) /\ TranscriptInv(thread.messages, submitted)
        /\ QueuedInv(thread.queue, thread.messages, submitted)
    BY DEF IInv, Core, CoreInv
  <2> QED
    BY <2>1, CarriedIs
<1>2. \A m : m \in Carried(thread') <=>
                TextIn(thread'.messages, m) \/ QueuedIn(thread'.queue, <<m>>)
  <2>1. /\ thread'.queue \in Seq(Prompts) /\ TranscriptInv(thread'.messages, submitted')
        /\ QueuedInv(thread'.queue, thread'.messages, submitted')
    BY DEF IInv, Core, CoreInv
  <2> QED
    BY <2>1, CarriedIs
<1>3. \A k \in 1..Len(thread.queue) :
         thread.queue[k].sent => SentIn(thread.messages, thread.queue[k].id)
  BY DEF IInv, Core, CoreInv, QueuedInv
<1>4. \A m : SentIn(thread.messages, <<m>>) => TextIn(thread.messages, m)
  <2>1. ASSUME NEW m, NEW x \in thread.messages, x.id = <<m>> PROVE m \in ToSet(x.text)
    <3>1. m \in ToSet(x.id)
      BY <2>1, ToSets
    <3> QED
      BY <3>1 DEF IInv, Core, CoreInv, TranscriptInv
  <2> QED
    BY <2>1 DEF SentIn, TextIn
<1>5. CASE TextsKept
  <2>1. \A m : TextIn(thread.messages, m) => TextIn(thread'.messages, m)
    BY <1>5 DEF TextsKept, TextIn
  <2>2. ASSUME NEW m, NEW k \in 1..Len(thread.queue), thread.queue[k].id = <<m>>,
               ~thread.queue[k].sent
        PROVE  TextIn(thread'.messages, m) \/ QueuedIn(thread'.queue, <<m>>)
    <3>1. CASE QueuedIn(thread'.queue, thread.queue[k].id)
      BY <2>2, <3>1
    <3>2. CASE \E n : thread.queue[k].id = <<n>> /\ TextIn(thread'.messages, n)
      <4>1. PICK n : <<m>> = <<n>> /\ TextIn(thread'.messages, n)
        BY <2>2, <3>2
      <4>2. m = n
        BY <4>1
      <4> QED
        BY <4>1, <4>2
    <3> QED
      BY <1>5, <2>2, <3>1, <3>2 DEF TextsKept
  <2>3. \A m : QueuedIn(thread.queue, <<m>>) =>
                  TextIn(thread'.messages, m) \/ QueuedIn(thread'.queue, <<m>>)
    BY <1>3, <1>4, <2>1, <2>2 DEF QueuedIn
  <2> QED
    BY <1>1, <1>2, <2>1, <2>3
<1>6. CASE ~TextsKept
  <2>1. /\ Acknowledged(thread.op) /\ thread'.messages = thread.messages
        /\ \A k \in 1..Len(thread.queue) :
              \/ QueuedIn(thread'.queue, thread.queue[k].id)
              \/ thread.queue[k].id \in ToSet(thread.op.reserved)
    BY <1>6 DEF TextSafe
  <2>2. ReceivedAll(thread.op.reserved)
    BY <2>1 DEF IInv, SteeredInv
  <2>3. \A m : <<m>> \in ToSet(thread.op.reserved) => m \in Received
    BY <2>2, ToSets DEF ReceivedAll
  <2>4. \A m : QueuedIn(thread.queue, <<m>>) =>
                  QueuedIn(thread'.queue, <<m>>) \/ m \in Received
    BY <2>1, <2>3 DEF QueuedIn
  <2> QED
    BY <1>1, <1>2, <2>1, <2>4
<1> QED
  BY <1>5, <1>6

\* A message leaves the queue only for the transcript or for the provider,
\* unless its user removes it.
THEOREM MessagesKept == Spec => KeepsMessages
<1>1. IInv /\ [Next]_vars =>
         [\/ Carried(thread) \subseteq Carried(thread') \cup Received
          \/ \E i \in DOMAIN thread.queue : RemovePrompt(i)]_vars
  <2>1. ASSUME IInv, [Next]_vars
        PROVE  \/ Carried(thread) \subseteq Carried(thread') \cup Received
               \/ \E i \in DOMAIN thread.queue : RemovePrompt(i)
    <3>1. IInv' /\ TextStep
      BY <2>1, NextKeeps DEF Stepped
    <3> QED
      BY <2>1, <3>1, TextsCarried DEF TextStep
  <2> QED
    BY <2>1
<1> QED
  BY <1>1, InvariantHolds, PTL DEF Spec, KeepsMessages

\* The hold that Stop puts on a queue with prompts is lifted only by sending
\* some of them, or by a turn that starts past the queue.
THEOREM HoldsUntilSent == Spec => HeldUntilSent
<1>1. IInv /\ [Next]_vars =>
         [thread.hold /\ ~thread'.hold /\ thread.queue # <<>>
            => \/ Len(thread'.queue) < Len(thread.queue)
               \/ \E m \in Messages : StartDirectly(m)]_vars
  BY NextKeeps DEF Stepped, HoldStep, HoldSafe
<1> QED
  BY <1>1, InvariantHolds, PTL DEF Spec, HeldUntilSent
=============================================================================
