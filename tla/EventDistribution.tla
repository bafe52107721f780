------------------------- MODULE EventDistribution -------------------------
(***************************************************************************)
(* How committed events reach those who follow the log while it is being   *)
(* shortened.  Reactors read SQLite page by page whenever a conflated      *)
(* wake-up tells them that something was published.  Desktop clients get   *)
(* the published events through a bounded capture, mobile clients through  *)
(* a bounded queue fed by a general stream; both merge them with a replay  *)
(* into an ordered stream.                                                 *)
(***************************************************************************)
EXTENDS EventLog

CONSTANTS
    Reactors,         \* consumers of streamDomainEvents
    Mobile,           \* ordered streams over a general stream
    Desktop,          \* ordered streams over a delivery capture
    LiveCapacity,     \* Queue.bounded of a mobile stream
    CaptureCapacity,  \* nonBlockingLiveCapacity
    PendingCapacity,  \* ORDERED_ORCHESTRATION_PENDING_CAPACITY
    StorageFaults,    \* whether a read of SQLite may fail
    MaxFollowers      \* bound on the followers that ever open

Streams == Reactors \cup Mobile
Clients == Mobile \cup Desktop

ASSUME FollowersAssumption ==
    /\ Reactors \cap Mobile = {} /\ Streams \cap Desktop = {}
ASSUME CapacityAssumption ==
    /\ LiveCapacity \in Nat \ {0} /\ CaptureCapacity \in Nat \ {0}
    /\ PendingCapacity \in Nat /\ StorageFaults \in BOOLEAN
    /\ MaxFollowers \in Nat

VARIABLES
    installed,  \* readModel.snapshotSequence
    published,  \* the last event handed to publish
    rpc,        \* where each general stream is
    cursor,     \* its cursor in the log
    wake,       \* the slot of the sliding PubSub
    page,       \* events read and not yet given to the consumer
    more,       \* whether the page was not complete
    got,        \* the last event the consumer got (at first: the cursor)
    openedAt,   \* the cursor it started from
    cpc,        \* where each ordered stream is
    live,       \* its queue of live events
    overflowed, \* its capture overflowed
    next,       \* nextSequence
    replay,     \* replay events not yet merged
    pending     \* pendingBySequence

worker == <<installed, published>>
readers == <<rpc, cursor, wake, page, more, got, openedAt>>
clients == <<cpc, live, overflowed, next, replay, pending>>
vars == <<logVars, worker, readers, clients>>

TypeOK ==
    /\ LogTypeOK
    /\ installed \in Nat /\ published \in Nat
    /\ rpc \in [Streams -> {"off", "opened", "waiting", "reading", "emitting", "dead"}]
    /\ cursor \in [Streams -> Nat] /\ wake \in [Streams -> BOOLEAN]
    /\ page \in [Streams -> SUBSET Nat] /\ more \in [Streams -> BOOLEAN]
    /\ got \in [Streams -> Nat] /\ openedAt \in [Streams -> Nat]
    /\ cpc \in [Clients -> {"off", "captured", "snapshotted", "streaming", "dead"}]
    /\ live \in [Clients -> Seq(Nat)] /\ overflowed \in [Clients -> BOOLEAN]
    /\ next \in [Clients -> Nat]
    /\ replay \in [Clients -> SUBSET Nat] /\ pending \in [Clients -> SUBSET Nat]

Init ==
    /\ LogInit
    /\ installed = 0 /\ published = 0
    /\ rpc = [r \in Streams |-> "off"] /\ cursor = [r \in Streams |-> 0]
    /\ wake = [r \in Streams |-> FALSE] /\ page = [r \in Streams |-> {}]
    /\ more = [r \in Streams |-> FALSE] /\ got = [r \in Streams |-> 0]
    /\ openedAt = [r \in Streams |-> 0]
    /\ cpc = [c \in Clients |-> "off"] /\ live = [c \in Clients |-> << >>]
    /\ overflowed = [c \in Clients |-> FALSE] /\ next = [c \in Clients |-> 1]
    /\ replay = [c \in Clients |-> {}] /\ pending = [c \in Clients |-> {}]

-----------------------------------------------------------------------------
(* The engine's worker: one command at a time (see CommandEngine)          *)

Commit(t, n, D) ==
    /\ published = Len(assigned)
    /\ AppendEvents(t, n, D)
    /\ UNCHANGED <<worker, readers, clients>>

\* setReadModel
Install ==
    /\ installed < Len(assigned) /\ installed' = Len(assigned)
    /\ UNCHANGED <<logVars, published, readers, clients>>

\* A capture that is registered with the hub.
Captured(c) == c \in Desktop /\ cpc[c] \notin {"off", "dead"} /\ ~overflowed[c]

\* Mutant: a full capture drops the event and carries on.
OverflowsNever(c) == FALSE

\* publishToCapture: the dropping queue refuses the event.
Overflows(c) == Len(live[c]) >= CaptureCapacity

\* publish: wake the general streams, then offer to every capture; a capture that
\* overflows is taken out and its queue shut down.
Publish ==
    /\ published < installed
    /\ LET e == published + 1 IN
       /\ published' = e
       /\ wake' = [r \in Streams |-> wake[r] \/ rpc[r] \notin {"off", "opened", "dead"}]
       /\ live' = [c \in Clients |->
                     IF ~Captured(c) THEN live[c]
                     ELSE IF Overflows(c) THEN << >>
                     ELSE IF Len(live[c]) < CaptureCapacity THEN Append(live[c], e) ELSE live[c]]
       /\ overflowed' = [c \in Clients |-> overflowed[c] \/ (Captured(c) /\ Overflows(c))]
    /\ UNCHANGED <<logVars, installed, rpc, cursor, page, more, got, openedAt,
                   cpc, next, replay, pending>>

\* Baselines, pruning after the deletion was answered, and compaction.
Maintenance ==
    /\ \/ \E s \in 1..MaxLog : MarkVerified(s)
       \/ \E t \in Threads : deletedAt[t] <= published /\ PruneThread(t)
       \/ CompactPrefix \/ CompactDone
    /\ UNCHANGED <<worker, readers, clients>>

-----------------------------------------------------------------------------
(* General streams                                                         *)

\* Followers come and go on their own; the bound keeps the instance small.
MayOpen ==
    Cardinality({r \in Reactors : rpc[r] # "off"} \cup {c \in Clients : cpc[c] # "off"})
       < MaxFollowers

\* streamGeneral starts: the cursor is the read model's sequence.
OpenStream(r) ==
    /\ rpc[r] = "off" /\ (IF r \in Mobile THEN cpc[r] # "off" ELSE MayOpen)
    /\ rpc' = [rpc EXCEPT ![r] = "opened"]
    /\ cursor' = [cursor EXCEPT ![r] = installed]
    /\ got' = [got EXCEPT ![r] = installed]
    /\ openedAt' = [openedAt EXCEPT ![r] = installed]
    /\ UNCHANGED <<logVars, worker, wake, page, more, clients>>

\* Mutant: a late subscriber is not given the last wake-up.
ReplayedWakeNone == FALSE

\* PubSub with replay 1: the last wake-up is waiting for a late subscriber.
ReplayedWake == published > 0

Subscribe(r) ==
    /\ rpc[r] = "opened"
    /\ rpc' = [rpc EXCEPT ![r] = "waiting"]
    /\ wake' = [wake EXCEPT ![r] = ReplayedWake]
    /\ UNCHANGED <<logVars, worker, cursor, page, more, got, openedAt, clients>>

TakeWake(r) ==
    /\ rpc[r] = "waiting" /\ wake[r]
    /\ rpc' = [rpc EXCEPT ![r] = "reading"]
    /\ wake' = [wake EXCEPT ![r] = FALSE]
    /\ UNCHANGED <<logVars, worker, cursor, page, more, got, openedAt, clients>>

\* A page of readReplay; a gap is a defect that ends the stream.
ReadPage(r) ==
    /\ rpc[r] = "reading"
    /\ \/ /\ Available(cursor[r])
          /\ rpc' = [rpc EXCEPT ![r] = "emitting"]
          /\ page' = [page EXCEPT ![r] = Page(cursor[r])]
          /\ more' = [more EXCEPT ![r] = ~Complete(cursor[r]) /\ Page(cursor[r]) # {}]
          /\ cursor' = [cursor EXCEPT ![r] = Max(Page(cursor[r]) \cup {cursor[r]})]
       \/ /\ ~Available(cursor[r]) \/ StorageFaults
          /\ rpc' = [rpc EXCEPT ![r] = "dead"]
          /\ UNCHANGED <<page, more, cursor>>
    /\ UNCHANGED <<logVars, worker, wake, got, openedAt, clients>>

\* The consumer takes the next event of the page; a mobile consumer waits for room.
Emit(r) ==
    /\ rpc[r] = "emitting" /\ page[r] # {}
    /\ got' = [got EXCEPT ![r] = Min(page[r])]
    /\ page' = [page EXCEPT ![r] = @ \ {Min(page[r])}]
    /\ IF r \in Mobile
       THEN /\ Len(live[r]) < LiveCapacity
            /\ live' = [live EXCEPT ![r] = Append(@, Min(page[r]))]
       ELSE UNCHANGED live
    /\ UNCHANGED <<logVars, worker, rpc, cursor, wake, more, openedAt,
                   cpc, overflowed, next, replay, pending>>

\* Mutant: an incomplete page is not followed by the next one.
PageDoneStops(r) ==
    /\ rpc[r] = "emitting" /\ page[r] = {}
    /\ rpc' = [rpc EXCEPT ![r] = "waiting"]
    /\ UNCHANGED <<logVars, worker, cursor, wake, page, more, got, openedAt, clients>>

PageDone(r) ==
    /\ rpc[r] = "emitting" /\ page[r] = {}
    /\ rpc' = [rpc EXCEPT ![r] = IF more[r] THEN "reading" ELSE "waiting"]
    /\ UNCHANGED <<logVars, worker, cursor, wake, page, more, got, openedAt, clients>>

-----------------------------------------------------------------------------
(* Ordered client streams                                                  *)

\* The scope of an ordered stream closes, with its capture or its queue and forked fiber.
End(c) ==
    /\ cpc' = [cpc EXCEPT ![c] = "dead"]
    /\ live' = [live EXCEPT ![c] = << >>]
    /\ replay' = [replay EXCEPT ![c] = {}] /\ pending' = [pending EXCEPT ![c] = {}]
    /\ rpc' = [r \in Streams |-> IF r = c THEN "dead" ELSE rpc[r]]
    /\ page' = [r \in Streams |-> IF r = c THEN {} ELSE page[r]]
    /\ UNCHANGED <<logVars, worker, cursor, wake, more, got, openedAt, overflowed, next>>

\* The client goes away.
Disconnect(c) == cpc[c] \notin {"off", "dead"} /\ End(c)

\* openDeliveryLiveCapture, or the fork of the general stream.
OpenLive(c) ==
    /\ cpc[c] = "off" /\ MayOpen
    /\ cpc' = [cpc EXCEPT ![c] = "captured"]
    /\ UNCHANGED <<logVars, worker, readers, live, overflowed, next, replay, pending>>

\* Mutant: the snapshot does not wait for the forked stream to have its cursor.
SnapshotAtOnce(c) ==
    /\ cpc[c] = "captured"
    /\ cpc' = [cpc EXCEPT ![c] = "snapshotted"]
    /\ next' = [next EXCEPT ![c] = installed + 1]
    /\ UNCHANGED <<logVars, worker, readers, live, overflowed, replay, pending>>

\* getReadModel, after the yieldNow that lets a forked stream take its cursor.
Snapshot(c) ==
    /\ cpc[c] = "captured" /\ (c \in Mobile => rpc[c] # "off")
    /\ cpc' = [cpc EXCEPT ![c] = "snapshotted"]
    /\ next' = [next EXCEPT ![c] = installed + 1]
    /\ UNCHANGED <<logVars, worker, readers, live, overflowed, replay, pending>>

\* readEvents from the snapshot on; it does not look at gaps.
ReadEvents(c) ==
    /\ cpc[c] = "snapshotted"
    /\ \/ /\ cpc' = [cpc EXCEPT ![c] = "streaming"]
          /\ replay' = [replay EXCEPT ![c] = {s \in rows : s >= next[c]}]
          /\ UNCHANGED <<logVars, worker, readers, live, overflowed, next, pending>>
       \/ StorageFaults /\ End(c)

\* The first number from n on that is not in S.
FirstMissing(S, n) == CHOOSE m \in n..(n + Cardinality(S)) : m \notin S /\ n..(m - 1) \subseteq S

\* An event ahead of its turn that cannot wait ends the stream.
NoRoom(c, e) ==
    e > next[c] /\ e \notin pending[c] /\ Cardinality(pending[c]) >= PendingCapacity

\* One event of the merged source: an old or known one is dropped, any other is emitted
\* with its successors or waits.
Merge(c, e) ==
    IF e < next[c] \/ e \in pending[c]
    THEN UNCHANGED <<next, pending>>
    ELSE LET waiting == pending[c] \cup {e}
             m == FirstMissing(waiting, next[c])
         IN  /\ next' = [next EXCEPT ![c] = m]
             /\ pending' = [pending EXCEPT ![c] = {s \in waiting : s > m}]

MergeReplay(c) ==
    /\ cpc[c] = "streaming" /\ replay[c] # {}
    /\ LET e == Min(replay[c]) IN
       \/ NoRoom(c, e) /\ End(c)
       \/ /\ ~NoRoom(c, e) /\ Merge(c, e)
          /\ replay' = [replay EXCEPT ![c] = @ \ {e}]
          /\ UNCHANGED <<logVars, worker, readers, cpc, live, overflowed>>

MergeLive(c) ==
    /\ cpc[c] = "streaming" /\ live[c] # << >>
    /\ LET e == Head(live[c]) IN
       \/ NoRoom(c, e) /\ End(c)
       \/ /\ ~NoRoom(c, e) /\ Merge(c, e)
          /\ live' = [live EXCEPT ![c] = Tail(@)]
          /\ UNCHANGED <<logVars, worker, readers, cpc, overflowed, replay>>

\* The overflow of its capture ends the ordered stream.
DieOverflowed(c) ==
    /\ cpc[c] = "streaming" /\ overflowed[c]
    /\ End(c)

-----------------------------------------------------------------------------
Worker ==
    \/ \E t \in Threads, n \in 1..MaxAppend, D \in SUBSET Threads : Commit(t, n, D)
    \/ Install \/ Publish

Reader(r) == Subscribe(r) \/ TakeWake(r) \/ ReadPage(r) \/ Emit(r) \/ PageDone(r)

Client(c) ==
    \/ Snapshot(c) \/ ReadEvents(c) \/ MergeReplay(c) \/ MergeLive(c) \/ DieOverflowed(c)

Next ==
    \/ Worker \/ Maintenance
    \/ \E r \in Streams : OpenStream(r) \/ Reader(r)
    \/ \E c \in Clients : OpenLive(c) \/ Client(c) \/ Disconnect(c)

\* The worker finishes what it committed, forked streams and connected clients keep
\* running; nobody has to send a command, follow the log or maintain it.
Fairness ==
    /\ WF_vars(Install \/ Publish)
    /\ \A r \in Reactors : WF_vars(Reader(r))
    /\ \A r \in Mobile : WF_vars(OpenStream(r) \/ Reader(r))
    /\ \A c \in Clients : WF_vars(Client(c))

Spec == Init /\ [][Next]_vars
FairSpec == Spec /\ Fairness

-----------------------------------------------------------------------------
(* Properties                                                              *)

\* A general stream gives its consumer the events after its cursor one by one: none is
\* skipped or repeated, whatever was conflated, pruned or compacted meanwhile.
StepByStep ==
    [][\A r \in Streams : rpc[r] # "off" => got'[r] \in {got[r], got[r] + 1}]_vars

\* The events an ordered stream has in hand and has not emitted.
Held(c) == replay[c] \cup {live[c][k] : k \in DOMAIN live[c]} \cup pending[c]

\* Where an ordered stream may still find an event.
Reachable(c) ==
    Held(c) \cup
    (IF c \in Mobile THEN page[c] \cup {s \in 1..published : s > cursor[c]} ELSE {})

\* An ordered stream has no hole and holds nothing back: every published event it has not
\* emitted is still on its way, unless the stream was ended, its capture overflowed or its
\* feed died, and an event whose turn has come is not left waiting.
NothingMissing ==
    \A c \in Clients :
       /\ next[c] \notin pending[c]
       /\ cpc[c] = "streaming" /\ ~overflowed[c] /\ (c \in Mobile => rpc[c] # "dead") =>
             next[c]..published \subseteq Reachable(c)

\* Both, as the one invariant of the runs: the streams stay well formed and without holes.
StreamInv == TypeOK /\ NothingMissing

\* What a reactor that was there, and a connected client, are owed once event s has been
\* published: the event, or the end of the stream.  A mobile client alone is not told
\* when its general stream dies.
ReactorOwed(r, s) ==
    rpc[r] # "off" /\ openedAt[r] < s /\ s <= published => got[r] >= s \/ rpc[r] = "dead"
ClientOwed(c, s) ==
    cpc[c] = "streaming" /\ s <= published => next[c] > s \/ (c \in Mobile /\ rpc[c] = "dead")

\* Every published event is delivered in the end to every reactor and every client that
\* follows the log, or its stream has ended: no stream just stops, whatever wake-ups were
\* conflated and whatever overflowed, was pruned or compacted.  (What was delivered stays
\* delivered, so this is the same as one leads-to for every follower and event.)
FollowersServed ==
    <>[](\A s \in 1..MaxLog :
            /\ \A r \in Reactors : ReactorOwed(r, s)
            /\ \A c \in Clients : ClientOwed(c, s))

\* The provider command reactor's startup comment: an intent committed after the
\* subscription is delivered to the live stream (if it stays in the log at all).
LaterIntentsDelivered ==
    \A r \in Reactors, s \in 1..MaxLog :
       (rpc[r] # "off" /\ openedAt[r] < s /\ s <= published)
          ~> (got[r] >= s \/ s \notin rows)

-----------------------------------------------------------------------------
(* The inductive invariant behind StreamInv and StepByStep                 *)

\* A general stream has in hand exactly what lies between its consumer and its cursor.
PageFollowsCursor(r) ==
    /\ got[r] <= cursor[r] /\ cursor[r] <= Len(assigned)
    /\ page[r] = IF rpc[r] = "emitting" THEN (got[r] + 1)..cursor[r] ELSE {}
    /\ rpc[r] \notin {"emitting", "dead"} => got[r] = cursor[r]

\* Only a stream that has its snapshot merges; what waits is finite and out of turn.
MergesInTurn(c) ==
    /\ IsFiniteSet(pending[c]) /\ next[c] \notin pending[c]
    /\ cpc[c] # "streaming" => replay[c] = {} /\ pending[c] = {}

\* From its snapshot on, nothing published reaches a desktop stream but through the capture.
CaptureCovers(c) ==
    cpc[c] \in {"snapshotted", "streaming"} /\ ~overflowed[c] => next[c]..published \subseteq Held(c)

\* The first event a mobile stream must not lose: before it merges, that is the first one
\* after the cursor of the general stream it forked.
FirstNeeded(c) == IF cpc[c] = "streaming" THEN next[c] ELSE openedAt[c] + 1

\* A mobile stream has its snapshot after its fork has a cursor, and everything between
\* is in the queue or in the fork's page, also what was read before it was published.
ForkCovers(c) ==
    /\ cpc[c] = "off" => rpc[c] = "off"
    /\ cpc[c] \in {"snapshotted", "streaming"} => rpc[c] # "off" /\ openedAt[c] < next[c]
    /\ openedAt[c] <= installed
    /\ cpc[c] \notin {"off", "dead"} /\ rpc[c] \notin {"off", "dead"} =>
          FirstNeeded(c)..cursor[c] \subseteq Held(c) \cup page[c]

DistributionInv ==
    /\ TypeOK /\ LogInv
    /\ published <= installed /\ installed <= Len(assigned)
    /\ \A r \in Streams : PageFollowsCursor(r)
    /\ \A c \in Clients : MergesInTurn(c)
    /\ \A c \in Desktop : CaptureCovers(c)
    /\ \A c \in Mobile : ForkCovers(c)
=============================================================================
