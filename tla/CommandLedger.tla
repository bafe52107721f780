--------------------------- MODULE CommandLedger ---------------------------
(***************************************************************************)
(* What the orchestration engine promises a caller about one command ID,   *)
(* with no queue, worker, transaction or crash in sight: an ID is settled  *)
(* at most once, as accepted or as rejected; an accepted ID contributes    *)
(* one batch of events to the log, at the moment it is settled; nothing    *)
(* settled is ever revised.  CommandEngine implements this specification.  *)
(***************************************************************************)
EXTENDS Integers, Sequences

CONSTANTS Ids,        \* command IDs
          MaxEvents   \* most events one command may append

VARIABLES log,        \* the event log: which command each event belongs to
          outcome     \* the settled outcome of each ID

ledgerVars == <<log, outcome>>

\* The batch of n events that command i appends.
BatchOf(i, n) == [k \in 1..n |-> [id |-> i, n |-> k]]

\* Receipts that predate the ledger may exist at the start.
LedgerInit ==
    /\ log = << >>
    /\ outcome \in [Ids -> [status : {"none", "accepted", "rejected"}, seq : {0}]]

\* Settle an ID as accepted: its events and its outcome appear together.
Accept(i) ==
    /\ outcome[i].status = "none"
    /\ \E n \in 0..MaxEvents :
          /\ log' = log \o BatchOf(i, n)
          /\ outcome' = [outcome EXCEPT ![i] = [status |-> "accepted", seq |-> Len(log) + n]]

\* Settle an ID as rejected: the log does not move.
Reject(i) ==
    /\ outcome[i].status = "none"
    /\ outcome' = [outcome EXCEPT ![i] = [status |-> "rejected", seq |-> 0]]
    /\ UNCHANGED log

LedgerNext == \E i \in Ids : Accept(i) \/ Reject(i)

LedgerSpec == LedgerInit /\ [][LedgerNext]_ledgerVars
=============================================================================
