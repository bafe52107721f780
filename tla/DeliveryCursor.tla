--------------------------- MODULE DeliveryCursor ---------------------------
(***************************************************************************)
(* What a delivery supervisor promises about one consumer, whatever it     *)
(* queues or retains: events are offered from the acknowledged cursor on,  *)
(* the cursor moves only forward and never past what was offered (a        *)
(* projection baseline apart, which moves it while nothing is offered),    *)
(* and an attachment of a known consumer is of a newer generation and does *)
(* not bring an older cursor with it.                                      *)
(***************************************************************************)
EXTENDS Integers

CONSTANTS
    Consumers,
    Generations,
    Sequences

VARIABLES
    known,       \* consumers whose generation and cursor are remembered
    generation,
    cursor,
    offered      \* last event offered to the consumer's application

vars == <<known, generation, cursor, offered>>

Zero == [c \in Consumers |-> 0]      \* of a consumer that is not known

Init == known = {} /\ generation = Zero /\ cursor = Zero /\ offered = Zero

\* f with f[c] = v, and 0 for the consumers that are forgotten
Assign(f, c, v, gone) ==
    [d \in Consumers |-> IF d = c THEN v ELSE IF d \in gone THEN 0 ELSE f[d]]

\* Remembering one consumer may cost the memory of another.
Attach(c, g, applied) ==
    /\ c \in known => g > generation[c] /\ applied >= cursor[c]
    /\ \E gone \in {{}} \cup {{d} : d \in known \ {c}} :
        /\ known' = (known \ gone) \cup {c}
        /\ generation' = Assign(generation, c, g, gone)
        /\ cursor' = Assign(cursor, c, applied, gone)
        /\ offered' = Assign(offered, c, applied, gone)

Offer(c, upTo) ==
    /\ c \in known
    /\ upTo > cursor[c]
    /\ offered' = [offered EXCEPT ![c] = upTo]
    /\ UNCHANGED <<known, generation, cursor>>

\* Everything offered has been applied; more may be offered in the same step.
Acknowledge(c, upTo) ==
    /\ c \in known
    /\ offered[c] > cursor[c]
    /\ cursor' = [cursor EXCEPT ![c] = offered[c]]
    /\ upTo >= offered[c]
    /\ offered' = [offered EXCEPT ![c] = upTo]
    /\ UNCHANGED <<known, generation>>

Baseline(c, applied) ==
    /\ c \in known
    /\ offered[c] = cursor[c]
    /\ applied >= cursor[c]
    /\ cursor' = [cursor EXCEPT ![c] = applied]
    /\ offered' = [offered EXCEPT ![c] = applied]
    /\ UNCHANGED <<known, generation>>

\* Detached or overloaded: what was offered has to be offered again.
Withdraw(c) ==
    /\ c \in known
    /\ offered' = [offered EXCEPT ![c] = cursor[c]]
    /\ UNCHANGED <<known, generation, cursor>>

\* The process ends and nothing is remembered.
Forget == known' = {} /\ generation' = Zero /\ cursor' = Zero /\ offered' = Zero

Next ==
    \/ \E c \in Consumers :
        \/ \E g \in Generations, n \in Sequences : Attach(c, g, n)
        \/ \E n \in Sequences : Offer(c, n) \/ Acknowledge(c, n) \/ Baseline(c, n)
        \/ Withdraw(c)
    \/ Forget

Spec == Init /\ [][Next]_vars
=============================================================================
