--------------------------- MODULE MCTurnControl ---------------------------
(* Instances of TurnControl for TLC. *)
EXTENDS TurnControl

CONSTANTS a, b, c

Together(may, who, most, failures) ==
    [may |-> may, who |-> who, ops |-> most, faults |-> failures]

\* "Send now", steers and Stop, two of them at a time, against the reactor, the provider's
\* failures and the recovery pass; exits and restarts against the pass; turns that start past
\* the queue, failing or not, and a server that restarts; busy redeliveries, removals and a
\* full queue of three prompts, or one behind a captured prompt.
SafetyScenarios ==
    {Together({"reconcile", "send-now", "fail"}, {a, b}, 1, 1),
     Together({"reconcile", "steer", "stop"}, {a, b}, 1, 1),
     Together({"reconcile", "steer", "fail"}, {a, b}, 1, 1),
     Together({"steer", "stop", "fail"}, {a, b}, 1, 1),
     Together({"steer", "stop", "send-now"}, {a, b}, 2, 0),
     Together({"send-now", "fail", "restart"}, {a, b, c}, 1, 2),
     Together({"reconcile", "stop", "queue"}, {a, b}, 1, 1),
     Together({"reconcile", "exit"}, {a, b}, 1, 1),
     Together({"send-now", "exit", "fail"}, {a, b}, 1, 1),
     Together({"stop", "direct", "queue"}, {a, b}, 1, 1),
     Together({"send-now", "stale", "remove", "queue"}, {a, b}, 1, 1),
     Together({"send-now", "stale"}, {a, b, c}, 1, 1),
     Together({"stale", "remove", "queue"}, {a, b, c}, 1, 1)}
      \cup UNION {{Together({"reconcile", "queue", "restart"}, {m, c}, 1, 1),
                   Together({"reconcile", "direct", "restart"}, {m, c}, 1, 1),
                   Together({"direct", "remove", "stale", "queue", "fail", "restart"}, {m, c}, 1, 1)} :
                     m \in {a, b}}
DrainScenarios == {Together({"reconcile", "send-now"}, {a, b}, 1, 0)}

\* No definition and no scenario distinguishes a from b.
Interchangeable == Permutations({a, b})
=============================================================================
