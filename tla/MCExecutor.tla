----------------------------- MODULE MCExecutor -----------------------------
(* Flows for the instances of Executor.                                     *)
EXTENDS Executor

CONSTANTS a, b, c, d, e, t1, t2

E(from, port, to) == [from |-> from, port |-> port, to |-> to]

\* b and the wait node c run in parallel once a is done; d joins them if c is
\* approved, e follows if it is rejected.
ReviewNodes == {a, b, c, d, e}
ReviewEdges ==
  {E(a, "out", b), E(a, "out", c), E(b, "out", d), E(c, "out", d), E(c, "rejected", e)}
ReviewOutcomes ==
  [n \in ReviewNodes |-> CASE n = b -> {"out", "error", "fail", "panic"}
                           [] n = c -> {"suspend"} [] OTHER -> {"out"}]

\* a, a parallel branch b and a wait node c, then d or e after the decision.
ApprovalNodes == {a, b, c, d, e}
ApprovalEdges ==
  {E(a, "out", b), E(a, "out", c), E(c, "out", d), E(c, "rejected", e)}
ApprovalOutcomes == [n \in ApprovalNodes |-> IF n = c THEN {"suspend"} ELSE {"out"}]

\* A wait node and what follows it.
WaitEdges == {E(a, "out", b)}
WaitOutcomes == [n \in {a, b} |-> IF n = a THEN {"suspend"} ELSE {"out"}]

\* A switch a with a branch on each port.
SwitchEdges == {E(a, "true", b), E(a, "false", c)}
SwitchOutcomes == [n \in {a, b, c} |-> IF n = a THEN {"true", "false"} ELSE {"out"}]
=============================================================================
