----------------------------- MODULE MCDispatch -----------------------------
EXTENDS Dispatch

CONSTANTS r1, r2, r3

MCPriority == [r \in Requests |-> IF r = r2 THEN 1 ELSE 0]
MCCreated == [r \in Requests |-> IF r = r1 THEN 1 ELSE 2]

=============================================================================
