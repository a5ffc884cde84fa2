---------------------------- MODULE MCLifecycle ----------------------------
(* Two processes that use the same PID one after the other, and one with     *)
(* another PID; the service remembers one PID at a time.                     *)
EXTENDS Lifecycle

CONSTANTS p1, p2, p3, i1, i2, c1, c2, c3

MCPids == {i1, i2}

\* Three processes with a client each, the first two on one PID.
MCProcesses == {p1, p2, p3}

MCClients == {c1, c2, c3}

MCPidOf == [p \in MCProcesses |-> IF p = p3 THEN i2 ELSE i1]

MCProcessOf == [x \in MCClients |-> CASE x = c1 -> p1 [] x = c2 -> p2 [] x = c3 -> p3]
=============================================================================
