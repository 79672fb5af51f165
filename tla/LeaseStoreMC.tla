---------------------------- MODULE LeaseStoreMC ----------------------------
(* A small instance of LeaseStore: two processes with one thread and one run each, *)
(* that claim, give back and force the same resource at the same time.             *)
EXTENDS LeaseStore
CONSTANTS c1, c2, p1, p2, r1, r2, a, b

MCCaller == {c1, c2}
MCPid == {p1, p2}
MCPidOf == [c \in MCCaller |-> IF c = c1 THEN p1 ELSE p2]
MCRun == {a, b}
MCResource == {r1, r2}
MCClaims == [c \in MCCaller |-> IF c = c1 THEN {<<r1, a>>, <<r2, a>>} ELSE {<<r1, b>>}]
=============================================================================
