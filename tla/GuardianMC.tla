----------------------------- MODULE GuardianMC -----------------------------
(* Small instances of Guardian. *)
EXTENDS Guardian
CONSTANTS p, a, b, s, c1, c2

MCHost == {p}
MCCommand == {c1, c2}
MCGuardOf == [c \in MCCommand |-> IF c = c1 THEN a ELSE s]

\* One host with a server, two runs of which want the root one after the other.
MCTwoRuns == {a, b}
MCTwoHostOf == [g \in {a, b, s} |-> p]

\* The same with one run.
MCOneRun == {a}
MCOneHostOf == [g \in {a, s} |-> p]
=============================================================================
