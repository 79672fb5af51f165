----------------------------- MODULE ToolBatchMC -----------------------------
(* The main session with two calls per batch and two sub-agents with one each; path 1 *)
(* is a directory, paths 2 and 3 lie in it.                                             *)
EXTENDS ToolBatch, TLC

CONSTANTS c1, c2, m1, m2, s1, s2, w, x, y, z

MCRtOf == (m1 :> Main) @@ (m2 :> Main) @@ (s1 :> c1) @@ (s2 :> c2)
Edit(paths) == [kind |-> "edit", paths |-> paths]
Plan(titles) == [kind |-> "plan", titles |-> titles, open |-> TRUE]
MCMenu ==
    (m1 :> {Edit({2, 3}), Plan({x, y}), Plan({w, z}), Plan({z})}) @@
    (m2 :> {Edit({3}), [kind |-> "shell"], [kind |-> "ask"]}) @@
    (s1 :> {Edit({2, 3})}) @@
    (s2 :> {[kind |-> "delete", paths |-> {1}]})
MCClash == {<<p, q>> \in (1..3) \X (1..3) : p = q \/ 1 \in {p, q}}
MCRefines == {<<z, x>>}
MCBudgets == {(Main :> 3) @@ (c1 :> 0) @@ (c2 :> 0), (Main :> 1) @@ (c1 :> 1) @@ (c2 :> 0),
              (Main :> 0) @@ (c1 :> 1) @@ (c2 :> 1)}
=============================================================================
