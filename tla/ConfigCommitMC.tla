--------------------------- MODULE ConfigCommitMC ---------------------------
(* Two instances of the application with two saves, two fresh accounts and an old one. *)
EXTENDS ConfigCommit, TLC
CONSTANTS i1, i2, o1, o2, a1, a2, a0

MCInstance == {i1, i2}
MCOp == {o1, o2}
MCFresh == {a1, a2}
MCAccount == MCFresh \union {a0}
MCLegacy == {a0}
MCSymmetry == Permutations(Op) \union Permutations(MCFresh) \union Permutations(Instance)
=============================================================================
