--------------------------- MODULE TransactionsMC ---------------------------
(* Small instances of Transactions: two calls with one target in common. *)
EXTENDS Transactions, TLC
CONSTANTS p1, p2, x1, x2, i1, i2, a, b, c

MCProc == {p1, p2}
MCSymmetry == Permutations(MCProc)
MCTx == {x1, x2}
MCPath == {a, b, c}
MCIdOf == [x \in MCTx |-> IF x = x1 THEN i1 ELSE i2]
MCGenOf == [x \in MCTx |-> IF x = x1 THEN 1 ELSE 2]
MCWritesOf == [x \in MCTx |-> IF x = x1 THEN <<a, b>> ELSE <<b, c>>]
=============================================================================
