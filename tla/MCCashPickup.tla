---------------------------- MODULE MCCashPickup ----------------------------
(* Small instances of CashPickup: constants that a cfg cannot write.         *)
EXTENDS CashPickup, TLC

CONSTANTS ana

Counted    == {<<2, 0, 1>>}
EditAll    == {[counted |-> 1], [who |-> ana]}
EditCount  == {[counted |-> 1]}
NoEdits    == {<<>>}

\* State constraint: one request at a time.
OneAtATime == Cardinality({p \in Requests : pc[p] \notin {"idle", "done"}}) <= 1

RequestSymmetry == Permutations(Requests)
=============================================================================
