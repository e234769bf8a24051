------------------------------- MODULE MCTill -------------------------------
(* Three scenes at the till: edits, removals and pickups of two closings at     *)
(* once; pickups one at a time while expenses are recorded and voided; and the *)
(* printers of the kitchen, in time or slow, with repeated acknowledgements.   *)
(* The first and the last are those of the configuration.                      *)
EXTENDS CashPickup, PrintQueue, TLC

CONSTANTS ana,
          Receipts,     \* expenses of the second scene
          Voided        \* those of them that may be removed

VARIABLE scene

Counted == {<<2, 0, 1>>}
EditAll == {[counted |-> 1], [who |-> ana]}

Drawer == INSTANCE CashPickup WITH
    Expenses <- Receipts, Ops <- {"pick", "update"}, Edits <- {[counted |-> 1]},
    Spent <- {1, 2}, Voidable <- Voided

mcVars == <<vars, queueVars, scene>>

MCInit == /\ \/ scene \in {"edits", "paper"} /\ Init
             \/ scene = "drawer" /\ Drawer!Init
          /\ QueueInit
MCNext == \/ scene = "edits" /\ Next /\ UNCHANGED <<scene, queueVars>>
          \/ scene = "drawer" /\ Drawer!Next /\ UNCHANGED <<scene, queueVars>>
          \/ scene = "paper" /\ QueueNext /\ UNCHANGED <<scene, vars>>

MCSpec == MCInit /\ [][MCNext]_mcVars

\* State constraint: in the drawer one request at a time, and two rows of the withdrawals.
OneByOne == scene = "drawer" =>
    /\ Cardinality({p \in Requests : pc[p] \notin {"idle", "done"}}) <= 1
    /\ pending[3].state = "absent" /\ \A p \in Requests : wPending[p][3] = NoRow

\* Withdrawals are charged no more for an expense than its amount.
MCExpenseChargedOnce == scene = "drawer" => Drawer!ExpenseChargedOnce
Symmetry == Permutations(Requests) \cup Permutations(Agents)
=============================================================================
