--------------------------- MODULE CashAllocation ---------------------------
(***************************************************************************)
(* The allocation of CashWithdrawalsService.computePendingView: expenses    *)
(* paid out of the cash drawer are charged to the withdrawals that are      *)
(* still waiting, first in first out.                                       *)
(*                                                                          *)
(* A withdrawal is [id, day, at, amount] and an expense [id, at, amount]:    *)
(* `day' is businessDate, `at' is createdAt, `amount' what is left of it     *)
(* after the offsets already saved.                                         *)
(***************************************************************************)
EXTENDS Integers, Sequences, FiniteSets, SequencesExt

\* pending.find(order: businessDate, createdAt) and orderBy('m.createdAt').
ByDayThenAge(x, y) == x.day < y.day \/ (x.day = y.day /\ x.at <= y.at)
ByAge(x, y) == x.at <= y.at

Lesser(a, b) == IF a <= b THEN a ELSE b

\* One turn of the inner loop: what expense e still owes is taken out of item x,
\* unless x was registered after e.
Charge(st, e, x) ==
    LET take == IF x.at > e.at THEN 0 ELSE Lesser(st.remaining[x.id], st.left)
    IN  [left      |-> st.left - take,
         remaining |-> [st.remaining EXCEPT ![x.id] = @ - take],
         charged   |-> [st.charged EXCEPT ![x.id][e.id] = @ + take]]

\* The outer loop body: the items in order, for one expense.
ChargeAll(st, e, queue) ==
    FoldLeft(LAMBDA s, x : Charge(s, e, x), [st EXCEPT !.left = e.amount], queue)

\* [remaining : item id -> amount, charged : item id -> expense id -> amount]
Allocation(items, expenses) ==
    LET queue == SetToSortSeq(items, ByDayThenAge)
        bills == SetToSortSeq(expenses, ByAge)
        start == [left      |-> 0,
                  remaining |-> [i \in {x.id : x \in items} |->
                                    (CHOOSE x \in items : x.id = i).amount],
                  charged   |-> [i \in {x.id : x \in items} |->
                                    [j \in {e.id : e \in expenses} |-> 0]]]
    IN  FoldLeft(LAMBDA s, e : ChargeAll(s, e, queue), start, bills)
=============================================================================
