---------------------------- MODULE PaymentBooks ----------------------------
(***************************************************************************)
(* What the payments of a shop promise, seen from outside: of every debt some *)
(* part is owed, some part is settled, and some money has left the ledger for *)
(* it.  Paying moves an amount from owed to settled and takes it out of the   *)
(* ledger at once; undoing a payment moves it back.  Nothing else may touch   *)
(* what is owed together with what is settled or spent.                       *)
(***************************************************************************)
EXTENDS Integers

CONSTANT Debts
VARIABLES owed, settled, spent

books == <<owed, settled, spent>>

Init == owed = [d \in Debts |-> 0] /\ settled = owed /\ spent = owed

\* A payment is created, edited, cancelled or removed before it is paid.  The new amount is
\* any: here and below it is bound by its primed value, and no bound on amounts is needed.
Agree(d) ==
    /\ owed'[d] \in Nat /\ owed' = [owed EXCEPT ![d] = owed'[d]]
    /\ UNCHANGED <<settled, spent>>

Pay(d) ==
    \E a \in 1..owed[d] :
        /\ owed'    = [owed EXCEPT ![d] = @ - a]
        /\ settled' = [settled EXCEPT ![d] = @ + a]
        /\ spent'   = [spent EXCEPT ![d] = @ + a]

\* The expense may differ from the payment, or be gone, if a repair is pending.
Undo(d) ==
    /\ \E a \in 0..settled[d] :
        /\ owed'    = [owed EXCEPT ![d] = @ + a]
        /\ settled' = [settled EXCEPT ![d] = @ - a]
    /\ spent'[d] \in 0..spent[d] /\ spent' = [spent EXCEPT ![d] = spent'[d]]

\* A payment that is paid, or its expense, is corrected.
Correct(d) ==
    /\ settled'[d] \in Nat /\ settled' = [settled EXCEPT ![d] = settled'[d]]
    /\ spent'[d] \in Nat /\ spent' = [spent EXCEPT ![d] = spent'[d]]
    /\ UNCHANGED owed

Next == \E d \in Debts : Agree(d) \/ Pay(d) \/ Undo(d) \/ Correct(d)

Spec == Init /\ [][Next]_books
=============================================================================
