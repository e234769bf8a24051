------------------------------- MODULE Payments -------------------------------
(***************************************************************************)
(* Payments to suppliers, employees, services and partners.  A payment is     *)
(* created, validated, and paid in full or in part; paying writes an expense  *)
(* (a movement) and links it.  A partial payment keeps the part that was paid *)
(* and creates a validated payment for the remainder.  A payment may also be  *)
(* rejected, cancelled, edited, removed, or taken one step back, and the      *)
(* expense may be edited or removed on its own.                               *)
(*                                                                            *)
(* Handlers load the payment, check its status, and write later.  Some writes *)
(* are conditional on the status (validate, pay, the first half of revert),   *)
(* the others are not.  A transaction whose first statement locks the payment *)
(* and which reads no other row that changes is one step.                     *)
(***************************************************************************)
EXTENDS Integers, FiniteSets, FiniteSetsExt, Functions, TLC

CONSTANTS
    Requests,      \* HTTP requests that run at the same time
    Together,      \* operations that may overlap with one another
    Alone,         \* operations that are only asked for when nobody else works
    Debts,         \* bound: payments that are not the remainder of another
    MaxPayments,   \* bound: rows of the table payments
    MaxExpenses,   \* bound: expenses written by payments
    Amounts,       \* what a payment may be created with
    None

OnPayment == {"validate", "reject", "pay", "revert", "cancel", "remove", "update", "read"}
OnExpense == {"spend", "editExpense", "removeExpense", "absorb"}
AllOps    == OnPayment \cup OnExpense \cup {"create"}

ASSUME PaymentsAssumption ==
    /\ Together \cup Alone \subseteq AllOps /\ Together \cap Alone = {}
    /\ MaxPayments \in Nat \ {0} /\ MaxExpenses \in Nat \ {0}
    /\ Amounts \subseteq Nat
    /\ None \notin Requests \cup Debts \cup (1..MaxPayments) \cup (1..MaxExpenses)

Ids      == 1..MaxPayments
Expenses == 1..MaxExpenses

VARIABLES
    payment,   \* the table payments
    expense,   \* the movements payments have written
    lock,      \* the row lock of an expense
    pc,        \* the next statement of each request
    req        \* what each request remembers

vars == <<payment, expense, lock, pc, req>>

Status == {"PENDING", "VALIDATED", "PAID", "REJECTED", "CANCELLED"}

\* `debt' tells which original payment a row or an expense goes back to; the
\* code keeps it only in the notes ("Saldo pendiente").
Payment == [exists : BOOLEAN, active : BOOLEAN, status : Status, amount : Nat,
            movementId : Expenses \cup {None}, debt : Debts \cup {None}]
Expense == [state : {"none", "live", "removed", "absorbed"}, amount : Nat, debt : Debts \cup {None}]

NoPayment == [exists |-> FALSE, active |-> FALSE, status |-> "PENDING", amount |-> 0,
              movementId |-> None, debt |-> None]
NoExpense == [state |-> "none", amount |-> 0, debt |-> None]
NoRequest == [op |-> "read", id |-> None, m |-> None, amount |-> 0, row |-> NoPayment,
              requested |-> "PENDING"]

TypeOK ==
    /\ payment \in [Ids -> Payment]
    /\ expense \in [Expenses -> Expense]
    /\ lock \in [Expenses -> Requests \cup {None}]
    /\ pc \in [Requests -> {"idle", "setStatus", "load", "write", "answer", "drop", "reload",
                            "isLive", "unlink", "find", "save", "recreate", "saveExpense", "sync", "softRemove"}]
    /\ req \in [Requests -> [op : AllOps, id : Ids \cup {None}, m : Expenses \cup {None},
                             amount : Nat, row : Payment, requested : Status]]

Init ==
    /\ payment = [i \in Ids |-> NoPayment] /\ expense = [m \in Expenses |-> NoExpense]
    /\ lock = [m \in Expenses |-> None]
    /\ pc = [p \in Requests |-> "idle"] /\ req = [p \in Requests |-> NoRequest]

Live(m)  == expense[m].state = "live"
Fresh(i) == i \in Ids /\ ~payment[i].exists /\ payment[i].debt = None /\ \A j \in 1..(i - 1) : payment[j].debt # None
FreshExpense(m) == expense[m].state = "none" /\ \A k \in 1..(m - 1) : expense[k].state # "none"

\* Request p goes on at `step'; one that ends forgets what it read.
Goto(p, step) == pc' = [pc EXCEPT ![p] = step]
Keep(p, r)    == req' = [req EXCEPT ![p] = r]
End(p)        == Goto(p, "idle") /\ Keep(p, NoRequest)

\* An UPDATE by id; a row that is gone is not updated.
SetStatus(i, s) == payment' = IF payment[i].exists THEN [payment EXCEPT ![i].status = s] ELSE payment

\* A request may begin if what it asks for may overlap with what is running.
MayBegin(p, op) ==
    /\ pc[p] = "idle"
    /\ \A q \in Requests \ {p} : pc[q] = "idle" \/ (op \in Together /\ req[q].op \in Together)
    /\ op \in Together \cup Alone
-----------------------------------------------------------------------------
(* create                                                                     *)

\* The row is saved as pending; other requested states are set afterwards.
CreatePayment(p, requested, a) ==
    /\ MayBegin(p, "create")
    /\ requested = "PAID" => a > 0
    /\ \E i \in Ids, d \in Debts :
        /\ Fresh(i) /\ \A j \in Ids : payment[j].debt # d
        /\ payment' = [payment EXCEPT ![i] = [exists |-> TRUE, active |-> TRUE, status |-> "PENDING",
                                              amount |-> a, movementId |-> None, debt |-> d]]
        /\ IF requested = "PENDING" THEN End(p)
           ELSE Goto(p, "setStatus")
                /\ Keep(p, [NoRequest EXCEPT !.op = "create", !.id = i, !.requested = requested])
    /\ UNCHANGED <<expense, lock>>

SetRequested(p) ==
    /\ pc[p] = "setStatus"
    /\ SetStatus(req[p].id, IF req[p].requested = "PAID" THEN "VALIDATED" ELSE req[p].requested)
    /\ IF req[p].requested = "PAID" THEN Goto(p, "load") /\ UNCHANGED req ELSE End(p)
    /\ UNCHANGED <<expense, lock>>

\* create deletes its payment when paying it throws, whatever became of it: one that is
\* paid leaves its expense behind.  The model keeps what the deleted row said.
DropCreated(p) ==
    /\ pc[p] = "drop"
    /\ payment' = [payment EXCEPT ![req[p].id].exists = FALSE]
    /\ End(p)
    /\ UNCHANGED <<expense, lock>>

\* A request on a payment begins.
Ask(p, op, i) ==
    /\ MayBegin(p, op) /\ op \in OnPayment
    /\ Goto(p, "load") /\ Keep(p, [NoRequest EXCEPT !.op = op, !.id = i])
    /\ UNCHANGED <<payment, expense, lock>>

-----------------------------------------------------------------------------
(* Load and check                                                             *)

AcceptsAnyRemoval(op, row) ==
    CASE op \in {"validate", "reject"} -> row.status = "PENDING"
      [] op \in {"pay", "create"}      -> row.status = "VALIDATED" /\ row.amount > 0
      [] op = "revert"                 -> row.status \in {"VALIDATED", "PAID"}
      [] op = "cancel"                 -> row.status # "PAID"
      [] op = "update"                 -> row.status # "CANCELLED"
      [] op = "read"                   -> row.status = "PAID"
      [] op = "remove"                 -> TRUE

\* What each operation demands of the payment it has loaded.
Accepts(op, row) ==
    CASE op \in {"validate", "reject"} -> row.status = "PENDING"
      [] op \in {"pay", "create"}      -> row.status = "VALIDATED" /\ row.amount > 0
      [] op = "revert"                 -> row.status \in {"VALIDATED", "PAID"}
      [] op \in {"cancel", "remove"}   -> row.status # "PAID"
      [] op = "update"                 -> row.status # "CANCELLED"
      [] op = "read"                   -> row.status = "PAID"

\* create undoes what it did when pay refuses; the others just answer.
Refuse(p) == IF req[p].op = "create" THEN Goto(p, "drop") /\ UNCHANGED req ELSE End(p)

\* load(): the active payment, as committed now.  `a' is what the caller wants
\* to pay or the new amount; create pays everything.
Load(p, a) ==
    /\ pc[p] = "load"
    /\ LET row == payment[req[p].id] IN
       IF row.exists /\ row.active /\ Accepts(req[p].op, row)
         THEN /\ req[p].op = "pay"    => a \in 1..row.amount
              /\ req[p].op = "create" => a = row.amount
              /\ req[p].op = "update" => a \in Amounts
              /\ req[p].op \notin {"pay", "create", "update"} => a = 0
              /\ Keep(p, [req[p] EXCEPT !.row = row, !.amount = a])
              /\ Goto(p, IF req[p].op # "read" THEN "write"
                         ELSE IF row.movementId = None THEN "find" ELSE "isLive")
         ELSE a = 0 /\ Refuse(p)
    /\ UNCHANGED <<payment, expense, lock>>

-----------------------------------------------------------------------------
(* validate, reject, cancel, remove                                           *)

\* Conditional on the status; nobody looks at how many rows changed.
Validate(p) ==
    /\ pc[p] = "write" /\ req[p].op = "validate"
    /\ IF payment[req[p].id].status = "PENDING" THEN SetStatus(req[p].id, "VALIDATED") ELSE UNCHANGED payment
    /\ End(p) /\ UNCHANGED <<expense, lock>>

\* Not conditional.
Reject(p) ==
    /\ pc[p] = "write" /\ req[p].op = "reject"
    /\ SetStatus(req[p].id, "REJECTED")
    /\ End(p) /\ UNCHANGED <<expense, lock>>

Cancel(p) ==
    /\ pc[p] = "write" /\ req[p].op = "cancel"
    /\ SetStatus(req[p].id, "CANCELLED")
    /\ End(p) /\ UNCHANGED <<expense, lock>>

Remove(p) ==
    /\ pc[p] = "write" /\ req[p].op = "remove"
    /\ payment' = IF payment[req[p].id].exists THEN [payment EXCEPT ![req[p].id].active = FALSE] ELSE payment
    /\ End(p) /\ UNCHANGED <<expense, lock>>

-----------------------------------------------------------------------------
(* pay                                                                        *)

\* The UPDATE that claims the payment found it validated and active.
ClaimedInAnyStatus(i) == payment[i].active /\ payment[i].exists
Claimed(i) == payment[i].status = "VALIDATED" /\ payment[i].active /\ payment[i].exists

\* The payment of what was not paid.
Remainder(row, a) == [row EXCEPT !.amount = row.amount - a, !.status = "VALIDATED", !.movementId = None]

\* One transaction: the claim locks the payment, the expense is written and
\* linked, and what is not paid goes to a new payment.  Afterwards the payment is
\* loaded for the answer, still within the part of create that deletes it on an error.
Pay(p) ==
    /\ pc[p] = "write" /\ req[p].op \in {"pay", "create"}
    /\ LET i == req[p].id  row == req[p].row  a == req[p].amount IN
       IF Claimed(i)
         THEN \E m \in Expenses :
           LET paid == [payment EXCEPT ![i].status = "PAID", ![i].movementId = m,
                                       ![i].amount = IF a < row.amount THEN a ELSE @] IN
           /\ FreshExpense(m)
           /\ expense' = [expense EXCEPT ![m] = [state |-> "live", amount |-> a, debt |-> row.debt]]
           /\ \/ a = row.amount /\ payment' = paid
              \/ a < row.amount /\ \E k \in Ids : Fresh(k) /\ payment' = [paid EXCEPT ![k] = Remainder(row, a)]
           /\ IF req[p].op = "create" THEN Goto(p, "answer") /\ UNCHANGED req ELSE End(p)
         ELSE Refuse(p) /\ UNCHANGED <<payment, expense>>
    /\ UNCHANGED lock

Answer(p) ==
    /\ pc[p] = "answer"
    /\ LET row == payment[req[p].id] IN IF row.exists /\ row.active THEN End(p) ELSE Refuse(p)
    /\ UNCHANGED <<payment, expense, lock>>

-----------------------------------------------------------------------------
(* revertStatus                                                               *)

\* VALIDATED -> PENDING, without a condition.
Unvalidate(p) ==
    /\ pc[p] = "write" /\ req[p].op = "revert" /\ req[p].row.status = "VALIDATED"
    /\ SetStatus(req[p].id, "PENDING")
    /\ End(p) /\ UNCHANGED <<expense, lock>>

\* PAID -> VALIDATED, and the expense that was linked when the payment was loaded
\* goes; one that is gone already is not an error.
Unpay(p) ==
    /\ pc[p] = "write" /\ req[p].op = "revert" /\ req[p].row.status = "PAID"
    /\ LET i == req[p].id  m == req[p].row.movementId IN
       IF payment[i].status = "PAID" /\ payment[i].active /\ payment[i].exists
         THEN /\ m # None => lock[m] = None
              /\ payment' = [payment EXCEPT ![i].status = "VALIDATED", ![i].movementId = None]
              /\ expense' = IF m # None /\ Live(m) THEN [expense EXCEPT ![m].state = "removed"] ELSE expense
         ELSE UNCHANGED <<payment, expense>>
    /\ End(p) /\ UNCHANGED lock

-----------------------------------------------------------------------------
(* update, and the repair when a paid payment is read                         *)

Update(p) ==
    /\ pc[p] = "write" /\ req[p].op = "update"
    /\ payment' = IF payment[req[p].id].exists THEN [payment EXCEPT ![req[p].id].amount = req[p].amount] ELSE payment
    /\ Goto(p, "reload") /\ UNCHANGED <<expense, lock, req>>

\* A payment that is paid takes its expense along.
Reload(p) ==
    /\ pc[p] = "reload"
    /\ LET row == payment[req[p].id] IN
       IF row.exists /\ row.active /\ row.status = "PAID"
         THEN Keep(p, [req[p] EXCEPT !.row = row]) /\ Goto(p, "find")
         ELSE End(p)
    /\ UNCHANGED <<payment, expense, lock>>

\* ensurePaidMovement: is the linked movement still there?
IsLive(p) ==
    /\ pc[p] = "isLive"
    /\ IF Live(req[p].row.movementId) THEN End(p) ELSE Goto(p, "unlink") /\ UNCHANGED req
    /\ UNCHANGED <<payment, expense, lock>>

Unlink(p) ==
    /\ pc[p] = "unlink"
    /\ payment' = IF payment[req[p].id].exists THEN [payment EXCEPT ![req[p].id].movementId = None] ELSE payment
    /\ Keep(p, [req[p] EXCEPT !.row.movementId = None])
    /\ Goto(p, "find") /\ UNCHANGED <<expense, lock>>

\* syncPaidMovementTx: the movement is updated if it is found, else created.
FindMovement(p) ==
    /\ pc[p] = "find"
    /\ LET m == req[p].row.movementId IN
       IF req[p].row.amount = 0 THEN End(p)
       ELSE Goto(p, IF m # None /\ Live(m) THEN "save" ELSE "recreate") /\ UNCHANGED req
    /\ UNCHANGED <<payment, expense, lock>>

\* TypeORM saves every column that differs from the entity, deletedAt included.
SaveMovement(p) ==
    /\ pc[p] = "save"
    /\ LET m == req[p].row.movementId IN
       /\ lock[m] = None
       /\ expense' = [expense EXCEPT ![m].state = "live", ![m].amount = req[p].row.amount]
    /\ End(p) /\ UNCHANGED <<payment, lock>>

RecreateMovement(p) ==
    /\ pc[p] = "recreate"
    /\ \E m \in Expenses :
        /\ FreshExpense(m)
        /\ expense' = [expense EXCEPT ![m] = [state |-> "live", amount |-> req[p].row.amount,
                                              debt |-> req[p].row.debt]]
        /\ payment' = [payment EXCEPT ![req[p].id].movementId = IF @ # m /\ payment[req[p].id].exists THEN m ELSE @]
    /\ End(p) /\ UNCHANGED lock

-----------------------------------------------------------------------------
(* The expense on its own: movements.update and movements.remove              *)

\* The active payments that link m.
Linked(m) == {i \in Ids : payment[i].exists /\ payment[i].active /\ payment[i].movementId = m}

\* movements.update reads the movement and, later, saves it in a transaction that
\* looks for the payment the movement came from and updates both.
EditExpense(p, m, a) ==
    /\ MayBegin(p, "editExpense") /\ Live(m)
    /\ Keep(p, [NoRequest EXCEPT !.op = "editExpense", !.m = m, !.amount = a])
    /\ Goto(p, "saveExpense") /\ UNCHANGED <<payment, expense, lock>>

SaveExpense(p) ==
    /\ pc[p] = "saveExpense" /\ lock[req[p].m] = None
    /\ lock' = [lock EXCEPT ![req[p].m] = p]
    /\ LET linked == Linked(req[p].m) IN
       \E i \in IF linked = {} THEN {None} ELSE linked :
         Keep(p, [req[p] EXCEPT !.id = IF i # None /\ payment[i].status = "PAID" THEN i ELSE None])
    /\ Goto(p, "sync") /\ UNCHANGED <<payment, expense>>

SyncLinkedPayment(p) ==
    /\ pc[p] = "sync"
    /\ LET r == req[p] IN
       /\ expense' = [expense EXCEPT ![r.m].state = "live", ![r.m].amount = r.amount]
       /\ payment' = IF r.id = None \/ ~payment[r.id].exists THEN payment
                     ELSE [payment EXCEPT ![r.id].amount = r.amount]
       /\ lock' = [lock EXCEPT ![r.m] = None]
    /\ End(p)

\* An expense written by hand, of no payment.  Bound: one, before the payments.
Spend(p, m, a) ==
    /\ MayBegin(p, "spend") /\ m = 1 /\ FreshExpense(m) /\ \A i \in Ids : ~payment[i].exists
    /\ expense' = [expense EXCEPT ![m] = [NoExpense EXCEPT !.state = "live", !.amount = a]]
    /\ UNCHANGED <<payment, lock, pc, req>>

\* Only an expense that no active payment links may be removed.
Removable(m)       == Live(m) /\ Linked(m) = {}

RemoveExpense(p, m) ==
    /\ MayBegin(p, "removeExpense") /\ Removable(m)
    /\ Goto(p, "softRemove") /\ Keep(p, [NoRequest EXCEPT !.op = "removeExpense", !.m = m])
    /\ UNCHANGED <<payment, expense, lock>>

SoftRemove(p) ==
    /\ pc[p] = "softRemove" /\ lock[req[p].m] = None
    /\ expense' = [expense EXCEPT ![req[p].m].state = "removed"]
    /\ End(p) /\ UNCHANGED <<payment, lock>>

\* The regeneration of the ledger of a closing takes a movement without closing
\* that looks like one of its own for a duplicate and removes it.
Absorb(p, m) ==
    /\ MayBegin(p, "absorb") /\ Live(m) /\ lock[m] = None
    /\ expense' = [expense EXCEPT ![m].state = "absorbed"]
    /\ UNCHANGED <<payment, lock, pc, req>>

-----------------------------------------------------------------------------
(* Failures                                                                   *)

\* An exception: the transaction is undone, and create deletes its payment.
Fails(p) ==
    /\ pc[p] \in {"load", "write", "answer", "find", "save", "recreate", "saveExpense", "sync"}
    /\ Refuse(p)
    /\ lock' = [m \in Expenses |-> IF lock[m] = p THEN None ELSE lock[m]]
    /\ UNCHANGED <<payment, expense>>

\* The process dies.
Dies(p) ==
    /\ pc[p] # "idle" /\ End(p)
    /\ lock' = [m \in Expenses |-> IF lock[m] = p THEN None ELSE lock[m]]
    /\ UNCHANGED <<payment, expense>>

Step(p) ==
    \/ SetRequested(p) \/ DropCreated(p) \/ (\E a \in 0..Max(Amounts) : Load(p, a))
    \/ Validate(p) \/ Reject(p) \/ Cancel(p) \/ Remove(p)
    \/ Pay(p) \/ Answer(p) \/ Unvalidate(p) \/ Unpay(p)
    \/ Update(p) \/ Reload(p) \/ IsLive(p) \/ Unlink(p)
    \/ FindMovement(p) \/ SaveMovement(p) \/ RecreateMovement(p)
    \/ SaveExpense(p) \/ SyncLinkedPayment(p) \/ SoftRemove(p)

Begin(p) ==
    \/ \E s \in Status, a \in Amounts : CreatePayment(p, s, a)
    \/ \E op \in OnPayment, i \in Ids : Ask(p, op, i)
    \/ \E m \in Expenses, a \in Amounts \ {0} : EditExpense(p, m, a) \/ Spend(p, m, a)
    \/ \E m \in Expenses : RemoveExpense(p, m) \/ Absorb(p, m)

Next == \E p \in Requests : Begin(p) \/ Step(p) \/ Fails(p) \/ Dies(p)

Spec == Init /\ [][Next]_vars

-----------------------------------------------------------------------------
(* Properties                                                                 *)

\* Who answers for m: payments that say they were paid with it and are active, or that
\* create deleted because it failed once it had paid them.
Payers(m) == {i \in Ids : /\ payment[i].movementId = m /\ payment[i].status = "PAID"
                          /\ payment[i].exists => payment[i].active}

\* The expense of a debt is in the ledger because a payment says it was paid with it: pay
\* writes both in one transaction, revert takes both back, and an expense that a
\* payment links cannot be removed.  A payment that is paid may miss its expense
\* only while a repair or a removal by a closing is pending.  The one expense nobody
\* answers for any more is that of a creation that paid and then failed.
\* ("no queda un movimiento huerfano (sin movementId en el pago)")
NoOrphanExpense ==
    \A m \in Expenses : Live(m) /\ expense[m].debt # None =>
      \E i \in Payers(m) : payment[i].debt = expense[m].debt

\* A payment that is paid and linked has an expense nobody but a closing removed.
PaidHasExpense ==
    \A i \in Ids : payment[i].exists /\ payment[i].active /\ payment[i].status = "PAID"
                    /\ payment[i].movementId # None
                     => expense[payment[i].movementId].state \in {"live", "absorbed"}

PaidAndSpentMatch == NoOrphanExpense /\ PaidHasExpense

\* What is still owed, what was paid, and what the ledger says was spent.
Rows(d, paid)  == {i \in Ids : /\ payment[i].exists /\ payment[i].active /\ payment[i].debt = d
                               /\ (payment[i].status = "PAID") = paid}
Amount(d, paid) == SumFunctionOnSet([i \in Ids |-> payment[i].amount], Rows(d, paid))
Expended(d)     == {m \in Expenses : Live(m) /\ expense[m].debt = d}
Owed    == [d \in Debts |-> Amount(d, FALSE)]
Settled == [d \in Debts |-> Amount(d, TRUE)]
Spent   == [d \in Debts |-> SumFunctionOnSet([m \in Expenses |-> expense[m].amount], Expended(d))]

Books == INSTANCE PaymentBooks WITH owed <- Owed, settled <- Settled, spent <- Spent

\* Every step of a request is one of the books, or none: the payments implement them.
PaymentsKeepBooks == Books!Spec

RequestSymmetry == Permutations(Requests)
=============================================================================
